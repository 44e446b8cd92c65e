SPECIFICATION Spec
CONSTANTS
    window = window
    tray = tray
    low = low
    high = high
    r1 = r1
    r2 = r2
    r3 = r3
    Callers = {window, tray}
    Runs = {r1, r2, r3}
    Addresses = {low, high}
    None = None
    RegistryFails = {"get", "set"}
INVARIANT NeverUnspoofed
