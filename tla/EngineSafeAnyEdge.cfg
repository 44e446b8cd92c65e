CONSTANTS
    d1 = d1
    d2 = d2
    None = None
    Dials = {d1, d2}
    Span = 2
    MaxAttempts = 1
    Mode = "safe"
    AnyEdge = TRUE
    MaxQueue = 4
    Faults = {}
SPECIFICATION Spec
SYMMETRY Symmetry
INVARIANTS
    NoDialFails
CHECK_DEADLOCK FALSE
