CONSTANTS
    d1 = d1
    d2 = d2
    None = None
    Mode = "safe"
    AnyEdge = FALSE
    Dials = {d1, d2}
    Span = 2
    MaxAttempts = 1
    MaxQueue = 4
    Faults = {}
SPECIFICATION CalmSpec
SYMMETRY Symmetry
INVARIANTS
    NoDialFails
CHECK_DEADLOCK FALSE
