CONSTANTS
    d1 = d1
    d2 = d2
    None = None
    Dials = {d1, d2}
    Span = 1
    MaxAttempts = 1
    Mode = "fast"
    AnyEdge = TRUE
    MaxQueue = 2
    Faults = {"cancel"}
SPECIFICATION Spec
SYMMETRY Symmetry
INVARIANTS
    PrimedOwnConnection
CHECK_DEADLOCK FALSE
