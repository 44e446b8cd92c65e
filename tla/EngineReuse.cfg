CONSTANTS
    d1 = d1
    d2 = d2
    None = None
    Dials = {d1, d2}
    Span = 1
    MaxAttempts = 2
    Mode = "fast"
    AnyEdge = TRUE
    MaxQueue = 2
    Faults = {"cancel", "close", "inuse"}
SPECIFICATION Spec
SYMMETRY Symmetry
INVARIANTS
    TypeOK
    PortOwnership
    ActiveFlowsExact
    OrphansResolved
PROPERTIES
    ImplementsSpoofDial
CHECK_DEADLOCK FALSE
