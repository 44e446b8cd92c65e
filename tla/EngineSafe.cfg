CONSTANTS
    d1 = d1
    d2 = d2
    None = None
    Dials = {d1}
    Span = 2
    MaxAttempts = 1
    Mode = "safe"
    AnyEdge = FALSE
    MaxQueue = 2
    Faults = {"loss", "retransmit", "reset", "send", "early", "close"}
SPECIFICATION FairSpec
INVARIANTS
    OneRecord
    PrimedReturn
PROPERTIES
    OutcomeFixed
    EveryDialReturns
    CloseCompletes
    CaptureServes
CHECK_DEADLOCK FALSE
