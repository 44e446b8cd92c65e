SPECIFICATION PeersFairSpec
CONSTANTS
    k1 = k1
    Clients = {k1}
    Filler = filler
    Conns = {1, 2, 3, 4}
    None = None
    Slots = 1
    NumEdges = 1
    FailuresBeforeSwitch = 3
    Live = {0}
    Flaky = TRUE
    Size = 1
    PeerEvents = {"finish", "reset"}
INVARIANT TypeOK
INVARIANT OneHolder
INVARIANT EngineOutlivesDials
PROPERTY EveryClientAnswered
PROPERTY StopCompletes
CHECK_DEADLOCK FALSE
