SPECIFICATION FairSpec
CONSTANTS
    k1 = k1
    Clients = {k1}
    Filler = filler
    Conns = {1, 2, 3, 4}
    None = None
    Slots = 2
    NumEdges = 2
    FailuresBeforeSwitch = 3
    Live = {1}
    Flaky = FALSE
    Size = 1
    PeerEvents = {"finish"}
PROPERTY StopCompletes
CHECK_DEADLOCK FALSE
