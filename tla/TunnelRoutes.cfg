SPECIFICATION FairSpec
CONSTANTS
    k1 = k1
    Clients = {k1}
    Filler = filler
    Conns = {1, 2, 3, 4}
    None = None
    Slots = 2
    NumEdges = 2
    FailuresBeforeSwitch = 2
    Live = {0, 1}
    Flaky = TRUE
    Size = 1
    PeerEvents = {}
PROPERTY DeadRouteLeft
PROPERTY PoolRefills
CHECK_DEADLOCK FALSE
