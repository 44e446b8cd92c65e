CONSTANTS
    e1 = e1
    e2 = e2
    Editors = {e1, e2}
    Absent = Absent
    Broken = Broken
    Legacy = Legacy
    CfgFails = {"read", "open", "write", "rename"}
    u1 = u1
    u2 = u2
    Users = {u1, u2}
    p1 = p1
    p2 = p2
    Known = {p1, p2}
    Nothing = Nothing
    Garbled = Garbled
    ListFails = {"read", "write"}
    c1 = c1
    c2 = c2
    c3 = c3
    c4 = c4
    Candidates = {c1, c2, c3, c4}
    Latencies = {1, 2}
    ProbeConcurrency = 2
    VerifyConcurrency = 2
    Verify = 3
    Keep = 2
    d1 = d1
    d2 = d2
    Dials = {d1, d2}
    TTL = 2
    MaxTime = 3
    NoProfile = NoProfile
    MaxPort = 6
    LastReserved = 1
    ScanPortWindow = 2
    DefaultLow = 3
    DefaultHigh = 4
    NoRange = NoRange
    k1 = k1
    Clients = {k1}
    PeerEvents = {"write", "finish", "reset"}
SPECIFICATION Spec
SYMMETRY Symmetry
INVARIANTS
    FileReadable
    SavedIsUsed
    OneStore
    ListKept
    AdoptsOnlyProven
    WorkersKept
    FreshAnswer
    NeverQuietlyPlain
    AccountsAgree
    NoSharedPort
PROPERTIES
    SearchEnds
    SelectionExists
    NothingTruncated
CHECK_DEADLOCK FALSE
