\* A target queued before a stop is accepted after it.
SPECIFICATION ArmSpec
CONSTANTS
    Clients = {c1}
    NoClient = NoClient
    MaxSeq = 1
    Depth = 1
    HoldAfter = 1
    StopAfter = 2
    HomeSettle = 2
    HomeTimeout = 1
    Alphabet <- SessionAlphabet
    MaxQueue = 2
    MaxOpen = 1
    Threads = {t1}
    Main = t1
    HeaderLen = 2
    BodyLens = {1}
    MaxRequests = 1
    MaxStates = 1
    MaxBroken = 0
    NoLinkId = NoLinkId
PROPERTIES
    StopAlwaysWins
CHECK_DEADLOCK FALSE
