\* Liveness of the sessions of one client; two threads and three requests on one socket.
SPECIFICATION ArmLifeSpec
CONSTANTS
    Clients = {c1}
    NoClient = NoClient
    MaxSeq = 1
    Depth = 1
    HoldAfter = 1
    StopAfter = 2
    HomeSettle = 2
    HomeTimeout = 1
    Alphabet <- LifeAlphabet
    MaxQueue = 2
    MaxOpen = 1
    Threads = {t1, t2}
    Main = t1
    HeaderLen = 2
    BodyLens = {1}
    MaxRequests = 3
    MaxStates = 2
    MaxBroken = 1
    NoLinkId = NoLinkId
INVARIANT
    LinkSafety
PROPERTIES
    SessionsEnd
    EveryQueryAnswered
    OwnReplyComes
CHECK_DEADLOCK FALSE
