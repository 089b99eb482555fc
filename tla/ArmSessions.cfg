\* The arm's state machine under two contending clients, and under the streams of one: the batch's
\* coalescing, the backlog, the gripper.
SPECIFICATION ArmSpec
CONSTANTS
    Clients = {c1, c2}
    NoClient = NoClient
    MaxSeq = 2
    Depth = 1
    HoldAfter = 1
    StopAfter = 2
    HomeSettle = 2
    HomeTimeout = 1
    Alphabet <- BothAlphabets
    MaxQueue = 2
    MaxOpen = 2
    Threads = {t1}
    Main = t1
    HeaderLen = 2
    BodyLens = {1}
    MaxRequests = 1
    MaxStates = 1
    MaxBroken = 0
    NoLinkId = NoLinkId
SYMMETRY ClientSymmetry
INVARIANTS
    TypeOK
    SessionsAreOwned
    NothingIsLost
PROPERTIES
    SessionSteps
CHECK_DEADLOCK FALSE
