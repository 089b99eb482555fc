\* Three targets of the commander and one of another client on a network that repeats and loses;
\* every way to cut a log of three records into batches; two sessions of two cycles and a row; two
\* sets by two clients, one of which is blind; the gripper's callers and worker, on two widths;
\* two arms, a query and a signal.
SPECIFICATION NodeSpec
CONSTANTS
    Commander = c1
    OtherClients = {c2}
    Places <- TestPlaces
    Box <- TestBox
    MaxStep = 1
    MaxLead = 1
    MaxTravel = 1
    Rate = 1
    Second = 2
    MaxTargetSeq = 3
    MaxNow = 2
    MaxPushes = 1
    MaxWire = 1
    NoPlace = NoPlace
    Every = 2
    Turn = 4
    NoTurn = NoTurn
    FlightRecords <- TestRecords
    MaxBatch = 2
    MaxLog = 3
    Tokens = {t1}
    Capacity = 1
    MaxCycles = 2
    MaxSessions = 2
    MaxRows = 1
    MaxSecs = 1
    NoToken = NoToken
    NoEpisode = NoEpisode
    TuningClients = {c1, c2}
    Blind = {c2}
    Tunables <- TestTunables
    Bound <- TestBound
    Least <- TestLeast
    ConfirmAt <- TestConfirm
    SeedValues <- TestSeeds
    Updates <- TestUpdates
    MaxSets = 2
    MaxSeeds = 1
    NoRequest = NoRequest
    NoOrigin = NoOrigin
    Widths = {w1, w2}
    NoWidth = NoWidth
    MaxStops = 2
    NodeArms = 2
    NodeCalls = {q1}
    MaxSignals = 1
INVARIANTS
    NodeTypeOK
    GateSafety
    RecordingSafety
    TuningSafety
    ThreadSafety
PROPERTIES
    NothingTakenBack
    NodeGoesOn
CHECK_DEADLOCK FALSE
