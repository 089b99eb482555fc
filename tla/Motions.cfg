\* Motion: one user of loops and handles, one other thread in stop and recovery, a reflex or an
\* unusable message, a lost connection. Config: two fields changed, one of them any. Program: two
\* threads, three calls. Wire: two sets, each of a client's fields. Harness: two binaries, one with
\* two tests.
SPECIFICATION MotionsSpec
CONSTANTS
    Users = {u1}
    Apis = {"loop", "handle"}
    NoUser = NoUser
    Callers = {c1}
    Kinds = {"motion", "torque"}
    MaxMoves = 2
    MaxCalls = 1
    MaxTroubles = 1
    MaxRetuned = 1
    NoLaw = NoLaw
    MaxEdits = 2
    WithRecord = TRUE
    FirstArm = "left"
    Related <- TestRelated
    PyThreads = {p1, p2}
    Feeder = Feeder
    NobodyHolds = NobodyHolds
    PyChunks <- TestPyChunks
    MaxPyCalls = 3
    MaxPyTime = 2
    WireSeeds <- TestWireSeeds
    Elements = {6}
    MaxWireSets = 2
    MaxTicks = 3
    Nothing = Nothing
    SimTests <- TestSims
    BinaryOf <- TestBinaryOf
    ConfigOf <- TestConfigOf
    Environments <- TestEnvironments
    NoTest = NoTest
SYMMETRY PyThreadsAreAlike
INVARIANTS
    MotionsTypeOK
    DrivingIsSafe
PROPERTIES
    NothingGoesBack
CHECK_DEADLOCK FALSE
