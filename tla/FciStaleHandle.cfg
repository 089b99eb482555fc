\* A handle outlives its failed finish while another thread runs a loop.
SPECIFICATION Spec
CONSTANTS
    Users = {u1, u2}
    Apis = {"loop", "handle"}
    NoUser = NoUser
    Callers = {c1}
    Kinds = {"motion"}
    MaxMoves = 2
    MaxCalls = 1
    MaxTroubles = 1
INVARIANTS
    OkMeansSuccess
CHECK_DEADLOCK FALSE
