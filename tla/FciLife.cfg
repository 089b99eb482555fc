\* The loops under the network's and the robot's fairness.
SPECIFICATION FairSpec
CONSTANTS
    Users = {u1}
    Apis = {"loop"}
    NoUser = NoUser
    Callers = {c1}
    Kinds = {"motion"}
    MaxMoves = 2
    MaxCalls = 1
    MaxTroubles = 1
PROPERTIES
    EveryCallReturns
    EndedMotionIsNoticed
CHECK_DEADLOCK FALSE
