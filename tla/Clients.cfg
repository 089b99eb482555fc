\* An arm on three places and two goals; two sessions of a client and three events of its node;
\* two faults and an odd state of teleoperation; two controllers, with a tick
\* that is late by one; one page with a queue of two.
SPECIFICATION ClientsSpec
CONSTANTS
    Line <- TestLine
    StepCap = 1
    Lead = 1
    JointLead = 2
    NodeStep = 1
    Rows <- TestRows
    MaxGoals = 2
    MaxLost = 1
    NoGoalSeq = NoGoalSeq
    Objects <- TestObjects
    MaxEvents = 3
    NoObject = NoObject
    MaxRecoveries = 1
    MaxFaults = 2
    MaxOddStates = 1
    NoTarget = NoTarget
    Channels = {"l", "r"}
    FreshTimeout = 3
    GapHold = 2
    MaxTick = 2
    None = None
    Pages = {p1}
    Owners = {"node", "teleop"}
    QueueSize = 2
    MaxVersion = 3
    MaxOpens = 2
INVARIANTS
    ClientsTypeOK
    StreamerSafety
    TeleopSafety
    PageIsCurrent
PROPERTIES
    StopSparesTheNext
    ClientsGoOn
CHECK_DEADLOCK FALSE
