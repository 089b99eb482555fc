\* Five cycles of a control loop near the end of an axis; a torque loop on an axis of eight
\* places; eight ticks of a process that stalls; five ticks of two controllers; two sets of the
\* knobs; two readers of the panel's numbers.
SPECIFICATION LibrarySpec
CONSTANTS
    Loaders = {l1, l2}
    MaxLoads = 2
    NoValue = NoValue
    MaxVelocity = 8
    MaxAcceleration = 4
    MaxJerk = 2
    MaxTorqueRate = 3
    UpperAt <- TestUpper
    HalfUlp <- TestHalfUlp
    Asked <- TestAsked
    AskedTorques = {9}
    MaxCycles = 5
    MaxSkips = 1
    NaN = NaN
    Top = 7
    LimitMargin = 2
    FadeBand = 1
    SpeedAt <- TestSpeed
    Braking <- TestBraking
    RestBand = 1
    Leash = 1
    MaxDeviation = 3
    QuietCycles = 1
    Dwell = 1
    SettleCycles = 1
    StopTimeout = 2
    Stiffness = 2
    Damping = 1
    TauMax = 3
    BarrierGain = 2
    SpringStiffness = 2
    RampCycles = 1
    Starts = {0}
    Goals = {5}
    MaxPlan = 2
    MaxTurn = 1
    Drag = 1
    None = None
    StreamAxes = {"x", "y"}
    Far = 11
    MaxBudget <- TestMaxBudget
    LongestPlan = 18
    StreamTargets <- TestStreamTargets
    MaxTargetsSet = 2
    MaxRetunes = 1
    RobotLimit <- TestRobotLimit
    HoldCycles = 2
    Patience = 4
    Period = 1
    SilentAfter = 3
    Grace = 2
    MaxClock = 8
    NoTime = NoTime
    Arms = {"L", "M"}
    Window = 2
    Confirm = 2
    Slack = 1
    MaxDelay = 1
    MaxTicks = 4
    MaxLead = 2
    Budgets = {0, 1}
    Scales = {1, 2}
    MaxSets = 2
    MaxTunes = 1
    NoSet = NoSet
    NoBody = NoBody
    Readers = {r1, r2}
    MaxResets = 2
    MaxMarks = 1
    Nothing = Nothing
INVARIANTS
    LibraryTypeOK
    RobotSafety
    DriverSafety
    PanelSafety
CHECK_DEADLOCK FALSE
