\* Two sessions, the second more than SESSION_GONE_NS (a unit of time) after the last in-session
\* state of the first, with a tick of the writer before a state of its own has arrived.
SPECIFICATION FairCamerasSpec
CONSTANTS
    Buffers = {b1, b2}
    NoBuffer = NoBuffer
    SeqModulus = 3
    BackoffSteps = 2
    MaxSeq = 5
    MaxChanges = 2
    Rates = {1, 2, 5}
    Extents = {0, 1, 2}
    Images <- MarkerImages
    MaxShots = 4
    Cams = {c1, c2}
    QueueFrames = 2
    GoneAfter = 0
    SilentAfter = 1
    MaxEpisodes = 2
    MaxFrames = 2
    Budgets <- CutBudgets
    None = None
PROPERTIES
    RunningEpisodeGoesOn
CHECK_DEADLOCK FALSE
