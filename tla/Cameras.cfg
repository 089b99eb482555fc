\* A capture thread over a device that comes and goes; every frame of small cameras; two sessions
\* of one arm, two cameras, every order of the recorder's threads.
SPECIFICATION FairCamerasSpec
CONSTANTS
    Buffers = {b1, b2}
    NoBuffer = NoBuffer
    SeqModulus = 3
    BackoffSteps = 2
    MaxSeq = 5
    MaxChanges = 2
    Rates = {1, 2, 5}
    Extents = {0, 1, 2}
    Images <- MarkerImages
    MaxShots = 4
    Cams = {c1, c2}
    QueueFrames = 2
    GoneAfter = 0
    SilentAfter = 1
    MaxEpisodes = 2
    MaxFrames = 2
    Budgets <- RecorderBudgets
    None = None
INVARIANTS
    CamerasTypeOK
    CaptureSafety
    EpisodeSafety
PROPERTIES
    CameraGoesOn
    LostEndCloses
CHECK_DEADLOCK FALSE
