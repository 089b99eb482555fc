\* Two callers, targets of two words, every interleaving with the loop.
SPECIFICATION FairSpec
CONSTANTS
    Setters = {c1, c2}
    NoSetter = NoSetter
    Words = 2
    Tries = 2
    StopTimeout = 2
    SettleCycles = 1
    MaxSets = 3
INVARIANTS
    TypeOK
    OkMeansAtRest
PROPERTIES
    IsRegister
    KeepsOthersWords
    StopReturns
CHECK_DEADLOCK FALSE
