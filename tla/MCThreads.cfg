SPECIFICATION MCSpec
CONSTANTS
    numThreads = 4
    MaxSpurious = 2
CHECK_DEADLOCK FALSE
INVARIANTS
    CountMatchesStates
    NoLostWakeup
    IncrementsCounted
    CleanedUp
PROPERTIES
    EveryThreadJoined
