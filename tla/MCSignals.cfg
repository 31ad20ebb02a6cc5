SPECIFICATION MCSpec
CONSTANTS
    Standard = {usr1}
    Realtime = {rt1, rt2}
    SIGINT = SIGINT
    MaxSends = 4
    Block = TRUE
    Senders = {p1, p2}
CHECK_DEADLOCK FALSE
INVARIANTS
    CountExactUnlessTorn
    EverySignalAccounted
    InterruptedSafely
PROPERTIES
    IntEnds
