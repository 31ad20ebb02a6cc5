SPECIFICATION FairSpec
CONSTANTS
    Clients = {c1, c2, c3}
    SeqLens = {1, 2}
    None = None
    MaxFds = 1
    Kills = TRUE
CHECK_DEADLOCK FALSE
INVARIANTS
    PrintedRunsDisjoint
    DroppedOnlyOutOfFds
PROPERTIES
    EveryRequestAnswered
    ImplementsAllocator
