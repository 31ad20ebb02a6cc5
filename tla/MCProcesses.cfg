SPECIFICATION MCSpec
CONSTANTS
    numChildren = 4
    Kills = TRUE
    None = None
CHECK_DEADLOCK FALSE
INVARIANTS
    AfterAllChildren
    Wired
    
    FreesAllocatedBlocks
PROPERTIES
    EveryProcessEnds
