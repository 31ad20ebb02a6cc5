SPECIFICATION MCSpec
CONSTANTS
    Clients = {c1, c2}
    Files = {Missing, 0, 2}
    Missing = Missing
    None = None
    RequestCap = 1
    ResponseCap = 1
    Kills = TRUE
    ForkFails = TRUE
CHECK_DEADLOCK FALSE
INVARIANTS
    WholeFile
    ZombiesNoticed
    QueueRemains
    SelectedInOrder
    SemaphoreValuesTrue
PROPERTIES
    EveryoneServed
