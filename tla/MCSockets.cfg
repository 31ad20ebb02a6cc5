SPECIFICATION MCSpec
CONSTANTS
    Clients = {c1, c2}
    None = None
    IsClients = {c1, c2, c3}
    Lens <- UnixLens
    BUFFER_SIZE = 2
    Unix = TRUE
    Kills = TRUE
    MaxFaults = 0
CHECK_DEADLOCK FALSE
INVARIANTS
    DgramAnswersInStep
    StreamsPrintedWhole
    RunsDisjointBetweenBadReads
PROPERTIES
    EverythingAnswered
    AllocatesUntilLoss
