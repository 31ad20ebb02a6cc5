SPECIFICATION FairSpec
CONSTANTS
    Writer = w
    Readers = {r1, r2}
    BUF_SIZE = 1
    MaxChunks = 2
    MaxLeft = 1
    Faulty = TRUE
CHECK_DEADLOCK FALSE
INVARIANTS
    MutualExclusion
    ExactlyOnceInOrder
    ReleaseFindsSemaphores
    TokensBounded
    RemovedAfterLastAccess
PROPERTIES
    TransferCompletes
    ImplementsChannel
