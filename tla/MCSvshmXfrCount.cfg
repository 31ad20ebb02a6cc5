SPECIFICATION Spec
CONSTANTS
    Writer = w
    Readers = {r1}
    BUF_SIZE = 2
    MaxChunks = 2
    MaxLeft = 2
    Faulty = FALSE
CHECK_DEADLOCK FALSE
INVARIANTS
    ReceivedBytesRight
