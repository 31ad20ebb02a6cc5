SPECIFICATION Spec
CONSTANTS
    Clients = {c1, c2}
    InputLens = {0, 3, 5}
    BUFFER_SIZE = 2
    None = None
CHECK_DEADLOCK FALSE
INVARIANTS
    FailsOnlyOnShortWrite
