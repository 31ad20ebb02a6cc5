SPECIFICATION Spec
CONSTANTS
    Standard = {usr1}
    Realtime = {rt1, rt2}
    SIGINT = SIGINT
    MaxSends = 4
    Block = TRUE
CHECK_DEADLOCK FALSE
INVARIANTS
    ReportsAllCaught
