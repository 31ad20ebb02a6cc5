SPECIFICATION MCSpec
CONSTANTS
    MaxMsgs = 5
    QueueSize = 3
    Creators = {c1, c2}
    Posters = {p1}
    Waiters = {w1, w2}
    Viewers = {v1}
    Unlinkers = {u1}
    None = None
CHECK_DEADLOCK FALSE
INVARIANTS
    NoMessageMissed
    EachPrintedOnce
    UndisturbedIsWhole
PROPERTIES
    NothingLeftBehind
