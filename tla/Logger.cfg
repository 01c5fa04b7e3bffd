CONSTANTS
    Threads = {t1, t2}
    Capacity = 2
    Levels = {1, 2}
    DefaultLevel = 2
    MaxLines = 3
    QueueDepth = 2
    CompleteBatch = 1
    PendingMod = 8
SPECIFICATION FairSpec
INVARIANTS NothingUnwritten BuffersAlive
PROPERTIES LogReturns DestructorReturns
CHECK_DEADLOCK FALSE
