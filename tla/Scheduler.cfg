CONSTANTS
    Workers = {w1, w2}
    Clients = {t1}
    NoTask = NoTask
    MaxTasks = 3
    MaxTime = 2
SPECIFICATION FairSpec
INVARIANTS InOnePlace DestroyedDrained FifoOrder NoLostWakeup
PROPERTIES EveryTaskRuns DestructorReturns
CHECK_DEADLOCK FALSE
