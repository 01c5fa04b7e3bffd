CONSTANTS
    TimeOut = 2
    QueueCap = 2
    MaxCall = 4
    MaxInit = 12
SPECIFICATION ProcessSpec
INVARIANTS OwnUntilTimeout StraysAreTimeouts ServesWhileUp
PROPERTIES CallReturns
CHECK_DEADLOCK FALSE
