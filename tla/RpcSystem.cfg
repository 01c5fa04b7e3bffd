CONSTANTS
    Coros = {c1}
    VoidCoros = {}
    NoCoro = NoCoro
    TimeOut = 1
    QueueCap = 1
    MaxUid = 2
    MaxTime = 1
    Sessions = {s1, s2}
    Me = s1
    PeerUids = {1}
SPECIFICATION Spec
INVARIANTS SuccessMeansExecuted AtMostOnce StatusTold
PROPERTIES ImplementsClient
