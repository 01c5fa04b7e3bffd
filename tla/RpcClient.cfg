CONSTANTS
    Coros = {c1, c2}
    VoidCoros = {c2}
    NoCoro = NoCoro
    TimeOut = 1
    QueueCap = 1
    MaxUid = 2
    MaxTime = 2
SPECIFICATION FairSpec
INVARIANTS ClientInv NoneForgotten SuccessMeansOwnReply NoExpiredLeft
PROPERTIES ResumeOnlySuspended EveryCallEnds
