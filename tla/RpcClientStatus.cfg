CONSTANTS
    Coros = {c1}
    VoidCoros = {}
    NoCoro = NoCoro
    TimeOut = 2
    QueueCap = 1
    MaxUid = 1
    MaxTime = 2
SPECIFICATION Spec
INVARIANTS ServerFailureReported
