CONSTANTS
    Keys = {k1, k2, k3}
    Values = {v0, v1}
    Default = v0
    Other = Other
    Missing = Missing
    HashMax = 3
    InitialCapacity = 2
    DefaultCapacity = 2
    MaxCapacity = 4
    Raw = Raw
    ChunkSize = 2
    PtrSize = 2
    Word = 32
    MaxNodes = 6
    MIN_CAPACITY = 2
    MaxLen = 4
    MaxText = 3
SPECIFICATION OneSpec
INVARIANTS ProbeEnds DequeInv
PROPERTIES ImplementsMap DequeIsSequence VectorIsSequence StringIsSequence
SYMMETRY KeySymmetry
CHECK_DEADLOCK FALSE
