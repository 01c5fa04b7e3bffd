CONSTANTS
    Values = {v1, v2}
    Raw = Raw
    ChunkSize = 4
    PtrSize = 2
    Word = 32
    MaxLen = 4
    MaxNodes = 6
SPECIFICATION Spec
INVARIANTS BackIsLast
CHECK_DEADLOCK FALSE
