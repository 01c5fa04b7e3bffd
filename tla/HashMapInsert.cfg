CONSTANTS
    Keys = {k1, k2, k3}
    Values = {v0, v1}
    Default = v0
    Other = Other
    Missing = Missing
    HashMax = 3
    InitialCapacity = 2
    DefaultCapacity = 2
    MaxCapacity = 4
SPECIFICATION Spec
INVARIANTS SizeIsCount
SYMMETRY KeySymmetry
CHECK_DEADLOCK FALSE
