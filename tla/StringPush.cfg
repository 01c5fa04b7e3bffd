CONSTANTS
    Chars = {a, b}
    NUL = NUL
    MIN_CAPACITY = 2
    MaxLen = 4
    MaxText = 3
SPECIFICATION Spec
PROPERTIES PushedIsSeen
CHECK_DEADLOCK FALSE
