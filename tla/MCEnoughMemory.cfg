SPECIFICATION Spec
CONSTANTS
    Align = 2
    MinRead = 2
    Word = 16
    MaxHead = 5
    BufCap = 4
    MaxText = 7
INVARIANT
    EnoughMemory
CHECK_DEADLOCK FALSE
