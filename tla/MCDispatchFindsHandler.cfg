SPECIFICATION Spec
CONSTANTS
    MaxInbox = 1
    MaxHead = 1
    MaxBody = 1
    SndCap = 1
    ReadIdle = 1
    WriteIdle = 1
    CloseTimeout = 1
    MaxLag = 2
INVARIANTS
    DispatchFindsHandler
CHECK_DEADLOCK FALSE
