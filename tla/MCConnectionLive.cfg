SPECIFICATION FairSpec
CONSTANTS
    MaxInbox = 1
    MaxHead = 1
    MaxBody = 2
    SndCap = 1
    ReadIdle = 1
    WriteIdle = 1
    CloseTimeout = 1
    MaxLag = 2
PROPERTIES
    SilentReaderClosed
    StartedWriteEnds
    ImplementsFairSession
CHECK_DEADLOCK FALSE
