SPECIFICATION Spec
CONSTANTS
    MaxInbox = 2
    MaxHead = 1
    MaxBody = 2
    SndCap = 2
    ReadIdle = 3
    WriteIdle = 3
    CloseTimeout = 3
    MaxLag = 2
INVARIANTS
    TypeOK
    WatchedForProgress
    ResponseExact
    AnswerDecided
    HeadBounded
    FinIsFinal
PROPERTIES
    ImplementsSession
    TimerIsPatient
CHECK_DEADLOCK FALSE
