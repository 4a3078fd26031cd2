SPECIFICATION BusySpec
CONSTANTS
    NWorkers = 2
    Sentinel = 2
    MaxBacklog = 1
    QueueCap = 1
    MaxServing = 1
    MayCrash = TRUE
PROPERTIES
    DeadWorkerUnlisted
CHECK_DEADLOCK FALSE
