SPECIFICATION BusySpec
CONSTANTS
    NWorkers = 2
    Sentinel = 2
    MaxBacklog = 1
    QueueCap = 2
    MaxServing = 1
    MayCrash = TRUE
INVARIANTS
    TypeOK
    Balanced
    PickedIsListed
PROPERTIES
    HandOverEnds
    ShutdownHappens
    WorkersAsViewed
CHECK_DEADLOCK FALSE
