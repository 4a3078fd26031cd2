SPECIFICATION Spec
CONSTANTS
    Chunk = {c1, c2, c3}
    Null = Null
    IdleMax = 1
    MaxIov = 16
    Page = 2
    WindowPages = 2
    Word = 16
    HeadLen = 3
    MaxBody = 2
    FileSizes = {0, 1, 5, 12, 13, 15, 16, 18}
SYMMETRY Addresses
INVARIANTS
    TypeOK
    ListsSound
    FilesOfQueued
    WindowSound
    WireInOrder
    AllSent
    BodyAsAnnounced
CHECK_DEADLOCK FALSE
