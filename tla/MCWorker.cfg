SPECIFICATION FairSpec
CONSTANTS
    Limit = 4
    Held = 1
    MaxInFlight = 1
INVARIANTS
    TypeOK
    SlotsCounted
    TablesAgree
    DescriptorsOwned
    NewConnectionFits
PROPERTIES
    HandedOverTaken
    ImplementsView
    ImplementsFairView
CHECK_DEADLOCK FALSE
