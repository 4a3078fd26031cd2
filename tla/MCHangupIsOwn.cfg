SPECIFICATION Spec
CONSTANTS
    Limit = 4
    Held = 1
    MaxInFlight = 1
PROPERTIES
    HangupIsOwn
CHECK_DEADLOCK FALSE
