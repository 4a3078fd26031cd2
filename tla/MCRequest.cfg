SPECIFICATION Spec
CONSTANTS
    Heads <- MCHeads
INVARIANTS
    TypeOK
    RefusalCloses
    ClientAgrees
    DecisionAsLines
CHECK_DEADLOCK FALSE
