SPECIFICATION Spec
CONSTANTS
    MaxPos = 3
    Threshold = 2
    MaxEvents = 6
INVARIANTS
    FlagHasTask
    LatestIsLast
    DragIsConserved
CHECK_DEADLOCK FALSE
