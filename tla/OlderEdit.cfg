SPECIFICATION Spec
CONSTANTS
    MaxItems = 2
    MaxTrouble = 1
    MaxAcks = 1
INVARIANTS OldestFirst
CHECK_DEADLOCK FALSE
