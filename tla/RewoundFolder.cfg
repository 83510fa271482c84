SPECIFICATION Spec
CONSTANTS
    Cycle = {c1, c2}
    WindowSize = 1
    ArrivalBatch = 1
    RepairLimit = 1
    FirstContact = TRUE
    MaxUid = 1
    MaxValidity = 2
    MaxFlags = 0
    MaxCrashes = 0
PROPERTY NeverRewound
CHECK_DEADLOCK FALSE
