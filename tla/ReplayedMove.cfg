SPECIFICATION MailboxSpec
CONSTANTS
    w1 = w1
    w2 = w2
    Setting <- ThreeSettings
    Cycle = {c1, c2}
    WindowSize = 1
    ArrivalBatch = 1
    RepairLimit = 1
    FirstContact = FALSE
    MaxUid = 2
    MaxValidity = 2
    MaxFlags = 0
    MaxCrashes = 0
SYMMETRY MCSymmetry
INVARIANT InterruptedMoveIsNotReplayed
CHECK_DEADLOCK FALSE
