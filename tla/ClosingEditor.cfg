SPECIFICATION Spec
CONSTANTS
    Device = {a}
    HasStore = {a}
    MaxEdits = 2
    MaxRevision = 3
    MaxLost = 0
INVARIANTS ClosingKeepsEdits
CHECK_DEADLOCK FALSE
