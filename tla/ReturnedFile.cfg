SPECIFICATION Spec
CONSTANTS
    Files = {Picture}
    MaxCopies = 2
INVARIANT RemovedStaysRemoved
CHECK_DEADLOCK FALSE
