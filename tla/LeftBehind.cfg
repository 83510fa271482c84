SPECIFICATION Spec
CONSTANTS
    Files = {Picture}
    MaxCopies = 2
PROPERTY SendWaitsForLinks
CHECK_DEADLOCK FALSE
