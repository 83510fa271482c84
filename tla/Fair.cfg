SPECIFICATION Spec
CONSTANTS
    g1 = g1
    g2 = g2
    NoGeneration = NoGeneration
    s1 = s1
    a1 = a1
    o1 = o1
    w1 = w1
    w2 = w2
    NoRow = NoRow
    c1 = c1
PROPERTIES
    RecoveryCompletes
    SendResolves
    CopyLeavesSweep
    EventuallyMirrored
    ActionsComplete
CHECK_DEADLOCK FALSE
