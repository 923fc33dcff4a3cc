\* Two writers, each may free: the lookup and the free are not under one lock.
CONSTANTS
    w1 = w1
    w2 = w2
    s1 = s1
    s2 = s2
    s3 = s3
    NULL = NULL
    Writers <- TwoWriters
    Slots <- TwoSlots
    Commands <- AnyCommand
    MaxId = 2
    MaxAccess = 1
SYMMETRY Symmetry
SPECIFICATION Spec
INVARIANT FreeTargetLive
