\* Two writers with module reloads: w1 issues every command, w2 allocates
\* and accesses, so every lock boundary meets another writer's commands
\* except the double free (kmem_free_race).
CONSTANTS
    w1 = w1
    w2 = w2
    s1 = s1
    s2 = s2
    s3 = s3
    NULL = NULL
    Writers <- TwoWriters
    Slots <- ThreeSlots
    Commands <- MixedCommands
    MaxId = 3
    MaxAccess = 1
SYMMETRY SlotSymmetry
SPECIFICATION Spec
INVARIANT SlabConsistent
INVARIANT Accounting
INVARIANT NoLeakAtExit
