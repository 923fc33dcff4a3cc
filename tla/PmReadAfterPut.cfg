\* Two users reading and writing "data" while autosuspend runs.
CONSTANTS
    u1 = u1
    u2 = u2
    Users <- TwoUsers
SPECIFICATION Spec
INVARIANT PoweredForAccess
CHECK_DEADLOCK FALSE
