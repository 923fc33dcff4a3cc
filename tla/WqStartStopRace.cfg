\* Two writers, one writing "start" while the other writes "stop".
CONSTANTS
    w1 = w1
    w2 = w2
    Writers <- TwoWriters
    Commands <- PeriodicCommands
    MaxCustom = 0
    WriteDuringExit = FALSE
SPECIFICATION Spec
INVARIANT PeriodicAlive
CHECK_DEADLOCK FALSE
