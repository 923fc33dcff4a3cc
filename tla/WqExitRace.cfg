\* One writer whose command comes in while rmmod runs.
CONSTANTS
    w1 = w1
    w2 = w2
    Writers <- OneWriter
    Commands <- AllCommands
    MaxCustom = 1
    WriteDuringExit = TRUE
SPECIFICATION Spec
INVARIANT NoWorkAfterExit
CHECK_DEADLOCK FALSE
