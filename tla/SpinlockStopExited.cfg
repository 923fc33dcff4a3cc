\* All four threads started, then rmmod.
CONSTANTS
    ThreadFails = FALSE
SPECIFICATION Spec
INVARIANT StopOnlyLiveThreads
CHECK_DEADLOCK FALSE
