\* nowayout clear: the core may stop the watchdog while its check runs.
\* Deadlock is not reported as such: the property below states it.
CONSTANTS
    Timeouts <- SmallTimeouts
    Requests <- SmallRequests
    MaxElapsed = 4
    NoWayOut = FALSE
SPECIFICATION Spec
PROPERTY StopReturns
CHECK_DEADLOCK FALSE
