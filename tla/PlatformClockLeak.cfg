SPECIFICATION Spec
INVARIANT ClockReleased
CHECK_DEADLOCK FALSE
