------------------------- MODULE MCWatchdogDemo -------------------------
(* Instantiates WatchdogDemo for TLC: timeouts of 1 to 3 seconds, so a   *)
(* set_timeout can move the deadline both ways; elapsed saturates at 4.   *)
EXTENDS WatchdogDemo

SmallTimeouts == {1, 2, 3}
SmallRequests == {0, 1, 2, 3}  \* 0 is below WDT_MIN_TIMEOUT
=============================================================================
