---------------------------- MODULE WatchdogDemo ----------------------------
(***************************************************************************)
(* The watchdog demo, src/examples/part10/watchdog-driver/watchdog_demo.c. *)
(*                                                                         *)
(* Two actors share struct demo_wdt under wdt->lock: the watchdog core,    *)
(* which calls the ops (start, stop, ping, set_timeout) one at a time      *)
(* under its own mutex on behalf of /dev/watchdog, and the check timer,    *)
(* whose callback demo_wdt_timer_cb runs in softirq context on any CPU.    *)
(*                                                                         *)
(* Time is counted in seconds (HZ jiffies): elapsed is jiffies -           *)
(* last_ping, saturated at MaxElapsed.  The timer is always armed one      *)
(* second ahead, so it is "off", "armed" (the second has not passed) or    *)
(* "due".  The core sets WDOG_ACTIVE right after ops->start returns and    *)
(* clears it right after ops->stop returns; the model merges these with    *)
(* the op, since the timer's one-second delay leaves no room between them. *)
(***************************************************************************)
EXTENDS Integers

CONSTANTS
    Timeouts,     \* the valid timeouts, WDT_MIN_TIMEOUT .. WDT_MAX_TIMEOUT
    Requests,     \* timeouts userspace asks for with WDIOC_SETTIMEOUT
    MaxElapsed,   \* bound at which elapsed saturates
    NoWayOut      \* the nowayout module parameter: the core never stops it

ASSUME Timeouts \subseteq 1 .. 60 /\ Timeouts \subseteq Requests
ASSUME MaxElapsed > 0 /\ NoWayOut \in BOOLEAN
ASSUME \A t \in Timeouts : t < MaxElapsed

VARIABLES
    active,    \* watchdog_active(&wdt->wdd): WDOG_ACTIVE
    timeout,   \* wdd->timeout, in seconds
    elapsed,   \* jiffies - wdt->last_ping, in seconds
    expired,   \* wdt->expired
    timer,     \* wdt->timer: "off", "armed", "due"
    cb,        \* demo_wdt_timer_cb: "idle", or "spin" on wdt->lock
    lock,      \* holder of wdt->lock across a wait: "none" or "core"
    core       \* where the core is in an op: "idle", "stop_sync" or "set_ping"

vars == <<active, timeout, elapsed, expired, timer, cb, lock, core>>

Init ==
    /\ active = FALSE
    /\ timeout \in Timeouts      \* WDT_DEFAULT_TIMEOUT or from the device tree
    /\ elapsed = 0
    /\ expired = FALSE
    /\ timer = "off"
    /\ cb = "idle"
    /\ lock = "none"
    /\ core = "idle"

\* mod_timer(&wdt->timer, jiffies + HZ)
ArmTimer == timer' = "armed"

(***************************************************************************)
(* Mutants: plausible slips in the definitions below.                      *)
(***************************************************************************)
\* demo_wdt_start() that forgets to start the timer.
MutStartNoTimer ==
    /\ core = "idle" /\ lock = "none" /\ ~active
    /\ elapsed' = 0 /\ expired' = FALSE
    /\ active' = TRUE
    /\ UNCHANGED <<timeout, timer, cb, lock, core>>
\* demo_wdt_timer_cb() that re-arms only when expired.
MutCbRearmInverted ==
    /\ cb = "spin" /\ lock = "none"
    /\ IF active
         THEN IF elapsed >= timeout
                THEN ArmTimer /\ UNCHANGED expired
                ELSE expired' = TRUE /\ UNCHANGED timer
         ELSE UNCHANGED <<expired, timer>>
    /\ cb' = "idle"
    /\ UNCHANGED <<active, timeout, elapsed, lock, core>>

(***************************************************************************)
(* Time passes; an armed timer becomes due; a due timer's callback starts  *)
(* and spins on wdt->lock.                                                 *)
(***************************************************************************)
Tick ==
    /\ elapsed' = IF elapsed < MaxElapsed THEN elapsed + 1 ELSE elapsed
    /\ timer' = IF timer = "armed" THEN "due" ELSE timer
    /\ (elapsed < MaxElapsed \/ timer = "armed")
    /\ UNCHANGED <<active, timeout, expired, cb, lock, core>>

TimerFire ==
    /\ timer = "due" /\ cb = "idle"
    /\ timer' = "off"
    /\ cb' = "spin"
    /\ UNCHANGED <<active, timeout, elapsed, expired, lock, core>>

\* demo_wdt_timer_cb() once it holds wdt->lock: expire, or re-arm.
demo_wdt_timer_cb ==
    /\ cb = "spin" /\ lock = "none"
    /\ IF active
         THEN IF elapsed >= timeout
                THEN expired' = TRUE /\ UNCHANGED timer
                ELSE ArmTimer /\ UNCHANGED expired
         ELSE UNCHANGED <<expired, timer>>
    /\ cb' = "idle"
    /\ UNCHANGED <<active, timeout, elapsed, lock, core>>

(***************************************************************************)
(* The ops, called by the core one at a time.                              *)
(***************************************************************************)
demo_wdt_start ==
    /\ core = "idle" /\ lock = "none" /\ ~active
    /\ elapsed' = 0 /\ expired' = FALSE
    /\ ArmTimer
    /\ active' = TRUE
    /\ UNCHANGED <<timeout, cb, lock, core>>

\* demo_wdt_stop(): takes wdt->lock, then del_timer_sync() ...
demo_wdt_stop ==
    /\ core = "idle" /\ lock = "none" /\ active /\ ~NoWayOut
    /\ lock' = "core"
    /\ core' = "stop_sync"
    /\ UNCHANGED <<active, timeout, elapsed, expired, timer, cb>>

\* ... which waits for a running callback to finish, then disarms; the
\* lock is dropped and the core clears WDOG_ACTIVE.
StopSync ==
    /\ core = "stop_sync" /\ cb = "idle"
    /\ timer' = "off" /\ expired' = FALSE
    /\ lock' = "none" /\ active' = FALSE
    /\ core' = "idle"
    /\ UNCHANGED <<timeout, elapsed, cb>>

demo_wdt_ping ==
    /\ core = "idle" /\ lock = "none" /\ active
    /\ elapsed' = 0
    /\ ArmTimer
    /\ UNCHANGED <<active, timeout, expired, cb, lock, core>>

\* demo_wdt_set_timeout(): store the timeout without wdt->lock, then, if
\* active, call demo_wdt_ping().  The core calls it only for a timeout in
\* min_timeout .. max_timeout.  The check timer may run between the two.
demo_wdt_set_timeout ==
    /\ core = "idle" /\ lock = "none"
    /\ \E t \in Requests : t \in Timeouts /\ t # timeout /\ timeout' = t
    /\ core' = IF active THEN "set_ping" ELSE "idle"
    /\ UNCHANGED <<active, elapsed, expired, timer, cb, lock>>

\* The demo_wdt_ping() that ends set_timeout, under wdt->lock.
SetTimeoutPing ==
    /\ core = "set_ping" /\ lock = "none"
    /\ elapsed' = 0
    /\ ArmTimer
    /\ core' = "idle"
    /\ UNCHANGED <<active, timeout, expired, cb, lock>>

Next ==
    \/ Tick \/ TimerFire \/ demo_wdt_timer_cb
    \/ demo_wdt_start \/ demo_wdt_stop \/ StopSync
    \/ demo_wdt_ping \/ demo_wdt_set_timeout \/ SetTimeoutPing

(***************************************************************************)
(* Fairness: time passes, a due timer's callback starts, a spinning        *)
(* callback gets the lock whenever it is free often enough (strong), and   *)
(* del_timer_sync() retries until the callback is out (strong); a          *)
(* set_timeout finishes its ping.  The ops are userspace requests and are  *)
(* not fair.                                                               *)
(***************************************************************************)
Fairness ==
    /\ WF_vars(Tick) /\ WF_vars(TimerFire)
    /\ SF_vars(demo_wdt_timer_cb) /\ SF_vars(StopSync) /\ WF_vars(SetTimeoutPing)

Spec == Init /\ [][Next]_vars /\ Fairness

-----------------------------------------------------------------------------
TypeOK ==
    /\ active \in BOOLEAN /\ timeout \in Timeouts
    /\ elapsed \in 0 .. MaxElapsed /\ expired \in BOOLEAN
    /\ timer \in {"off", "armed", "due"} /\ cb \in {"idle", "spin"}
    /\ lock \in {"none", "core"} /\ core \in {"idle", "stop_sync", "set_ping"}

(***************************************************************************)
(* While the watchdog is active and has not fired, its check is in         *)
(* flight: the timer is armed or due, or the callback is on its way.  It   *)
(* is about the mod_timer() calls of start, ping and the callback, and the *)
(* callback's decision not to re-arm.                                      *)
(***************************************************************************)
CheckInFlight ==
    (active /\ ~expired /\ core = "idle") => (timer # "off" \/ cb # "idle")

(***************************************************************************)
(* A starved watchdog fires: once timeout seconds pass without a ping      *)
(* while it is active, it expires unless it is pinged first or a stop has  *)
(* begun (whether that stop returns is StopReturns).  It is about the      *)
(* callback's re-arm against its elapsed test.                             *)
(***************************************************************************)
StarvedExpires ==
    (active /\ elapsed >= timeout)
        ~> (expired \/ ~active \/ elapsed < timeout \/ core = "stop_sync")

(***************************************************************************)
(* A stop returns: demo_wdt_stop() called by the core eventually comes     *)
(* back.  It holds wdt->lock across del_timer_sync(), which waits for a    *)
(* running demo_wdt_timer_cb(), which waits for wdt->lock.                 *)
(***************************************************************************)
StopReturns == (core = "stop_sync") ~> (core = "idle")

=============================================================================
