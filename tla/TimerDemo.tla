------------------------------ MODULE TimerDemo ------------------------------
(***************************************************************************)
(* The timer demo, src/examples/part4/timer-demo/timer_demo.c.  Writers of *)
(* /proc/timer_demo start and stop two periodic timers: poll_timer, a      *)
(* timer_list, and hr_timer, an hrtimer.  Each timer's callback re-arms it *)
(* while its flag (timer_running, hrtimer_running) is set.  A stop clears  *)
(* the flag and then waits in del_timer_sync() or hrtimer_cancel(), which  *)
(* return once no callback runs and the timer is disarmed.                 *)
(*                                                                         *)
(* The two timers follow the same rules, so they are one function over     *)
(* Timers.  The callbacks' fire counts and the intervals are data and are  *)
(* left out.                                                               *)
(***************************************************************************)

CONSTANTS
    Writers,         \* processes writing commands to /proc/timer_demo
    WriteDuringExit  \* whether a write can still begin once rmmod has begun

Timers == {"poll", "hr"}
Actors == Writers \cup {"exit"}

VARIABLES
    stage,     \* module: "unloaded", "loaded", "failed", "exit", "proc", "gone"
    running,   \* timer_running and hrtimer_running
    pending,   \* the timer is armed: timer_pending(), or hrtimer enqueued
    callback,  \* "idle", or "run" while poll_timer_callback/hrtimer_callback runs
    pc         \* actor -> "idle", or the timer whose stop it is waiting for

vars == <<stage, running, pending, callback, pc>>

Init ==
    /\ stage = "unloaded"
    /\ running = [t \in Timers |-> FALSE]
    /\ pending = [t \in Timers |-> FALSE]
    /\ callback = [t \in Timers |-> "idle"]
    /\ pc = [a \in Actors |-> "idle"]

\* timer_demo_init(): the timers are set up, then proc_create() may fail.
timer_demo_init ==
    /\ stage = "unloaded"
    /\ stage' \in {"loaded", "failed"}
    /\ UNCHANGED <<running, pending, callback, pc>>

\* The timer expires: it is no longer pending and its callback runs.
Fire(t) ==
    /\ pending[t] /\ callback[t] = "idle"
    /\ pending' = [pending EXCEPT ![t] = FALSE]
    /\ callback' = [callback EXCEPT ![t] = "run"]
    /\ UNCHANGED <<stage, running, pc>>

(***************************************************************************)
(* Mutants: plausible slips in the definitions below.                      *)
(***************************************************************************)
\* A callback that never re-arms.
MutCallbackNoRearm(t) ==
    /\ callback[t] = "run"
    /\ callback' = [callback EXCEPT ![t] = "idle"]
    /\ UNCHANGED <<stage, running, pending, pc>>

\* poll_timer_callback(): mod_timer() if timer_running.  hrtimer_callback():
\* HRTIMER_RESTART if hrtimer_running (it stays enqueued if a start has
\* already enqueued it).
Callback(t) ==
    /\ callback[t] = "run"
    /\ pending' = [pending EXCEPT ![t] = pending[t] \/ running[t]]
    /\ callback' = [callback EXCEPT ![t] = "idle"]
    /\ UNCHANGED <<stage, running, pc>>

\* A stop that waits with del_timer() / hrtimer_try_to_cancel(), which do
\* not wait for a running callback.
MutStopNoWait(a) ==
    /\ pc[a] \in Timers
    /\ pending' = [pending EXCEPT ![pc[a]] = FALSE]
    /\ pc' = [pc EXCEPT ![a] = "idle"]
    /\ stage' = IF a = "exit" THEN (IF pc[a] = "poll" THEN "exit" ELSE "proc")
                ELSE stage
    /\ UNCHANGED <<running, callback>>

\* A write can begin while the proc entry exists.
CanWrite(w) ==
    /\ pc[w] = "idle"
    /\ \/ stage = "loaded"
       \/ WriteDuringExit /\ stage \in {"exit", "proc"}

\* start_timer() / start_hrtimer(): return if running, else set the flag
\* and arm the timer.
Start(w, t) ==
    /\ CanWrite(w) /\ ~running[t]
    /\ running' = [running EXCEPT ![t] = TRUE]
    /\ pending' = [pending EXCEPT ![t] = TRUE]
    /\ UNCHANGED <<stage, callback, pc>>

\* stop_timer() / stop_hrtimer(): clear the flag, then wait in the sync.
Stop(w, t) ==
    /\ CanWrite(w)
    /\ running' = [running EXCEPT ![t] = FALSE]
    /\ pc' = [pc EXCEPT ![w] = t]
    /\ UNCHANGED <<stage, pending, callback>>

\* del_timer_sync() / hrtimer_cancel() return once no callback runs, with
\* the timer disarmed.  For rmmod, the next stage of timer_demo_exit().
StopSync(a) ==
    /\ pc[a] \in Timers /\ callback[pc[a]] = "idle"
    /\ pending' = [pending EXCEPT ![pc[a]] = FALSE]
    /\ pc' = [pc EXCEPT ![a] = "idle"]
    /\ stage' = IF a = "exit" THEN (IF pc[a] = "poll" THEN "exit" ELSE "proc")
                ELSE stage
    /\ UNCHANGED <<running, callback>>

\* timer_demo_exit(): stop_timer(), and once it returns stop_hrtimer().
ExitStopTimer ==
    /\ stage = "loaded" /\ pc["exit"] = "idle"
    /\ WriteDuringExit \/ \A w \in Writers : pc[w] = "idle"
    /\ running' = [running EXCEPT !["poll"] = FALSE]
    /\ pc' = [pc EXCEPT !["exit"] = "poll"]
    /\ stage' = "exit"
    /\ UNCHANGED <<pending, callback>>

ExitStopHrtimer ==
    /\ stage = "exit" /\ pc["exit"] = "idle"
    /\ running' = [running EXCEPT !["hr"] = FALSE]
    /\ pc' = [pc EXCEPT !["exit"] = "hr"]
    /\ UNCHANGED <<stage, pending, callback>>

\* proc_remove() waits for the writers inside the file, then the module
\* text is gone.
ExitRemoveProc ==
    /\ stage = "proc" /\ \A w \in Writers : pc[w] = "idle"
    /\ stage' = "gone"
    /\ UNCHANGED <<running, pending, callback, pc>>

Timer(t) == Fire(t) \/ Callback(t)
Exit == ExitStopTimer \/ ExitStopHrtimer \/ ExitRemoveProc \/ StopSync("exit")
Write(w) == \E t \in Timers : Start(w, t) \/ Stop(w, t)

Next ==
    \/ timer_demo_init \/ Exit
    \/ \E t \in Timers : Timer(t)
    \/ \E w \in Writers : Write(w) \/ StopSync(w)

(***************************************************************************)
(* Fairness: an armed timer fires and its callback runs to its end; a      *)
(* sync that can return does; rmmod, once begun, continues.  Writes and    *)
(* rmmod are requests and are not fair.                                    *)
(***************************************************************************)
Fairness ==
    /\ \A t \in Timers : WF_vars(Timer(t))
    /\ \A w \in Writers : WF_vars(StopSync(w))
    /\ WF_vars(StopSync("exit") \/ ExitStopHrtimer \/ ExitRemoveProc)

Spec == Init /\ [][Next]_vars /\ Fairness

-----------------------------------------------------------------------------
(***************************************************************************)
(* A running timer keeps firing: while its flag is set and no stop of it   *)
(* is under way, the timer is armed or its callback is on the way to       *)
(* re-arming it.  It is about the re-arm in both callbacks against the     *)
(* flag that start and stop set, and their sync calls.                     *)
(***************************************************************************)
TimerInFlight ==
    \A t \in Timers :
        (running[t] /\ \A a \in Actors : pc[a] # t)
            => (pending[t] \/ callback[t] = "run")

(***************************************************************************)
(* Nothing of the module runs after rmmod: once timer_demo_exit() has      *)
(* returned, neither timer is armed and no callback runs.  It is about the *)
(* order of stop_timer(), stop_hrtimer() and proc_remove() in exit, and    *)
(* the waits in del_timer_sync() and hrtimer_cancel().                     *)
(***************************************************************************)
NoTimerAfterExit ==
    stage = "gone" => \A t \in Timers : ~pending[t] /\ callback[t] = "idle"
=============================================================================
