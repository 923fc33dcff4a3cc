----------------------------- MODULE KthreadDemo -----------------------------
(***************************************************************************)
(* The kthread demo, src/examples/part4/kthread-demo/kthread_demo.c.       *)
(*                                                                         *)
(* Four kinds of actor: module init and exit; the poll thread, which       *)
(* sleeps a second at a time on event_wq; the event thread, which sleeps   *)
(* on event_wq until event_pending is set; and processes writing "event"   *)
(* to /proc/kthread_demo, which set event_pending and wake the queue.      *)
(*                                                                         *)
(* kthread_stop(k) sets k's should-stop flag, wakes k and waits for k to   *)
(* return.  wait_event_interruptible(wq, cond) returns once cond holds     *)
(* when checked after a wake-up, so it is a step guarded by cond.  The     *)
(* poll count and the sensor value are data no property tells apart and    *)
(* are left out; so are the pr_info() calls.  A ghost counter, triggers,   *)
(* counts the "event" writes, and owed says that a trigger has happened    *)
(* since the event thread last cleared event_pending.                      *)
(***************************************************************************)
EXTENDS Naturals, FiniteSets

CONSTANTS
    Writers,       \* processes that write to /proc/kthread_demo
    MaxTriggers,   \* bound on the "event" writes
    KthreadFails   \* kthread_run() may fail (TRUE) or always succeeds

ASSUME MaxTriggers \in Nat /\ KthreadFails \in BOOLEAN

VARIABLES
    mod,            \* where module init or exit is
    proc,           \* proc_entry is registered
    poll,           \* poll_thread_fn: "none", "top", "sleep", "exited"
    ev,             \* event_thread_fn: "none", "top", "wait", "check", "exited"
    stop,           \* kthread_should_stop() of each thread
    event_pending,
    event_count,
    wpc,            \* each writer: "idle" or "in" stats_write()
    triggers,       \* ghost: "event" writes so far
    owed            \* ghost: a trigger not yet consumed by the event thread

vars == <<mod, proc, poll, ev, stop, event_pending, event_count, wpc,
          triggers, owed>>

Threads == {"poll", "event"}
Stages == {"unloaded", "init_poll", "init_event", "fail_stop_poll",
           "failed", "live", "exit_event", "exit_poll", "gone"}

Init ==
    /\ mod = "unloaded"
    /\ proc = FALSE
    /\ poll = "none" /\ ev = "none"
    /\ stop = [t \in Threads |-> FALSE]
    /\ event_pending = FALSE
    /\ event_count = 0
    /\ wpc = [w \in Writers |-> "idle"]
    /\ triggers = 0
    /\ owed = FALSE

\* Outcomes of kthread_run().
Outcomes == IF KthreadFails THEN {TRUE, FALSE} ELSE {TRUE}

\* Writers inside stats_write().
Inside == {w \in Writers : wpc[w] = "in"}

\* proc_remove() waits for writers still inside stats_write().
NoWriterInside == Inside = {}

(***************************************************************************)
(* Mutants: plausible slips in the definitions below.                      *)
(***************************************************************************)
\* init's error path after the event thread fails, without kthread_stop().
MutInitEventNoStopPoll ==
    /\ mod = "init_event"
    /\ \E ok \in Outcomes :
         IF ok THEN ev' = "top" /\ mod' = "live" /\ UNCHANGED proc
               ELSE /\ NoWriterInside /\ proc' = FALSE
                    /\ ev' = ev /\ mod' = "failed"
    /\ UNCHANGED <<poll, stop, event_pending, event_count, wpc,
                   triggers, owed>>
\* wait_event_interruptible() on event_pending alone.
MutEvWaitNoStop ==
    /\ ev = "wait" /\ event_pending
    /\ ev' = "check"
    /\ UNCHANGED <<mod, proc, poll, stop, event_pending, event_count, wpc,
                   triggers, owed>>
\* wait_event_interruptible() on kthread_should_stop() alone.
MutEvWaitNoPending ==
    /\ ev = "wait" /\ stop["event"]
    /\ ev' = "check"
    /\ UNCHANGED <<mod, proc, poll, stop, event_pending, event_count, wpc,
                   triggers, owed>>
\* the event handled without clearing event_pending.
MutEvHandleNoClear ==
    /\ ev = "check"
    /\ IF stop["event"]
         THEN ev' = "exited" /\ UNCHANGED <<event_pending, event_count, owed>>
         ELSE /\ event_count' = event_count + 1
              /\ ev' = "top"
              /\ UNCHANGED <<event_pending, owed>>
    /\ UNCHANGED <<mod, proc, poll, stop, wpc, triggers>>

(***************************************************************************)
(* kthread_demo_init(): proc entry, then the poll thread, then the event   *)
(* thread, undoing what was done when a kthread_run() fails.  A failed     *)
(* proc_create() leaves nothing behind and is not modelled.                *)
(***************************************************************************)
InitProc ==
    /\ mod = "unloaded"
    /\ proc' = TRUE /\ mod' = "init_poll"
    /\ UNCHANGED <<poll, ev, stop, event_pending, event_count, wpc,
                   triggers, owed>>

InitPoll ==
    /\ mod = "init_poll"
    /\ \E ok \in Outcomes :
         IF ok THEN poll' = "top" /\ mod' = "init_event" /\ UNCHANGED proc
               ELSE /\ NoWriterInside /\ proc' = FALSE
                    /\ mod' = "failed" /\ UNCHANGED poll
    /\ UNCHANGED <<ev, stop, event_pending, event_count, wpc, triggers, owed>>

InitEvent ==
    /\ mod = "init_event"
    /\ \E ok \in Outcomes :
         IF ok THEN ev' = "top" /\ mod' = "live" /\ UNCHANGED stop
               ELSE /\ stop' = [stop EXCEPT !["poll"] = TRUE]
                    /\ mod' = "fail_stop_poll" /\ UNCHANGED ev
    /\ UNCHANGED <<proc, poll, event_pending, event_count, wpc, triggers, owed>>

\* kthread_stop(poll_thread) has returned; proc_remove().
InitUnwind ==
    /\ mod = "fail_stop_poll" /\ poll = "exited" /\ NoWriterInside
    /\ proc' = FALSE /\ mod' = "failed"
    /\ UNCHANGED <<poll, ev, stop, event_pending, event_count, wpc,
                   triggers, owed>>

(***************************************************************************)
(* kthread_demo_exit(): stop the event thread, then the poll thread, then  *)
(* remove the proc entry.                                                  *)
(***************************************************************************)
ExitStopEvent ==
    /\ mod = "live"
    /\ stop' = [stop EXCEPT !["event"] = TRUE] /\ mod' = "exit_event"
    /\ UNCHANGED <<proc, poll, ev, event_pending, event_count, wpc,
                   triggers, owed>>

ExitStopPoll ==
    /\ mod = "exit_event" /\ ev = "exited"
    /\ stop' = [stop EXCEPT !["poll"] = TRUE] /\ mod' = "exit_poll"
    /\ UNCHANGED <<proc, poll, ev, event_pending, event_count, wpc,
                   triggers, owed>>

ExitRemoveProc ==
    /\ mod = "exit_poll" /\ poll = "exited" /\ NoWriterInside
    /\ proc' = FALSE /\ mod' = "gone"
    /\ UNCHANGED <<poll, ev, stop, event_pending, event_count, wpc,
                   triggers, owed>>

(***************************************************************************)
(* poll_thread_fn(): loop until told to stop, sleeping up to a second on   *)
(* event_wq; kthread_stop() wakes it early.                                *)
(***************************************************************************)
PollTop ==
    /\ poll = "top"
    /\ poll' = IF stop["poll"] THEN "exited" ELSE "sleep"
    /\ UNCHANGED <<mod, proc, ev, stop, event_pending, event_count, wpc,
                   triggers, owed>>

PollWake ==
    /\ poll = "sleep"
    /\ poll' = "top"
    /\ UNCHANGED <<mod, proc, ev, stop, event_pending, event_count, wpc,
                   triggers, owed>>

(***************************************************************************)
(* event_thread_fn(): the while test, the wait, the should-stop test after *)
(* it, then the handling: clear event_pending, count, msleep().            *)
(***************************************************************************)
EvTop ==
    /\ ev = "top"
    /\ ev' = IF stop["event"] THEN "exited" ELSE "wait"
    /\ UNCHANGED <<mod, proc, poll, stop, event_pending, event_count, wpc,
                   triggers, owed>>

EvWait ==
    /\ ev = "wait" /\ (event_pending \/ stop["event"])
    /\ ev' = "check"
    /\ UNCHANGED <<mod, proc, poll, stop, event_pending, event_count, wpc,
                   triggers, owed>>

EvHandle ==
    /\ ev = "check"
    /\ IF stop["event"]
         THEN ev' = "exited" /\ UNCHANGED <<event_pending, event_count, owed>>
         ELSE /\ event_pending' = FALSE /\ owed' = FALSE
              /\ event_count' = event_count + 1
              /\ ev' = "top"
    /\ UNCHANGED <<mod, proc, poll, stop, wpc, triggers>>

(***************************************************************************)
(* stats_write(): enter through the proc entry, then trigger_event() for   *)
(* "event".  Other commands change nothing and are left out.               *)
(***************************************************************************)
WriteEnter(w) ==
    /\ proc /\ wpc[w] = "idle"
    /\ triggers + Cardinality(Inside) < MaxTriggers
    /\ wpc' = [wpc EXCEPT ![w] = "in"]
    /\ UNCHANGED <<mod, proc, poll, ev, stop, event_pending, event_count,
                   triggers, owed>>

trigger_event(w) ==
    /\ wpc[w] = "in"
    /\ event_pending' = TRUE /\ owed' = TRUE
    /\ triggers' = triggers + 1
    /\ wpc' = [wpc EXCEPT ![w] = "idle"]
    /\ UNCHANGED <<mod, proc, poll, ev, stop, event_count>>

Next ==
    \/ InitProc \/ InitPoll \/ InitEvent \/ InitUnwind
    \/ ExitStopEvent \/ ExitStopPoll \/ ExitRemoveProc
    \/ PollTop \/ PollWake \/ EvTop \/ EvWait \/ EvHandle
    \/ \E w \in Writers : WriteEnter(w) \/ trigger_event(w)

(***************************************************************************)
(* Fairness: the threads are scheduled, init runs to its end, and exit,    *)
(* once rmmod has started it, runs to its end.  Starting exit and writing  *)
(* are requests from userspace and are not fair; a writer inside           *)
(* stats_write() finishes it.                                              *)
(***************************************************************************)
Fairness ==
    /\ WF_vars(InitPoll) /\ WF_vars(InitEvent) /\ WF_vars(InitUnwind)
    /\ WF_vars(ExitStopPoll) /\ WF_vars(ExitRemoveProc)
    /\ WF_vars(PollTop) /\ WF_vars(PollWake)
    /\ WF_vars(EvTop) /\ WF_vars(EvWait) /\ WF_vars(EvHandle)
    /\ \A w \in Writers : WF_vars(trigger_event(w))

Spec == Init /\ [][Next]_vars /\ Fairness

-----------------------------------------------------------------------------
TypeOK ==
    /\ mod \in Stages /\ proc \in BOOLEAN
    /\ poll \in {"none", "top", "sleep", "exited"}
    /\ ev \in {"none", "top", "wait", "check", "exited"}
    /\ stop \in [Threads -> BOOLEAN]
    /\ event_pending \in BOOLEAN /\ owed \in BOOLEAN
    /\ event_count \in 0 .. MaxTriggers /\ triggers \in 0 .. MaxTriggers
    /\ wpc \in [Writers -> {"idle", "in"}]

(***************************************************************************)
(* Every handled event answers a trigger: the event thread never handles   *)
(* more events than "event" writes were made.  It is about the pairing of  *)
(* the wait on event_pending with the clear at line 73, against writers    *)
(* setting it at any moment.                                               *)
(***************************************************************************)
NoSpuriousEvents == event_count <= triggers

(***************************************************************************)
(* A trigger is consumed: once "event" is written, the event thread        *)
(* clears event_pending after it, unless the module is failing or going    *)
(* away.  Triggers that come while an event is handled coalesce into one.  *)
(***************************************************************************)
TriggerHandled ==
    owed ~> (~owed \/ mod \in {"fail_stop_poll", "failed",
                               "exit_event", "exit_poll", "gone"})

(***************************************************************************)
(* rmmod returns: once kthread_demo_exit() starts, both kthread_stop()     *)
(* calls and proc_remove() return.                                         *)
(***************************************************************************)
ExitReturns == (mod = "exit_event") ~> (mod = "gone")

(***************************************************************************)
(* A failed init leaves nothing behind: no thread is running and the proc  *)
(* entry is gone.  It is about the error paths of kthread_demo_init().     *)
(***************************************************************************)
FailedInitClean ==
    (mod = "failed") => (~proc /\ poll \in {"none", "exited"}
                                /\ ev \in {"none", "exited"})

=============================================================================
