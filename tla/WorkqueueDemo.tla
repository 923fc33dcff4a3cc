---------------------------- MODULE WorkqueueDemo ----------------------------
(***************************************************************************)
(* The workqueue demo, src/examples/part4/workqueue-demo/workqueue_demo.c. *)
(*                                                                         *)
(* Actors: processes writing commands to /proc/workqueue_demo, the kernel  *)
(* workers running immediate_work, delayed_work and periodic_work on the   *)
(* system workqueue and the custom works on custom_wq, and module exit.    *)
(*                                                                         *)
(* Kernel semantics kept: a work is pending at most once (queueing a       *)
(* pending work is a no-op); a work never runs concurrently with itself    *)
(* but may be queued again while it runs; cancel_*work_sync() first grabs  *)
(* the pending bit and marks the work canceling, so queueing fails until   *)
(* it returns, then waits for a running instance to finish.  The delay of  *)
(* delayed works is left out: pending covers the timer.  The statistics    *)
(* counters, messages and custom ids are data no property tells apart.     *)
(* A failed init leaves nothing queued and is not modelled.                *)
(***************************************************************************)
EXTENDS Naturals

CONSTANTS
    Writers,          \* processes writing commands
    Commands,         \* the commands they write
    MaxCustom,        \* bound on custom works in flight
    WriteDuringExit   \* a write may still come in while exit runs

ASSUME Commands \subseteq {"immediate", "delayed", "custom", "start", "stop"}
ASSUME MaxCustom \in Nat /\ WriteDuringExit \in BOOLEAN

Works == {"imm", "del", "per"}   \* immediate_work, delayed_work, periodic_work
Actors == Writers \cup {"exit"}

VARIABLES
    mod,              \* where workqueue_demo_exit() is, or "live"
    proc,             \* proc_entry is registered
    wq_alive,         \* custom_wq not yet destroyed
    pending,          \* WORK_STRUCT_PENDING of each work
    phase,            \* each work's handler: "idle", "run", "resched"
    canceling,        \* actors inside cancel_*work_sync() of each work
    periodic_running,
    custom,           \* custom works queued or running on custom_wq
    wpc               \* each writer: "idle", or in stop_periodic()

vars == <<mod, proc, wq_alive, pending, phase, canceling, periodic_running,
          custom, wpc>>

\* workqueue_demo_init() has returned 0.
Init ==
    /\ mod = "live"
    /\ proc = TRUE /\ wq_alive = TRUE
    /\ pending = [w \in Works |-> FALSE]
    /\ phase = [w \in Works |-> "idle"]
    /\ canceling = [w \in Works |-> {}]
    /\ periodic_running = FALSE
    /\ custom = 0
    /\ wpc = [w \in Writers |-> "idle"]

\* schedule_work() / schedule_delayed_work(): fails while being canceled.
Queue(w) ==
    pending' = IF canceling[w] = {} THEN [pending EXCEPT ![w] = TRUE]
                                    ELSE pending

\* The two steps of cancel_*work_sync(&w) by actor a.
Grab(a, w) ==
    /\ pending' = [pending EXCEPT ![w] = FALSE]
    /\ canceling' = [canceling EXCEPT ![w] = @ \cup {a}]
\* cancel that returns without waiting for a running handler.
MutReleaseNoWait(a, w) ==
    /\ canceling' = [canceling EXCEPT ![w] = @ \ {a}]
Release(a, w) ==
    /\ phase[w] = "idle"
    /\ canceling' = [canceling EXCEPT ![w] = @ \ {a}]

(***************************************************************************)
(* Mutants: plausible slips in the definitions below.                      *)
(***************************************************************************)
\* start_periodic() that sets the flag but does not schedule the work.
MutStartNoSchedule(a) ==
    IF periodic_running THEN UNCHANGED <<periodic_running, pending>>
                        ELSE periodic_running' = TRUE /\ UNCHANGED pending
\* custom_work_handler() run for a work that was already run and freed.
MutCustomRunTwice ==
    /\ wq_alive
    /\ custom' = custom - 1
    /\ UNCHANGED <<mod, proc, wq_alive, pending, phase, canceling,
                   periodic_running, wpc>>

(***************************************************************************)
(* The workers.                                                            *)
(***************************************************************************)
WorkRun(w) ==
    /\ pending[w] /\ phase[w] = "idle"
    /\ pending' = [pending EXCEPT ![w] = FALSE]
    /\ phase' = [phase EXCEPT ![w] = "run"]
    /\ UNCHANGED <<mod, proc, wq_alive, canceling, periodic_running, custom,
                   wpc>>

\* immediate_work_handler() and delayed_work_handler() return.
WorkDone(w) ==
    /\ w \in {"imm", "del"} /\ phase[w] = "run"
    /\ phase' = [phase EXCEPT ![w] = "idle"]
    /\ UNCHANGED <<mod, proc, wq_alive, pending, canceling, periodic_running,
                   custom, wpc>>

\* periodic_work_handler(): the test at line 86 ...
PerCheck ==
    /\ phase["per"] = "run"
    /\ phase' = [phase EXCEPT !["per"] =
                   IF periodic_running THEN "resched" ELSE "idle"]
    /\ UNCHANGED <<mod, proc, wq_alive, pending, canceling, periodic_running,
                   custom, wpc>>

\* ... and the second test and re-arm at lines 94-95.
PerResched ==
    /\ phase["per"] = "resched"
    /\ IF periodic_running THEN Queue("per") ELSE UNCHANGED pending
    /\ phase' = [phase EXCEPT !["per"] = "idle"]
    /\ UNCHANGED <<mod, proc, wq_alive, canceling, periodic_running, custom,
                   wpc>>

\* custom_work_handler() runs and frees its work on custom_wq.
CustomRun ==
    /\ wq_alive /\ custom > 0
    /\ custom' = custom - 1
    /\ UNCHANGED <<mod, proc, wq_alive, pending, phase, canceling,
                   periodic_running, wpc>>

(***************************************************************************)
(* stats_write(): the commands.  Those other than "stop" are one step.     *)
(***************************************************************************)
CanWrite(w) ==
    /\ proc /\ wpc[w] = "idle"
    /\ WriteDuringExit \/ mod = "live"

submit_immediate(w) ==
    /\ CanWrite(w) /\ "immediate" \in Commands
    /\ Queue("imm")
    /\ UNCHANGED <<mod, proc, wq_alive, phase, canceling, periodic_running,
                   custom, wpc>>

submit_delayed(w) ==
    /\ CanWrite(w) /\ "delayed" \in Commands
    /\ Queue("del")
    /\ UNCHANGED <<mod, proc, wq_alive, phase, canceling, periodic_running,
                   custom, wpc>>

submit_custom(w) ==
    /\ CanWrite(w) /\ "custom" \in Commands /\ custom < MaxCustom
    /\ custom' = custom + 1
    /\ UNCHANGED <<mod, proc, wq_alive, pending, phase, canceling,
                   periodic_running, wpc>>

\* start_periodic(), lines 128-136: a no-op if already running.
StartBody(a) ==
    IF periodic_running THEN UNCHANGED <<periodic_running, pending>>
                        ELSE periodic_running' = TRUE /\ Queue("per")

start_periodic(w) ==
    /\ CanWrite(w) /\ "start" \in Commands
    /\ StartBody(w)
    /\ UNCHANGED <<mod, proc, wq_alive, phase, canceling, custom, wpc>>

\* stop_periodic(): clear the flag, then cancel_delayed_work_sync().
StopClear(w) ==
    /\ CanWrite(w) /\ "stop" \in Commands
    /\ periodic_running' = FALSE
    /\ wpc' = [wpc EXCEPT ![w] = "grab"]
    /\ UNCHANGED <<mod, proc, wq_alive, pending, phase, canceling, custom>>

StopGrab(w) ==
    /\ wpc[w] = "grab"
    /\ Grab(w, "per")
    /\ wpc' = [wpc EXCEPT ![w] = "wait"]
    /\ UNCHANGED <<mod, proc, wq_alive, phase, periodic_running, custom>>

StopRelease(w) ==
    /\ wpc[w] = "wait"
    /\ Release(w, "per")
    /\ wpc' = [wpc EXCEPT ![w] = "idle"]
    /\ UNCHANGED <<mod, proc, wq_alive, pending, phase, periodic_running,
                   custom>>

(***************************************************************************)
(* workqueue_demo_exit(): stop_periodic(), cancel the immediate and the    *)
(* delayed work, flush and destroy custom_wq, remove the proc entry.       *)
(***************************************************************************)
\* The cancel_*work_sync() calls of exit, their work and what follows.
GrabStage == [per_grab |-> "per", imm_grab |-> "imm", del_grab |-> "del"]
WaitStage == [per_wait |-> "per", imm_wait |-> "imm", del_wait |-> "del"]
After == [per_grab |-> "per_wait", per_wait |-> "imm_grab",
          imm_grab |-> "imm_wait", imm_wait |-> "del_grab",
          del_grab |-> "del_wait", del_wait |-> "flush"]

ExitStart ==
    /\ mod = "live"
    /\ WriteDuringExit \/ \A w \in Writers : wpc[w] = "idle"
    /\ periodic_running' = FALSE
    /\ mod' = "per_grab"
    /\ UNCHANGED <<proc, wq_alive, pending, phase, canceling, custom, wpc>>

ExitGrab ==
    /\ mod \in DOMAIN GrabStage
    /\ Grab("exit", GrabStage[mod])
    /\ mod' = After[mod]
    /\ UNCHANGED <<proc, wq_alive, phase, periodic_running, custom, wpc>>

ExitRelease ==
    /\ mod \in DOMAIN WaitStage
    /\ Release("exit", WaitStage[mod])
    /\ mod' = After[mod]
    /\ UNCHANGED <<proc, wq_alive, pending, phase, periodic_running, custom,
                   wpc>>

\* flush_workqueue() then destroy_workqueue().
ExitFlush ==
    /\ mod = "flush" /\ custom = 0
    /\ wq_alive' = FALSE /\ mod' = "remove"
    /\ UNCHANGED <<proc, pending, phase, canceling, periodic_running, custom,
                   wpc>>

\* proc_remove() waits for writers inside stats_write().
ExitRemove ==
    /\ mod = "remove" /\ \A w \in Writers : wpc[w] = "idle"
    /\ proc' = FALSE /\ mod' = "gone"
    /\ UNCHANGED <<wq_alive, pending, phase, canceling, periodic_running,
                   custom, wpc>>

Exit == ExitStart \/ ExitGrab \/ ExitRelease \/ ExitFlush \/ ExitRemove

Worker ==
    \/ \E w \in Works : WorkRun(w) \/ WorkDone(w)
    \/ PerCheck \/ PerResched \/ CustomRun

Write(w) ==
    \/ submit_immediate(w) \/ submit_delayed(w) \/ submit_custom(w)
    \/ start_periodic(w)
    \/ StopClear(w) \/ StopGrab(w) \/ StopRelease(w)

Next == Worker \/ Exit \/ \E w \in Writers : Write(w)

(***************************************************************************)
(* Fairness: the workers run what is queued, a writer in stop_periodic()   *)
(* finishes it, and exit, once rmmod has started it, goes on.  Starting    *)
(* exit and writing commands are userspace requests and are not fair.      *)
(***************************************************************************)
Fairness ==
    /\ WF_vars(Worker)
    /\ WF_vars(ExitGrab \/ ExitRelease \/ ExitFlush \/ ExitRemove)
    /\ \A w \in Writers : WF_vars(StopGrab(w) \/ StopRelease(w))

Spec == Init /\ [][Next]_vars /\ Fairness

-----------------------------------------------------------------------------
Stages == {"live", "flush", "remove", "gone"} \cup DOMAIN After

TypeOK ==
    /\ mod \in Stages /\ proc \in BOOLEAN /\ wq_alive \in BOOLEAN
    /\ pending \in [Works -> BOOLEAN]
    /\ phase \in [Works -> {"idle", "run", "resched"}]
    /\ canceling \in [Works -> SUBSET Actors]
    /\ periodic_running \in BOOLEAN
    /\ custom \in 0 .. MaxCustom
    /\ wpc \in [Writers -> {"idle", "grab", "wait"}]

(***************************************************************************)
(* Periodic work that is on stays on: while periodic_running is set and no *)
(* stop_periodic() is under way, periodic_work is queued or its handler    *)
(* is running.  It is about start_periodic() and stop_periodic() on the    *)
(* one flag, without a lock, against the handler's own re-arm.             *)
(***************************************************************************)
StopInProgress ==
    \/ \E w \in Writers : wpc[w] # "idle"
    \/ canceling["per"] # {}
    \/ mod # "live"

PeriodicAlive ==
    (periodic_running /\ ~StopInProgress)
        => (pending["per"] \/ phase["per"] # "idle")

(***************************************************************************)
(* Nothing runs after unload: once workqueue_demo_exit() has returned, no  *)
(* work of the module is queued or running, and no custom work is left.    *)
(***************************************************************************)
NoWorkAfterExit ==
    (mod = "gone") =>
        /\ \A w \in Works : ~pending[w] /\ phase[w] = "idle"
        /\ custom = 0

=============================================================================
