-------------------------- MODULE ThreadedIrqDemo --------------------------
(***************************************************************************)
(* The threaded-IRQ demo, src/examples/part7/threaded-irq-demo/            *)
(* threaded_irq_demo.c.                                                    *)
(*                                                                         *)
(* A kernel timer (trigger_simulated_irq) plays the device: while the      *)
(* demo is running it latches a new sample in hw_data, sets pending_irq    *)
(* and re-arms itself.  Processes writing to /proc/threaded_irq_demo/      *)
(* control start and stop it, concurrently with each other and with the   *)
(* timer.                                                                  *)
(*                                                                         *)
(* demo_hardirq and demo_thread_handler are the top and bottom half, but   *)
(* the source requests no IRQ for them and the timer does not call them    *)
(* (the comments at lines 76-78 and 327-338 say it does).  So, as the      *)
(* code runs, pending_irq is set and never cleared, and data_buffer,       *)
(* data_head and data_count stay as probe left them: the "reset" command  *)
(* rewrites them to the values they already hold, and is not an action.   *)
(* The ring arithmetic the handler, "reset" and data_show() share is       *)
(* checked below as operators, against the log it is meant to keep.       *)
(*                                                                         *)
(* The kernel timer follows timer_list semantics: mod_timer() arms it,     *)
(* an armed timer eventually fires, its callback never runs twice at once, *)
(* and del_timer_sync() waits for a running callback, then disarms.        *)
(* Time, interval_ms, hw_data and the statistics counters are left out:   *)
(* no property reads them.                                                 *)
(*                                                                         *)
(* The initial state is the device just probed.  rmmod runs demo_remove(): *)
(* it clears running, waits in del_timer_sync(), then removes the proc     *)
(* entries, which waits for the writers inside them.  WriteDuringRemove    *)
(* says whether a command can still begin once remove has begun.           *)
(***************************************************************************)
EXTENDS Integers, Sequences, SequencesExt

CONSTANTS
    Writers,       \* processes writing to the control file
    Values,        \* the samples hw_data can hold
    BUFFER_SIZE,   \* BUFFER_SIZE, 64 in the source
    MaxOps,        \* the longest sequence of ring operations checked
    WriteDuringRemove  \* whether a command can begin once remove has begun

ASSUME BUFFER_SIZE \in Nat \ {0} /\ MaxOps \in Nat

VARIABLES
    running,         \* dev->running
    timer_pending,   \* dev->timer is armed
    cb,              \* where trigger_simulated_irq is: "idle", "check", "rearm"
    pending_irq,     \* dev->pending_irq
    pc,              \* pc[w]: where writer w is in control_write()
    stage            \* "probed", or demo_remove() at "sync", "proc", "gone"

vars == <<running, timer_pending, cb, pending_irq, pc, stage>>

PCs == {"idle", "start_arm", "stop_sync"}

\* demo_probe(): devm_kzalloc() zeroes the device; running = false.
Init ==
    /\ running = FALSE
    /\ timer_pending = FALSE
    /\ cb = "idle"
    /\ pending_irq = 0
    /\ pc = [w \in Writers |-> "idle"]
    /\ stage = "probed"

(***************************************************************************)
(* The ring: data_buffer, data_head and data_count as one record.  Probe   *)
(* leaves it zeroed.                                                       *)
(***************************************************************************)
Slots == 0 .. BUFFER_SIZE - 1
EmptyRing == [buf |-> [i \in Slots |-> 0], head |-> 0, count |-> 0]

(***************************************************************************)
(* Mutants: plausible slips in the definitions below, each used to show    *)
(* that a property sees it.                                                *)
(***************************************************************************)
\* trigger_simulated_irq() without its mod_timer() re-arm.
MutCbNoRearm ==
    /\ cb = "rearm"
    /\ cb' = "idle"
    /\ UNCHANGED <<running, timer_pending, pending_irq, pc, stage>>
\* demo_thread_handler() counting past BUFFER_SIZE.
MutThreadNoCap(r, v) ==
    [buf |-> [r.buf EXCEPT ![r.head] = v],
     head |-> (r.head + 1) % BUFFER_SIZE,
     count |-> r.count + 1]

\* demo_thread_handler()'s data_mutex section: store the sample at
\* data_head, advance it with the wrap, count up to BUFFER_SIZE.
demo_thread_handler(r, v) ==
    [buf |-> [r.buf EXCEPT ![r.head] = v],
     head |-> (r.head + 1) % BUFFER_SIZE,
     count |-> IF r.count < BUFFER_SIZE THEN r.count + 1 ELSE r.count]

\* control_write() of "reset": data_count and data_head to 0 under the
\* mutex; the buffer is left as it is.
control_reset(r) == [r EXCEPT !.count = 0, !.head = 0]

\* data_show(): the data_count entries it prints, oldest first.
data_show(r) ==
    [i \in 1 .. r.count |->
        r.buf[(r.head - r.count + (i - 1) + BUFFER_SIZE) % BUFFER_SIZE]]

(***************************************************************************)
(* The timer.  An armed timer expires and its callback starts.             *)
(***************************************************************************)
TimerFire ==
    /\ timer_pending /\ cb = "idle"
    /\ timer_pending' = FALSE
    /\ cb' = "check"
    /\ UNCHANGED <<running, pending_irq, pc, stage>>

\* trigger_simulated_irq(): return if stopped; otherwise latch a sample
\* and set pending_irq.  Nothing else happens: no handler is called.
CbCheck ==
    /\ cb = "check"
    /\ IF running
         THEN pending_irq' = 1 /\ cb' = "rearm"
         ELSE cb' = "idle" /\ UNCHANGED pending_irq
    /\ UNCHANGED <<running, timer_pending, pc, stage>>

\* The mod_timer() re-arm at the end of trigger_simulated_irq().
CbRearm ==
    /\ cb = "rearm"
    /\ timer_pending' = TRUE
    /\ cb' = "idle"
    /\ UNCHANGED <<running, pending_irq, pc, stage>>

\* A command can begin while the control file exists.
CanWrite(w) ==
    /\ pc[w] = "idle"
    /\ \/ stage = "probed"
       \/ WriteDuringRemove /\ stage \in {"sync", "proc"}

(***************************************************************************)
(* control_write().  "start": if not running, set running, then mod_timer. *)
(* "stop": clear running, then del_timer_sync().  A "start" while running  *)
(* changes nothing.                                                        *)
(***************************************************************************)
StartRun(w) ==
    /\ CanWrite(w) /\ ~running
    /\ running' = TRUE
    /\ pc' = [pc EXCEPT ![w] = "start_arm"]
    /\ UNCHANGED <<timer_pending, cb, pending_irq, stage>>

StartArm(w) ==
    /\ pc[w] = "start_arm"
    /\ timer_pending' = TRUE
    /\ pc' = [pc EXCEPT ![w] = "idle"]
    /\ UNCHANGED <<running, cb, pending_irq, stage>>

StopRun(w) ==
    /\ CanWrite(w)
    /\ running' = FALSE
    /\ pc' = [pc EXCEPT ![w] = "stop_sync"]
    /\ UNCHANGED <<timer_pending, cb, pending_irq, stage>>

\* del_timer_sync(): waits until the callback is not running, then disarms.
StopSync(w) ==
    /\ pc[w] = "stop_sync" /\ cb = "idle"
    /\ timer_pending' = FALSE
    /\ pc' = [pc EXCEPT ![w] = "idle"]
    /\ UNCHANGED <<running, cb, pending_irq, stage>>

(***************************************************************************)
(* demo_remove(): clear running and wait in del_timer_sync(), then remove  *)
(* the proc entries once no writer is inside them.  Without writes during  *)
(* remove, rmmod begins with no command under way.                         *)
(***************************************************************************)
RemoveBegin ==
    /\ stage = "probed"
    /\ WriteDuringRemove \/ \A w \in Writers : pc[w] = "idle"
    /\ running' = FALSE /\ stage' = "sync"
    /\ UNCHANGED <<timer_pending, cb, pending_irq, pc>>

\* A remove that stops the timer with del_timer(), not waiting for the
\* callback.
MutRemoveNoWait ==
    /\ stage = "sync"
    /\ timer_pending' = FALSE /\ stage' = "proc"
    /\ UNCHANGED <<running, cb, pending_irq, pc>>

RemoveSync ==
    /\ stage = "sync" /\ cb = "idle"
    /\ timer_pending' = FALSE /\ stage' = "proc"
    /\ UNCHANGED <<running, cb, pending_irq, pc>>

RemoveProc ==
    /\ stage = "proc" /\ \A w \in Writers : pc[w] = "idle"
    /\ stage' = "gone"
    /\ UNCHANGED <<running, timer_pending, cb, pending_irq, pc>>

Next ==
    \/ RemoveBegin \/ RemoveSync \/ RemoveProc
    \/ TimerFire \/ CbCheck \/ CbRearm
    \/ \E w \in Writers : StartRun(w) \/ StartArm(w) \/ StopRun(w) \/ StopSync(w)

(***************************************************************************)
(* Fairness: an armed timer expires and a started callback completes (the  *)
(* timer softirq runs).  A writer finishes the command it began:           *)
(* mod_timer() returns, and del_timer_sync() retries until the callback is *)
(* out, so it is strongly fair.  Issuing a command is not fair: users may  *)
(* stop.                                                                   *)
(***************************************************************************)
Fairness ==
    /\ WF_vars(TimerFire) /\ WF_vars(CbCheck) /\ WF_vars(CbRearm)
    /\ \A w \in Writers : WF_vars(StartArm(w)) /\ SF_vars(StopSync(w))
    /\ SF_vars(RemoveSync) /\ WF_vars(RemoveProc)

Spec == Init /\ [][Next]_vars /\ Fairness

-----------------------------------------------------------------------------
TypeOK ==
    /\ running \in BOOLEAN /\ timer_pending \in BOOLEAN
    /\ cb \in {"idle", "check", "rearm"}
    /\ pending_irq \in {0, 1}
    /\ pc \in [Writers -> PCs]
    /\ stage \in {"probed", "sync", "proc", "gone"}

(***************************************************************************)
(* The log the ring is meant to keep: the samples stored since the last    *)
(* "reset", the last BUFFER_SIZE of them, oldest first.  An operation is a *)
(* sample stored by the thread handler or "reset".                         *)
(***************************************************************************)
Ops == [reset : {TRUE}, v : {0}] \cup [reset : {FALSE}, v : Values]

LogStep(log, op) ==
    IF op.reset THEN << >>
    ELSE LET l == Append(log, op.v)
         IN  SubSeq(l, Len(l) - Min({Len(l), BUFFER_SIZE}) + 1, Len(l))

RingStep(r, op) ==
    IF op.reset THEN control_reset(r) ELSE demo_thread_handler(r, op.v)

(***************************************************************************)
(* While the device is bound, after any sequence of thread-handler stores *)
(* and "reset" commands, from                                              *)
(* the zeroed ring probe leaves, data_show() prints exactly the samples    *)
(* stored since the last reset, the last BUFFER_SIZE of them, oldest       *)
(* first.  It is about the head wrap and the count cap of                  *)
(* demo_thread_handler(), the head/count walk of data_show(), and "reset"  *)
(* leaving stale samples in the buffer behind a zero count: sequences      *)
(* longer than the ring wrap it and overwrite across a reset.              *)
(***************************************************************************)
RingShowsLog ==
    stage = "probed" =>
    \A ops \in SeqOf(Ops, MaxOps) :
        data_show(FoldLeft(RingStep, EmptyRing, ops)) = FoldLeft(LogStep, << >>, ops)

(***************************************************************************)
(* While the demo is running and no control command is half done, the     *)
(* timer is armed or its callback is running, so interrupts keep coming.  *)
(* "Running: yes" in the stats file means this.  It is about the running  *)
(* flag and the timer calls of control_write() and trigger_simulated_irq(),*)
(* and their order against each other.                                     *)
(***************************************************************************)
RunningImpliesArmed ==
    (running /\ \A w \in Writers : pc[w] = "idle")
        => (timer_pending \/ cb # "idle")

(***************************************************************************)
(* Every simulated interrupt is eventually acknowledged: once the timer    *)
(* sets pending_irq, demo_hardirq clears it.  The comments at lines 76-78  *)
(* say the timer calls the handler chain; the code does not, so this is    *)
(* violated (IrqNeverAcked.cfg).                                           *)
(***************************************************************************)
PendingIrqHandled == (pending_irq = 1) ~> (pending_irq = 0)

(***************************************************************************)
(* Nothing of the device's timer is left once demo_remove() returns: the   *)
(* timer is not armed and trigger_simulated_irq() does not run.  It is     *)
(* about remove's order (running cleared before del_timer_sync()) against  *)
(* the callback's test of running and its re-arm.                          *)
(***************************************************************************)
NoTimerAfterRemove == stage = "gone" => ~timer_pending /\ cb = "idle"

=============================================================================
