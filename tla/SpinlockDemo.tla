----------------------------- MODULE SpinlockDemo -----------------------------
(***************************************************************************)
(* The spinlock demo, src/examples/part4/spinlock-demo/spinlock_demo.c:    *)
(* the lifecycle of its four kernel threads.  Init starts two counter      *)
(* threads, a reader and a writer with kthread_run(), any of which may     *)
(* fail and is then NULL.  Each thread loops until kthread_should_stop()   *)
(* or stop_threads.  Exit sets stop_threads, then calls kthread_stop() on  *)
(* each non-NULL thread in turn, then removes the proc entry.              *)
(*                                                                         *)
(* A thread that sees stop_threads returns on its own, and its task is     *)
(* then freed: kthread_run() takes no reference on it.  What the loops do  *)
(* under basic.lock and rwdata.lock (counters, a value and a name that are *)
(* only printed) is left out.  percpu_thread() is never started.           *)
(***************************************************************************)
EXTENDS Naturals

CONSTANT ThreadFails  \* whether kthread_run() may fail

NUM_THREADS == 4
Ids == 0 .. NUM_THREADS - 1

VARIABLES
    mod,           \* "unloaded", "failed", "loaded", "stopping", "gone"
    thr,           \* thread -> "none" (NULL), "run", "exited" (returned on
                   \* its own, task freed) or "stopped" (by kthread_stop())
    stop_threads,
    i              \* exit's loop index

vars == <<mod, thr, stop_threads, i>>

Init ==
    /\ mod = "unloaded"
    /\ thr = [t \in Ids |-> "none"]
    /\ stop_threads = FALSE
    /\ i = 0

\* spinlock_demo_init(): proc_create() may fail; else each kthread_run()
\* starts its thread or fails and leaves NULL.
spinlock_demo_init ==
    /\ mod = "unloaded"
    /\ \/ mod' = "failed" /\ UNCHANGED thr
       \/ /\ mod' = "loaded"
          /\ thr' \in [Ids -> IF ThreadFails THEN {"run", "none"} ELSE {"run"}]
    /\ stop_threads' = FALSE
    /\ UNCHANGED i

\* A thread's loop test finds stop_threads set, and the thread returns.
ThreadReturn(t) ==
    /\ thr[t] = "run" /\ stop_threads
    /\ thr' = [thr EXCEPT ![t] = "exited"]
    /\ UNCHANGED <<mod, stop_threads, i>>

(***************************************************************************)
(* Mutants: plausible slips in the definitions below.                      *)
(***************************************************************************)
\* An exit whose loop starts at threads[1].
MutExitFromOne ==
    /\ mod = "loaded"
    /\ stop_threads' = TRUE
    /\ mod' = "stopping"
    /\ i' = 1
    /\ UNCHANGED thr

\* spinlock_demo_exit(): stop_threads = true, and the loop begins.
ExitBegin ==
    /\ mod = "loaded"
    /\ stop_threads' = TRUE
    /\ mod' = "stopping"
    /\ i' = 0
    /\ UNCHANGED thr

(***************************************************************************)
(* One turn of exit's loop: if threads[i], kthread_stop() sets its should- *)
(* stop flag and waits until it returns.  On a thread that has already     *)
(* returned, the task is freed and the call is a use after free; the       *)
(* model lets it return.                                                   *)
(***************************************************************************)
ExitStop ==
    /\ mod = "stopping" /\ i < NUM_THREADS
    /\ thr' = IF thr[i] = "run" THEN [thr EXCEPT ![i] = "stopped"] ELSE thr
    /\ i' = i + 1
    /\ UNCHANGED <<mod, stop_threads>>

\* proc_remove(), and rmmod returns.
ExitRemoveProc ==
    /\ mod = "stopping" /\ i = NUM_THREADS
    /\ mod' = "gone"
    /\ UNCHANGED <<thr, stop_threads, i>>

Next ==
    \/ spinlock_demo_init \/ ExitBegin \/ ExitStop \/ ExitRemoveProc
    \/ \E t \in Ids : ThreadReturn(t)

\* Threads run, and rmmod once begun goes on; loading and rmmod are requests.
Spec ==
    Init /\ [][Next]_vars
    /\ \A t \in Ids : WF_vars(ThreadReturn(t))
    /\ WF_vars(ExitStop \/ ExitRemoveProc)

-----------------------------------------------------------------------------
(***************************************************************************)
(* Nothing of the module runs after rmmod: once spinlock_demo_exit() has   *)
(* returned, no thread is still in its loop, whichever kthread_run() calls *)
(* failed.  It is about exit's loop over threads[] and its NULL test.      *)
(***************************************************************************)
NoThreadAfterExit == mod = "gone" => \A t \in Ids : thr[t] # "run"

(***************************************************************************)
(* kthread_stop() is only called on a thread that is still there: when     *)
(* exit's loop reaches threads[i], that thread has not returned on its own *)
(* and been freed.  It is about exit setting stop_threads, which the       *)
(* threads also test, before it stops them one by one.                     *)
(***************************************************************************)
StopOnlyLiveThreads == (mod = "stopping" /\ i < NUM_THREADS) => thr[i] # "exited"
=============================================================================
