------------------------------ MODULE VnetDemo ------------------------------
(***************************************************************************)
(* The virtual network device, src/examples/part12/virtual-netdev/         *)
(* vnet_demo.c.  A transmitted packet is copied into a receive ring of     *)
(* RX_RING_SIZE slots, under rx_lock, and NAPI is scheduled; the NAPI poll *)
(* (softirq) takes packets off the ring, under rx_lock, up to its budget.  *)
(*                                                                         *)
(* Packets are numbered 1 .. MaxSend in transmit order; 0 is a NULL slot.  *)
(* Transmits are serialised by the tx queue lock and each one's locked     *)
(* section is one step; each iteration of the poll loop is one step.  The  *)
(* NAPI state is the kernel's SCHED bit ("sched"; "off" when napi_disable  *)
(* or netif_napi_add holds it) and its MISSED bit, set by a napi_schedule  *)
(* that finds SCHED already set, which makes napi_complete_done poll again.*)
(***************************************************************************)
EXTENDS Naturals, Sequences

CONSTANTS
    RX_RING_SIZE,  \* slots in rx_ring; one is always left empty
    Budget,        \* the NAPI budget passed to vnet_poll
    MaxSend,       \* bound on packets transmitted
    RegisterFails  \* whether register_netdev() may fail

ASSUME RX_RING_SIZE >= 2 /\ Budget >= 1 /\ MaxSend >= 1

VARIABLES
    dev,        \* "unloaded", "down", "up", "stopping", "exiting", "gone", "failed"
    rx_ring,    \* priv->rx_ring: slot -> packet, 0 for NULL
    rx_head,    \* priv->rx_head: next slot to write
    rx_tail,    \* priv->rx_tail: next slot to read
    napi,       \* NAPI SCHED bit: "off", "idle" (clear), "sched"
    missed,     \* NAPI MISSED bit
    poll_pc,    \* vnet_poll: "idle", "loop", "complete"
    processed,  \* vnet_poll's processed
    sent        \* packets handed to vnet_start_xmit so far

vars == <<dev, rx_ring, rx_head, rx_tail, napi, missed, poll_pc, processed, sent>>

Slots == 0 .. RX_RING_SIZE - 1
NULL == 0

Init ==
    /\ dev = "unloaded"
    /\ rx_ring = [i \in Slots |-> NULL]
    /\ rx_head = 0 /\ rx_tail = 0
    /\ napi = "off" /\ missed = FALSE
    /\ poll_pc = "idle" /\ processed = 0
    /\ sent = 0

rx_ring_full == (rx_head + 1) % RX_RING_SIZE = rx_tail
rx_ring_empty == rx_head = rx_tail

\* The packets in the ring, oldest first.
Contents ==
    [i \in 1 .. (rx_head - rx_tail + RX_RING_SIZE) % RX_RING_SIZE |->
        rx_ring[(rx_tail + i - 1) % RX_RING_SIZE]]

\* napi_schedule(): SCHED is taken, or MISSED is set if it was held.
napi_schedule ==
    IF napi = "idle" THEN napi' = "sched" /\ UNCHANGED missed
    ELSE IF napi = "sched" THEN missed' = TRUE /\ UNCHANGED napi
    ELSE UNCHANGED <<napi, missed>>

\* napi_complete_done(): a MISSED poll keeps SCHED and polls again.
napi_complete_done ==
    IF missed THEN missed' = FALSE /\ UNCHANGED napi
    ELSE napi' = "idle" /\ UNCHANGED missed

\* napi_disable() is pending from the stop until it has taken SCHED.
DisablePending == dev \in {"stopping", "exiting"}

vnet_init ==
    /\ dev = "unloaded"
    /\ \/ dev' = "down"
       \/ RegisterFails /\ dev' = "failed"
    /\ UNCHANGED <<rx_ring, rx_head, rx_tail, napi, missed, poll_pc, processed, sent>>

(***************************************************************************)
(* Mutants: plausible slips in the definitions below.                      *)
(***************************************************************************)
\* rx_ring_enqueue() without the wrap of rx_head.
MutEnqueueNoWrap(p) ==
    rx_ring' = [rx_ring EXCEPT ![rx_head % RX_RING_SIZE] = p]
        /\ rx_head' = rx_head + 1

rx_ring_enqueue(p) ==
    /\ rx_ring' = [rx_ring EXCEPT ![rx_head] = p]
    /\ rx_head' = (rx_head + 1) % RX_RING_SIZE

\* vnet_start_xmit() that enqueues without a room check.
MutXmitNoFullCheck ==
    /\ dev = "up" /\ sent < MaxSend
    /\ sent' = sent + 1
    /\ \/ rx_ring_enqueue(sent + 1) /\ napi_schedule
       \/ UNCHANGED <<rx_ring, rx_head, napi, missed>>
    /\ UNCHANGED <<dev, rx_tail, poll_pc, processed>>

\* vnet_start_xmit() that forgets napi_schedule().
MutXmitNoSchedule ==
    /\ dev = "up" /\ sent < MaxSend
    /\ sent' = sent + 1
    /\ \/ ~rx_ring_full /\ rx_ring_enqueue(sent + 1) /\ UNCHANGED <<napi, missed>>
       \/ rx_ring_full /\ UNCHANGED <<rx_ring, rx_head, napi, missed>>
       \/ UNCHANGED <<rx_ring, rx_head, napi, missed>>
    /\ UNCHANGED <<dev, rx_tail, poll_pc, processed>>

(***************************************************************************)
(* vnet_start_xmit(): skb_copy() may fail (the last disjunct); otherwise,  *)
(* under rx_lock, the copy is queued and NAPI scheduled, or it is dropped  *)
(* when the ring is full.                                                  *)
(***************************************************************************)
vnet_start_xmit ==
    /\ dev = "up" /\ sent < MaxSend
    /\ sent' = sent + 1
    /\ \/ ~rx_ring_full /\ rx_ring_enqueue(sent + 1) /\ napi_schedule
       \/ rx_ring_full /\ UNCHANGED <<rx_ring, rx_head, napi, missed>>
       \/ UNCHANGED <<rx_ring, rx_head, napi, missed>>
    /\ UNCHANGED <<dev, rx_tail, poll_pc, processed>>

\* net_rx_action() calls vnet_poll() for a scheduled NAPI.
PollStart ==
    /\ napi = "sched" /\ poll_pc = "idle"
    /\ poll_pc' = "loop" /\ processed' = 0
    /\ UNCHANGED <<dev, rx_ring, rx_head, rx_tail, napi, missed, sent>>

\* One iteration of the poll loop: under rx_lock, dequeue a packet, or
\* find the ring empty and leave the loop for napi_complete_done().
PollDequeue ==
    /\ poll_pc = "loop" /\ processed < Budget
    /\ IF rx_ring_empty
         THEN poll_pc' = "complete" /\ UNCHANGED <<rx_ring, rx_tail, processed>>
         ELSE /\ rx_ring' = [rx_ring EXCEPT ![rx_tail] = NULL]
              /\ rx_tail' = (rx_tail + 1) % RX_RING_SIZE
              /\ processed' = processed + 1
              /\ UNCHANGED poll_pc
    /\ UNCHANGED <<dev, rx_head, napi, missed, sent>>

\* The budget is used up: vnet_poll() returns without completing, and
\* NAPI stays scheduled, unless napi_disable() is pending, in which case
\* napi_poll() completes it.
PollBudgetDone ==
    /\ poll_pc = "loop" /\ processed = Budget
    /\ IF DisablePending THEN napi_complete_done ELSE UNCHANGED <<napi, missed>>
    /\ poll_pc' = "idle"
    /\ UNCHANGED <<dev, rx_ring, rx_head, rx_tail, processed, sent>>

\* processed < budget: napi_complete_done().
PollComplete ==
    /\ poll_pc = "complete"
    /\ napi_complete_done /\ poll_pc' = "idle"
    /\ UNCHANGED <<dev, rx_ring, rx_head, rx_tail, processed, sent>>

\* vnet_open() that forgets napi_enable().
MutOpenNoEnable ==
    /\ dev = "down"
    /\ dev' = "up"
    /\ UNCHANGED <<rx_ring, rx_head, rx_tail, napi, missed, poll_pc, processed, sent>>

\* vnet_open(): napi_enable(), netif_start_queue().
vnet_open ==
    /\ dev = "down"
    /\ napi' = "idle" /\ missed' = FALSE
    /\ dev' = "up"
    /\ UNCHANGED <<rx_ring, rx_head, rx_tail, poll_pc, processed, sent>>

\* vnet_stop(): netif_stop_queue() (the core has already waited out any
\* transmit), then napi_disable(); vnet_exit() on an up device runs the
\* same stop through unregister_netdev().
vnet_stop ==
    /\ dev = "up"
    /\ dev' = "stopping"
    /\ UNCHANGED <<rx_ring, rx_head, rx_tail, napi, missed, poll_pc, processed, sent>>

vnet_exit ==
    /\ dev \in {"down", "up"}
    /\ dev' = IF dev = "up" THEN "exiting" ELSE "gone"
    /\ UNCHANGED <<rx_ring, rx_head, rx_tail, napi, missed, poll_pc, processed, sent>>

\* napi_disable() takes SCHED once the poll has completed; the rest of
\* vnet_stop() frees the ring without rx_lock and resets both indices.
StopDisable ==
    /\ DisablePending /\ napi = "idle"
    /\ napi' = "off"
    /\ rx_ring' = [i \in Slots |-> NULL]
    /\ rx_head' = 0 /\ rx_tail' = 0
    /\ dev' = IF dev = "exiting" THEN "gone" ELSE "down"
    /\ UNCHANGED <<missed, poll_pc, processed, sent>>

Poll == PollStart \/ PollDequeue \/ PollBudgetDone \/ PollComplete

Next ==
    \/ vnet_init \/ vnet_open \/ vnet_stop \/ vnet_exit \/ StopDisable
    \/ vnet_start_xmit \/ Poll

(***************************************************************************)
(* Fairness: the NAPI softirq runs a scheduled poll and the poll runs to   *)
(* its end; a stop or rmmod that has begun continues.  Transmits, ifup,    *)
(* ifdown and rmmod are requests and are not fair.                         *)
(***************************************************************************)
Fairness == WF_vars(Poll) /\ WF_vars(StopDisable)

Spec == Init /\ [][Next]_vars /\ Fairness

-----------------------------------------------------------------------------
TypeOK ==
    /\ dev \in {"unloaded", "down", "up", "stopping", "exiting", "gone", "failed"}
    /\ rx_ring \in [Slots -> 0 .. MaxSend]
    /\ rx_head \in Slots /\ rx_tail \in Slots
    /\ napi \in {"off", "idle", "sched"} /\ missed \in BOOLEAN
    /\ poll_pc \in {"idle", "loop", "complete"} /\ processed \in 0 .. Budget
    /\ sent \in 0 .. MaxSend

(***************************************************************************)
(* The ring is a bounded FIFO of RX_RING_SIZE - 1 packets: under Contents, *)
(* every transmit, poll iteration and stop is a step of LoopbackFifo.  It  *)
(* is about the full and empty tests and the index arithmetic of           *)
(* rx_ring_enqueue() and rx_ring_dequeue(), and the reset in vnet_stop().  *)
(***************************************************************************)
Fifo == INSTANCE LoopbackFifo WITH Cap <- RX_RING_SIZE - 1, queue <- Contents

RingImplementsFifo == Fifo!Spec

(***************************************************************************)
(* No packet is stranded: while the device is up and a packet waits in the *)
(* ring, NAPI is scheduled, so a poll will come.  It is about the order of *)
(* vnet_poll()'s empty test, its budget exit and napi_complete_done()      *)
(* against a vnet_start_xmit() that enqueues in between.                   *)
(***************************************************************************)
NoStrandedPackets == (dev = "up" /\ ~rx_ring_empty) => napi = "sched"

(***************************************************************************)
(* Every queued packet is eventually taken off the ring: received by the   *)
(* poll, or freed by a stop.  It is about vnet_start_xmit() scheduling     *)
(* NAPI for what it queues.                                                *)
(***************************************************************************)
PacketsLeaveRing ==
    \A p \in 1 .. MaxSend :
        (\E i \in Slots : rx_ring[i] = p) ~> (\A i \in Slots : rx_ring[i] # p)
=============================================================================
