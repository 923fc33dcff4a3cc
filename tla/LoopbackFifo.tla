----------------------------- MODULE LoopbackFifo -----------------------------
(***************************************************************************)
(* What a loopback device with a bounded receive queue promises: every     *)
(* transmitted packet is either lost on the way (no memory for the copy),  *)
(* dropped because Cap packets already wait, or queued behind the ones     *)
(* sent before it.  Packets leave the queue in the order they were queued, *)
(* and taking the device down discards what is still queued.  Packets are  *)
(* numbered in the order they are sent.  VnetDemo's rx ring implements it. *)
(***************************************************************************)
EXTENDS Sequences, Naturals

CONSTANTS Cap, MaxSend

ASSUME Cap \in Nat \ {0} /\ MaxSend \in Nat

VARIABLES
    queue,  \* packets waiting to be received, oldest first
    sent    \* packets transmitted so far

Init == queue = << >> /\ sent = 0

\* A packet is handed to the device: queued if there is room, else dropped.
Transmit ==
    /\ sent < MaxSend
    /\ sent' = sent + 1
    /\ queue' = IF Len(queue) < Cap THEN Append(queue, sent + 1) ELSE queue

\* A packet is handed to the device and lost before it reaches the queue.
Lose == sent < MaxSend /\ sent' = sent + 1 /\ UNCHANGED queue

\* The oldest waiting packet is received.
Receive == queue # << >> /\ queue' = Tail(queue) /\ UNCHANGED sent

\* The device is taken down; waiting packets are discarded.
Discard == queue' = << >> /\ UNCHANGED sent

Next == Transmit \/ Lose \/ Receive \/ Discard

Spec == Init /\ [][Next]_<<queue, sent>>
================================================================================
