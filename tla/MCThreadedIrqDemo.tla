------------------------ MODULE MCThreadedIrqDemo ------------------------
(* Instantiates ThreadedIrqDemo for TLC.  Samples are 0 and 1; the ring   *)
(* has 3 slots, so sequences of 5 operations wrap it and saturate its     *)
(* count.                                                                 *)
EXTENDS ThreadedIrqDemo

CONSTANTS w1, w2

OneWriter  == {w1}
TwoWriters == {w1, w2}
Samples    == {0, 1}
=============================================================================
