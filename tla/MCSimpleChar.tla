---------------------------- MODULE MCSimpleChar ----------------------------
(***************************************************************************)
(* A small instance of SimpleChar: a 4-byte buffer, counts and offsets     *)
(* that cross the end of the data and of the buffer.                       *)
(***************************************************************************)
EXTENDS SimpleChar

CONSTANTS f1, f2

TwoFiles == {f1, f2}
EdgeOffsets == {-1, 1, 5}  \* before the start, inside, past the buffer
=============================================================================
