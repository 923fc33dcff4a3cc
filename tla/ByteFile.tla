------------------------------- MODULE ByteFile -------------------------------
(***************************************************************************)
(* What a device that stores bytes like a small file promises: a write of  *)
(* n bytes at position pos replaces those bytes, the file grows to cover   *)
(* them, a gap between the old end and pos reads as zero bytes, and the    *)
(* file never grows past Cap bytes.  Nothing ever shortens it.  A write    *)
(* that fails part way, its user buffer faulting after k bytes, leaves     *)
(* those k bytes and zeros after them up to n, within the file only, and   *)
(* the file's length as it was.  SimpleChar implements it.                 *)
(***************************************************************************)
EXTENDS Naturals, Sequences

CONSTANTS Cap, Chars

VARIABLE file  \* the bytes a read from position 0 returns, in order

Init == file = << >>

\* n bytes of x written at pos; bytes between the old end and pos are 0.
WriteAt(pos, n, x) ==
    LET len == IF Len(file) > pos + n THEN Len(file) ELSE pos + n
    IN file' = [i \in 1 .. len |->
                  IF pos < i /\ i <= pos + n THEN x
                  ELSE IF i <= Len(file) THEN file[i] ELSE 0]

\* The same write failing after k of its n bytes.
FailedWrite(pos, n, x) ==
    \E k \in 0 .. n - 1 :
        file' = [i \in 1 .. Len(file) |->
                   IF pos < i /\ i <= pos + k THEN x
                   ELSE IF pos + k < i /\ i <= pos + n THEN 0
                   ELSE file[i]]

Next ==
    \E pos \in 0 .. Cap - 1 : \E n \in 1 .. Cap - pos, x \in Chars :
        WriteAt(pos, n, x) \/ FailedWrite(pos, n, x)

Spec == Init /\ [][Next]_file
================================================================================
