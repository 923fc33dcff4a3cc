------------------------------ MODULE FlashFile ------------------------------
(***************************************************************************)
(* What a small flash device behind a character device promises to its     *)
(* open files.  The memory is Size bytes, programmed in pages of Page      *)
(* bytes and erased in sectors of Sector bytes; Erased is an erased byte.  *)
(* Each open file has a position.  A read or write asks for one of Counts  *)
(* bytes, cut short at the end of the memory.  A write moves the position  *)
(* only when every byte is written.  A failed write leaves a prefix of its *)
(* bytes written, and that prefix ends at a page boundary or at the end of *)
(* the write, since the device programs whole page pieces.  A read moves   *)
(* the position; an erase of a sector erases all of it or leaves it.       *)
(* SpiFlash implements it.                                                 *)
(***************************************************************************)
EXTENDS Naturals

CONSTANTS Files, Size, Page, Sector, Chars, Erased, Counts

Addrs == 0 .. Size - 1
Least(a, b) == IF a < b THEN a ELSE b

VARIABLES
    mem,  \* Addrs -> byte
    pos   \* file -> position

Init ==
    /\ mem = [a \in Addrs |-> Erased]
    /\ pos = [f \in Files |-> 0]

\* The addresses where a failed write of n bytes at p may stop.
Stops(p, n) == {p} \cup {b \in p + 1 .. p + n : b % Page = 0 \/ b = p + n}

\* mem with the addresses lo .. hi - 1 set to x.
Filled(lo, hi, x) == [a \in Addrs |-> IF lo <= a /\ a < hi THEN x ELSE mem[a]]

Write(f) ==
    /\ pos[f] < Size
    /\ \E n \in Counts, x \in Chars :
          LET c == Least(n, Size - pos[f]) IN
          \/ mem' = Filled(pos[f], pos[f] + c, x)
             /\ pos' = [pos EXCEPT ![f] = @ + c]
          \/ \E b \in Stops(pos[f], c) : mem' = Filled(pos[f], b, x)
             /\ UNCHANGED pos

Read(f) ==
    /\ pos[f] < Size
    /\ \E n \in Counts : pos' = [pos EXCEPT ![f] = @ + Least(n, Size - @)]
    /\ UNCHANGED mem

Erase(s) ==
    /\ mem' = [a \in Addrs |-> IF s <= a /\ a < s + Sector THEN Erased ELSE mem[a]]
    /\ UNCHANGED pos

Seek(f) == \E p \in 0 .. Size : pos' = [pos EXCEPT ![f] = p] /\ UNCHANGED mem

Next ==
    \/ \E f \in Files : Write(f) \/ Read(f) \/ Seek(f)
    \/ \E s \in {a \in Addrs : a % Sector = 0} : Erase(s)

Spec == Init /\ [][Next]_<<mem, pos>>
================================================================================
