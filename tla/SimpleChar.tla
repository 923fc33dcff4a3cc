------------------------------ MODULE SimpleChar ------------------------------
(***************************************************************************)
(* The simple character device, src/examples/part3/simple-char/           *)
(* simple_char.c: a BUFFER_SIZE-byte buffer whose first size bytes hold    *)
(* data, shared by every open file, each with its own position f_pos.      *)
(* read(), write() and llseek() each run under dev->lock from start to     *)
(* end, so each is one action.  A write's user buffer is count bytes of    *)
(* one character.  Init and exit only register the device and are left    *)
(* out; the buffer starts zeroed, as the static struct does.               *)
(***************************************************************************)
EXTENDS Integers

CONSTANTS
    Files,        \* open files of /dev/simple_char
    BUFFER_SIZE,  \* the buffer's size (4096 in the code)
    Chars,        \* the non-zero bytes user buffers hold
    Counts,       \* byte counts passed to read() and write()
    Offsets,      \* offsets passed to llseek()
    MaxPos,       \* bound: no llseek() beyond this position is explored
    WriteFaults   \* whether a write's copy_from_user() may fault part way

ASSUME MaxPos >= BUFFER_SIZE /\ 0 \notin Chars

Slots == 0 .. BUFFER_SIZE - 1
Lesser(a, b) == IF a < b THEN a ELSE b

VARIABLES
    buffer,  \* dev->buffer: Slots -> byte
    size,    \* dev->size
    f_pos    \* file -> its position, *ppos and file->f_pos

vars == <<buffer, size, f_pos>>

Init ==
    /\ buffer = [i \in Slots |-> 0]
    /\ size = 0
    /\ f_pos = [f \in Files |-> 0]

\* schar_read(): at or past size it is EOF; else count is clamped to the
\* data left and the position advances.
schar_read(f) ==
    /\ f_pos[f] < size
    /\ \E c \in Counts : f_pos' = [f_pos EXCEPT ![f] = @ + Lesser(c, size - @)]
    /\ UNCHANGED <<buffer, size>>

(***************************************************************************)
(* Mutants: plausible slips in the definitions below.                      *)
(***************************************************************************)
\* schar_write() that sets size to the new position without comparing.
MutWriteSizeAlways(f) ==
    /\ f_pos[f] < BUFFER_SIZE
    /\ \E c \in Counts, x \in Chars :
          LET pos == f_pos[f]
              n == Lesser(c, BUFFER_SIZE - pos)
          IN /\ buffer' = [i \in Slots |-> IF pos <= i /\ i < pos + n THEN x ELSE buffer[i]]
             /\ f_pos' = [f_pos EXCEPT ![f] = pos + n]
             /\ size' = pos + n

(***************************************************************************)
(* schar_write(): -ENOSPC at or past BUFFER_SIZE; count clamped to the     *)
(* space left; copy_from_user() into the buffer at *ppos; then the         *)
(* position advances and size grows to cover it.  A copy that faults      *)
(* after k bytes leaves those k bytes, zeroes the rest of the count, as    *)
(* copy_from_user() does, and returns -EFAULT with position and size as    *)
(* they were.                                                              *)
(***************************************************************************)
schar_write(f) ==
    /\ f_pos[f] < BUFFER_SIZE
    /\ \E c \in Counts, x \in Chars :
          LET pos == f_pos[f]
              n == Lesser(c, BUFFER_SIZE - pos)
          IN \/ /\ buffer' = [i \in Slots |-> IF pos <= i /\ i < pos + n THEN x ELSE buffer[i]]
                /\ f_pos' = [f_pos EXCEPT ![f] = pos + n]
                /\ size' = IF pos + n > size THEN pos + n ELSE size
             \/ /\ WriteFaults
                /\ \E k \in 0 .. n - 1 :
                      buffer' = [i \in Slots |->
                                   IF pos <= i /\ i < pos + k THEN x
                                   ELSE IF pos + k <= i /\ i < pos + n THEN 0
                                   ELSE buffer[i]]
                /\ UNCHANGED <<size, f_pos>>

\* simple_llseek() that accepts a negative position.
MutLlseekNoNegCheck(f) ==
    /\ \E off \in Offsets, base \in {0, f_pos[f], size} :
          /\ base + off <= MaxPos
          /\ f_pos' = [f_pos EXCEPT ![f] = base + off]
    /\ UNCHANGED <<buffer, size>>

(***************************************************************************)
(* simple_llseek(): the new position is offset from 0 (SEEK_SET), from     *)
(* f_pos (SEEK_CUR) or from size (SEEK_END); a negative one, or another    *)
(* whence, is -EINVAL and changes nothing.  Nothing bounds it above.       *)
(***************************************************************************)
simple_llseek(f) ==
    /\ \E off \in Offsets, base \in {0, f_pos[f], size} :
          /\ base + off >= 0
          /\ base + off <= MaxPos
          /\ f_pos' = [f_pos EXCEPT ![f] = base + off]
    /\ UNCHANGED <<buffer, size>>

Next == \E f \in Files : schar_read(f) \/ schar_write(f) \/ simple_llseek(f)

Spec == Init /\ [][Next]_vars

-----------------------------------------------------------------------------
\* Every position is one read() and write() can index from: never negative,
\* which is the check in simple_llseek().
TypeOK ==
    /\ buffer \in [Slots -> Chars \cup {0}]
    /\ size \in 0 .. BUFFER_SIZE
    /\ f_pos \in [Files -> 0 .. MaxPos]

(***************************************************************************)
(* The device behaves as a file: read from 0, its first size bytes change  *)
(* only as a ByteFile write allows, so a write past the end reads back a   *)
(* zero-filled gap, and no write shortens the data.  It is about the size  *)
(* update in schar_write() and what its copy leaves beyond size.           *)
(***************************************************************************)
Contents == [i \in 1 .. size |-> buffer[i - 1]]

File == INSTANCE ByteFile WITH Cap <- BUFFER_SIZE, file <- Contents

RefinesByteFile == File!Spec
=============================================================================
