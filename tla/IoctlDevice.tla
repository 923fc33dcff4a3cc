----------------------------- MODULE IoctlDevice -----------------------------
(***************************************************************************)
(* The ioctl example device, src/examples/part3/ioctl-device/              *)
(* ioctl_device.c.  Processes read, write and ioctl one shared struct      *)
(* ioctl_device.  write() and every ioctl hold dev->lock; read() takes it  *)
(* only to count, and copies dev->name to the user without it.             *)
(*                                                                         *)
(* name is a byte array of NameSize bytes (32 in the code), 0 being NUL.   *)
(* write() copies the user's bytes with copy_from_user() in two chunks,    *)
(* the low half and then the rest, so a concurrent read can see a name     *)
(* half written: the copy is not atomic, and the unlocked read is a data   *)
(* race whose outcome is any mix of old and new bytes.  User buffers are   *)
(* count bytes of one character.  The statistics counters are only         *)
(* reported and are left out.                                              *)
(***************************************************************************)
EXTENDS Integers

CONSTANTS
    Procs,     \* processes using /dev/ioctl_example
    NameSize,  \* sizeof(dev->name)
    Chars,     \* the non-NUL bytes user buffers hold
    Counts,    \* byte counts passed to write() and lengths of config.name
    Speeds,    \* config.speed values passed to SET_CONFIG
    Modes,     \* config.mode values passed to SET_CONFIG
    Values     \* values passed to SET_VALUE

ASSUME NameSize >= 2 /\ NameSize % 2 = 0 /\ 0 \notin Chars

Min2(a, b) == IF a < b THEN a ELSE b

Index == 0 .. NameSize - 1
Half == NameSize \div 2
NUL == 0
NoRead == << >>

\* The errno values dev->last_error holds, negated as in the code.
EFAULT == -14
EINVAL == -22
ENOTTY == -25

VARIABLES
    speed, mode, value,  \* dev->speed, dev->mode, dev->value
    name,                \* dev->name: Index -> byte
    last_error,          \* dev->last_error: 0 or a negative errno
    dev_lock,            \* holder of dev->lock, or "none"
    op,                  \* process -> "idle", "read_copy" or "write_hi"
    wbuf,                \* process -> [count, char] of the write in progress
    got,                 \* process -> the string its last read() returned
    stored               \* process -> the names the device has held since its
                         \* last read() began

vars == <<speed, mode, value, name, last_error, dev_lock, op, wbuf, got, stored>>

\* The C string in a byte array: the bytes before the first NUL.
CStr(n) ==
    LET len == CHOOSE k \in 0 .. NameSize :
                  /\ \A j \in 0 .. k - 1 : n[j] # NUL
                  /\ k = NameSize \/ n[k] = NUL
    IN [j \in 1 .. len |-> n[j - 1]]

\* strscpy(dest, "default", 32) on a zeroed static struct.
DefaultName == [i \in Index |-> IF i < Half THEN CHOOSE c \in Chars : TRUE ELSE NUL]

Init ==
    /\ speed = 0 /\ mode = 0 /\ value = 0
    /\ name = DefaultName
    /\ last_error = 0
    /\ dev_lock = "none"
    /\ op = [p \in Procs |-> "idle"]
    /\ wbuf = [p \in Procs |-> [count |-> 0, char |-> NUL]]
    /\ got = [p \in Procs |-> NoRead]
    /\ stored = [p \in Procs |-> {}]

\* An update under dev->lock is complete: its name is one the device held,
\* recorded for the reads under way.
Stored(n) ==
    stored' = [q \in Procs |-> IF op[q] = "read_copy" THEN stored[q] \cup {CStr(n)}
                                                      ELSE stored[q]]

Idle(p) == op[p] = "idle" /\ dev_lock = "none"

\* ioctl_read(): read_count++ under dev->lock, which waits for a write or
\* an ioctl in progress ...
ioctl_read(p) ==
    /\ Idle(p)
    /\ op' = [op EXCEPT ![p] = "read_copy"]
    /\ stored' = [stored EXCEPT ![p] = {CStr(name)}]
    /\ UNCHANGED <<speed, mode, value, name, last_error, dev_lock, wbuf, got>>

\* ... then, after the unlock, copy_to_user() of the whole name.  A fault
\* returns -EFAULT and leaves the device alone, so only the copy is kept.
ReadCopy(p) ==
    /\ op[p] = "read_copy"
    /\ got' = [got EXCEPT ![p] = CStr(name)]
    /\ op' = [op EXCEPT ![p] = "idle"]
    /\ UNCHANGED <<speed, mode, value, name, last_error, dev_lock, wbuf, stored>>

(***************************************************************************)
(* Mutants: plausible slips in the definitions below.                      *)
(***************************************************************************)
\* ioctl_write() clamping the count to sizeof(dev->name), one too many
\* (its second half).
MutWriteClampSize(p) ==
    /\ op[p] = "write_hi"
    /\ LET n == Min2(wbuf[p].count, NameSize)
           copied(x) == [i \in Index |-> IF Half <= i /\ i < n THEN x ELSE name[i]]
       IN \/ /\ wbuf[p].char # NUL
             /\ name' = [copied(wbuf[p].char) EXCEPT ![n] = NUL]
             /\ UNCHANGED last_error
          \/ /\ name' = copied(NUL)
             /\ last_error' = EFAULT
    /\ Stored(name')
    /\ op' = [op EXCEPT ![p] = "idle"]
    /\ dev_lock' = "none"
    /\ UNCHANGED <<speed, mode, value, wbuf, got>>

(***************************************************************************)
(* ioctl_write(): under dev->lock, count is clamped to sizeof(name) - 1    *)
(* and copy_from_user() fills the low half first.  A user buffer that      *)
(* faults is copied as NUL bytes, which is what copy_from_user() leaves in *)
(* the bytes it could not copy.                                            *)
(***************************************************************************)
ioctl_write(p) ==
    /\ Idle(p)
    /\ \E c \in Counts, x \in Chars \cup {NUL} :
          LET n == Min2(c, NameSize - 1) IN
          /\ wbuf' = [wbuf EXCEPT ![p] = [count |-> c, char |-> x]]
          /\ name' = [i \in Index |-> IF i < Half /\ i < n THEN x ELSE name[i]]
    /\ dev_lock' = p
    /\ op' = [op EXCEPT ![p] = "write_hi"]
    /\ UNCHANGED <<speed, mode, value, last_error, got, stored>>

\* The rest of the copy, then name[count] = '\0' and the unlock; or the
\* copy faults, here or before, and write() fails with -EFAULT.
WriteHi(p) ==
    /\ op[p] = "write_hi"
    /\ LET n == Min2(wbuf[p].count, NameSize - 1)
           copied(x) == [i \in Index |-> IF Half <= i /\ i < n THEN x ELSE name[i]]
       IN \/ /\ wbuf[p].char # NUL
             /\ name' = [copied(wbuf[p].char) EXCEPT ![n] = NUL]
             /\ UNCHANGED last_error
          \/ /\ name' = copied(NUL)
             /\ last_error' = EFAULT
    /\ Stored(name')
    /\ op' = [op EXCEPT ![p] = "idle"]
    /\ dev_lock' = "none"
    /\ UNCHANGED <<speed, mode, value, wbuf, got>>

\* The ioctls below run under dev->lock from start to end.  A command with
\* the wrong magic or a number above IOCTL_MAXNR returns -ENOTTY before it
\* takes the lock and changes nothing.
Ioctl(p) == Idle(p) /\ UNCHANGED <<dev_lock, op, wbuf, got>>

\* A failing copy from or to the user: dev->last_error = err.
Fail(err) == last_error' = err /\ UNCHANGED <<speed, mode, value, name, stored>>

\* IOCTL_RESET: everything to 0 and the name cleared.
ioctl_reset(p) ==
    /\ Ioctl(p)
    /\ speed' = 0 /\ mode' = 0 /\ value' = 0
    /\ name' = [i \in Index |-> NUL]
    /\ last_error' = 0
    /\ Stored(name')

\* IOCTL_GET_STATS and IOCTL_GET_VALUE: only a fault changes the device.
ioctl_get(p) ==
    /\ Ioctl(p)
    /\ Fail(EFAULT)

(***************************************************************************)
(* IOCTL_SET_CONFIG that checks mode < 0 but not mode > 3.                 *)
(***************************************************************************)
MutSetConfigNoModeMax(p) ==
    /\ Ioctl(p)
    /\ \E s \in Speeds, m \in Modes, l \in Counts, x \in Chars :
          \/ Fail(EFAULT)
          \/ (s < 0 \/ s > 1000) /\ Fail(EINVAL)
          \/ ~(s < 0 \/ s > 1000) /\ m < 0 /\ Fail(EINVAL)
          \/ /\ ~(s < 0 \/ s > 1000 \/ m < 0)
             /\ speed' = s /\ mode' = m
             /\ LET n == Min2(l, NameSize - 1) IN
                  name' = [i \in Index |-> IF i < n THEN x ELSE IF i = n THEN NUL ELSE name[i]]
             /\ Stored(name')
             /\ UNCHANGED <<value, last_error>>

(***************************************************************************)
(* IOCTL_SET_CONFIG: copy_from_user() may fault; speed must be in          *)
(* 0 .. 1000 and mode in 0 .. 3, or -EINVAL; then speed, mode and          *)
(* strscpy() of config.name, l bytes of x, at most sizeof - 1 of them.     *)
(***************************************************************************)
ioctl_set_config(p) ==
    /\ Ioctl(p)
    /\ \E s \in Speeds, m \in Modes, l \in Counts, x \in Chars :
          \/ Fail(EFAULT)
          \/ (s < 0 \/ s > 1000) /\ Fail(EINVAL)
          \/ ~(s < 0 \/ s > 1000) /\ (m < 0 \/ m > 3) /\ Fail(EINVAL)
          \/ /\ ~(s < 0 \/ s > 1000 \/ m < 0 \/ m > 3)
             /\ speed' = s /\ mode' = m
             /\ LET n == Min2(l, NameSize - 1) IN
                  name' = [i \in Index |-> IF i < n THEN x ELSE IF i = n THEN NUL ELSE name[i]]
             /\ Stored(name')
             /\ UNCHANGED <<value, last_error>>

\* IOCTL_SET_VALUE: get_user() may fault.
ioctl_set_value(p) ==
    /\ Ioctl(p)
    /\ \/ Fail(EFAULT)
       \/ \E v \in Values : value' = v /\ UNCHANGED <<speed, mode, name, last_error, stored>>

\* IOCTL_XFER_CONFIG reads the device into the user's struct; either copy
\* may fault.  A command number that no case matches is -ENOTTY.
ioctl_xfer_or_unknown(p) ==
    /\ Ioctl(p)
    /\ Fail(EFAULT) \/ Fail(ENOTTY)

Proc(p) ==
    \/ ioctl_read(p) \/ ReadCopy(p) \/ ioctl_write(p) \/ WriteHi(p)
    \/ ioctl_reset(p) \/ ioctl_get(p) \/ ioctl_set_config(p)
    \/ ioctl_set_value(p) \/ ioctl_xfer_or_unknown(p)

Next == \E p \in Procs : Proc(p)

\* A process inside read() or write() runs on to its return.
Spec == Init /\ [][Next]_vars /\ \A p \in Procs : WF_vars(WriteHi(p) \/ ReadCopy(p))

-----------------------------------------------------------------------------
(***************************************************************************)
(* The configuration is always valid: speed in 0 .. 1000, mode in 0 .. 3,  *)
(* whatever SET_CONFIG is asked, failed or not.  It is about the range     *)
(* checks of IOCTL_SET_CONFIG and their order against the stores.          *)
(***************************************************************************)
ConfigValid == speed \in 0 .. 1000 /\ mode \in 0 .. 3

(***************************************************************************)
(* The last byte of dev->name is always NUL, whatever sequence of writes,  *)
(* faulting writes, SET_CONFIG and RESET came before, so the name is a C   *)
(* string that read(), XFER_CONFIG and the log can rely on.  It is about   *)
(* the count clamp in ioctl_write() and the size passed to strscpy().      *)
(***************************************************************************)
NameTerminated == name[NameSize - 1] = NUL

(***************************************************************************)
(* A read returns a name the device held: the string read() returns is     *)
(* the name when it began, or one that a write, SET_CONFIG or RESET left   *)
(* in dev->name while it ran.  It                                          *)
(* is about ioctl_read() copying dev->name without dev->lock.              *)
(***************************************************************************)
ReadSeesStoredName == \A p \in Procs : got[p] = NoRead \/ got[p] \in stored[p]
=============================================================================
