-------------------------------- MODULE UsbDemo --------------------------------
(***************************************************************************)
(* The USB demo driver, src/examples/part14/usb-device/usb_demo.c.         *)
(*                                                                         *)
(* Probe allocates struct usb_demo and registers a misc device.  Each open *)
(* file keeps the pointer in file->private_data.  read() and write() test  *)
(* dev->connected without the lock, then take io_mutex, test it again and  *)
(* do the bulk transfer.  Disconnect clears connected under io_mutex, then *)
(* deregisters the misc device and frees dev.  Nothing counts the open     *)
(* files, so a file may outlive dev.                                       *)
(*                                                                         *)
(* The critical sections under io_mutex are single actions.  A file that   *)
(* has passed the unlocked test but does not hold io_mutex yet is "read"   *)
(* or "write".  The bulk transfers and the user copies may fail, but they  *)
(* only change the return value, so they are not modelled.  A field of a   *)
(* freed struct reads as any value.                                        *)
(***************************************************************************)
EXTENDS Naturals

CONSTANTS Files   \* open file descriptions of /dev/usb_demo

VARIABLES
    stage,       \* "unbound", "failed", "probed", "cleared" or "gone"
    connected,   \* dev->connected
    registered,  \* the misc device is registered
    freed,       \* kfree(dev) has run
    pc           \* file -> "closed", "open", or "read"/"write" before mutex_lock

vars == <<stage, connected, registered, freed, pc>>

Init ==
    /\ stage = "unbound" /\ connected = FALSE /\ registered = FALSE /\ freed = FALSE
    /\ pc = [f \in Files |-> "closed"]

\* dev->connected as the code reads it: after kfree() the memory may hold
\* anything.
Connected == IF freed THEN BOOLEAN ELSE {connected}

\* usb_demo_probe(): the endpoint search, kmalloc() or misc_register() may
\* fail, and then dev and its buffers are freed; else the misc device is
\* registered with connected set.
usb_demo_probe ==
    /\ stage = "unbound"
    /\ \/ stage' = "probed" /\ connected' = TRUE /\ registered' = TRUE
          /\ UNCHANGED freed
       \/ stage' = "failed" /\ freed' = TRUE /\ UNCHANGED <<connected, registered>>
    /\ UNCHANGED pc

\* usb_demo_open(): misc_open() finds dev while the misc device is
\* registered; -ENODEV if it is no longer connected.
usb_demo_open(f) ==
    /\ registered /\ pc[f] = "closed"
    /\ pc' = [pc EXCEPT ![f] = IF connected THEN "open" ELSE "closed"]
    /\ UNCHANGED <<stage, connected, registered, freed>>

\* There is no release(): closing the file only drops the file.
Close(f) ==
    /\ pc[f] = "open"
    /\ pc' = [pc EXCEPT ![f] = "closed"]
    /\ UNCHANGED <<stage, connected, registered, freed>>

\* The unlocked test at the top of read() and write(): -ENODEV, or on to
\* mutex_lock().
EnterIo(f, op) ==
    /\ pc[f] = "open"
    /\ \E c \in Connected : pc' = [pc EXCEPT ![f] = IF c THEN op ELSE "open"]
    /\ UNCHANGED <<stage, connected, registered, freed>>

usb_demo_read(f) == EnterIo(f, "read")
usb_demo_write(f) == EnterIo(f, "write")

\* Under io_mutex: the second test, then the bulk transfer and the user
\* copy, and the unlock.  Which of them fails only changes the result.
IoLocked(f, op) ==
    /\ pc[f] = op
    /\ pc' = [pc EXCEPT ![f] = "open"]
    /\ UNCHANGED <<stage, connected, registered, freed>>

ReadLocked(f) == IoLocked(f, "read")
WriteLocked(f) == IoLocked(f, "write")

\* usb_demo_disconnect(), its first part: connected is cleared under
\* io_mutex, so it waits for the file in its critical section (which is
\* one action here).
DisconnectClear ==
    /\ stage = "probed"
    /\ stage' = "cleared" /\ connected' = FALSE
    /\ UNCHANGED <<registered, freed, pc>>

\* The rest: misc_deregister(), usb_set_intfdata(intf, NULL), and the
\* kfree() of the buffers and of dev.
DisconnectFree ==
    /\ stage = "cleared"
    /\ stage' = "gone" /\ registered' = FALSE /\ freed' = TRUE
    /\ UNCHANGED <<connected, pc>>

usb_demo_disconnect == DisconnectClear \/ DisconnectFree

\* The steps of a file operation, each of which reads or locks *dev.
DevAccess(f) ==
    \/ usb_demo_open(f) \/ usb_demo_read(f) \/ usb_demo_write(f)
    \/ ReadLocked(f) \/ WriteLocked(f)

Next ==
    \/ usb_demo_probe \/ usb_demo_disconnect
    \/ \E f \in Files : DevAccess(f) \/ Close(f)

Spec == Init /\ [][Next]_vars

-----------------------------------------------------------------------------
(***************************************************************************)
(* No file operation touches struct usb_demo once disconnect has freed it. *)
(* The header of usb_demo.c promises "proper disconnect handling", but     *)
(* read() and write() start from file->private_data, which disconnect      *)
(* leaves pointing at the freed struct: a file opened before the unplug    *)
(* reads dev->connected, and locks dev->io_mutex, in freed memory.         *)
(***************************************************************************)
NoUseAfterFree == [][\A f \in Files : DevAccess(f) => ~freed]_vars
================================================================================
