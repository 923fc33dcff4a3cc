-------------------------------- MODULE PmDemo --------------------------------
(***************************************************************************)
(* The power management demo, src/examples/part16/pm-driver/pm_demo.c,    *)
(* with the runtime PM core it drives.  Users read and write the sysfs     *)
(* attribute "data" concurrently; each access takes a usage reference with *)
(* pm_runtime_get_sync(), which resumes the device if it is suspended, and *)
(* drops it with pm_runtime_put_autosuspend(), which arms the autosuspend  *)
(* timer once the count is 0.  When the timer expires with the count still *)
(* 0, the core calls pm_demo_runtime_suspend(), which powers the device    *)
(* off.  The autosuspend delay is abstract: the timer may expire at any    *)
(* point after it is armed.  The resume callback cannot fail, so neither   *)
(* can pm_runtime_get_sync() while runtime PM is enabled, and sysfs is     *)
(* gone before remove() disables it: the error paths are never taken.      *)
(* The values stored and the access counter are data no property tells     *)
(* apart and are left out; the system sleep callbacks change nothing.      *)
(***************************************************************************)
EXTENDS Naturals, FiniteSets

CONSTANT Users  \* processes reading or writing /sys/.../pm_demo.0/data

VARIABLES
    usage,    \* dev->power.usage_count
    status,   \* dev->power.runtime_status: "active" or "suspended"
    timer,    \* the autosuspend timer is armed
    enabled,  \* runtime PM enabled: from probe until remove
    powered,  \* pmdev->powered
    pc        \* user -> "idle", or where it is in pm_demo_hw_read/write

vars == <<usage, status, timer, enabled, powered, pc>>

\* pm_demo_probe(): powered, set_active, enable; the driver core then
\* requests idle, which with autosuspend arms the timer.
Init ==
    /\ usage = 0 /\ status = "active" /\ timer = TRUE /\ enabled = TRUE
    /\ powered = TRUE
    /\ pc = [u \in Users |-> "idle"]

\* pm_runtime_get_sync(): take a reference and resume the device if it is
\* suspended, pm_demo_runtime_resume() powering it on.
GetSync(u, next) ==
    /\ pc[u] = "idle" /\ enabled
    /\ usage' = usage + 1
    /\ status' = "active"
    /\ powered' = IF status = "suspended" THEN TRUE ELSE powered
    /\ pc' = [pc EXCEPT ![u] = next]
    /\ UNCHANGED <<timer, enabled>>

(***************************************************************************)
(* Mutants: plausible slips in the definitions below.                      *)
(***************************************************************************)
\* A put with pm_runtime_put_noidle(): the count drops, nothing is armed.
MutPutNoIdle(u, next) ==
    /\ usage' = usage - 1
    /\ pc' = [pc EXCEPT ![u] = next]
    /\ UNCHANGED <<status, timer, enabled, powered>>

\* pm_runtime_mark_last_busy() and pm_runtime_put_autosuspend(): drop the
\* reference and, at 0, arm the autosuspend timer.
PutAutosuspend(u, next) ==
    /\ usage' = usage - 1
    /\ timer' = (timer \/ usage = 1)
    /\ pc' = [pc EXCEPT ![u] = next]
    /\ UNCHANGED <<status, enabled, powered>>

\* data_show() calls pm_demo_hw_read(), data_store() pm_demo_hw_write()
\* once kstrtou32() has parsed the value.
data_show(u) == GetSync(u, "read")
data_store(u) == GetSync(u, "write")

\* pm_demo_hw_read(): access_count++, then the put ...
ReadPut(u) == pc[u] = "read" /\ PutAutosuspend(u, "read_ret")

\* ... and return pmdev->saved_data, read after the put.
ReadRet(u) ==
    /\ pc[u] = "read_ret"
    /\ pc' = [pc EXCEPT ![u] = "idle"]
    /\ UNCHANGED <<usage, status, timer, enabled, powered>>

\* A write that returns without its put.
MutWriteNoPut(u) ==
    /\ pc[u] = "write"
    /\ pc' = [pc EXCEPT ![u] = "idle"]
    /\ UNCHANGED <<usage, status, timer, enabled, powered>>

\* pm_demo_hw_write(): saved_data = value, access_count++, then the put.
WriteDone(u) == pc[u] = "write" /\ PutAutosuspend(u, "idle")

\* The autosuspend timer expires: rpm_suspend() calls
\* pm_demo_runtime_suspend() if the count is still 0, else gives up.
Autosuspend ==
    /\ timer
    /\ timer' = FALSE
    /\ IF usage = 0 /\ status = "active"
          THEN status' = "suspended" /\ powered' = FALSE
          ELSE UNCHANGED <<status, powered>>
    /\ UNCHANGED <<usage, enabled, pc>>

\* pm_demo_remove(), once sysfs has drained: pm_runtime_disable() cancels
\* the timer.
pm_demo_remove ==
    /\ enabled /\ \A u \in Users : pc[u] = "idle"
    /\ enabled' = FALSE /\ timer' = FALSE
    /\ UNCHANGED <<usage, status, powered, pc>>

Next ==
    \/ Autosuspend \/ pm_demo_remove
    \/ \E u \in Users :
          data_show(u) \/ ReadPut(u) \/ ReadRet(u) \/ data_store(u) \/ WriteDone(u)

\* The timer expires, and a user inside an access finishes it; starting an
\* access and removing the device are requests.
Spec ==
    Init /\ [][Next]_vars
    /\ WF_vars(Autosuspend)
    /\ \A u \in Users : WF_vars(ReadPut(u) \/ ReadRet(u) \/ WriteDone(u))

-----------------------------------------------------------------------------
\* Runtime PM enabled, active, and no reference held; and what ends that.
IdleActive == enabled /\ usage = 0 /\ status = "active"
IdleLeft == status = "suspended" \/ usage > 0 \/ ~enabled

(***************************************************************************)
(* The usage count is balanced: it is the number of users between their    *)
(* pm_runtime_get_sync() and their put, however reads and writes          *)
(* interleave.  It is about every path of pm_demo_hw_read/write pairing    *)
(* its get with one put.                                                   *)
(***************************************************************************)
UsageBalanced == usage = Cardinality({u \in Users : pc[u] \in {"read", "write"}})

(***************************************************************************)
(* An idle device powers off: once no user holds a reference, the device   *)
(* is eventually suspended, unless a user takes a reference again or the   *)
(* device is removed.  It is about the put arming autosuspend at 0.        *)
(***************************************************************************)
IdleSuspends == IdleActive ~> IdleLeft

(***************************************************************************)
(* The hardware is accessed only while powered: a user at a point where it *)
(* reads or writes the (simulated) registers finds the device powered, as  *)
(* the comment "Ensure device is powered before access" in                 *)
(* pm_demo_hw_read() says.  It is about where saved_data is read.          *)
(***************************************************************************)
PoweredForAccess == \A u \in Users : pc[u] \in {"read", "write", "read_ret"} => powered
=============================================================================
