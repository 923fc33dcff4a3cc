------------------------------ MODULE PlatformDemo ------------------------------
(***************************************************************************)
(* The platform driver demo, src/examples/part6/platform-driver/          *)
(* platform_driver_demo.c, with the clock and the runtime PM core it uses. *)
(*                                                                         *)
(* Probe takes an optional clock, prepares and enables it, hands its       *)
(* disable and unprepare to devm, and enables runtime PM, leaving the      *)
(* device's runtime status "suspended" as the core initialises it.  The    *)
(* runtime PM callbacks disable and enable the clock.  Nothing in the      *)
(* driver takes a runtime PM reference: the device is resumed only by the *)
(* user writing "on" to power/control (pm_runtime_forbid()) and by the     *)
(* driver core, which holds a reference across the start of an unbind.    *)
(* The unbind is the driver core's __device_release_driver(): get_sync,    *)
(* put_sync, remove(), the devm release, and pm_runtime_reinit(), which    *)
(* marks the device suspended without calling the driver.                  *)
(*                                                                         *)
(* The sysfs attributes value, mode and enabled are data no property tells *)
(* apart, and the system sleep callbacks change nothing: they are left     *)
(* out.  The runtime PM core is modelled from its documented behaviour.    *)
(***************************************************************************)
EXTENDS Naturals

VARIABLES
    stage,      \* "unbound", "failed", "probed", "unbinding", "putdone" or "removed"
    clk,        \* demo->clk is a clock (not NULL)
    prepared,   \* the clock's prepare count
    enables,    \* the clock's enable count
    rpm,        \* dev->power.runtime_status: "suspended" or "active"
    rpm_error,  \* dev->power.runtime_error is set
    usage,      \* dev->power.usage_count
    forbidden,  \* power/control is "on"
    rpm_on      \* runtime PM is enabled (disable_depth is 0)

vars == <<stage, clk, prepared, enables, rpm, rpm_error, usage, forbidden, rpm_on>>
clock == <<clk, prepared, enables>>
pm == <<rpm, rpm_error, usage, forbidden, rpm_on>>

\* The device exists before the driver binds; the PM core has initialised
\* its runtime status to suspended with runtime PM disabled.
Init ==
    /\ stage = "unbound" /\ clk = FALSE /\ prepared = 0 /\ enables = 0
    /\ rpm = "suspended" /\ rpm_error = FALSE /\ usage = 0
    /\ forbidden = FALSE /\ rpm_on = FALSE

\* platform_demo_probe(): the variant always matches; devm_kzalloc() may
\* fail.  devm_clk_get_optional() gives NULL, a clock, or an error.  For a
\* clock, clk_prepare_enable() may fail (and then leaves it unprepared),
\* and devm_add_action_or_reset() may fail, running clk_disable_unprepare()
\* at once.  On success pm_runtime_enable() runs last.
platform_demo_probe ==
    /\ stage = "unbound"
    /\ \/ /\ stage' = "failed"
          /\ UNCHANGED <<clock, pm>>
       \/ /\ stage' = "probed" /\ clk' = FALSE /\ rpm_on' = TRUE
          /\ UNCHANGED <<prepared, enables, rpm, rpm_error, usage, forbidden>>
       \/ /\ stage' = "probed" /\ clk' = TRUE /\ rpm_on' = TRUE
          /\ prepared' = prepared + 1 /\ enables' = enables + 1
          /\ UNCHANGED <<rpm, rpm_error, usage, forbidden>>

\* platform_demo_runtime_suspend(): clk_disable() when there is a clock.
platform_demo_runtime_suspend ==
    /\ rpm' = "suspended"
    /\ enables' = IF clk THEN enables - 1 ELSE enables
    /\ UNCHANGED <<clk, prepared, rpm_error>>

\* platform_demo_runtime_resume(): clk_enable() when there is a clock; if it
\* fails the error is returned, and the core keeps the device suspended
\* with runtime_error set, which fails every later transition.
platform_demo_runtime_resume ==
    /\ \/ /\ rpm' = "active"
          /\ enables' = IF clk THEN enables + 1 ELSE enables
          /\ UNCHANGED rpm_error
       \/ /\ clk /\ rpm_error' = TRUE
          /\ UNCHANGED <<rpm, enables>>
    /\ UNCHANGED <<clk, prepared>>

\* rpm_resume() and rpm_suspend(): the callback runs only while runtime PM
\* is enabled, with no error, from the other status; else nothing changes.
CanTransit(from) == rpm_on /\ ~rpm_error /\ rpm = from

Resume ==
    IF CanTransit("suspended")
    THEN platform_demo_runtime_resume
    ELSE UNCHANGED <<clock, rpm, rpm_error>>

\* rpm_idle() with no idle callback suspends once the count is 0 and the
\* user allows runtime PM.
IdleSuspend(count, forbid) ==
    IF CanTransit("active") /\ count = 0 /\ ~forbid
    THEN platform_demo_runtime_suspend
    ELSE UNCHANGED <<clock, rpm, rpm_error>>

\* The user writes "on" to power/control: pm_runtime_forbid() takes a
\* reference and resumes the device.
Forbid ==
    /\ ~forbidden
    /\ forbidden' = TRUE /\ usage' = usage + 1
    /\ Resume
    /\ UNCHANGED <<stage, rpm_on>>

\* The user writes "auto": pm_runtime_allow() drops the reference and
\* lets the device idle.
Allow ==
    /\ forbidden
    /\ forbidden' = FALSE /\ usage' = usage - 1
    /\ IdleSuspend(usage - 1, FALSE)
    /\ UNCHANGED <<stage, rpm_on>>

\* Unbind, its first step: pm_runtime_get_sync() resumes the device.
UnbindGet ==
    /\ stage = "probed"
    /\ stage' = "unbinding" /\ usage' = usage + 1
    /\ Resume
    /\ UNCHANGED <<forbidden, rpm_on>>

\* Then pm_runtime_put_sync(), platform_demo_remove() with
\* pm_runtime_disable(), the devm release of the clock action, and
\* pm_runtime_reinit().  The device lock is held throughout, but
\* power/control is not under it, so the user may write it between the put
\* and the rest.
UnbindPut ==
    /\ stage = "unbinding" /\ usage > 0
    /\ usage' = usage - 1
    /\ IdleSuspend(usage - 1, forbidden)
    /\ stage' = "putdone"
    /\ UNCHANGED <<forbidden, rpm_on>>

platform_demo_remove ==
    /\ stage = "putdone"
    /\ stage' = "removed" /\ rpm_on' = FALSE /\ rpm' = "suspended"
    /\ prepared' = IF clk THEN prepared - 1 ELSE prepared
    /\ enables' = IF clk THEN enables - 1 ELSE enables
    /\ UNCHANGED <<clk, rpm_error, usage, forbidden>>

Next ==
    \/ platform_demo_probe \/ Forbid \/ Allow
    \/ UnbindGet \/ UnbindPut \/ platform_demo_remove

Spec == Init /\ [][Next]_vars

-----------------------------------------------------------------------------
(***************************************************************************)
(* Once the driver is unbound, the clock it took is fully released:        *)
(* neither enabled nor prepared.  It is about the devm action undoing      *)
(* only probe's clk_prepare_enable(), while runtime resume enables the     *)
(* clock again: whatever enable the runtime PM state still holds when      *)
(* remove() disables runtime PM must have been dropped by then.            *)
(***************************************************************************)
ClockReleased == stage = "removed" => enables = 0 /\ prepared = 0
================================================================================
