-------------------------------- MODULE RtcDemo --------------------------------
(***************************************************************************)
(* The RTC demo driver, src/examples/part11/rtc-driver/rtc_demo.c.         *)
(*                                                                         *)
(* The clock is software: wall is demo_rtc_get_time64(), base_time plus    *)
(* the seconds since base_ktime.  The alarm is a timer_list armed for the  *)
(* seconds to the alarm time; left is the seconds it still has to run.     *)
(* The rtc core calls the class ops one at a time (rtc->ops_lock), and     *)
(* each runs under drtc->lock, so each op is one action.  The alarm        *)
(* callback takes no lock, but the ops wait for it in del_timer_sync(), so *)
(* it is one action too.                                                   *)
(*                                                                         *)
(* Time is in seconds up to MaxWall; past it wall stays at MaxWall, which  *)
(* compares the same with every alarm time, as alarm times are at most    *)
(* MaxWall.                                                                *)
(***************************************************************************)
EXTENDS Naturals

CONSTANTS
    MaxWall,           \* the largest RTC time modelled
    SetTimes,          \* times passed to set_time()
    AlarmTimes,        \* alarm times passed to set_alarm()
    OpsDuringRemove    \* whether the core may call an op after remove()

ASSUME SetTimes \cup AlarmTimes \subseteq 0 .. MaxWall

VARIABLES
    stage,            \* "unloaded", "failed", "nodev", "probed", "removed" or "gone"
    wall,             \* demo_rtc_get_time64()
    armed, left,      \* alarm_timer is pending, and the seconds until it fires
    alarm_time, alarm_enabled, alarm_pending

vars == <<stage, wall, armed, left, alarm_time, alarm_enabled, alarm_pending>>
alarm == <<armed, left, alarm_time, alarm_enabled, alarm_pending>>

Init ==
    /\ stage = "unloaded" /\ wall = 0
    /\ armed = FALSE /\ left = 0
    /\ alarm_time = 0 /\ alarm_enabled = FALSE /\ alarm_pending = FALSE

\* demo_rtc_init(): platform_driver_register() or the device may fail;
\* else demo_rtc_probe() runs: devm_kzalloc(), devm_rtc_allocate_device() or
\* devm_rtc_register_device() may fail and leave the device unbound.  The
\* clock starts at the system time.
demo_rtc_init ==
    /\ stage = "unloaded"
    /\ stage' \in {"failed", "nodev", "probed"}
    /\ \E t \in SetTimes : wall' = t
    /\ UNCHANGED alarm

\* The class ops are called while the rtc device is registered: from probe
\* until the devm release after remove().
Op(A) == (stage = "probed" \/ (OpsDuringRemove /\ stage = "removed")) /\ A

\* mod_timer(&alarm_timer, jiffies + (t - wall) * HZ).
Arm(t) == armed' = TRUE /\ left' = t - wall

demo_rtc_set_time(t) == Op(
    /\ wall' = t
    /\ UNCHANGED <<stage, alarm>>)

\* del_timer_sync(), the new alarm, and the timer armed if the alarm is
\* enabled and still in the future.
demo_rtc_set_alarm(t, enabled) == Op(
    /\ alarm_pending' = FALSE /\ alarm_time' = t /\ alarm_enabled' = enabled
    /\ IF enabled /\ t > wall THEN Arm(t) ELSE armed' = FALSE /\ left' = 0
    /\ UNCHANGED <<stage, wall>>)

(***************************************************************************)
(* Mutants: plausible slips in the definitions below.                      *)
(***************************************************************************)
\* Disabling without del_timer_sync().
MutIrqEnableNoDel(enabled) == Op(
    /\ IF enabled /\ ~alarm_enabled /\ alarm_time > wall
       THEN Arm(alarm_time) ELSE UNCHANGED <<armed, left>>
    /\ alarm_enabled' = enabled
    /\ UNCHANGED <<stage, wall, alarm_time, alarm_pending>>)

\* Enabling arms the timer if the alarm was off and is in the future;
\* disabling deletes it; enabling an enabled alarm changes nothing.
demo_rtc_alarm_irq_enable(enabled) == Op(
    /\ IF enabled /\ ~alarm_enabled /\ alarm_time > wall THEN Arm(alarm_time)
       ELSE IF ~enabled THEN armed' = FALSE /\ left' = 0
       ELSE UNCHANGED <<armed, left>>
    /\ alarm_enabled' = enabled
    /\ UNCHANGED <<stage, wall, alarm_time, alarm_pending>>)

\* One second passes while drtc exists.
Tick ==
    /\ stage \in {"probed", "removed"}
    /\ wall < MaxWall \/ (armed /\ left > 0)
    /\ wall' = IF wall < MaxWall THEN wall + 1 ELSE wall
    /\ left' = IF armed /\ left > 0 THEN left - 1 ELSE left
    /\ UNCHANGED <<stage, armed, alarm_time, alarm_enabled, alarm_pending>>

\* demo_rtc_alarm_callback(): the alarm is pending, and rtc_update_irq()
\* tells the core.
demo_rtc_alarm_callback ==
    /\ armed /\ left = 0
    /\ armed' = FALSE /\ alarm_pending' = TRUE
    /\ UNCHANGED <<stage, wall, left, alarm_time, alarm_enabled>>

demo_rtc_remove ==
    /\ stage = "probed"
    /\ stage' = "removed" /\ armed' = FALSE /\ left' = 0
    /\ UNCHANGED <<wall, alarm_time, alarm_enabled, alarm_pending>>

DevmRelease ==
    /\ stage = "removed"
    /\ stage' = "gone"
    /\ UNCHANGED <<wall, alarm>>

demo_rtc_exit ==
    \/ demo_rtc_remove \/ DevmRelease
    \/ stage = "nodev" /\ stage' = "gone" /\ UNCHANGED <<wall, alarm>>

Next ==
    \/ demo_rtc_init \/ demo_rtc_exit \/ Tick \/ demo_rtc_alarm_callback
    \/ \E t \in SetTimes : demo_rtc_set_time(t)
    \/ \E t \in AlarmTimes, e \in BOOLEAN : demo_rtc_set_alarm(t, e)
    \/ \E e \in BOOLEAN : demo_rtc_alarm_irq_enable(e)

Spec == Init /\ [][Next]_vars

-----------------------------------------------------------------------------
(***************************************************************************)
(* A disabled alarm never goes off: the alarm timer is pending only while  *)
(* alarm_enabled is set.  It is about every path that clears the flag      *)
(* deleting the timer first: set_alarm()'s del_timer_sync() and            *)
(* alarm_irq_enable(0)'s, against a timer armed by set_alarm() or by       *)
(* alarm_irq_enable(1).                                                    *)
(***************************************************************************)
DisabledAlarmSilent == armed => alarm_enabled

================================================================================
