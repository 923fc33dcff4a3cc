-------------------------------- MODULE PwmDemo --------------------------------
(***************************************************************************)
(* The PWM controller demo, src/examples/part10/pwm-driver/pwm_demo.c.     *)
(*                                                                         *)
(* Each channel has a period, a duty cycle, a polarity and an enable bit.  *)
(* The pwm core calls apply() with a requested state and free() when a     *)
(* user releases the channel; both update the channel under priv->lock,   *)
(* so each is one action.  request() and get_state() change nothing.  The *)
(* debugfs file is removed by remove() and devm removes the chip.          *)
(***************************************************************************)
EXTENDS Naturals

CONSTANTS
    NUM_CHANNELS,
    Periods,      \* periods passed to apply(), 0 included
    Duties        \* duty cycles passed to apply()

Channels == 0 .. NUM_CHANNELS - 1
DefaultPeriod == 1000   \* 1000000 ns in the code, scaled

VARIABLES
    stage,        \* "unloaded", "failed", "nodev", "probed" or "gone"
    channels      \* channel -> [period, duty_cycle, polarity, enabled]

vars == <<stage, channels>>

Defaults == [c \in Channels |->
                [period |-> DefaultPeriod, duty_cycle |-> 0,
                 polarity |-> "normal", enabled |-> FALSE]]

\* devm_kzalloc() zeroes the channels before probe sets them.
Init == stage = "unloaded" /\ channels = [c \in Channels |->
            [period |-> 0, duty_cycle |-> 0, polarity |-> "normal", enabled |-> FALSE]]

\* demo_pwm_init(): platform_driver_register() or the device may fail;
\* else demo_pwm_probe() sets every channel to the defaults and adds the
\* chip, which may fail and leave the device unbound.
demo_pwm_init ==
    /\ stage = "unloaded"
    /\ \/ stage' = "failed" /\ UNCHANGED channels
       \/ stage' \in {"nodev", "probed"} /\ channels' = Defaults

demo_pwm_free(c) ==
    /\ stage = "probed"
    /\ channels' = [channels EXCEPT ![c].enabled = FALSE, ![c].duty_cycle = 0]
    /\ UNCHANGED stage

(***************************************************************************)
(* Mutants: plausible slips in the definitions below.                      *)
(***************************************************************************)
\* The duty cycle compared with the old period instead of the new one.
MutApplyOldPeriod(c, s) ==
    /\ stage = "probed"
    /\ s.period # 0 /\ s.duty_cycle <= channels[c].period
    /\ channels' = [channels EXCEPT ![c] = s]
    /\ UNCHANGED stage

\* -EINVAL for a zero period or a duty cycle past it; else the new state.
demo_pwm_apply(c, s) ==
    /\ stage = "probed"
    /\ s.period # 0 /\ s.duty_cycle <= s.period
    /\ channels' = [channels EXCEPT ![c] = s]
    /\ UNCHANGED stage

\* demo_pwm_exit(): the device goes, demo_pwm_remove() removes the debugfs
\* file, and devm removes the chip.
demo_pwm_exit ==
    /\ stage \in {"nodev", "probed"}
    /\ stage' = "gone"
    /\ UNCHANGED channels

Requests == [period : Periods, duty_cycle : Duties,
             polarity : {"normal", "inversed"}, enabled : BOOLEAN]

Next ==
    \/ demo_pwm_init \/ demo_pwm_exit
    \/ \E c \in Channels : demo_pwm_free(c) \/ \E s \in Requests : demo_pwm_apply(c, s)

Spec == Init /\ [][Next]_vars

-----------------------------------------------------------------------------
(***************************************************************************)
(* Every channel of a probed chip holds a state the core can drive: a      *)
(* period that is not zero and a duty cycle within it, so get_state() and  *)
(* the debugfs show, which divides by the period, never see a zero period  *)
(* or a duty over 100%.  It is about probe's defaults, apply()'s two       *)
(* checks against the new period, and free() zeroing only the duty cycle.  *)
(***************************************************************************)
ChannelsValid ==
    stage = "probed" =>
        \A c \in Channels : channels[c].period # 0 /\ channels[c].duty_cycle <= channels[c].period
================================================================================
