-------------------------------- MODULE LedDemo --------------------------------
(***************************************************************************)
(* The LED class demo, src/examples/part10/led-driver/led_demo.c.  Each    *)
(* LED has a blink timer that simulates hardware blinking:                 *)
(* demo_led_blink_set() sets hw_blink_active and arms it,                  *)
(* demo_led_blink_timer() re-arms it while hw_blink_active is set, and     *)
(* demo_led_brightness_set() clears the flag and waits in                  *)
(* del_timer_sync().  The LED core calls the callbacks: for each LED a     *)
(* user of its sysfs files (brightness, and the timer trigger's delay_on   *)
(* and delay_off) may call brightness_set or blink_set at any time.        *)
(*                                                                         *)
(* rmmod runs demo_leds_remove(), which stops every LED's timer, and then  *)
(* the devm release of each LED class device.  That part is the LED core,  *)
(* outside the repository, and is modelled from its documented behaviour:  *)
(* led_classdev_unregister() removes the trigger, so no blink_set follows, *)
(* calls brightness_set(LED_OFF), and waits for the LED's sysfs users.     *)
(* Brightness values and blink delays are data and are left out, except    *)
(* where blink_set tests the delays.                                       *)
(***************************************************************************)
EXTENDS Naturals

CONSTANTS
    NUM_LEDS,  \* 3 in the code
    Delays     \* <<delay_on, delay_off>> pairs users ask blink_set for

Leds == 1 .. NUM_LEDS
Exit == 0                     \* rmmod
Actors == {Exit} \cup Leds    \* rmmod, and LED l's sysfs user
Idle == 0

VARIABLES
    stage,    \* "unloaded", "failed", "probed", "remove", "unreg" or "gone"
    ri,       \* the LED remove's loop or the devm release is at
    active,   \* LED -> hw_blink_active
    pending,  \* LED -> the blink timer is armed
    cb,       \* LED -> "idle", or "run" while demo_led_blink_timer() runs
    pc        \* actor -> Idle, or the LED whose del_timer_sync() it waits in

vars == <<stage, ri, active, pending, cb, pc>>

Init ==
    /\ stage = "unloaded" /\ ri = 1
    /\ active = [l \in Leds |-> FALSE]
    /\ pending = [l \in Leds |-> FALSE]
    /\ cb = [l \in Leds |-> "idle"]
    /\ pc = [a \in Actors |-> Idle]

\* demo_leds_init(): the platform device is registered and probe runs;
\* a failure there (no memory, a classdev that does not register) leaves
\* no LED behind.
demo_leds_init ==
    /\ stage = "unloaded"
    /\ stage' \in {"probed", "failed"}
    /\ UNCHANGED <<ri, active, pending, cb, pc>>

\* LED l still has its sysfs files, and its trigger while it is not being
\* unregistered.  The release goes from the last LED down to LED 1.
Registered(l) == stage \in {"probed", "remove"} \/ (stage = "unreg" /\ l <= ri)
HasTrigger(l) == stage \in {"probed", "remove"} \/ (stage = "unreg" /\ l < ri)

(***************************************************************************)
(* Mutants: plausible slips in the definitions below.                      *)
(***************************************************************************)
\* brightness_set() that clears the flag but does not wait for the timer.
MutBrightnessSetNoSync(a, l) ==
    /\ pc[a] = Idle /\ active[l]
    /\ active' = [active EXCEPT ![l] = FALSE]
    /\ UNCHANGED <<stage, ri, pending, cb, pc>>

\* demo_led_brightness_set(): if hw blink is active, clear the flag and
\* wait in del_timer_sync(); the brightness itself is data.
demo_led_brightness_set(a, l) ==
    /\ pc[a] = Idle /\ active[l]
    /\ active' = [active EXCEPT ![l] = FALSE]
    /\ pc' = [pc EXCEPT ![a] = l]
    /\ UNCHANGED <<stage, ri, pending, cb>>

\* del_timer_sync() returns once no callback runs, the timer disarmed.
TimerSync(a) ==
    /\ pc[a] \in Leds /\ cb[pc[a]] = "idle"
    /\ pending' = [pending EXCEPT ![pc[a]] = FALSE]
    /\ pc' = [pc EXCEPT ![a] = Idle]
    /\ UNCHANGED <<stage, ri, active, cb>>

\* demo_led_blink_set(): 0/0 means 500/500; a delay under 50 ms is
\* -EINVAL and changes nothing; else set the flag and arm the timer.
demo_led_blink_set(l) ==
    /\ pc[l] = Idle /\ HasTrigger(l)
    /\ \E d \in Delays :
          LET on == IF d = <<0, 0>> THEN 500 ELSE d[1]
              off == IF d = <<0, 0>> THEN 500 ELSE d[2]
          IN on >= 50 /\ off >= 50
    /\ active' = [active EXCEPT ![l] = TRUE]
    /\ pending' = [pending EXCEPT ![l] = TRUE]
    /\ UNCHANGED <<stage, ri, cb, pc>>

\* A user of LED l's brightness file.
UserBrightnessSet(l) ==
    Registered(l) /\ demo_led_brightness_set(l, l)

\* The blink timer expires and demo_led_blink_timer() starts.
Fire(l) ==
    /\ pending[l] /\ cb[l] = "idle"
    /\ pending' = [pending EXCEPT ![l] = FALSE]
    /\ cb' = [cb EXCEPT ![l] = "run"]
    /\ UNCHANGED <<stage, ri, active, pc>>

\* demo_led_blink_timer(): return if hw blink is off, else toggle the
\* state and mod_timer() (which also holds if a blink_set re-armed it).
BlinkTimer(l) ==
    /\ cb[l] = "run"
    /\ pending' = [pending EXCEPT ![l] = @ \/ active[l]]
    /\ cb' = [cb EXCEPT ![l] = "idle"]
    /\ UNCHANGED <<stage, ri, active, pc>>

\* demo_leds_exit(): platform_device_unregister() runs demo_leds_remove().
ExitBegin ==
    /\ stage = "probed"
    /\ stage' = "remove" /\ ri' = 1
    /\ UNCHANGED <<active, pending, cb, pc>>

\* One turn of demo_leds_remove()'s loop: clear the flag and wait in
\* del_timer_sync().  After the last LED, the devm release begins.
RemoveLed ==
    /\ stage = "remove" /\ pc[Exit] = Idle
    /\ IF ri <= NUM_LEDS
       THEN /\ active' = [active EXCEPT ![ri] = FALSE]
            /\ pc' = [pc EXCEPT ![Exit] = ri]
            /\ ri' = ri + 1 /\ UNCHANGED stage
       ELSE /\ stage' = "unreg" /\ ri' = NUM_LEDS
            /\ UNCHANGED <<active, pc>>
    /\ UNCHANGED <<pending, cb>>

\* led_classdev_unregister() of LED ri, last registered first: the trigger
\* is gone, brightness_set(LED_OFF) runs, then the sysfs users are waited
\* for.  After LED 1 the module is gone.
UnregisterOff ==
    /\ stage = "unreg" /\ pc[Exit] = Idle
    /\ demo_led_brightness_set(Exit, ri)

UnregisterDone ==
    /\ stage = "unreg" /\ pc[Exit] = Idle /\ ~active[ri] /\ pc[ri] = Idle
    /\ IF ri = 1 THEN stage' = "gone" /\ UNCHANGED ri
       ELSE ri' = ri - 1 /\ UNCHANGED stage
    /\ UNCHANGED <<active, pending, cb, pc>>

Next ==
    \/ demo_leds_init \/ ExitBegin \/ RemoveLed \/ UnregisterOff \/ UnregisterDone
    \/ TimerSync(Exit)
    \/ \E l \in Leds :
          \/ UserBrightnessSet(l) \/ TimerSync(l) \/ demo_led_blink_set(l)
          \/ Fire(l) \/ BlinkTimer(l)

(***************************************************************************)
(* Timers fire and callbacks finish, del_timer_sync() returns once it can, *)
(* and rmmod, once begun, continues.  Users are not fair.                  *)
(***************************************************************************)
Spec ==
    /\ Init /\ [][Next]_vars
    /\ \A l \in Leds : WF_vars(Fire(l)) /\ WF_vars(BlinkTimer(l)) /\ WF_vars(TimerSync(l))
    /\ WF_vars(TimerSync(Exit) \/ RemoveLed \/ UnregisterOff \/ UnregisterDone)

-----------------------------------------------------------------------------
(***************************************************************************)
(* Nothing of the driver runs once it is gone: no blink timer is armed and *)
(* no demo_led_blink_timer() runs after the last LED is unregistered.  A   *)
(* blink_set from sysfs during demo_leds_remove() re-arms a timer that     *)
(* remove already stopped; it is about the flag test in brightness_set,    *)
(* its del_timer_sync(), and the callback's re-arm test.                   *)
(***************************************************************************)
NoBlinkAfterRemove ==
    stage = "gone" => \A l \in Leds : ~pending[l] /\ cb[l] = "idle"
================================================================================
