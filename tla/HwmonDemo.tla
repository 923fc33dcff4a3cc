------------------------------ MODULE HwmonDemo ------------------------------
(***************************************************************************)
(* The hwmon demo, src/examples/part10/hwmon-driver/hwmon_demo.c: a       *)
(* platform driver, and the platform device it registers itself, whose    *)
(* probe registers a hwmon device with two temperature, two voltage and   *)
(* one fan channel.                                                        *)
(*                                                                         *)
(* The hwmon core creates a sysfs file for each attribute demo_hwmon_info  *)
(* declares, with the mode demo_hwmon_is_visible() gives it (none if 0),   *)
(* and routes a read of it to demo_hwmon_read() or, for a label, to        *)
(* demo_hwmon_read_string(), and a write to demo_hwmon_write().  The       *)
(* limits the driver stores are the state; the simulated readings add a    *)
(* random variation to a base no operation changes.  A value written is   *)
(* one of a small set; kstrtol() has parsed it before the driver sees it.  *)
(***************************************************************************)
EXTENDS Integers, TLC

CONSTANT LimitVals   \* values written to the limit files

OK == 0
EOPNOTSUPP == -95

\* HWMON_CHANNEL_INFO: the attributes each channel of each type declares.
Info ==
    [temp |-> <<{"input", "max", "crit", "label", "max_alarm", "crit_alarm"},
                {"input", "max", "crit", "label", "max_alarm", "crit_alarm"}>>,
     in   |-> <<{"input", "min", "max", "label"}, {"input", "min", "max", "label"}>>,
     fan  |-> <<{"input", "min", "label", "alarm"}>>]

Types == DOMAIN Info
NUM == [temp |-> 2, in |-> 2, fan |-> 1]
Attrs == UNION {UNION {Info[t][c] : c \in 1 .. NUM[t]} : t \in Types}

\* The sysfs files the core creates: type, attribute, channel (0-based).
Declared == {<<t, a, c>> \in Types \X Attrs \X (0 .. 1) : c < NUM[t] /\ a \in Info[t][c + 1]}

\* The attributes the switch statements of the callbacks name, by type:
\* demo_hwmon_is_visible()'s 0444 and 0644 cases, demo_hwmon_read()'s and
\* demo_hwmon_write()'s cases.
ReadOnly  == [temp |-> {"input", "label", "max_alarm", "crit_alarm"},
              in |-> {"input", "label"}, fan |-> {"input", "label", "alarm"}]
ReadWrite == [temp |-> {"max", "crit"}, in |-> {"min", "max"}, fan |-> {"min"}]
ReadCases == [temp |-> {"input", "max", "crit", "max_alarm", "crit_alarm"},
              in |-> {"input", "min", "max"}, fan |-> {"input", "min", "alarm"}]
WriteCases == [temp |-> {"max", "crit"}, in |-> {"min", "max"}, fan |-> {"min"}]

\* The limits demo_hwmon_write() stores: type, attribute, channel.
LimitKeys == {<<t, a, c>> \in Declared : a \in WriteCases[t]}

\* The values demo_hwmon_probe() stores.
ProbeLimits ==
    <<"temp", "max", 0>> :> 80000 @@ <<"temp", "max", 1>> :> 85000 @@
    <<"temp", "crit", 0>> :> 100000 @@ <<"temp", "crit", 1>> :> 105000 @@
    <<"in", "min", 0>> :> 3135 @@ <<"in", "max", 0>> :> 3465 @@
    <<"in", "min", 1>> :> 4750 @@ <<"in", "max", 1>> :> 5250 @@
    <<"fan", "min", 0>> :> 1000

VARIABLES
    stage,   \* "unloaded", "failed" (init failed), "noprobe" (probe failed), "live", "gone"
    limit    \* the stored limits, LimitKeys -> value

vars == <<stage, limit>>

Init == stage = "unloaded" /\ limit = [k \in LimitKeys |-> 0]

(***************************************************************************)
(* demo_hwmon_init(): platform_driver_register() may fail;                 *)
(* platform_device_register_simple() may fail, and then the driver is      *)
(* unregistered.  Registering the device probes it: devm_kzalloc() or      *)
(* devm_hwmon_device_register_with_info() may fail, which fails the probe  *)
(* but not the load.  A probe that succeeds stores the initial values.     *)
(***************************************************************************)
demo_hwmon_init ==
    /\ stage = "unloaded"
    /\ \/ stage' = "failed" /\ UNCHANGED limit
       \/ stage' = "noprobe" /\ UNCHANGED limit
       \/ stage' = "live" /\ limit' = ProbeLimits

(***************************************************************************)
(* Mutants: plausible slips in the definitions below.                      *)
(***************************************************************************)
\* A write callback that forgets the fan's minimum.
MutWriteNoFanMin(t, a) ==
    IF a \in WriteCases[t] /\ <<t, a>> # <<"fan", "min">> THEN OK ELSE EOPNOTSUPP

\* demo_hwmon_is_visible(): 0 past the type's channels, 0444 or 0644 for
\* the attributes its switch names, else 0.
demo_hwmon_is_visible(t, a, c) ==
    CASE c >= NUM[t] -> 0
      [] a \in ReadOnly[t] -> 292    \* 0444
      [] a \in ReadWrite[t] -> 420   \* 0644
      [] OTHER -> 0

\* demo_hwmon_read() answers the attributes its switch names, with a
\* reading, a stored limit, or an alarm comparing a fresh reading with
\* one; demo_hwmon_read_string() answers each type's label for a channel
\* below the type's count.  Reads change no state.
demo_hwmon_read_result(t, a, c) ==
    IF a \in ReadCases[t] \/ (a = "label" /\ c < NUM[t]) THEN OK ELSE EOPNOTSUPP

\* demo_hwmon_write(): the limits its switch names, -EOPNOTSUPP for the rest.
demo_hwmon_write_result(t, a) == IF a \in WriteCases[t] THEN OK ELSE EOPNOTSUPP

\* A write of a file the core created writable; kstrtol() has parsed val.
demo_hwmon_write(t, a, c, val) ==
    /\ stage = "live"
    /\ <<t, a, c>> \in Declared /\ demo_hwmon_is_visible(t, a, c) = 420
    /\ limit' = IF demo_hwmon_write_result(t, a) = OK
                THEN [limit EXCEPT ![<<t, a, c>>] = val] ELSE limit
    /\ UNCHANGED stage

\* demo_hwmon_exit(): the device and then the driver are unregistered;
\* devm unregisters the hwmon device and frees the data.
demo_hwmon_exit ==
    /\ stage \in {"noprobe", "live"}
    /\ stage' = "gone"
    /\ UNCHANGED limit

Next ==
    \/ demo_hwmon_init \/ demo_hwmon_exit
    \/ \E d \in Declared, v \in LimitVals : demo_hwmon_write(d[1], d[2], d[3], v)

Spec == Init /\ [][Next]_vars

-----------------------------------------------------------------------------
(***************************************************************************)
(* While the hwmon device is registered, every file the core created      *)
(* answers: one demo_hwmon_is_visible() makes readable is answered by      *)
(* demo_hwmon_read() or, for a label, by demo_hwmon_read_string(), and one *)
(* it makes writable is stored by demo_hwmon_write().  The three switch    *)
(* statements are kept in step by hand; a case missing from one of them    *)
(* makes its file fail with -EOPNOTSUPP.                                   *)
(***************************************************************************)
OpsMatchVisibility ==
    stage = "live" => \A d \in Declared :
        LET mode == demo_hwmon_is_visible(d[1], d[2], d[3])
        IN  /\ mode # 0 => demo_hwmon_read_result(d[1], d[2], d[3]) = OK
            /\ mode = 420 <=> demo_hwmon_write_result(d[1], d[2]) = OK
================================================================================
