------------------------------ MODULE IioAdcDemo ------------------------------
(***************************************************************************)
(* The IIO ADC demo, src/examples/part11/iio-adc/iio_adc_demo.c: a        *)
(* platform driver, and the platform device it registers itself, whose    *)
(* probe registers an IIO device with four 12-bit voltage channels.       *)
(*                                                                         *)
(* The state is the simulated value of each channel, which a write of     *)
(* in_voltageN_raw sets.  A read of in_voltageN_raw returns that value     *)
(* plus a random variation, clamped to the ADC's range; reads change no   *)
(* state, so demo_adc_read_channel() is an operator of the channel and of  *)
(* the int get_random_bytes() gives.  Both callbacks take adc->lock around *)
(* what they touch, so each runs as one step.                              *)
(***************************************************************************)
EXTENDS Integers

CONSTANT RawVals   \* values written to in_voltageN_raw

Chans == 0 .. 3          \* NUM_CHANNELS
ADC_RESOLUTION == 12
ADC_MAX == 4095          \* (1 << ADC_RESOLUTION) - 1

\* C's % truncates toward zero: a negative int leaves a negative remainder.
CRem(a, b) == IF a >= 0 THEN a % b ELSE -((-a) % b)

Clamp(x, lo, hi) == IF x < lo THEN lo ELSE IF x > hi THEN hi ELSE x

VARIABLES
    stage,     \* "unloaded", "failed" (init failed), "noprobe" (probe failed), "live", "gone"
    channels   \* adc->channels[]

vars == <<stage, channels>>

Init == stage = "unloaded" /\ channels = [c \in Chans |-> 0]

(***************************************************************************)
(* demo_adc_init(): platform_driver_register() may fail;                   *)
(* platform_device_register_simple() may fail, and then the driver is      *)
(* unregistered.  Registering the device probes it:                        *)
(* devm_iio_device_alloc() or devm_iio_device_register() may fail, which   *)
(* fails the probe but not the load.  Probe sets the channels before it    *)
(* registers.                                                              *)
(***************************************************************************)
demo_adc_init ==
    /\ stage = "unloaded"
    /\ \/ stage' = "failed" /\ UNCHANGED channels
       \/ stage' = "noprobe" /\ UNCHANGED channels
       \/ stage' = "live" /\ channels' = [c \in Chans |-> <<2048, 4095, 1024, 0>>[c + 1]]

\* demo_adc_read_channel(): the channel's value plus (variation % 100) - 50,
\* clamped to 0 .. (1 << ADC_RESOLUTION) - 1.
demo_adc_read_channel(chan, r) ==
    Clamp(channels[chan] + (CRem(r, 100) - 50), 0, ADC_MAX)

\* demo_adc_write_raw() of IIO_CHAN_INFO_RAW: -EINVAL outside
\* 0 .. (1 << ADC_RESOLUTION) - 1, else the value, under the lock.
demo_adc_write_raw(chan, val) ==
    /\ stage = "live"
    /\ channels' = IF val < 0 \/ val >= 2^ADC_RESOLUTION THEN channels
                   ELSE [channels EXCEPT ![chan] = val]
    /\ UNCHANGED stage

\* demo_adc_exit(): the device and then the driver are unregistered; devm
\* unregisters the IIO device.
demo_adc_exit ==
    /\ stage \in {"noprobe", "live"}
    /\ stage' = "gone"
    /\ UNCHANGED channels

Next ==
    \/ demo_adc_init \/ demo_adc_exit
    \/ \E c \in Chans, v \in RawVals : demo_adc_write_raw(c, v)

Spec == Init /\ [][Next]_vars

================================================================================
