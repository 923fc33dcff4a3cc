---------------------------- MODULE I2cSensorDemo ----------------------------
(***************************************************************************)
(* The I2C sensor demo, src/examples/part9/i2c-sensor/i2c_sensor_demo.c:  *)
(* an IIO device whose registers go through a regmap with an rbtree cache. *)
(*                                                                         *)
(* The model holds the sensor's non-volatile registers twice: regs, what  *)
(* the chip holds, and cache, the regmap cache, with its dirty flag, as    *)
(* regmap behaves for this config: a write of a cached register updates   *)
(* the cache and then the chip, a read of one is served from the cache,   *)
(* and regcache_sync() writes back, when the cache is dirty, every cached *)
(* value that differs from its default.  Besides these, the driver keeps   *)
(* the calibration offsets it applies to readings in sensor->*_calibration.*)
(*                                                                         *)
(* The volatile status and data registers and the values read are data:   *)
(* a read is modelled by what it does to the registers, the enable bit     *)
(* its regmap_update_bits() sets.  System sleep may cut the chip's power,  *)
(* which resets its registers to the defaults the config lists.  The       *)
(* driver may be unbound and bound again while the chip keeps its power:   *)
(* each probe starts a new regmap, whose cache holds the defaults.  The bus *)
(* is taken to work: the driver ignores the result of most of its writes,  *)
(* and a failing transfer is an error path no property here is about.     *)
(***************************************************************************)
EXTENDS Integers, Bitwise

CONSTANTS
    CalVals,            \* values written to in_*_calibbias
    ReadsDuringRemove   \* an IIO read may run between remove() and the devm unregister

Regs == {"CONFIG", "CALIB_TEMP", "CALIB_HUMID"}
Chans == {"temp", "humid"}
CalReg == [temp |-> "CALIB_TEMP", humid |-> "CALIB_HUMID"]

\* demo_sensor_defaults[]: the chip's reset values as the regmap knows them.
Defaults == [r \in Regs |-> 0]

CFG_ENABLE == 1
CFG_RUN == 7    \* CFG_ENABLE | CFG_TEMP_RES_HIGH | CFG_HUMID_RES_HIGH

\* An int stored in an 8-bit register, and a register read back as s8.
U8(v) == v % 256
S8(x) == IF x >= 128 THEN x - 256 ELSE x

\* regmap_update_bits(): the bits under mask take val's.
UpdateBits(orig, mask, val) == (orig - (orig & mask)) | (val & mask)

VARIABLES
    stage,   \* "unbound", "failed", "probed", "removing" (remove() returned)
    power,   \* "on" or "suspended"
    regs,    \* the chip's registers
    cache,   \* the regmap cache
    dirty,   \* regcache_mark_dirty() since the last regcache_sync()
    cal      \* sensor->temp_calibration and humid_calibration

vars == <<stage, power, regs, cache, dirty, cal>>

\* regmap_write() of a cached register: cache first, then the chip.
Write(r, v) ==
    /\ cache' = [cache EXCEPT ![r] = v]
    /\ regs' = [regs EXCEPT ![r] = v]

\* The sensor is on the bus in its reset state before the driver binds.
Init ==
    /\ stage = "unbound" /\ power = "on"
    /\ regs = Defaults /\ cache = Defaults /\ dirty = FALSE
    /\ cal = [c \in Chans |-> 0]

\* demo_sensor_probe(): allocation, regmap init, the device id read and its
\* check may each fail the probe before anything is written.  The new
\* regmap's cache holds the defaults.  Then CONFIG is written, the
\* calibrations are read, both cached so both from that cache, not from the
\* chip, and devm_iio_device_register() may still fail, leaving the chip as
\* configured.  A bind may be tried again after a failed one.
demo_sensor_probe ==
    /\ stage \in {"unbound", "failed"}
    /\ \/ /\ stage' = "failed"
          /\ cache' = Defaults
          /\ UNCHANGED <<regs, cal>>
       \/ /\ stage' \in {"probed", "failed"}
          /\ cache' = [Defaults EXCEPT !["CONFIG"] = CFG_RUN]
          /\ regs' = [regs EXCEPT !["CONFIG"] = CFG_RUN]
          /\ cal' = [c \in Chans |-> S8(Defaults[CalReg[c]])]
    /\ dirty' = FALSE
    /\ UNCHANGED power

(***************************************************************************)
(* Mutants: plausible slips in the definitions below.                      *)
(***************************************************************************)
\* A suspend that does not mark the cache dirty.
MutSuspendNoDirty(lost) ==
    /\ cache' = [cache EXCEPT !["CONFIG"] = 0]
    /\ regs' = IF lost THEN Defaults ELSE [regs EXCEPT !["CONFIG"] = 0]
    /\ UNCHANGED dirty

\* demo_sensor_read_temp() and demo_sensor_read_humidity(), under
\* sensor->lock: regmap_update_bits() sets CFG_ENABLE, writing only if the
\* cached CONFIG lacks it; the wait for the status bit, which times out
\* on a disabled chip, and the data reads change no register.
demo_sensor_read(chan) ==
    /\ stage = "probed" \/ (stage = "removing" /\ ReadsDuringRemove)
    /\ power = "on"
    /\ LET new == UpdateBits(cache["CONFIG"], CFG_ENABLE, CFG_ENABLE)
       IN  IF new = cache["CONFIG"] THEN UNCHANGED <<regs, cache>>
           ELSE Write("CONFIG", new)
    /\ UNCHANGED <<stage, power, dirty, cal>>

\* demo_sensor_write_raw() of IIO_CHAN_INFO_CALIBBIAS: the range check,
\* then, under the lock, the s8 field and regmap_write() of its register.
demo_sensor_write_raw(chan, val) ==
    /\ stage = "probed" /\ power = "on"
    /\ -128 <= val /\ val <= 127
    /\ cal' = [cal EXCEPT ![chan] = val]
    /\ Write(CalReg[chan], U8(val))
    /\ UNCHANGED <<stage, power, dirty>>

\* demo_sensor_suspend(): CONFIG to 0, regcache_mark_dirty().  While the
\* system sleeps the chip may lose power and come back in its reset state.
suspend_step(lost) ==
    /\ cache' = [cache EXCEPT !["CONFIG"] = 0]
    /\ regs' = IF lost THEN Defaults ELSE [regs EXCEPT !["CONFIG"] = 0]
    /\ dirty' = TRUE

demo_sensor_suspend ==
    /\ stage = "probed" /\ power = "on"
    /\ \E lost \in BOOLEAN : suspend_step(lost)
    /\ power' = "suspended"
    /\ UNCHANGED <<stage, cal>>

\* regcache_sync(): if the cache is dirty, write every writeable cached
\* register whose value differs from its default, and clear the flag.
regcache_sync ==
    [r \in Regs |-> IF dirty /\ cache[r] # Defaults[r] THEN cache[r] ELSE regs[r]]

\* demo_sensor_resume(): regcache_sync(), then CONFIG written to run.
demo_sensor_resume ==
    /\ power = "suspended"
    /\ power' = "on"
    /\ regs' = [regcache_sync EXCEPT !["CONFIG"] = CFG_RUN]
    /\ cache' = [cache EXCEPT !["CONFIG"] = CFG_RUN]
    /\ dirty' = FALSE
    /\ UNCHANGED <<stage, cal>>

\* demo_sensor_remove(): CONFIG to 0, "low-power mode", without the lock.
remove_write == Write("CONFIG", 0)

demo_sensor_remove ==
    /\ stage = "probed" /\ power = "on"
    /\ remove_write
    /\ stage' = "removing"
    /\ UNCHANGED <<power, dirty, cal>>

\* The devm release after remove(): the IIO device is unregistered, so no
\* read reaches the driver any more, and the regmap is freed.  The chip
\* stays on the bus, keeping its registers, and can be bound again.
DevmRelease ==
    /\ stage = "removing"
    /\ stage' = "unbound"
    /\ UNCHANGED <<power, regs, cache, dirty, cal>>

Next ==
    \/ demo_sensor_probe \/ demo_sensor_suspend \/ demo_sensor_resume
    \/ demo_sensor_remove \/ DevmRelease
    \/ \E c \in Chans : demo_sensor_read(c)
    \/ \E c \in Chans, v \in CalVals : demo_sensor_write_raw(c, v)

Spec == Init /\ [][Next]_vars

-----------------------------------------------------------------------------
(***************************************************************************)
(* While the driver is bound and the chip awake, every calibration offset  *)
(* other than the default is the one the chip's register holds, and the    *)
(* one the driver applies to readings: a calibbias write reaches the       *)
(* driver's copy, the cache and the chip, and across system sleep, in      *)
(* which the chip may lose power, suspend's regcache_mark_dirty() and      *)
(* resume's regcache_sync() must restore it, a negative offset stored as   *)
(* its u8 form included.  A default offset is left out: regcache_sync()    *)
(* does not write defaults, and CalibrationPersists shows what the chip    *)
(* then holds.                                                             *)
(***************************************************************************)
CalibrationRestored ==
    stage = "probed" /\ power = "on" =>
        \A c \in Chans :
            /\ cal[c] = S8(cache[CalReg[c]])
            /\ cache[CalReg[c]] # Defaults[CalReg[c]] => regs[CalReg[c]] = cache[CalReg[c]]

(***************************************************************************)
(* The comment at line 338 says probe reads the calibration from the       *)
(* device: while the driver is bound and the chip awake, the offset the    *)
(* driver applies is the one the chip holds.  Probe reads it through the   *)
(* new regmap's cache, which holds the defaults, so after an unbind and a  *)
(* bind the chip keeps an offset the driver no longer applies               *)
(* (I2cCalibRebind.cfg).                                                   *)
(***************************************************************************)
CalibrationPersists ==
    stage = "probed" /\ power = "on" =>
        \A c \in Chans : cal[c] = S8(regs[CalReg[c]])

(***************************************************************************)
(* While no driver is bound after a remove, the chip is in "low-power      *)
(* mode", as remove() means to leave it: CFG_ENABLE is clear.  remove()    *)
(* writes CONFIG while the IIO device is still registered, so a read that  *)
(* the IIO core lets in before devm unregisters it turns the chip back on  *)
(* (I2cLowPowerRead.cfg, with ReadsDuringRemove).                          *)
(***************************************************************************)
LowPowerAfterRemove ==
    stage = "unbound" => (regs["CONFIG"] & CFG_ENABLE) = 0
================================================================================
