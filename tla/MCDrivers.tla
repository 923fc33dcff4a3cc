----------------------------- MODULE MCDrivers -----------------------------
(***************************************************************************)
(* Checks several of the demo drivers in one run.  The drivers share no    *)
(* state, so each one's properties hold of the kernel that loads them all  *)
(* exactly when they hold of the driver alone.  The run therefore explores *)
(* each driver's behaviours on their own, side by side: driver, fixed in   *)
(* the initial state, names the driver whose steps the behaviour takes,    *)
(* and the others keep their initial state.  Each driver's fairness is     *)
(* restated for its own behaviours.                                        *)
(***************************************************************************)
EXTENDS Integers

VARIABLES
    driver,
    active, timeout, elapsed, expired, timer, cb, lock, core,
    dev, rx_ring, rx_head, rx_tail, napi, missed, poll_pc, processed, sent,
    stage, running, pending, callback, pc,
    speed, mode, value, name, last_error, dev_lock, op, wbuf, got, stored,
    mod, proc, wq_alive, wq_pending, phase, canceling, periodic_running, custom, wpc,
    buffer, size, f_pos,
    irq_running, timer_pending, irq_cb, pending_irq, irq_pc, irq_stage,
    sl_mod, thr, stop_threads, sl_i,
    kt_mod, kt_proc, poll, ev, stop, event_pending, event_count, kt_wpc, triggers, owed,
    usage, status, pm_timer, enabled, powered, pm_pc,
    probed, flash, fl_lock, ppos, fl_pc, wr, before,
    led_stage, ri, led_active, led_pending, led_cb, led_pc,
    gpio_stage, reg_data, reg_dir, reg_irq_en, reg_irq_type, reg_irq_pol, reg_irq_status, gpio_up, gpio_out, gpio_level, gpio_irq_on, gpio_trigger,
    dma_stage, streaming_mapped, live, coherent, dma_pc,
    rtc_stage, wall, armed, left, alarm_time, alarm_enabled, alarm_pending,
    pwm_stage, pwm_channels,
    ds_mod, clients, client_count, table, device_count,
    i2c_stage, i2c_power, i2c_regs, i2c_cache, i2c_dirty, i2c_cal,
    dt_bound, demo_dev, proc_file, proc_exists, dt_showing,
    pci_stage, devres, vectors, pci_kind, irq_requested, pci_status,
    hw_stage, hw_limit,
    adc_stage, adc_channels

CONSTANTS
    w1,  \* a writer of /proc/timer_demo
    u1,  \* a process using /dev/ioctl_example
    q1,  \* a writer of /proc/workqueue_demo
    f1, f2, \* two open files of /dev/simple_char
    i1,  \* a writer of the threaded irq demo's control file
    k1, k2, \* two writers of /proc/kthread_demo
    s1, s2, \* two users of pm_demo's sysfs attribute "data"
    h1, h2, \* two open files of /dev/demo_flash
    d1,     \* a writer of /proc/dma_demo
    t1,     \* a device matching the dt platform driver
    p1, p2, \* readers of /proc/dt_platform_demo
    dt_null \* NULL for the dt platform driver's pointers

wdt_vars == <<active, timeout, elapsed, expired, timer, cb, lock, core>>
vnet_vars == <<dev, rx_ring, rx_head, rx_tail, napi, missed, poll_pc, processed, sent>>
timer_vars == <<stage, running, pending, callback, pc>>
ioctl_vars == <<speed, mode, value, name, last_error, dev_lock, op, wbuf, got, stored>>
wq_vars == <<mod, proc, wq_alive, wq_pending, phase, canceling, periodic_running,
             custom, wpc>>
schar_vars == <<buffer, size, f_pos>>
irq_vars == <<irq_running, timer_pending, irq_cb, pending_irq, irq_pc, irq_stage>>
spin_vars == <<sl_mod, thr, stop_threads, sl_i>>
pm_vars == <<usage, status, pm_timer, enabled, powered, pm_pc>>
kt_vars == <<kt_mod, kt_proc, poll, ev, stop, event_pending, event_count, kt_wpc,
             triggers, owed>>
flash_vars == <<probed, flash, fl_lock, ppos, fl_pc, wr, before>>
led_vars == <<led_stage, ri, led_active, led_pending, led_cb, led_pc>>
gpio_vars == <<gpio_stage, reg_data, reg_dir, reg_irq_en, reg_irq_type, reg_irq_pol, reg_irq_status, gpio_up, gpio_out, gpio_level, gpio_irq_on, gpio_trigger>>
dma_vars == <<dma_stage, streaming_mapped, live, coherent, dma_pc>>
rtc_vars == <<rtc_stage, wall, armed, left, alarm_time, alarm_enabled, alarm_pending>>
pwm_vars == <<pwm_stage, pwm_channels>>
ds_vars == <<ds_mod, clients, client_count, table, device_count>>
i2c_vars == <<i2c_stage, i2c_power, i2c_regs, i2c_cache, i2c_dirty, i2c_cal>>
dt_vars == <<dt_bound, demo_dev, proc_file, proc_exists, dt_showing>>
pci_vars == <<pci_stage, devres, vectors, pci_kind, irq_requested, pci_status>>
hwmon_vars == <<hw_stage, hw_limit>>
adc_vars == <<adc_stage, adc_channels>>
vars == <<driver, wdt_vars, vnet_vars, timer_vars, ioctl_vars, wq_vars, schar_vars,
          irq_vars, spin_vars, kt_vars, pm_vars, flash_vars, led_vars, gpio_vars, dma_vars, rtc_vars, pwm_vars, ds_vars, i2c_vars, dt_vars, pci_vars, hwmon_vars, adc_vars>>

\* watchdog-driver: timeouts of 1 to 3 seconds, elapsed saturating at 4.
SmallTimeouts == {1, 2, 3}
SmallRequests == {0, 1, 2, 3}  \* 0 is below WDT_MIN_TIMEOUT
W == INSTANCE WatchdogDemo
        WITH Timeouts <- SmallTimeouts, Requests <- SmallRequests,
             MaxElapsed <- 4, NoWayOut <- FALSE

\* virtual-netdev: a ring of 6 slots (5 packets) and a budget of 2, so the
\* ring fills and wraps and a stop can find packets left in it.
V == INSTANCE VnetDemo
        WITH RX_RING_SIZE <- 6, Budget <- 2, MaxSend <- 6, RegisterFails <- TRUE

\* timer-demo: one writer, and none once rmmod has begun.
T == INSTANCE TimerDemo WITH Writers <- {w1}, WriteDuringExit <- FALSE

\* ioctl-device: one process, a name of 4 bytes, counts below and above
\* the clamp, and speeds and modes on both sides of SET_CONFIG's bounds.
I == INSTANCE IoctlDevice
        WITH Procs <- {u1}, NameSize <- 4, Chars <- {1}, Counts <- {1, 4},
             Speeds <- {-1, 1000, 1001}, Modes <- {-1, 3, 4}, Values <- {0, 1}

\* workqueue-demo: one writer issuing every command, two custom works in
\* flight, and rmmod after the writer is done.
Q == INSTANCE WorkqueueDemo
        WITH Writers <- {q1}, Commands <- {"immediate", "delayed", "custom", "start", "stop"},
             MaxCustom <- 2, WriteDuringExit <- FALSE, pending <- wq_pending

\* simple-char: two open files over a 4-byte buffer, counts and offsets that
\* cross the end of the data and of the buffer, and copies that do not
\* fault (simplechar_fault_gap has them fault).
S == INSTANCE SimpleChar
        WITH Files <- {f1, f2}, BUFFER_SIZE <- 4, Chars <- {1, 2}, Counts <- {1, 2, 5},
             Offsets <- {-1, 1, 5}, MaxPos <- 5, WriteFaults <- FALSE

\* threaded-irq-demo: one control writer, and no command begins once remove
\* has.  The ring is checked on its own: 3 slots, samples 0 and 1, and
\* every sequence of up to 5 stores and resets, so it wraps, its count
\* saturates and a reset meets a wrapped ring.
R == INSTANCE ThreadedIrqDemo
        WITH Writers <- {i1}, Values <- {0, 1}, BUFFER_SIZE <- 3, MaxOps <- 5,
             WriteDuringRemove <- FALSE, running <- irq_running, cb <- irq_cb,
             pc <- irq_pc, stage <- irq_stage

\* spinlock-demo: the four threads, any kthread_run() of which may fail.
L == INSTANCE SpinlockDemo WITH ThreadFails <- TRUE, mod <- sl_mod, i <- sl_i

\* kthread-demo: two "event" writers, 3 triggers so that they coalesce while
\* an event is handled, and a kthread_run() that may fail.
K == INSTANCE KthreadDemo
        WITH Writers <- {k1, k2}, MaxTriggers <- 3, KthreadFails <- TRUE,
             mod <- kt_mod, proc <- kt_proc, wpc <- kt_wpc

\* pm-driver: two sysfs users, so accesses overlap and the count goes to 2.
P == INSTANCE PmDemo WITH Users <- {s1, s2}, timer <- pm_timer, pc <- pm_pc

\* spi-device: a 4-byte flash of 2-byte pages and sectors, two open files,
\* counts that stay in a page and that cross it and the end, and erase
\* addresses inside a sector and one past the end.
F == INSTANCE SpiFlash
        WITH Files <- {h1, h2}, FLASH_SIZE <- 4, FLASH_PAGE_SIZE <- 2,
             FLASH_SECTOR_SIZE <- 2, Chars <- {1}, Erased <- 255, Counts <- {1, 3},
             EraseAddrs <- {1, 4}, Offsets <- {-1, 1}, lock <- fl_lock, pc <- fl_pc

\* led-driver: two LEDs, so remove's loop and the devm release each take
\* more than one turn, and blink delays that default, fail and pass.
D == INSTANCE LedDemo
        WITH NUM_LEDS <- 2, Delays <- {<<0, 0>>, <<10, 500>>, <<100, 100>>},
             stage <- led_stage, active <- led_active, pending <- led_pending,
             cb <- led_cb, pc <- led_pc

\* gpio-driver: two lines, so set_multiple() has lines in and out of its
\* mask; registers one bit wider, so stray bits show; debugfs values 0
\* and one that is nonzero but not 1, and an irq type set_type() refuses.
G == INSTANCE GpioChipLines
        WITH NUM_GPIOS <- 2, RegBits <- 3, Values <- {0, 2}, IrqTypes <- {1, 2, 3, 4, 8},
             stage <- gpio_stage, up <- gpio_up, out <- gpio_out, level <- gpio_level,
             irq_on <- gpio_irq_on, trigger <- gpio_trigger

\* dma-demo: one writer of /proc/dma_demo (two race in stats_write()).
M == INSTANCE DmaDemo WITH Writers <- {d1}, stage <- dma_stage, pc <- dma_pc

\* rtc-driver: times 0 to 3 seconds, set_time() before and after the alarm
\* times, and no op once remove() has begun.
C == INSTANCE RtcDemo
        WITH MaxWall <- 3, SetTimes <- {0, 2}, AlarmTimes <- {1, 3},
             OpsDuringRemove <- FALSE, stage <- rtc_stage

\* pwm-driver: two channels, periods 0 and 2, and duty cycles within and
\* past a period of 2.
X == INSTANCE PwmDemo
        WITH NUM_CHANNELS <- 2, Periods <- {0, 2}, Duties <- {1, 3},
             stage <- pwm_stage, channels <- pwm_channels

\* data-structures: the allocations for client 2 and device 300 may fail,
\* populate runs while the table holds fewer than 8 devices, and "find"
\* asks for the stored ids, ids sharing their buckets, and one in none.
Z == INSTANCE DataStructuresDemo
        WITH MayFail <- {2, 300}, MaxEntries <- 8,
             FindIds <- {100, 200, 300, 400, 11, 22, 12, 500}, mod <- ds_mod

\* i2c-sensor: calibbias writes of -1, 0 and 5 and one out of range, and
\* reads between remove() and the devm unregister.
N == INSTANCE I2cSensorDemo
        WITH CalVals <- {-1, 0, 5, 200}, ReadsDuringRemove <- TRUE,
             stage <- i2c_stage, power <- i2c_power, regs <- i2c_regs,
             cache <- i2c_cache, dirty <- i2c_dirty, cal <- i2c_cal

\* dt-platform-driver: one matching device, as on a board with one node,
\* and two readers of its proc file.
B == INSTANCE DtPlatformDemo
        WITH Devices <- {t1}, Readers <- {p1, p2}, NULL <- dt_null,
             bound <- dt_bound, showing <- dt_showing

\* pci-skeleton: one device, probed once, with each failure of its probe.
Y == INSTANCE PciSkeleton
        WITH stage <- pci_stage, kind <- pci_kind, status <- pci_status

\* hwmon-driver: a limit written with one value no probe stores.
H == INSTANCE HwmonDemo WITH LimitVals <- {7}, stage <- hw_stage, limit <- hw_limit

\* iio-adc: raw writes at and past both ends of the 12-bit range.
J == INSTANCE IioAdcDemo
        WITH RawVals <- {-1, 0, 4095, 4096},
             stage <- adc_stage, channels <- adc_channels

Drivers == {"wdt", "vnet", "timer", "ioctl", "wq", "schar", "irq", "spin", "kt", "pm", "flash", "led", "gpio", "dma", "rtc", "pwm", "ds", "i2c", "dt", "pci", "hwmon", "adc"}

\* A step of one driver; the others do not move.
Wdt(A) ==
    /\ driver = "wdt" /\ A
    /\ UNCHANGED <<driver, vnet_vars, timer_vars, ioctl_vars, wq_vars, schar_vars, irq_vars, spin_vars, kt_vars, pm_vars, flash_vars, led_vars, gpio_vars, dma_vars, rtc_vars, pwm_vars, ds_vars, i2c_vars, dt_vars, pci_vars, hwmon_vars, adc_vars>>
Vnet(A) ==
    /\ driver = "vnet" /\ A
    /\ UNCHANGED <<driver, wdt_vars, timer_vars, ioctl_vars, wq_vars, schar_vars, irq_vars, spin_vars, kt_vars, pm_vars, flash_vars, led_vars, gpio_vars, dma_vars, rtc_vars, pwm_vars, ds_vars, i2c_vars, dt_vars, pci_vars, hwmon_vars, adc_vars>>
Timer(A) ==
    /\ driver = "timer" /\ A
    /\ UNCHANGED <<driver, wdt_vars, vnet_vars, ioctl_vars, wq_vars, schar_vars, irq_vars, spin_vars, kt_vars, pm_vars, flash_vars, led_vars, gpio_vars, dma_vars, rtc_vars, pwm_vars, ds_vars, i2c_vars, dt_vars, pci_vars, hwmon_vars, adc_vars>>
Ioctl(A) ==
    /\ driver = "ioctl" /\ A
    /\ UNCHANGED <<driver, wdt_vars, vnet_vars, timer_vars, wq_vars, schar_vars, irq_vars, spin_vars, kt_vars, pm_vars, flash_vars, led_vars, gpio_vars, dma_vars, rtc_vars, pwm_vars, ds_vars, i2c_vars, dt_vars, pci_vars, hwmon_vars, adc_vars>>
Wq(A) ==
    /\ driver = "wq" /\ A
    /\ UNCHANGED <<driver, wdt_vars, vnet_vars, timer_vars, ioctl_vars, schar_vars, irq_vars, spin_vars, kt_vars, pm_vars, flash_vars, led_vars, gpio_vars, dma_vars, rtc_vars, pwm_vars, ds_vars, i2c_vars, dt_vars, pci_vars, hwmon_vars, adc_vars>>
Schar(A) ==
    /\ driver = "schar" /\ A
    /\ UNCHANGED <<driver, wdt_vars, vnet_vars, timer_vars, ioctl_vars, wq_vars, irq_vars, spin_vars, kt_vars, pm_vars, flash_vars, led_vars, gpio_vars, dma_vars, rtc_vars, pwm_vars, ds_vars, i2c_vars, dt_vars, pci_vars, hwmon_vars, adc_vars>>
Irq(A) ==
    /\ driver = "irq" /\ A
    /\ UNCHANGED <<driver, wdt_vars, vnet_vars, timer_vars, ioctl_vars, wq_vars, schar_vars, spin_vars, kt_vars, pm_vars, flash_vars, led_vars, gpio_vars, dma_vars, rtc_vars, pwm_vars, ds_vars, i2c_vars, dt_vars, pci_vars, hwmon_vars, adc_vars>>
Spin(A) ==
    /\ driver = "spin" /\ A
    /\ UNCHANGED <<driver, wdt_vars, vnet_vars, timer_vars, ioctl_vars, wq_vars, schar_vars, irq_vars, kt_vars, pm_vars, flash_vars, led_vars, gpio_vars, dma_vars, rtc_vars, pwm_vars, ds_vars, i2c_vars, dt_vars, pci_vars, hwmon_vars, adc_vars>>
Kt(A) ==
    /\ driver = "kt" /\ A
    /\ UNCHANGED <<driver, wdt_vars, vnet_vars, timer_vars, ioctl_vars, wq_vars, schar_vars, irq_vars, spin_vars, pm_vars, flash_vars, led_vars, gpio_vars, dma_vars, rtc_vars, pwm_vars, ds_vars, i2c_vars, dt_vars, pci_vars, hwmon_vars, adc_vars>>
Pm(A) ==
    /\ driver = "pm" /\ A
    /\ UNCHANGED <<driver, wdt_vars, vnet_vars, timer_vars, ioctl_vars, wq_vars, schar_vars, irq_vars, spin_vars, kt_vars, flash_vars, led_vars, gpio_vars, dma_vars, rtc_vars, pwm_vars, ds_vars, i2c_vars, dt_vars, pci_vars, hwmon_vars, adc_vars>>
Flash(A) ==
    /\ driver = "flash" /\ A
    /\ UNCHANGED <<driver, wdt_vars, vnet_vars, timer_vars, ioctl_vars, wq_vars, schar_vars, irq_vars, spin_vars, kt_vars, pm_vars, led_vars, gpio_vars, dma_vars, rtc_vars, pwm_vars, ds_vars, i2c_vars, dt_vars, pci_vars, hwmon_vars, adc_vars>>
Led(A) ==
    /\ driver = "led" /\ A
    /\ UNCHANGED <<driver, wdt_vars, vnet_vars, timer_vars, ioctl_vars, wq_vars, schar_vars, irq_vars, spin_vars, kt_vars, pm_vars, flash_vars, gpio_vars, dma_vars, rtc_vars, pwm_vars, ds_vars, i2c_vars, dt_vars, pci_vars, hwmon_vars, adc_vars>>
Gpio(A) ==
    /\ driver = "gpio" /\ A
    /\ UNCHANGED <<driver, wdt_vars, vnet_vars, timer_vars, ioctl_vars, wq_vars, schar_vars, irq_vars, spin_vars, kt_vars, pm_vars, flash_vars, led_vars, dma_vars, rtc_vars, pwm_vars, ds_vars, i2c_vars, dt_vars, pci_vars, hwmon_vars, adc_vars>>
Dma(A) ==
    /\ driver = "dma" /\ A
    /\ UNCHANGED <<driver, wdt_vars, vnet_vars, timer_vars, ioctl_vars, wq_vars, schar_vars, irq_vars, spin_vars, kt_vars, pm_vars, flash_vars, led_vars, gpio_vars, rtc_vars, pwm_vars, ds_vars, i2c_vars, dt_vars, pci_vars, hwmon_vars, adc_vars>>
Rtc(A) ==
    /\ driver = "rtc" /\ A
    /\ UNCHANGED <<driver, wdt_vars, vnet_vars, timer_vars, ioctl_vars, wq_vars, schar_vars, irq_vars, spin_vars, kt_vars, pm_vars, flash_vars, led_vars, gpio_vars, dma_vars, pwm_vars, ds_vars, i2c_vars, dt_vars, pci_vars, hwmon_vars, adc_vars>>
Pwm(A) ==
    /\ driver = "pwm" /\ A
    /\ UNCHANGED <<driver, wdt_vars, vnet_vars, timer_vars, ioctl_vars, wq_vars, schar_vars, irq_vars, spin_vars, kt_vars, pm_vars, flash_vars, led_vars, gpio_vars, dma_vars, rtc_vars, ds_vars, i2c_vars, dt_vars, pci_vars, hwmon_vars, adc_vars>>
Ds(A) ==
    /\ driver = "ds" /\ A
    /\ UNCHANGED <<driver, wdt_vars, vnet_vars, timer_vars, ioctl_vars, wq_vars, schar_vars, irq_vars, spin_vars, kt_vars, pm_vars, flash_vars, led_vars, gpio_vars, dma_vars, rtc_vars, pwm_vars, i2c_vars, dt_vars, pci_vars, hwmon_vars, adc_vars>>
Sensor(A) ==
    /\ driver = "i2c" /\ A
    /\ UNCHANGED <<driver, wdt_vars, vnet_vars, timer_vars, ioctl_vars, wq_vars, schar_vars, irq_vars, spin_vars, kt_vars, pm_vars, flash_vars, led_vars, gpio_vars, dma_vars, rtc_vars, pwm_vars, ds_vars, dt_vars, pci_vars, hwmon_vars, adc_vars>>
Dt(A) ==
    /\ driver = "dt" /\ A
    /\ UNCHANGED <<driver, wdt_vars, vnet_vars, timer_vars, ioctl_vars, wq_vars, schar_vars, irq_vars, spin_vars, kt_vars, pm_vars, flash_vars, led_vars, gpio_vars, dma_vars, rtc_vars, pwm_vars, ds_vars, i2c_vars, pci_vars, hwmon_vars, adc_vars>>
Pci(A) ==
    /\ driver = "pci" /\ A
    /\ UNCHANGED <<driver, wdt_vars, vnet_vars, timer_vars, ioctl_vars, wq_vars, schar_vars, irq_vars, spin_vars, kt_vars, pm_vars, flash_vars, led_vars, gpio_vars, dma_vars, rtc_vars, pwm_vars, ds_vars, i2c_vars, dt_vars, hwmon_vars, adc_vars>>
Hwmon(A) ==
    /\ driver = "hwmon" /\ A
    /\ UNCHANGED <<driver, wdt_vars, vnet_vars, timer_vars, ioctl_vars, wq_vars, schar_vars, irq_vars, spin_vars, kt_vars, pm_vars, flash_vars, led_vars, gpio_vars, dma_vars, rtc_vars, pwm_vars, ds_vars, i2c_vars, dt_vars, pci_vars, adc_vars>>
Adc(A) ==
    /\ driver = "adc" /\ A
    /\ UNCHANGED <<driver, wdt_vars, vnet_vars, timer_vars, ioctl_vars, wq_vars, schar_vars, irq_vars, spin_vars, kt_vars, pm_vars, flash_vars, led_vars, gpio_vars, dma_vars, rtc_vars, pwm_vars, ds_vars, i2c_vars, dt_vars, pci_vars, hwmon_vars>>

Init ==
    /\ driver \in Drivers
    /\ W!Init /\ V!Init /\ T!Init /\ I!Init /\ Q!Init /\ S!Init /\ R!Init /\ L!Init /\ K!Init /\ P!Init
    /\ F!Init /\ D!Init /\ G!Init /\ M!Init /\ C!Init /\ X!Init /\ Z!Init /\ N!Init /\ B!Init
    /\ Y!Init /\ H!Init /\ J!Init

\* Each driver's Next, one action per disjunct.
Next ==
    \/ Wdt(W!Tick) \/ Wdt(W!TimerFire) \/ Wdt(W!demo_wdt_timer_cb)
    \/ Wdt(W!demo_wdt_start) \/ Wdt(W!demo_wdt_stop) \/ Wdt(W!StopSync)
    \/ Wdt(W!demo_wdt_ping) \/ Wdt(W!demo_wdt_set_timeout) \/ Wdt(W!SetTimeoutPing)
    \/ Vnet(V!vnet_init) \/ Vnet(V!vnet_open) \/ Vnet(V!vnet_stop)
    \/ Vnet(V!vnet_exit) \/ Vnet(V!StopDisable) \/ Vnet(V!vnet_start_xmit)
    \/ Vnet(V!PollStart) \/ Vnet(V!PollDequeue) \/ Vnet(V!PollBudgetDone)
    \/ Vnet(V!PollComplete)
    \/ Timer(T!timer_demo_init) \/ Timer(T!ExitStopTimer)
    \/ Timer(T!ExitStopHrtimer) \/ Timer(T!ExitRemoveProc)
    \/ \E t \in T!Timers : Timer(T!Fire(t)) \/ Timer(T!Callback(t))
    \/ \E a \in T!Actors : Timer(T!StopSync(a))
    \/ \E t \in T!Timers : Timer(T!Start(w1, t)) \/ Timer(T!Stop(w1, t))
    \/ Ioctl(I!ioctl_read(u1)) \/ Ioctl(I!ReadCopy(u1))
    \/ Ioctl(I!ioctl_write(u1)) \/ Ioctl(I!WriteHi(u1))
    \/ Ioctl(I!ioctl_reset(u1)) \/ Ioctl(I!ioctl_get(u1))
    \/ Ioctl(I!ioctl_set_config(u1)) \/ Ioctl(I!ioctl_set_value(u1))
    \/ Ioctl(I!ioctl_xfer_or_unknown(u1))
    \/ \E w \in Q!Works : Wq(Q!WorkRun(w)) \/ Wq(Q!WorkDone(w))
    \/ Wq(Q!PerCheck) \/ Wq(Q!PerResched) \/ Wq(Q!CustomRun)
    \/ Wq(Q!ExitStart) \/ Wq(Q!ExitGrab) \/ Wq(Q!ExitRelease)
    \/ Wq(Q!ExitFlush) \/ Wq(Q!ExitRemove)
    \/ Wq(Q!submit_immediate(q1)) \/ Wq(Q!submit_delayed(q1))
    \/ Wq(Q!submit_custom(q1)) \/ Wq(Q!start_periodic(q1))
    \/ Wq(Q!StopClear(q1)) \/ Wq(Q!StopGrab(q1)) \/ Wq(Q!StopRelease(q1))
    \/ \E f \in {f1, f2} :
          Schar(S!schar_read(f)) \/ Schar(S!schar_write(f)) \/ Schar(S!simple_llseek(f))
    \/ Irq(R!TimerFire) \/ Irq(R!CbCheck) \/ Irq(R!CbRearm)
    \/ Irq(R!StartRun(i1)) \/ Irq(R!StartArm(i1)) \/ Irq(R!StopRun(i1))
    \/ Irq(R!StopSync(i1))
    \/ Irq(R!RemoveBegin) \/ Irq(R!RemoveSync) \/ Irq(R!RemoveProc)
    \/ Spin(L!spinlock_demo_init) \/ Spin(L!ExitBegin) \/ Spin(L!ExitStop)
    \/ Spin(L!ExitRemoveProc) \/ \E t \in L!Ids : Spin(L!ThreadReturn(t))
    \/ Kt(K!InitProc) \/ Kt(K!InitPoll) \/ Kt(K!InitEvent) \/ Kt(K!InitUnwind)
    \/ Kt(K!ExitStopEvent) \/ Kt(K!ExitStopPoll) \/ Kt(K!ExitRemoveProc)
    \/ Kt(K!PollTop) \/ Kt(K!PollWake) \/ Kt(K!EvTop) \/ Kt(K!EvWait) \/ Kt(K!EvHandle)
    \/ \E w \in {k1, k2} : Kt(K!WriteEnter(w)) \/ Kt(K!trigger_event(w))
    \/ Pm(P!Autosuspend) \/ Pm(P!pm_demo_remove)
    \/ \E u \in {s1, s2} :
          \/ Pm(P!data_show(u)) \/ Pm(P!ReadPut(u)) \/ Pm(P!ReadRet(u))
          \/ Pm(P!data_store(u)) \/ Pm(P!WriteDone(u))
    \/ Flash(F!demo_flash_probe)
    \/ \E h \in {h1, h2} :
          \/ Flash(F!demo_flash_open(h)) \/ Flash(F!demo_flash_fread(h))
          \/ Flash(F!demo_flash_fwrite(h)) \/ Flash(F!ProgramPage(h))
          \/ Flash(F!demo_flash_ioctl_erase(h)) \/ Flash(F!demo_flash_llseek(h))
    \/ Led(D!demo_leds_init) \/ Led(D!ExitBegin) \/ Led(D!RemoveLed)
    \/ Led(D!UnregisterOff) \/ Led(D!UnregisterDone) \/ Led(D!TimerSync(D!Exit))
    \/ \E l \in D!Leds :
          \/ Led(D!UserBrightnessSet(l)) \/ Led(D!TimerSync(l))
          \/ Led(D!demo_led_blink_set(l)) \/ Led(D!Fire(l)) \/ Led(D!BlinkTimer(l))
    \/ Gpio(G!Load) \/ Gpio(G!Unload)
    \/ \E o \in 0 .. 1, v \in {0, 1} :
          Gpio(G!DirectionInput(o)) \/ Gpio(G!DirectionOutput(o, v)) \/ Gpio(G!Set(o, v))
    \/ \E mask \in 0 .. 3, bits \in 0 .. 7 : Gpio(G!SetMultiple(mask, bits))
    \/ \E h \in 0 .. 1 : Gpio(G!IrqMask(h)) \/ Gpio(G!IrqUnmask(h)) \/ Gpio(G!IrqAck(h))
    \/ \E h \in 0 .. 1, t \in {1, 2, 3, 4, 8} : Gpio(G!IrqSetType(h, t))
    \/ \E pin \in 0 .. 2, x \in {0, 2} : Gpio(G!DebugfsWrite(pin, x))
    \/ Dma(M!dma_demo_init) \/ Dma(M!dma_demo_exit)
    \/ Dma(M!map_streaming(d1)) \/ Dma(M!MapDone(d1))
    \/ Dma(M!unmap_streaming(d1)) \/ Dma(M!UnmapDone(d1))
    \/ Rtc(C!demo_rtc_init) \/ Rtc(C!demo_rtc_remove) \/ Rtc(C!DevmRelease)
    \/ Rtc(C!demo_rtc_exit) \/ Rtc(C!Tick) \/ Rtc(C!demo_rtc_alarm_callback)
    \/ \E t \in {0, 2} : Rtc(C!demo_rtc_set_time(t))
    \/ \E t \in {1, 3}, e \in BOOLEAN : Rtc(C!demo_rtc_set_alarm(t, e))
    \/ \E e \in BOOLEAN : Rtc(C!demo_rtc_alarm_irq_enable(e))
    \/ Pwm(X!demo_pwm_init) \/ Pwm(X!demo_pwm_exit)
    \/ \E c \in X!Channels :
          Pwm(X!demo_pwm_free(c)) \/ \E s \in X!Requests : Pwm(X!demo_pwm_apply(c, s))
    \/ Ds(Z!data_structures_demo_init) \/ Ds(Z!data_structures_demo_exit)
    \/ Ds(Z!Populate) \/ Ds(Z!Clear)
    \/ Sensor(N!demo_sensor_probe) \/ Sensor(N!demo_sensor_suspend)
    \/ Sensor(N!demo_sensor_resume) \/ Sensor(N!demo_sensor_remove)
    \/ Sensor(N!DevmRelease) \/ \E c \in N!Chans : Sensor(N!demo_sensor_read(c))
    \/ \E c \in N!Chans, v \in {-1, 0, 5, 200} : Sensor(N!demo_sensor_write_raw(c, v))
    \/ Dt(B!dt_demo_probe(t1)) \/ Dt(B!dt_demo_remove(t1))
    \/ \E r \in {p1, p2} : Dt(B!ShowBegin(r)) \/ Dt(B!ShowEnd(r))
    \/ Pci(Y!skeleton_probe) \/ Pci(Y!Raise) \/ Pci(Y!skeleton_irq)
    \/ Pci(Y!skeleton_remove) \/ Pci(Y!DevresRelease)
    \/ Hwmon(H!demo_hwmon_init) \/ Hwmon(H!demo_hwmon_exit)
    \/ \E d \in H!Declared : Hwmon(H!demo_hwmon_write(d[1], d[2], d[3], 7))
    \/ Adc(J!demo_adc_init) \/ Adc(J!demo_adc_exit)
    \/ \E c \in J!Chans, v \in {-1, 0, 4095, 4096} : Adc(J!demo_adc_write_raw(c, v))

Fairness ==
    /\ WF_vars(Wdt(W!Tick)) /\ WF_vars(Wdt(W!TimerFire))
    /\ SF_vars(Wdt(W!demo_wdt_timer_cb)) /\ SF_vars(Wdt(W!StopSync))
    /\ WF_vars(Wdt(W!SetTimeoutPing))
    /\ WF_vars(Vnet(V!Poll)) /\ WF_vars(Vnet(V!StopDisable))
    /\ \A t \in T!Timers : WF_vars(Timer(T!Timer(t)))
    /\ \A a \in T!Actors : WF_vars(Timer(T!StopSync(a)))
    /\ WF_vars(Timer(T!ExitStopHrtimer \/ T!ExitRemoveProc))
    /\ WF_vars(Ioctl(I!WriteHi(u1) \/ I!ReadCopy(u1)))
    /\ WF_vars(Wq(Q!Worker))
    /\ WF_vars(Wq(Q!ExitGrab \/ Q!ExitRelease \/ Q!ExitFlush \/ Q!ExitRemove))
    /\ WF_vars(Wq(Q!StopGrab(q1) \/ Q!StopRelease(q1)))
    /\ WF_vars(Irq(R!TimerFire)) /\ WF_vars(Irq(R!CbCheck)) /\ WF_vars(Irq(R!CbRearm))
    /\ WF_vars(Irq(R!StartArm(i1))) /\ SF_vars(Irq(R!StopSync(i1)))
    /\ SF_vars(Irq(R!RemoveSync)) /\ WF_vars(Irq(R!RemoveProc))
    /\ \A t \in L!Ids : WF_vars(Spin(L!ThreadReturn(t)))
    /\ WF_vars(Spin(L!ExitStop \/ L!ExitRemoveProc))
    /\ WF_vars(Kt(K!InitPoll)) /\ WF_vars(Kt(K!InitEvent)) /\ WF_vars(Kt(K!InitUnwind))
    /\ WF_vars(Kt(K!ExitStopPoll)) /\ WF_vars(Kt(K!ExitRemoveProc))
    /\ WF_vars(Kt(K!PollTop)) /\ WF_vars(Kt(K!PollWake))
    /\ WF_vars(Kt(K!EvTop)) /\ WF_vars(Kt(K!EvWait)) /\ WF_vars(Kt(K!EvHandle))
    /\ \A w \in {k1, k2} : WF_vars(Kt(K!trigger_event(w)))
    /\ WF_vars(Pm(P!Autosuspend))
    /\ \A u \in {s1, s2} : WF_vars(Pm(P!ReadPut(u) \/ P!ReadRet(u) \/ P!WriteDone(u)))

Spec == Init /\ [][Next]_vars /\ Fairness

(***************************************************************************)
(* The properties, stated in the drivers' modules.  An invariant is        *)
(* checked in the states of its driver's behaviours: in the others its     *)
(* state is its Init, which those behaviours also start from.  A liveness  *)
(* property is checked of the behaviours of its driver: in the others its  *)
(* state never moves, so IdleSuspends, whose premise holds initially,      *)
(* names the driver in its premise.                                        *)
(***************************************************************************)
CheckInFlight == driver = "wdt" => W!CheckInFlight
StarvedExpires == W!StarvedExpires
NoStrandedPackets == driver = "vnet" => V!NoStrandedPackets
RingImplementsFifo == V!RingImplementsFifo
PacketsLeaveRing == V!PacketsLeaveRing
TimerInFlight == driver = "timer" => T!TimerInFlight
NoTimerAfterExit == driver = "timer" => T!NoTimerAfterExit
NameTerminated == driver = "ioctl" => I!NameTerminated
PeriodicAlive == driver = "wq" => Q!PeriodicAlive
RefinesByteFile == S!RefinesByteFile
RunningImpliesArmed == driver = "irq" => R!RunningImpliesArmed
RingShowsLog == driver = "irq" => R!RingShowsLog
NoTimerAfterRemove == driver = "irq" => R!NoTimerAfterRemove
NoThreadAfterExit == driver = "spin" => L!NoThreadAfterExit
NoSpuriousEvents == driver = "kt" => K!NoSpuriousEvents
FailedInitClean == driver = "kt" => K!FailedInitClean
TriggerHandled == K!TriggerHandled
ExitReturns == K!ExitReturns
UsageBalanced == driver = "pm" => P!UsageBalanced
IdleSuspends == (driver = "pm" /\ P!IdleActive) ~> P!IdleLeft
RefinesFlashFile == F!RefinesFlashFile
NoBlinkAfterRemove == driver = "led" => D!NoBlinkAfterRemove
LinesMatchRegisters == driver = "gpio" => G!LinesMatchRegisters
NoDmaLeak == driver = "dma" => M!NoDmaLeak
DisabledAlarmSilent == driver = "rtc" => C!DisabledAlarmSilent
ChannelsValid == driver = "pwm" => X!ChannelsValid
FindIsLookup == driver = "ds" => Z!FindIsLookup
CountsMatch == driver = "ds" => Z!CountsMatch
CalibrationRestored == driver = "i2c" => N!CalibrationRestored
ShowUsesBoundDevice == driver = "dt" => B!ShowUsesBoundDevice
HandlerSeesMappedBar == driver = "pci" => Y!HandlerSeesMappedBar
OpsMatchVisibility == driver = "hwmon" => H!OpsMatchVisibility
============================================================================
