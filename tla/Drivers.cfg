\* The demo drivers, each in its own behaviours: the watchdog (every op,
\* stop included, against the check timer), the virtual netdev (transmit,
\* poll, ifup/ifdown and rmmod), the timer demo (one writer starting and
\* stopping both timers, and rmmod), the ioctl device (one process using
\* read, write and every ioctl), the workqueue demo (one writer, every
\* command, then rmmod), the simple char device (two open files), the
\* threaded irq demo (one control writer, remove, and its ring's
\* arithmetic over every short sequence of stores and resets), the
\* spinlock demo (its threads through init and rmmod), the kthread demo
\* (two "event" writers, a failing kthread_run(), rmmod), the pm demo (two
\* sysfs users, runtime PM with autosuspend, remove), the SPI flash demo
\* (two open files, page-wise writes that may fail, erase and llseek), the
\* LED demo (two LEDs, their sysfs users, blink timers, remove and the devm
\* release), the GPIO controller (two lines, every callback), the DMA demo
\* (one writer mapping and unmapping, remove), the RTC demo (every class
\* op, the alarm timer, remove) the PWM demo (two channels, apply and
\* free) and the data structures demo (one writer: populate with failing
\* allocations, clear, and rmmod) and the I2C sensor
\* (calibbias writes, reads, system sleep with power loss, remove with reads
\* in its window, unbind and rebind) and the
\* dt platform driver (one device, two proc readers, probe and remove), the
\* PCI skeleton (probe with each failure, interrupts, remove, the devres
\* release), the hwmon demo (load, limit writes, unload) and the IIO ADC
\* (load, raw writes in and out of range, unload).
CONSTANTS
    w1 = w1
    u1 = u1
    q1 = q1
    f1 = f1
    f2 = f2
    i1 = i1
    k1 = k1
    k2 = k2
    s1 = s1
    s2 = s2
    h1 = h1
    h2 = h2
    d1 = d1
    t1 = t1
    p1 = p1
    p2 = p2
    dt_null = dt_null
SPECIFICATION Spec
INVARIANT CheckInFlight
PROPERTY StarvedExpires
INVARIANT NoStrandedPackets
PROPERTY RingImplementsFifo
PROPERTY PacketsLeaveRing
INVARIANT TimerInFlight
INVARIANT NoTimerAfterExit
INVARIANT NameTerminated
INVARIANT PeriodicAlive
PROPERTY RefinesByteFile
INVARIANT RunningImpliesArmed
INVARIANT RingShowsLog
INVARIANT NoTimerAfterRemove
INVARIANT NoThreadAfterExit
INVARIANT NoSpuriousEvents
INVARIANT FailedInitClean
PROPERTY TriggerHandled
PROPERTY ExitReturns
INVARIANT UsageBalanced
PROPERTY IdleSuspends
PROPERTY RefinesFlashFile
INVARIANT NoBlinkAfterRemove
\* The system stops after rmmod, after a failed init, and where a watchdog
\* stop meets a spinning callback (wdt_stop_deadlock).
CHECK_DEADLOCK FALSE
INVARIANT LinesMatchRegisters
INVARIANT NoDmaLeak
INVARIANT DisabledAlarmSilent
 
INVARIANT ChannelsValid
INVARIANT FindIsLookup
INVARIANT CountsMatch
INVARIANT CalibrationRestored
INVARIANT ShowUsesBoundDevice
INVARIANT HandlerSeesMappedBar
INVARIANT OpsMatchVisibility
