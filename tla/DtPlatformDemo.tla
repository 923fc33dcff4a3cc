---------------------------- MODULE DtPlatformDemo ----------------------------
(***************************************************************************)
(* The device tree platform driver demo, src/examples/part8/              *)
(* dt-platform-driver/dt_platform_demo.c.                                  *)
(*                                                                         *)
(* Each device that matches one of the two compatibles is probed: its     *)
(* properties, GPIOs, clock, regulator and child nodes are read, and each *)
(* step may fail the probe.  A successful probe stores the device in the  *)
(* global demo_dev and creates /proc/dt_platform_demo, storing the entry  *)
(* in the global proc_file; the driver ignores a failed proc_create().    *)
(* A read of the proc file runs dt_demo_show() on demo_dev.  Remove       *)
(* removes the entry by name if proc_file is set, clears demo_dev, and    *)
(* devm then frees the device's struct dt_demo_device.                     *)
(*                                                                         *)
(* What probe reads from the device tree is data only the show prints, so *)
(* a probe is a success or one of its failures.  remove_proc_entry() waits *)
(* for the reads under way and lets no new one start, so remove runs as   *)
(* one step once no read is inside dt_demo_show().                         *)
(***************************************************************************)
CONSTANTS
    Devices,   \* the platform devices that match dt_demo_of_match
    Readers,   \* processes reading /proc/dt_platform_demo
    NULL

VARIABLES
    bound,        \* the devices the driver is bound to
    demo_dev,     \* the global demo_dev: a device's data, or NULL
    proc_file,    \* the global proc_file is not NULL
    proc_exists,  \* /proc/dt_platform_demo is registered
    showing       \* reader -> the device whose data its dt_demo_show() uses, or NULL

vars == <<bound, demo_dev, proc_file, proc_exists, showing>>

Init ==
    /\ bound = {} /\ demo_dev = NULL
    /\ proc_file = FALSE /\ proc_exists = FALSE
    /\ showing = [r \in Readers |-> NULL]

\* proc_create() fails, returning NULL, when the name is already
\* registered.
proc_create ==
    /\ proc_file' = ~proc_exists
    /\ proc_exists' = TRUE

\* dt_demo_probe() succeeding: demo_dev = demo, then proc_create().  Its
\* failures (no variant, devm_kzalloc(), the required buffer-size, a GPIO,
\* the clock, the regulator, a child without "reg") all come before
\* demo_dev is set and change nothing the model holds.
dt_demo_probe(d) ==
    /\ d \notin bound
    /\ bound' = bound \cup {d}
    /\ demo_dev' = d
    /\ proc_create
    /\ UNCHANGED showing

(***************************************************************************)
(* Mutants: plausible slips in the definitions below.                      *)
(***************************************************************************)
\* A remove that clears demo_dev but leaves the proc entry to the exit path.
MutRemoveKeepProc(d) ==
    /\ d \in bound
    /\ bound' = bound \ {d}
    /\ demo_dev' = NULL
    /\ UNCHANGED <<proc_file, proc_exists, showing>>

\* dt_demo_remove(): remove_proc_entry() if proc_file is set, which waits
\* out the reads in dt_demo_show(); demo_dev = NULL; then the devm release
\* of the device's data.  proc_file keeps its value.
dt_demo_remove(d) ==
    /\ d \in bound
    /\ proc_file => \A r \in Readers : showing[r] = NULL
    /\ proc_exists' = (proc_exists /\ ~proc_file)
    /\ bound' = bound \ {d}
    /\ demo_dev' = NULL
    /\ UNCHANGED <<proc_file, showing>>

\* A read of the proc file enters dt_demo_show(), which takes demo_dev and
\* returns -ENODEV at once if it is NULL.
ShowBegin(r) ==
    /\ proc_exists /\ showing[r] = NULL /\ demo_dev # NULL
    /\ showing' = [showing EXCEPT ![r] = demo_dev]
    /\ UNCHANGED <<bound, demo_dev, proc_file, proc_exists>>

\* dt_demo_show() prints the variant, the properties and the channels, and
\* returns.
ShowEnd(r) ==
    /\ showing[r] # NULL
    /\ showing' = [showing EXCEPT ![r] = NULL]
    /\ UNCHANGED <<bound, demo_dev, proc_file, proc_exists>>

Next ==
    \/ \E d \in Devices : dt_demo_probe(d) \/ dt_demo_remove(d)
    \/ \E r \in Readers : ShowBegin(r) \/ ShowEnd(r)

Spec == Init /\ [][Next]_vars

-----------------------------------------------------------------------------
(***************************************************************************)
(* A read of /proc/dt_platform_demo only ever prints the data of a device  *)
(* that is still bound: remove_proc_entry() in dt_demo_remove() must wait  *)
(* for a dt_demo_show() that took demo_dev before devm frees it.  It       *)
(* relies on proc_file naming the entry; a second device, whose            *)
(* proc_create() fails and sets proc_file to NULL, breaks it.              *)
(***************************************************************************)
ShowUsesBoundDevice ==
    \A r \in Readers : showing[r] # NULL => showing[r] \in bound
================================================================================
