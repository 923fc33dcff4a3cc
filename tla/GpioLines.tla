------------------------------ MODULE GpioLines ------------------------------
(***************************************************************************)
(* What a GPIO controller with interrupts promises, line by line: each     *)
(* line is an input or an output and has a level; setting a line or a     *)
(* set of lines changes those lines alone; an outside input change reaches *)
(* inputs only; each line's interrupt is masked or not and has one of four *)
(* triggers, and an unknown trigger is refused.  A controller comes up     *)
(* with every line an input at 0, masked, triggering on a low level.      *)
(* GpioChipDemo implements it.                                             *)
(***************************************************************************)
EXTENDS Naturals

CONSTANTS Lines, Triggers, ResetTrigger

VARIABLES
    up,       \* the controller is registered
    out,      \* line -> it is an output
    level,    \* line -> 0 or 1
    irq_on,   \* line -> its interrupt is unmasked
    trigger   \* line -> one of Triggers

\* A controller comes up with every line an input at 0, masked, on the
\* reset trigger.
Reset(o, l, i, t) ==
    /\ o = [p \in Lines |-> FALSE] /\ l = [p \in Lines |-> 0]
    /\ i = [p \in Lines |-> FALSE] /\ t = [p \in Lines |-> ResetTrigger]

Init == up = FALSE /\ Reset(out, level, irq_on, trigger)

Attach == ~up /\ up' = TRUE /\ Reset(out', level', irq_on', trigger')
Detach == up /\ up' = FALSE /\ UNCHANGED <<out, level, irq_on, trigger>>

Line(A) == up /\ A /\ UNCHANGED up

DirIn(p) == Line(out' = [out EXCEPT ![p] = FALSE] /\ UNCHANGED <<level, irq_on, trigger>>)

DirOut(p, v) == Line(
    /\ out' = [out EXCEPT ![p] = TRUE] /\ level' = [level EXCEPT ![p] = v]
    /\ UNCHANGED <<irq_on, trigger>>)

SetLevel(p, v) == Line(level' = [level EXCEPT ![p] = v] /\ UNCHANGED <<out, irq_on, trigger>>)

\* The lines of M go to 1 if in High, else to 0.
SetLevels(M, High) == Line(
    /\ level' = [p \in Lines |-> IF p \in M THEN (IF p \in High THEN 1 ELSE 0) ELSE level[p]]
    /\ UNCHANGED <<out, irq_on, trigger>>)

Input(p, v) == Line(
    /\ level' = IF out[p] THEN level ELSE [level EXCEPT ![p] = v]
    /\ UNCHANGED <<out, irq_on, trigger>>)

Mask(p, on) == Line(irq_on' = [irq_on EXCEPT ![p] = on] /\ UNCHANGED <<out, level, trigger>>)

SetTrigger(p, t) == Line(
    /\ trigger' = IF t \in Triggers THEN [trigger EXCEPT ![p] = t] ELSE trigger
    /\ UNCHANGED <<out, level, irq_on>>)

Next ==
    \/ Attach \/ Detach
    \/ \E p \in Lines, v \in {0, 1} : DirIn(p) \/ DirOut(p, v) \/ SetLevel(p, v) \/ Input(p, v)
    \/ \E M, High \in SUBSET Lines : SetLevels(M, High)
    \/ \E p \in Lines, on \in BOOLEAN : Mask(p, on)
    \/ \E p \in Lines, t \in Triggers : SetTrigger(p, t)

Spec == Init /\ [][Next]_<<up, out, level, irq_on, trigger>>
================================================================================
