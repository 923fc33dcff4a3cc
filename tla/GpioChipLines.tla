---------------------------- MODULE GpioChipLines ----------------------------
(***************************************************************************)
(* GpioChipDemo run in lockstep with GpioLines: every callback of the      *)
(* driver is paired with the line operation it implements, with the same  *)
(* arguments, so the registers and the line view can be compared after     *)
(* every step.  The line operations have no guard but the controller       *)
(* being up, which the driver's callbacks also need, so the pairing never  *)
(* hides a step of the driver.                                             *)
(***************************************************************************)
EXTENDS Naturals

CONSTANTS NUM_GPIOS, RegBits, Values, IrqTypes

VARIABLES
    stage, reg_data, reg_dir, reg_irq_en, reg_irq_type, reg_irq_pol, reg_irq_status,
    up, out, level, irq_on, trigger

C == INSTANCE GpioChipDemo
L == INSTANCE GpioLines
        WITH Lines <- C!Lines, ResetTrigger <- C!IRQ_TYPE_LEVEL_LOW,
             Triggers <- {C!IRQ_TYPE_EDGE_RISING, C!IRQ_TYPE_EDGE_FALLING,
                          C!IRQ_TYPE_LEVEL_HIGH, C!IRQ_TYPE_LEVEL_LOW}

lines == <<up, out, level, irq_on, trigger>>
vars == <<C!vars, lines>>

\* The lines whose bits are set in a register value.
LinesOf(r) == {p \in C!Lines : C!IsSet(r, p)}

Init == C!Init /\ L!Init

Load ==
    /\ C!demo_gpio_init
    /\ IF stage' = "probed" THEN L!Attach ELSE UNCHANGED lines

Unload ==
    /\ C!demo_gpio_exit
    /\ IF stage = "probed" THEN L!Detach ELSE UNCHANGED lines

DirectionInput(o) == C!demo_gpio_direction_input(o) /\ L!DirIn(o)
DirectionOutput(o, v) == C!demo_gpio_direction_output(o, v) /\ L!DirOut(o, v)
Set(o, v) == C!demo_gpio_set(o, v) /\ L!SetLevel(o, v)
SetMultiple(mask, bits) ==
    C!demo_gpio_set_multiple(mask, bits) /\ L!SetLevels(LinesOf(mask), LinesOf(bits))
IrqMask(h) == C!demo_irq_mask(h) /\ L!Mask(h, FALSE)
IrqUnmask(h) == C!demo_irq_unmask(h) /\ L!Mask(h, TRUE)
IrqSetType(h, t) == C!demo_irq_set_type(h, t) /\ L!SetTrigger(h, t)
IrqAck(h) == C!demo_irq_ack(h) /\ UNCHANGED lines
DebugfsWrite(pin, value) ==
    C!demo_gpio_debugfs_write(pin, value) /\ L!Input(pin, IF value # 0 THEN 1 ELSE 0)

Next ==
    \/ Load \/ Unload
    \/ \E o \in C!Lines, v \in {0, 1} : DirectionInput(o) \/ DirectionOutput(o, v) \/ Set(o, v)
    \/ \E mask \in 0 .. 2^NUM_GPIOS - 1, bits \in C!Regs : SetMultiple(mask, bits)
    \/ \E h \in C!Lines : IrqMask(h) \/ IrqUnmask(h) \/ IrqAck(h)
    \/ \E h \in C!Lines, t \in IrqTypes : IrqSetType(h, t)
    \/ \E pin \in 0 .. NUM_GPIOS, value \in Values : DebugfsWrite(pin, value)

Spec == Init /\ [][Next]_vars

-----------------------------------------------------------------------------
\* The trigger a line's type and polarity bits stand for.
TriggerOf(p) ==
    CASE  C!IsSet(reg_irq_type, p) /\  C!IsSet(reg_irq_pol, p) -> C!IRQ_TYPE_EDGE_RISING
      []  C!IsSet(reg_irq_type, p) /\ ~C!IsSet(reg_irq_pol, p) -> C!IRQ_TYPE_EDGE_FALLING
      [] ~C!IsSet(reg_irq_type, p) /\  C!IsSet(reg_irq_pol, p) -> C!IRQ_TYPE_LEVEL_HIGH
      [] ~C!IsSet(reg_irq_type, p) /\ ~C!IsSet(reg_irq_pol, p) -> C!IRQ_TYPE_LEVEL_LOW

(***************************************************************************)
(* The registers hold exactly the lines: after any sequence of callbacks,  *)
(* what get_direction(), get(), the enable bit and the type and polarity   *)
(* bits report for each line, and get_multiple() for all lines, is what    *)
(* the line operations made of them, and no register has a bit past the   *)
(* last line.  It is about the bit arithmetic of every callback (BIT(),    *)
(* ~BIT(), set_multiple()'s mask), set_type()'s switch and its -EINVAL,    *)
(* and the debugfs write's pin and direction tests.                        *)
(***************************************************************************)
LinesMatchRegisters ==
    /\ up = (stage = "probed")
    /\ \A r \in {reg_data, reg_dir, reg_irq_en, reg_irq_type, reg_irq_pol} : r < 2^NUM_GPIOS
    /\ LinesOf(C!demo_gpio_get_multiple(2^NUM_GPIOS - 1)) = {p \in C!Lines : level[p] = 1}
    /\ \A p \in C!Lines :
          /\ out[p] = (C!demo_gpio_get_direction(p) = 0)
          /\ level[p] = C!demo_gpio_get(p)
          /\ irq_on[p] = C!IsSet(reg_irq_en, p)
          /\ trigger[p] = TriggerOf(p)
================================================================================
