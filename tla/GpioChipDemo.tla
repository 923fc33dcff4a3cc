----------------------------- MODULE GpioChipDemo -----------------------------
(***************************************************************************)
(* The GPIO controller demo, src/examples/part9/gpio-driver/               *)
(* gpio_chip_demo.c.  The controller is six u32 registers, one bit per     *)
(* line, and every callback reads or rewrites them under gpio->lock, so    *)
(* each callback is one action.  gpiolib and the irq core call the         *)
(* callbacks with an offset below ngpio; set_multiple()'s bits are only    *)
(* meaningful under its mask, so any bits may come with it.  The debugfs   *)
(* file simulates input changes from a "pin value" line; the parse errors  *)
(* change nothing and are left out, the pin test is kept.                  *)
(*                                                                         *)
(* The registers are modelled RegBits wide instead of 32; the lines use    *)
(* the low NUM_GPIOS bits.                                                 *)
(***************************************************************************)
EXTENDS Naturals, Bitwise

CONSTANTS
    NUM_GPIOS,    \* 8 in the code
    RegBits,      \* the register width modelled (u32 in the code)
    Values,       \* values written to the debugfs file
    IrqTypes      \* types passed to irq_set_type()

ASSUME NUM_GPIOS <= RegBits

Lines == 0 .. NUM_GPIOS - 1
RegMax == 2^RegBits - 1
Regs == 0 .. RegMax
BIT(o) == 2^o
Compl(x) == RegMax - x          \* ~x on a RegBits-wide register
IsSet(r, o) == (r \div BIT(o)) % 2 = 1

\* include/dt-bindings/interrupt-controller/irq.h
IRQ_TYPE_EDGE_RISING == 1
IRQ_TYPE_EDGE_FALLING == 2
IRQ_TYPE_LEVEL_HIGH == 4
IRQ_TYPE_LEVEL_LOW == 8

VARIABLES
    stage,           \* "unloaded", "failed", "nodev", "probed" or "gone"
    reg_data, reg_dir, reg_irq_en, reg_irq_type, reg_irq_pol, reg_irq_status

regs == <<reg_data, reg_dir, reg_irq_en, reg_irq_type, reg_irq_pol, reg_irq_status>>
vars == <<stage, regs>>

Init ==
    /\ stage = "unloaded"
    /\ reg_data = 0 /\ reg_dir = 0 /\ reg_irq_en = 0
    /\ reg_irq_type = 0 /\ reg_irq_pol = 0 /\ reg_irq_status = 0

\* demo_gpio_init(): platform_driver_register() or the device may fail;
\* else demo_gpio_probe() runs on the new device: devm_kzalloc() or
\* devm_gpiochip_add_data() may fail, which leaves the device unbound, or
\* the registers are zeroed and the chip and the debugfs file exist.
demo_gpio_init ==
    /\ stage = "unloaded"
    /\ stage' \in {"failed", "nodev", "probed"}
    /\ reg_data' = 0 /\ reg_dir' = 0 /\ reg_irq_en' = 0
    /\ reg_irq_type' = 0 /\ reg_irq_pol' = 0 /\ reg_irq_status' = 0

\* demo_gpio_exit(): the device goes, demo_gpio_remove() removes the
\* debugfs file, and devm removes the chip.
demo_gpio_exit ==
    /\ stage \in {"nodev", "probed"}
    /\ stage' = "gone"
    /\ UNCHANGED regs

\* The reads: get_direction() is 1 for an input, get() the data bit,
\* get_multiple() the data bits under the mask.
demo_gpio_get_direction(o) == IF IsSet(reg_dir, o) THEN 0 ELSE 1
demo_gpio_get(o) == IF IsSet(reg_data, o) THEN 1 ELSE 0
demo_gpio_get_multiple(mask) == reg_data & mask

Op(A) == stage = "probed" /\ A

demo_gpio_direction_input(o) == Op(
    /\ reg_dir' = reg_dir & Compl(BIT(o))
    /\ UNCHANGED <<stage, reg_data, reg_irq_en, reg_irq_type, reg_irq_pol, reg_irq_status>>)

\* The value first, then the direction, in one hold of the lock.
demo_gpio_direction_output(o, v) == Op(
    /\ reg_data' = IF v # 0 THEN reg_data | BIT(o) ELSE reg_data & Compl(BIT(o))
    /\ reg_dir' = reg_dir | BIT(o)
    /\ UNCHANGED <<stage, reg_irq_en, reg_irq_type, reg_irq_pol, reg_irq_status>>)

demo_gpio_set(o, v) == Op(
    /\ reg_data' = IF v # 0 THEN reg_data | BIT(o) ELSE reg_data & Compl(BIT(o))
    /\ UNCHANGED <<stage, reg_dir, reg_irq_en, reg_irq_type, reg_irq_pol, reg_irq_status>>)

(***************************************************************************)
(* Mutants: plausible slips in the definitions below.                      *)
(***************************************************************************)
\* bits taken whole, not under the mask.
MutSetMultipleNoMask(mask, bits) == Op(
    /\ reg_data' = (reg_data & Compl(mask)) | bits
    /\ UNCHANGED <<stage, reg_dir, reg_irq_en, reg_irq_type, reg_irq_pol, reg_irq_status>>)

demo_gpio_set_multiple(mask, bits) == Op(
    /\ reg_data' = (reg_data & Compl(mask)) | (bits & mask)
    /\ UNCHANGED <<stage, reg_dir, reg_irq_en, reg_irq_type, reg_irq_pol, reg_irq_status>>)

demo_irq_mask(h) == Op(
    /\ reg_irq_en' = reg_irq_en & Compl(BIT(h))
    /\ UNCHANGED <<stage, reg_data, reg_dir, reg_irq_type, reg_irq_pol, reg_irq_status>>)

demo_irq_unmask(h) == Op(
    /\ reg_irq_en' = reg_irq_en | BIT(h)
    /\ UNCHANGED <<stage, reg_data, reg_dir, reg_irq_type, reg_irq_pol, reg_irq_status>>)

\* The type bit is 1 for an edge, the polarity bit 1 for rising or high;
\* any other type is -EINVAL and changes nothing.
demo_irq_set_type(h, type) == Op(
    LET edge == type \in {IRQ_TYPE_EDGE_RISING, IRQ_TYPE_EDGE_FALLING}
        high == type \in {IRQ_TYPE_EDGE_RISING, IRQ_TYPE_LEVEL_HIGH}
        Put(r, b) == IF b THEN r | BIT(h) ELSE r & Compl(BIT(h))
    IN /\ IF type \in {IRQ_TYPE_EDGE_RISING, IRQ_TYPE_EDGE_FALLING,
                       IRQ_TYPE_LEVEL_HIGH, IRQ_TYPE_LEVEL_LOW}
          THEN /\ reg_irq_type' = Put(reg_irq_type, edge)
               /\ reg_irq_pol' = Put(reg_irq_pol, high)
          ELSE UNCHANGED <<reg_irq_type, reg_irq_pol>>
       /\ UNCHANGED <<stage, reg_data, reg_dir, reg_irq_en, reg_irq_status>>)

demo_irq_ack(h) == Op(
    /\ reg_irq_status' = reg_irq_status & Compl(BIT(h))
    /\ UNCHANGED <<stage, reg_data, reg_dir, reg_irq_en, reg_irq_type, reg_irq_pol>>)

\* A "pin value" line: a pin past the chip is -EINVAL, an output -EPERM;
\* an input takes the value.
demo_gpio_debugfs_write(pin, value) == Op(
    /\ pin < NUM_GPIOS
    /\ reg_data' = IF IsSet(reg_dir, pin) THEN reg_data
                   ELSE IF value # 0 THEN reg_data | BIT(pin)
                   ELSE reg_data & Compl(BIT(pin))
    /\ UNCHANGED <<stage, reg_dir, reg_irq_en, reg_irq_type, reg_irq_pol, reg_irq_status>>)
================================================================================
