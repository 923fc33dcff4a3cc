------------------------------ MODULE PciSkeleton ------------------------------
(***************************************************************************)
(* The PCI driver skeleton, src/examples/part15/pci-skeleton/              *)
(* pci_skeleton.c, with the devres list its managed calls build.           *)
(*                                                                         *)
(* Probe allocates its data with devm_kzalloc(), enables the device with   *)
(* pcim_enable_device(), maps BAR0 with pcim_iomap_regions(), allocates    *)
(* one IRQ vector (MSI, or the legacy INTx line) and requests its handler  *)
(* with devm_request_irq().  On a managed device an MSI allocation adds    *)
(* its own release action to the devres list.  Every managed resource is  *)
(* undone by the driver core after remove() or a failed probe, last one   *)
(* first; the driver itself calls only pci_free_irq_vectors(), in remove() *)
(* and on probe's error path.                                              *)
(*                                                                         *)
(* The registers are the STATUS register's interrupt bit: the device      *)
(* raises it, the handler writes it back to clear it.  The hardware        *)
(* version, the DMA mask and the messages are data no property tells       *)
(* apart.                                                                  *)
(***************************************************************************)
EXTENDS Sequences, SequencesExt

VARIABLES
    stage,          \* "unbound", "probed", "failed" (probe returned an error), "removed"
    devres,         \* the device's devres list, oldest first
    vectors,        \* the IRQ vector allocated: "none", "msi" or "intx"
    kind,           \* the kind probe allocated: "none", "msi" or "intx"
    irq_requested,  \* skeleton_irq() is installed on the vector's irq
    status          \* REG_STATUS bit 0: the device has an interrupt pending

vars == <<stage, devres, vectors, kind, irq_requested, status>>

\* A managed resource is still held while it is on the list.
Held(r) == r \in ToSet(devres)

Init ==
    /\ stage = "unbound" /\ devres = <<>>
    /\ vectors = "none" /\ kind = "none" /\ irq_requested = FALSE /\ status = 0

(***************************************************************************)
(* skeleton_probe(), up to its first failure.  The steps, in order, and   *)
(* the devres entry each leaves when it succeeds:                          *)
(*   devm_kzalloc()                       "data"                           *)
(*   pcim_enable_device()                 "enable"                         *)
(*   pcim_iomap_regions(), the BAR0 map   "bar"                            *)
(*   dma_set_mask_and_coherent(), 64 then 32 bits, none                    *)
(*   pci_alloc_irq_vectors()              "vectors", for an MSI vector     *)
(*   devm_request_irq()                   "irq"                            *)
(* A failure returns at once, except that of devm_request_irq(), which     *)
(* jumps to free_irq_vectors.  skeleton_hw_init() always succeeds.        *)
(***************************************************************************)
\* Mutant: a probe that sets up its interrupt before it maps BAR0.
MutStepsIrqFirst == <<"data", "enable", "dma", "vectors", "irq", "bar">>

Steps == <<"data", "enable", "bar", "dma", "vectors", "irq">>

\* The steps that leave a devres entry, for a vector of kind v.
Managed(s, v) == s \in {"data", "enable", "bar", "irq"} \/ (s = "vectors" /\ v = "msi")

\* The devres list after the first k steps succeed.
Registered(k, v) == SelectSeq(SubSeq(Steps, 1, k), LAMBDA s : Managed(s, v))

skeleton_probe ==
    /\ stage = "unbound"
    /\ \E v \in {"msi", "intx"}, k \in 0 .. Len(Steps) :
          \* k steps succeed; k < Len(Steps) means step k + 1 fails
          /\ devres' = Registered(k, v)
          /\ stage' = IF k = Len(Steps) THEN "probed" ELSE "failed"
          \* free_irq_vectors: only when devm_request_irq() failed
          /\ vectors' = IF k = Len(Steps) THEN v ELSE "none"
          /\ kind' = IF k = Len(Steps) THEN v ELSE "none"
          \* devm_request_irq() installs the handler as it succeeds
          /\ irq_requested' = ("irq" \in ToSet(Registered(k, v)))
    /\ UNCHANGED status

\* The device raises its interrupt once it is enabled and its BAR mapped.
Raise ==
    /\ Held("enable") /\ status = 0
    /\ status' = 1
    /\ UNCHANGED <<stage, devres, vectors, kind, irq_requested>>

(***************************************************************************)
(* skeleton_irq(): skel_read() of REG_STATUS; IRQ_NONE if bit 0 is clear  *)
(* (on a shared INTx line another device's interrupt calls it too), else   *)
(* skel_write() of the status back, which clears it.  It runs while it is  *)
(* installed: on an MSI vector while that is allocated, on the legacy line *)
(* whenever the line is shared, pci_free_irq_vectors() or not.             *)
(***************************************************************************)
skeleton_irq ==
    /\ irq_requested /\ (vectors = "msi" \/ kind = "intx")
    /\ status = 1 \/ kind = "intx"
    /\ status' = 0
    /\ UNCHANGED <<stage, devres, vectors, kind, irq_requested>>

\* skeleton_remove(): pci_free_irq_vectors(), with the handler still
\* requested: devm frees it only after remove() returns.
skeleton_remove ==
    /\ stage = "probed"
    /\ stage' = "removed"
    /\ vectors' = "none"
    /\ UNCHANGED <<devres, kind, irq_requested, status>>

\* The driver core's devres release after remove() or a failed probe of
\* what probe's managed calls registered, the newest entry first.  "irq" is
\* free_irq(), "vectors" the MSI release, which frees the vectors if they
\* are still allocated, "bar" unmaps BAR0 and "enable" disables the device.
DevresRelease ==
    /\ stage \in {"failed", "removed"} /\ devres # <<>>
    /\ devres' = SubSeq(devres, 1, Len(devres) - 1)
    /\ LET undone == Last(devres)
       IN  /\ irq_requested' = (irq_requested /\ undone # "irq")
           /\ vectors' = IF undone = "vectors" THEN "none" ELSE vectors
    /\ UNCHANGED <<stage, kind, status>>

Next ==
    \/ skeleton_probe \/ Raise \/ skeleton_irq \/ skeleton_remove
    \/ DevresRelease

Spec == Init /\ [][Next]_vars

-----------------------------------------------------------------------------
(***************************************************************************)
(* While skeleton_irq() is installed, BAR0 is still mapped: the handler    *)
(* reads and writes REG_STATUS through dev->regs, and it is devres's       *)
(* last-in first-out release, not anything the driver does, that frees    *)
(* the irq before pcim unmaps the BAR, after remove() and after each of    *)
(* probe's failures alike.                                                 *)
(***************************************************************************)
HandlerSeesMappedBar == irq_requested => Held("bar")

(***************************************************************************)
(* The handler is only ever installed on an allocated vector: the MSI      *)
(* howto requires free_irq() on every requested irq before the vectors     *)
(* are freed.  skeleton_remove() calls pci_free_irq_vectors() while the    *)
(* devm-requested irq is still installed.                                  *)
(***************************************************************************)
IrqOnLiveVector == irq_requested => vectors # "none"
================================================================================
