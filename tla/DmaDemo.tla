-------------------------------- MODULE DmaDemo --------------------------------
(***************************************************************************)
(* The DMA mapping demo, src/examples/part5/dma-demo/dma_demo.c.  Probe    *)
(* allocates a coherent buffer and a streaming buffer and creates          *)
(* /proc/dma_demo.  Commands written there map the streaming buffer for   *)
(* the device (smap_to, smap_from) and unmap it (sunmap_to, sunmap_from);  *)
(* streaming_mapped records that it is mapped.  stats_write() takes no     *)
(* lock: a map or unmap tests streaming_mapped, then calls the DMA API,    *)
(* then sets the flag, and the model keeps those steps apart.  Remove      *)
(* removes the proc entry, unmaps the buffer if mapped, and frees the      *)
(* coherent buffer.                                                        *)
(*                                                                         *)
(* live and coherent are what the DMA layer holds: the number of live      *)
(* mappings of the streaming buffer, and whether the coherent buffer is    *)
(* allocated.  cwrite, cread and the syncs change only data and counters   *)
(* and are left out, and so are the directions the DMA calls are given.  *)
(***************************************************************************)
EXTENDS Naturals

CONSTANTS Writers   \* processes writing commands to /proc/dma_demo

VARIABLES
    stage,             \* "unloaded", "failed", "nodev", "probed" or "gone"
    streaming_mapped,
    live,              \* mappings of the streaming buffer the DMA layer holds
    coherent,          \* the coherent buffer is allocated
    pc                 \* writer -> "idle", "map" before dma_map_single(),
                       \* or "unmap" before dma_unmap_single()

vars == <<stage, streaming_mapped, live, coherent, pc>>

Init ==
    /\ stage = "unloaded" /\ streaming_mapped = FALSE /\ live = 0 /\ coherent = FALSE
    /\ pc = [w \in Writers |-> "idle"]

\* dma_demo_probe(): the devm allocation, the DMA mask, the coherent or the
\* streaming buffer or proc_create() may fail; every failure after the
\* coherent allocation frees it again.
dma_demo_probe ==
    \/ stage' = "probed" /\ coherent' = TRUE
    \/ stage' = "nodev" /\ UNCHANGED coherent

\* dma_demo_init(): the driver and then the device are registered, and
\* registering the device probes it.
dma_demo_init ==
    /\ stage = "unloaded"
    /\ \/ stage' = "failed" /\ UNCHANGED coherent
       \/ dma_demo_probe
    /\ UNCHANGED <<streaming_mapped, live, pc>>

Write(w) == stage = "probed" /\ pc[w] = "idle"

\* map_streaming_to_device() (smap_to, after copying the data into the
\* buffer) and map_streaming_from_device() (smap_from): -EBUSY if already
\* mapped, else map.
map_streaming(w) ==
    /\ Write(w) /\ ~streaming_mapped
    /\ pc' = [pc EXCEPT ![w] = "map"]
    /\ UNCHANGED <<stage, streaming_mapped, live, coherent>>

\* dma_map_single() may fail (-ENOMEM); else the flag is set.
MapDone(w) ==
    /\ pc[w] = "map"
    /\ \/ live' = live + 1 /\ streaming_mapped' = TRUE
       \/ UNCHANGED <<live, streaming_mapped>>
    /\ pc' = [pc EXCEPT ![w] = "idle"]
    /\ UNCHANGED <<stage, coherent>>

\* sunmap_to and sunmap_from: nothing if not mapped, else unmap.
unmap_streaming(w) ==
    /\ Write(w) /\ streaming_mapped
    /\ pc' = [pc EXCEPT ![w] = "unmap"]
    /\ UNCHANGED <<stage, streaming_mapped, live, coherent>>

UnmapDone(w) ==
    /\ pc[w] = "unmap"
    /\ live' = live - 1 /\ streaming_mapped' = FALSE
    /\ pc' = [pc EXCEPT ![w] = "idle"]
    /\ UNCHANGED <<stage, coherent>>

(***************************************************************************)
(* Mutants: plausible slips in the definitions below.                      *)
(***************************************************************************)
\* A remove that forgets the streaming mapping.
MutExitNoUnmap ==
    /\ stage = "probed" /\ \A w \in Writers : pc[w] = "idle"
    /\ stage' = "gone" /\ coherent' = FALSE
    /\ UNCHANGED <<streaming_mapped, live, pc>>

\* dma_demo_exit(): the device goes and dma_demo_remove() runs:
\* proc_remove() waits for the writers, the buffer is unmapped if
\* streaming_mapped, and the coherent buffer is freed.
dma_demo_exit ==
    \/ /\ stage = "probed" /\ \A w \in Writers : pc[w] = "idle"
       /\ stage' = "gone" /\ coherent' = FALSE
       /\ live' = IF streaming_mapped THEN live - 1 ELSE live
       /\ UNCHANGED <<streaming_mapped, pc>>
    \/ /\ stage = "nodev" /\ stage' = "gone"
       /\ UNCHANGED <<streaming_mapped, live, coherent, pc>>

Next ==
    \/ dma_demo_init \/ dma_demo_exit
    \/ \E w \in Writers :
          map_streaming(w) \/ MapDone(w) \/ unmap_streaming(w) \/ UnmapDone(w)

Spec == Init /\ [][Next]_vars

-----------------------------------------------------------------------------
(***************************************************************************)
(* Nothing DMA outlives the module: once dma_demo_remove() has run, the    *)
(* DMA layer holds no mapping of the streaming buffer and the coherent     *)
(* buffer is freed.  It is about streaming_mapped staying true to the      *)
(* mappings through failed maps, EBUSY and unmaps, and remove's unmap and  *)
(* free; with two writers the unlocked test-then-map of stats_write()      *)
(* breaks it.                                                              *)
(***************************************************************************)
NoDmaLeak == stage = "gone" => live = 0 /\ ~coherent
================================================================================
