--------------------------- MODULE KmemCacheDemo ---------------------------
(***************************************************************************)
(* The slab-cache demo, src/examples/part5/kmem-cache-demo/kmem_cache_demo.c *)
(*                                                                         *)
(* Processes write commands to /proc/kmem_cache_demo; each write runs      *)
(* stats_write() to completion, and writes of different processes         *)
(* interleave.  A command is split into the steps between which another    *)
(* writer can run: the list_lock critical sections (one step each), the    *)
(* unlocked statements around them, and the non-atomic next_id++.          *)
(*                                                                         *)
(* The slab is a finite pool Slots of objects; slab[s] says whether the    *)
(* object s is handed out by kmem_cache_alloc() or back in the cache.      *)
(* object_list is a sequence, head first, as list_add() builds it.         *)
(***************************************************************************)
EXTENDS Integers, Sequences, SequencesExt, FiniteSets

CONSTANTS
    Writers,    \* processes writing commands to the proc file
    Slots,      \* the objects the slab cache can hand out
    Commands,   \* writer -> the commands it issues, a subset of AllCommands
    MaxId,      \* bound on next_id: no "alloc" starts once next_id = MaxId
    MaxAccess,  \* bound on an object's access_count
    NULL        \* the NULL pointer

AllCommands == {"alloc", "free", "access", "freeall"}

ASSUME Commands \in [Writers -> SUBSET AllCommands] /\ MaxId \in Nat /\ MaxAccess \in Nat
ASSUME NULL \notin Slots

VARIABLES
    loaded,            \* the module is inserted (init done, exit not begun)
    slab,              \* slab[s] \in {"free", "alloc"}
    id,                \* id[s]: obj->id, kept by the memory while s is free
    access_count,      \* access_count[s]: obj->access_count
    object_list,       \* the list, head first
    next_id,           \* static int next_id
    total_allocated,   \* atomic_t total_allocated
    total_freed,       \* atomic_t total_freed
    pc,                \* pc[w]: where writer w is in stats_write()
    obj,               \* obj[w]: the local struct demo_object *obj
    tmp_id             \* tmp_id[w]: the value of next_id loaded by next_id++

vars == <<loaded, slab, id, access_count, object_list, next_id,
          total_allocated, total_freed, pc, obj, tmp_id>>

Ids == 0 .. MaxId + Cardinality(Writers)

\* The program points of stats_write() between which other writers can run.
PCs == {"idle", "alloc_id_read", "alloc_id_write", "alloc_link",
        "alloc_count", "free_del", "free_slab", "free_count"}

\* Index of the first object on the list with the given id, 0 if none:
\* the list walk of find_object().
find_object(i) == SelectInSeq(object_list, LAMBDA s : id[s] = i)

(***************************************************************************)
(* Mutants: each is a plausible slip in the code of the definition it      *)
(* stands in for, used to show that a property can see that slip.          *)
(***************************************************************************)
\* FreeFind keeping the list position instead of the object.
MutFreeFindIndex(w) ==
    /\ pc[w] = "idle" /\ loaded /\ "free" \in Commands[w]
    /\ \E i \in 0 .. MaxId - 1 :
          /\ find_object(i) # 0
          /\ obj' = [obj EXCEPT ![w] = find_object(i)]
    /\ pc' = [pc EXCEPT ![w] = "free_del"]
    /\ UNCHANGED <<loaded, slab, id, access_count, object_list, next_id,
                   total_allocated, total_freed, tmp_id>>
\* free_object() without its list_del().
MutFreeDelNoUnlink(w) ==
    /\ pc[w] = "free_del"
    /\ pc' = [pc EXCEPT ![w] = "free_slab"]
    /\ UNCHANGED <<loaded, slab, id, access_count, object_list, next_id,
                   total_allocated, total_freed, obj, tmp_id>>
\* free_all_objects() without the atomic_inc(&total_freed) in its loop.
MutFreeAllUncounted ==
    /\ slab' = [s \in Slots |-> IF s \in ToSet(object_list) THEN "free"
                                                           ELSE slab[s]]
    /\ UNCHANGED total_freed
    /\ object_list' = << >>
\* module_exit without free_all_objects().
MutExitNoFree ==
    /\ loaded
    /\ \A w \in Writers : pc[w] = "idle"
    /\ loaded' = FALSE
    /\ UNCHANGED <<slab, id, access_count, object_list, next_id,
                   total_allocated, total_freed, pc, obj, tmp_id>>

Init ==
    /\ loaded = FALSE
    /\ slab = [s \in Slots |-> "free"]
    /\ id = [s \in Slots |-> 0]
    /\ access_count = [s \in Slots |-> 0]
    /\ object_list = << >>
    /\ next_id = 0
    /\ total_allocated = 0
    /\ total_freed = 0
    /\ pc = [w \in Writers |-> "idle"]
    /\ obj = [w \in Writers |-> NULL]
    /\ tmp_id = [w \in Writers |-> 0]

(***************************************************************************)
(* module_init: kmem_cache_create() and proc_create().  A failure of       *)
(* either leaves the module out and changes nothing.  The statics start    *)
(* from their initialisers on every insertion.                             *)
(***************************************************************************)
kmem_cache_demo_init ==
    /\ ~loaded
    /\ loaded' = TRUE
    /\ object_list' = << >>
    /\ next_id' = 0
    /\ total_allocated' = 0
    /\ total_freed' = 0
    /\ UNCHANGED <<slab, id, access_count, pc, obj, tmp_id>>

(***************************************************************************)
(* "alloc <data>": alloc_object().  kmem_cache_alloc() hands out a free   *)
(* object; obj->id = next_id++ is a load and two stores; list_add() runs   *)
(* under list_lock; atomic_inc(&total_allocated) comes last.               *)
(***************************************************************************)
AllocCache(w) ==
    /\ loaded /\ "alloc" \in Commands[w]
    /\ pc[w] = "idle"
    /\ next_id < MaxId
    /\ \E s \in Slots :
          /\ slab[s] = "free"
          /\ slab' = [slab EXCEPT ![s] = "alloc"]
          /\ obj' = [obj EXCEPT ![w] = s]
    /\ pc' = [pc EXCEPT ![w] = "alloc_id_read"]
    /\ UNCHANGED <<loaded, id, access_count, object_list, next_id,
                   total_allocated, total_freed, tmp_id>>

AllocReadId(w) ==
    /\ pc[w] = "alloc_id_read"
    /\ tmp_id' = [tmp_id EXCEPT ![w] = next_id]
    /\ pc' = [pc EXCEPT ![w] = "alloc_id_write"]
    /\ UNCHANGED <<loaded, slab, id, access_count, object_list, next_id,
                   total_allocated, total_freed, obj>>

\* obj->id and next_id are stored, then created_at, data, access_count = 0.
AllocWriteId(w) ==
    /\ pc[w] = "alloc_id_write"
    /\ id' = [id EXCEPT ![obj[w]] = tmp_id[w]]
    /\ next_id' = tmp_id[w] + 1
    /\ access_count' = [access_count EXCEPT ![obj[w]] = 0]
    /\ pc' = [pc EXCEPT ![w] = "alloc_link"]
    /\ UNCHANGED <<loaded, slab, object_list, total_allocated, total_freed,
                   obj, tmp_id>>

AllocLink(w) ==
    /\ pc[w] = "alloc_link"
    /\ object_list' = <<obj[w]>> \o object_list
    /\ pc' = [pc EXCEPT ![w] = "alloc_count"]
    /\ UNCHANGED <<loaded, slab, id, access_count, next_id,
                   total_allocated, total_freed, obj, tmp_id>>

AllocCount(w) ==
    /\ pc[w] = "alloc_count"
    /\ total_allocated' = total_allocated + 1
    /\ pc' = [pc EXCEPT ![w] = "idle"]
    /\ obj' = [obj EXCEPT ![w] = NULL]
    /\ UNCHANGED <<loaded, slab, id, access_count, object_list, next_id,
                   total_freed, tmp_id>>

(***************************************************************************)
(* "free <id>": find_object() under list_lock, the lock dropped, then      *)
(* free_object(): list_del() under list_lock, kmem_cache_free(),           *)
(* atomic_inc(&total_freed).  An id not on the list only logs a warning.   *)
(***************************************************************************)
FreeFind(w) ==
    /\ loaded /\ "free" \in Commands[w]
    /\ pc[w] = "idle"
    /\ \E i \in 0 .. MaxId - 1 :
          /\ find_object(i) # 0
          /\ obj' = [obj EXCEPT ![w] = object_list[find_object(i)]]
    /\ pc' = [pc EXCEPT ![w] = "free_del"]
    /\ UNCHANGED <<loaded, slab, id, access_count, object_list, next_id,
                   total_allocated, total_freed, tmp_id>>

FreeDel(w) ==
    /\ pc[w] = "free_del"
    /\ object_list' = Remove(object_list, obj[w])
    /\ pc' = [pc EXCEPT ![w] = "free_slab"]
    /\ UNCHANGED <<loaded, slab, id, access_count, next_id,
                   total_allocated, total_freed, obj, tmp_id>>

FreeSlab(w) ==
    /\ pc[w] = "free_slab"
    /\ slab' = [slab EXCEPT ![obj[w]] = "free"]
    /\ pc' = [pc EXCEPT ![w] = "free_count"]
    /\ UNCHANGED <<loaded, id, access_count, object_list, next_id,
                   total_allocated, total_freed, obj, tmp_id>>

FreeCount(w) ==
    /\ pc[w] = "free_count"
    /\ total_freed' = total_freed + 1
    /\ pc' = [pc EXCEPT ![w] = "idle"]
    /\ obj' = [obj EXCEPT ![w] = NULL]
    /\ UNCHANGED <<loaded, slab, id, access_count, object_list, next_id,
                   total_allocated, tmp_id>>

(***************************************************************************)
(* "access <id>": find_object() and access_object() both under list_lock, *)
(* so the whole command is one step.                                       *)
(***************************************************************************)
AccessObject(w) ==
    /\ loaded /\ "access" \in Commands[w]
    /\ pc[w] = "idle"
    /\ \E i \in 0 .. MaxId - 1 :
          LET k == find_object(i) IN
          /\ k # 0
          /\ access_count[object_list[k]] < MaxAccess
          /\ access_count' = [access_count EXCEPT ![object_list[k]] = @ + 1]
    /\ UNCHANGED <<loaded, slab, id, object_list, next_id, total_allocated,
                   total_freed, pc, obj, tmp_id>>

(***************************************************************************)
(* free_all_objects(): the whole walk runs under list_lock; every object   *)
(* is unlinked, returned to the cache and counted.  On an empty list it    *)
(* changes nothing.                                                        *)
(***************************************************************************)
free_all_objects ==
    /\ slab' = [s \in Slots |-> IF s \in ToSet(object_list) THEN "free"
                                                           ELSE slab[s]]
    /\ total_freed' = total_freed + Len(object_list)
    /\ object_list' = << >>

FreeAll(w) ==
    /\ loaded /\ "freeall" \in Commands[w]
    /\ pc[w] = "idle"
    /\ object_list # << >>
    /\ free_all_objects
    /\ UNCHANGED <<loaded, id, access_count, next_id, total_allocated,
                   pc, obj, tmp_id>>

(***************************************************************************)
(* module_exit: proc_remove() waits for the writes in progress and stops   *)
(* new ones, then free_all_objects() and kmem_cache_destroy().             *)
(***************************************************************************)
kmem_cache_demo_exit ==
    /\ loaded
    /\ \A w \in Writers : pc[w] = "idle"
    /\ free_all_objects
    /\ loaded' = FALSE
    /\ UNCHANGED <<id, access_count, next_id, total_allocated, pc, obj, tmp_id>>

Writer(w) ==
    \/ AllocCache(w) \/ AllocReadId(w) \/ AllocWriteId(w) \/ AllocLink(w)
    \/ AllocCount(w)
    \/ FreeFind(w) \/ FreeDel(w) \/ FreeSlab(w) \/ FreeCount(w)
    \/ AccessObject(w) \/ FreeAll(w)

Next ==
    \/ kmem_cache_demo_init
    \/ kmem_cache_demo_exit
    \/ \E w \in Writers : Writer(w)

Spec == Init /\ [][Next]_vars

-----------------------------------------------------------------------------
(***************************************************************************)
(* Properties.                                                             *)
(***************************************************************************)

TypeOK ==
    /\ loaded \in BOOLEAN
    /\ slab \in [Slots -> {"free", "alloc"}]
    /\ id \in [Slots -> Ids]
    /\ access_count \in [Slots -> 0 .. MaxAccess]
    /\ object_list \in Seq(Slots)
    /\ next_id \in Ids
    /\ total_allocated \in Nat /\ total_freed \in Nat
    /\ pc \in [Writers -> PCs]
    /\ obj \in [Writers -> Slots \cup {NULL}]
    /\ tmp_id \in [Writers -> Ids]

\* The objects a writer holds a pointer to without the object being listed:
\* between kmem_cache_alloc() and list_add(), and between list_del() and
\* kmem_cache_free().
Held == {obj[w] : w \in {v \in Writers :
            pc[v] \in {"alloc_id_read", "alloc_id_write", "alloc_link",
                       "free_slab"}}}

(***************************************************************************)
(* Slab consistency: an object is handed out by the cache exactly when it  *)
(* is on object_list or held by a writer between the cache call and the    *)
(* list call, and no object is on the list twice.  A double free, a free   *)
(* of a listed object, or a leaked object breaks it.  It is about          *)
(* alloc_object(), free_object(), free_all_objects() and the unlocked gap  *)
(* between find_object() and free_object() in stats_write().               *)
(***************************************************************************)
SlabConsistent ==
    /\ IsInjective(object_list)
    /\ {s \in Slots : slab[s] = "alloc"} = ToSet(object_list) \cup Held

(***************************************************************************)
(* The "Currently active" line of stats_show(), total_allocated -          *)
(* total_freed, equals the length of object_list, up to the writers that   *)
(* have linked an object and not yet counted it, or unlinked one and not   *)
(* yet counted it.  It is about the counter updates of alloc_object(),     *)
(* free_object() and free_all_objects().                                   *)
(***************************************************************************)
Accounting ==
    LET linking   == Quantify(Writers, LAMBDA w : pc[w] = "alloc_count")
        unlinking == Quantify(Writers, LAMBDA w : pc[w] \in {"free_slab", "free_count"})
    IN  total_allocated - total_freed = Len(object_list) - linking + unlinking

(***************************************************************************)
(* Nothing leaks past module exit: once the module is out, every object is *)
(* back in the cache, so kmem_cache_destroy() finds none in use.  It is    *)
(* about kmem_cache_demo_exit() and free_all_objects().                    *)
(***************************************************************************)
NoLeakAtExit ==
    ~loaded => \A s \in Slots : slab[s] = "free"

(***************************************************************************)
(* The object free_object() is about to unlink is still on object_list:    *)
(* stats_write() looked it up under list_lock, dropped the lock, and       *)
(* list_del() then runs on what it found.                                  *)
(***************************************************************************)
FreeTargetLive ==
    \A w \in Writers : pc[w] = "free_del" => obj[w] \in ToSet(object_list)

(***************************************************************************)
(* No two objects on object_list have the same id, so "free <id>" and      *)
(* "access <id>" name one object.  It is about obj->id = next_id++ in      *)
(* alloc_object().                                                         *)
(***************************************************************************)
UniqueIds ==
    \A i, j \in 1 .. Len(object_list) :
        i # j => id[object_list[i]] # id[object_list[j]]

=============================================================================
