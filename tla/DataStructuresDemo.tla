--------------------------- MODULE DataStructuresDemo ---------------------------
(***************************************************************************)
(* The data structures demo, src/examples/part2/data-structures/           *)
(* data_structures_demo.c: a linked list of clients and a 64-bucket hash   *)
(* table of devices behind /proc/data_structures_demo, whose writes are    *)
(* the commands "populate", "clear" and "find <id>".                       *)
(*                                                                         *)
(* The list is the sequence of client ids, head first; the table maps     *)
(* each bucket to the sequence of its device ids, head first.  Names and   *)
(* descriptions are data no property tells apart.  Every write runs as one *)
(* step of one writer: the code takes no lock, and what two writers do to  *)
(* the list and the counts is outside what the properties below claim.    *)
(* A "find" and an unknown command only log: they are stuttering steps,    *)
(* and find_device() is the operator the property evaluates in every state.*)
(***************************************************************************)
EXTENDS Integers, FiniteSets, Sequences, SequencesExt

CONSTANTS
    MayFail,     \* the ids whose kmalloc() in populate may fail
    MaxEntries,  \* populate runs only while the table holds fewer devices
    FindIds      \* the ids a "find <id>" command may ask for

ClientIds == <<1, 2, 3, 4>>            \* add_client() calls of populate, in order
DeviceIds == <<100, 200, 300, 400>>    \* add_device() calls of populate, in order
Buckets == 0 .. 63                     \* DEFINE_HASHTABLE(device_table, 6)
NotFound == -1                         \* find_device() returns NULL

(***************************************************************************)
(* hash_min(key, 6) for an int key is hash_32(key, 6): the top 6 bits of  *)
(* key * GOLDEN_RATIO_32 (0x61C88647) mod 2^32.  The product is formed in  *)
(* 16-bit limbs so that it never leaves TLC's integers: the upper half of  *)
(* the 32-bit product is K1*key plus the carry out of K0*key, mod 2^16.    *)
(***************************************************************************)
Hash(key) ==
    LET K1 == 25032   \* 0x61C8
        K0 == 34375   \* 0x8647
        hi == (key * K1 + (key * K0) \div 65536) % 65536
    IN  hi \div 1024

VARIABLES
    mod,           \* "loading", "failed" (proc_create() failed), "live" or "gone"
    clients,       \* client_list: the client ids, head first
    client_count,
    table,         \* device_table: bucket -> device ids, head first
    device_count

vars == <<mod, clients, client_count, table, device_count>>

EmptyTable == [b \in Buckets |-> <<>>]

\* The entries of the table, as (bucket, position) pairs.
Entries ==
    UNION {{<<b, k>> : k \in 1 .. Len(table[b])} : b \in Buckets}

TableSize == Cardinality(Entries)

Init ==
    /\ mod = "loading"
    /\ clients = <<>> /\ client_count = 0
    /\ table = EmptyTable /\ device_count = 0

\* data_structures_demo_init(): hash_init(), then proc_create(), which may
\* fail and fail the load.
data_structures_demo_init ==
    /\ mod = "loading"
    /\ mod' \in {"live", "failed"}
    /\ table' = EmptyTable
    /\ UNCHANGED <<clients, client_count, device_count>>

(***************************************************************************)
(* Mutants: plausible slips in the definitions below.                      *)
(***************************************************************************)
\* A lookup that takes the first entry of the bucket without comparing ids.
MutFindFirst(id) ==
    IF table[Hash(id)] = <<>> THEN NotFound ELSE Head(table[Hash(id)])

\* A clear that frees the devices but leaves device_count alone.
MutClearKeepCount ==
    /\ clients' = <<>> /\ client_count' = 0
    /\ table' = EmptyTable
    /\ UNCHANGED device_count

\* The bucket an id is stored in and looked up in: hash_min(id, 6).
bucket_of(id) == Hash(id)

\* find_device(): walk the bucket of the id and return the first entry
\* with that id.
find_device(id) ==
    LET hits == SelectSeq(table[bucket_of(id)], LAMBDA e : e = id)
    IN  IF hits = <<>> THEN NotFound ELSE Head(hits)

\* add_client() for each id whose kmalloc() succeeded: list_add_tail()
\* and client_count++.
add_clients(ok) ==
    LET added == SelectSeq(ClientIds, LAMBDA c : c \in ok)
    IN  /\ clients' = clients \o added
        /\ client_count' = client_count + Len(added)

\* add_device() for each id whose kmalloc() succeeded: hash_add(), which
\* is hlist_add_head() on the id's bucket, and device_count++.  The ids
\* added to one bucket end up before its old entries, the last one first.
add_devices(ok) ==
    LET added == SelectSeq(DeviceIds, LAMBDA d : d \in ok)
        into(b) == Reverse(SelectSeq(added, LAMBDA d : bucket_of(d) = b))
    IN  /\ table' = [b \in Buckets |-> into(b) \o table[b]]
        /\ device_count' = device_count + Len(added)

\* stats_write() "populate": four add_client() and four add_device()
\* calls, each of whose allocations may fail and then adds nothing.
Populate ==
    /\ mod = "live" /\ TableSize < MaxEntries
    /\ \E failed \in SUBSET MayFail :
          /\ add_clients(ToSet(ClientIds) \ failed)
          /\ add_devices(ToSet(DeviceIds) \ failed)
    /\ UNCHANGED mod

\* clear_clients() then clear_devices(): free every entry, zero the counts.
clear_all ==
    /\ clients' = <<>> /\ client_count' = 0
    /\ table' = EmptyTable /\ device_count' = 0

\* stats_write() "clear".
Clear ==
    /\ mod = "live"
    /\ clear_all
    /\ UNCHANGED mod

\* data_structures_demo_exit(): clear both structures, proc_remove().
data_structures_demo_exit ==
    /\ mod = "live"
    /\ clear_all
    /\ mod' = "gone"

Next ==
    \/ data_structures_demo_init \/ Populate \/ Clear
    \/ data_structures_demo_exit

Spec == Init /\ [][Next]_vars

-----------------------------------------------------------------------------
(***************************************************************************)
(* A "find <id>" answers with a device exactly when one with that id is    *)
(* stored, and then with that id: find_device() walks only the bucket      *)
(* hash_min() picks, so this holds only if hash_add() and the lookup hash  *)
(* the same way and the walk compares ids past entries of other ids that   *)
(* share the bucket (11 and 45 share 100's, 22 is in 200's).               *)
(***************************************************************************)
FindIsLookup ==
    \A id \in FindIds :
        find_device(id) = IF \E b \in Buckets : \E k \in 1 .. Len(table[b]) : table[b][k] = id
                          THEN id ELSE NotFound

(***************************************************************************)
(* client_count and device_count, which stats_show() prints, equal the     *)
(* entries the list and the table hold, across populates in which some    *)
(* allocations fail, clears and the clear at exit.                         *)
(***************************************************************************)
CountsMatch ==
    /\ client_count = Len(clients)
    /\ device_count = TableSize
================================================================================
