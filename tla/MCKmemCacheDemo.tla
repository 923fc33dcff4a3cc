------------------------- MODULE MCKmemCacheDemo -------------------------
(* Instantiates KmemCacheDemo for TLC: the writers and the slab objects   *)
(* are model values, and both sets are symmetric.                         *)
EXTENDS KmemCacheDemo, TLC

CONSTANTS w1, w2, s1, s2, s3

OneWriter  == {w1}
TwoWriters == {w1, w2}
ThreeSlots == {s1, s2, s3}
TwoSlots   == {s1, s2}

\* Every writer issues every command.
AnyCommand == [w \in TwoWriters |-> AllCommands]
\* Every writer issues the commands whose locking leaves no gap: all but
\* "free".
LockedCommands == [w \in TwoWriters |-> {"alloc", "access", "freeall"}]
\* w1 issues every command; w2 allocates and accesses, so no two commands
\* that free can meet.
MixedCommands ==
    [w \in TwoWriters |-> IF w = w1 THEN AllCommands ELSE {"alloc", "access"}]

Symmetry == Permutations(ThreeSlots) \cup Permutations(TwoWriters)
SlotSymmetry == Permutations(ThreeSlots)
=============================================================================
