---------------------------- MODULE MCBlockList ----------------------------
(***************************************************************************)
(* Small documents for TLC: nodes with one child link and one parent link. *)
(***************************************************************************)
EXTENDS BlockList

Symmetry == Permutations(Block)

TwoTypes   == {"NiNode", "NiAVObject"}
TwoFields  == [t \in TwoTypes |-> IF t = "NiNode" THEN Slot ELSE Slot \ {NumRefs + NumPtrs}]
TwoRelated == {<<s, t>> \in TwoTypes \X TwoTypes : s # t}

UpTo0 == -1 .. 0
JustNone == {NoLink}
=============================================================================
