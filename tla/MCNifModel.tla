---------------------------- MODULE MCNifModel ----------------------------
(***************************************************************************)
(* Small documents for TLC.  Blocks are interchangeable, so that their     *)
(* symmetry is sound.                                                      *)
(***************************************************************************)
EXTENDS NifModel

Symmetry == Permutations(Block)

(* One type, whose blocks have every link field.                           *)
OneType   == {"NiNode"}
OneFields == [t \in OneType |-> Slot]
NoneRelated == {}

(* A node, and the parent type it can be converted to, without the last    *)
(* field.                                                                  *)
TwoTypes   == {"NiNode", "NiAVObject"}
TwoFields  == [t \in TwoTypes |-> IF t = "NiNode" THEN Slot ELSE Slot \ {NumRefs + NumPtrs}]
TwoRelated == {<<s, t>> \in TwoTypes \X TwoTypes : s # t}

(* The types the root links treat specially.                               *)
ShaderTypes  == {"NiNode", LightingShader, TextureSet}
ShaderFields == [t \in ShaderTypes |-> CASE t = TextureSet -> {}
                                            [] t = LightingShader -> {1}
                                            [] t = "NiNode" -> Slot]

JustFirst == {0}
UpTo0 == -1 .. 0
UpTo1 == -1 .. 1
UpTo2 == -1 .. 2
JustNone == {NoLink}
Empty == {}

(* A document whose updates are never held, whose footer nobody edits and  *)
(* whose blocks keep their types: BlockList's run checks the other steps.  *)
DocumentSpec == Init /\ [][DocumentNext]_vars
=============================================================================
