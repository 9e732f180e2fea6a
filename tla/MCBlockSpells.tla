--------------------------- MODULE MCBlockSpells ---------------------------
(***************************************************************************)
(* Small documents for the spells: the types of their blocks, and for each *)
(* block up to MaxKids child links in ascending order, to any block; in a  *)
(* document of less than four also to the number behind the last one, or   *)
(* behind an empty entry.                                                  *)
(***************************************************************************)
EXTENDS BlockSpells

CONSTANTS
  Typings,     \* the lists of types
  MaxKids      \* bound: child links of a block in a document

Node == "NiNode"
Shape == "NiTriShape"
Alpha == "NiAlphaProperty"
Texturing == "NiTexturingProperty"
Source == "NiSourceTexture"
Body == "bhkRigidBody"
Hinge == "bhkHingeConstraint"

Nodes == {Node}
Objects == {Node, Shape}
Properties == {Alpha, Texturing}
Shapes == {Shape}
Bodies == {Body}
Hinges == {Hinge}
Alphas == {Alpha}

Linking == {Node, Shape, Texturing, Body, LightingShader}

(* The fields of a block: a list of child links, then the entities.        *)
FieldsOf(t, n) ==
  LET top == IF n < 4 THEN n ELSE n - 1
      gap == IF n < 4 THEN {<<NoLink, 1>>} ELSE {}
      kids == IF t \in Linking
              THEN {<<>>} \cup {<<k>> : k \in 0 .. top} \cup gap \cup
                   {p \in (0 .. top) \X (0 .. top) : MaxKids > 1 /\ p[1] < p[2]}
              ELSE {<<>>}
      ptrs == IF t = Hinge THEN [1 .. NumPtrs -> NoLink .. (n - 1)]
              ELSE {[i \in 1 .. NumPtrs |-> NoLink]}
  IN {[s \in Slot |-> IF s \in PtrSlot THEN p[s - NumRefs]
                      ELSE IF s \in DOMAIN k THEN k[s] ELSE NoLink] : k \in kids, p \in ptrs}

DocumentsOf(types) ==
  LET n == Len(types)
      lists[i \in 0 .. n] ==
        IF i = 0 THEN {<<>>}
        ELSE {Append(l, f) : l \in lists[i - 1], f \in FieldsOf(types[i], n)}
  IN {[types |-> types, fields |-> l] : l \in lists[n]}

SmallDocuments == UNION {DocumentsOf(types) : types \in Typings}

SomeTypings ==
  {<<Node, Node, Node>>, <<Node, Shape, Alpha>>, <<Node, Shape, Alpha, Alpha>>, <<Node, Shape, Node, Alpha>>,
   <<Texturing, Source, Texturing, Source>>, <<Body, Body, Hinge>>, <<Hinge, Body, Node>>,
   <<TextureSet, Node, LightingShader>>, <<Shape, Shape, Texturing, Source>>}
=============================================================================
