---------------------------- MODULE ObjectGraph ----------------------------
(***************************************************************************)
(* What a NIF document is to its user: a list of blocks whose link fields  *)
(* point at blocks, not at numbers.  No operation but an edit of the link  *)
(* itself, the removal of the block it points at, or an explicit           *)
(* substitution of blocks changes what a link points at, however the list  *)
(* is shuffled.                                                            *)
(*                                                                         *)
(* A field may hold a number beyond the end of the list: Dangling.  Such a *)
(* link has no block to keep, and appending a block at the end of the list *)
(* may turn it into a link to the new block.                               *)
(***************************************************************************)
EXTENDS Integers, Sequences, SequencesExt

CONSTANTS Block,      \* the blocks a document can be made of
          Slot,       \* the link fields of a block
          Null,       \* an empty link
          Dangling    \* a link to a number no block has

VARIABLES blocks,     \* the list of blocks
          target      \* what each link field of each block points at

vars == <<blocks, target>>

Target == Block \cup {Null, Dangling}

Empty == [s \in Slot |-> Null]

TypeOK ==
  /\ blocks \in Seq(Block)
  /\ target \in [Block -> [Slot -> Target]]

Init ==
  /\ blocks \in Seq(Block)
  /\ IsInjective(blocks)
  /\ target \in [Block -> [Slot -> Target]]

(* A new block appears somewhere in the list; its fields are empty and     *)
(* every other link keeps what it points at.                               *)
InsertBlock(b, p) ==
  /\ b \notin ToSet(blocks)
  /\ blocks' = InsertAt(blocks, p, b)
  /\ target' = [target EXCEPT ![b] = Empty]

(* A new block at the end of the list may be claimed by dangling links.    *)
AppendBlock(b) ==
  /\ b \notin ToSet(blocks)
  /\ blocks' = InsertAt(blocks, Len(blocks) + 1, b)
  /\ target' \in [Block -> [Slot -> Target]]
  /\ target'[b] = Empty
  /\ \A x \in Block \ {b}, s \in Slot :
       target'[x][s] # target[x][s] => target[x][s] = Dangling /\ target'[x][s] = b

(* The block disappears and the links to it become empty.                  *)
RemoveBlock(p) ==
  /\ blocks' = RemoveAt(blocks, p)
  /\ target' = [x \in Block |->
                  IF x = blocks[p] THEN Empty
                  ELSE [s \in Slot |-> IF target[x][s] = blocks[p] THEN Null
                                       ELSE target[x][s]]]

(* The same blocks in another order, the same links.                       *)
ShuffleBlocks ==
  /\ blocks' \in [1 .. Len(blocks) -> Block]
  /\ ToSet(blocks') = ToSet(blocks)
  /\ UNCHANGED target

(* The fields of one block are edited.                                     *)
EditLinks(b) ==
  /\ UNCHANGED blocks
  /\ target' \in [Block -> [Slot -> Target]]
  /\ \A x \in Block \ {b} : target'[x] = target[x]

(* Every link to a block of the domain of m moves to the block m gives.    *)
SubstituteBlocks(m) ==
  /\ UNCHANGED blocks
  /\ target' = [x \in Block |->
                  [s \in Slot |-> IF target[x][s] \in DOMAIN m THEN m[target[x][s]]
                                  ELSE target[x][s]]]

Next ==
  \/ \E b \in Block : AppendBlock(b)
  \/ \E b \in Block : \E p \in 1 .. Len(blocks) + 1 : InsertBlock(b, p)
  \/ \E p \in 1 .. Len(blocks) : RemoveBlock(p)
  \/ ShuffleBlocks
  \/ \E b \in ToSet(blocks) : EditLinks(b)
  \/ \E from \in SUBSET ToSet(blocks) : \E m \in [from -> ToSet(blocks)] : SubstituteBlocks(m)

Spec == Init /\ [][Next]_vars
=============================================================================
