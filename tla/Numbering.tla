----------------------------- MODULE Numbering -----------------------------
(***************************************************************************)
(* Block numbers and the links that hold them.                             *)
(*                                                                         *)
(* A NIF document is a list of blocks.  A block refers to another one by   *)
(* its NUMBER, which is its current position in the list (0 for the first  *)
(* one), and -1 stands for "no block".  Whoever inserts, removes, moves or *)
(* reorders blocks therefore has to rewrite every link of the document.    *)
(* This module holds the list operations and the link rewriting of         *)
(* NifModel as pure operators; NifModel.tla builds the handlers from them. *)
(*                                                                         *)
(* A list of blocks is a sequence of block identities, so that block       *)
(* number n is at position n + 1 (row n + 1 of the root item, whose row 0  *)
(* is the header).                                                         *)
(***************************************************************************)
EXTENDS Integers, Sequences, SequencesExt

NoLink == -1

(* The numbers a document with n blocks gives to its blocks.               *)
Numbers(n) == 0 .. (n - 1)

-----------------------------------------------------------------------------
(* Lists.  What is proved about lists needs recursive functions in place   *)
(* of SelectSeq and folds.                                                 *)

(* The members of a list that are in a set.                                *)
Sublist(list, set) ==
  LET upTo[i \in 0 .. Len(list)] ==
        IF i = 0 THEN <<>>
        ELSE IF list[i] \in set THEN Append(upTo[i - 1], list[i]) ELSE upTo[i - 1]
  IN upTo[Len(list)]

(* The members of a list, each once, in the order of first appearance.     *)
Distinct(list) ==
  LET upTo[i \in 0 .. Len(list)] ==
        IF i = 0 THEN <<>>
        ELSE IF Contains(upTo[i - 1], list[i]) THEN upTo[i - 1] ELSE Append(upTo[i - 1], list[i])
  IN upTo[Len(list)]

-----------------------------------------------------------------------------
(* The list operations of NifModel.                                        *)

Inserted(blocks, at, b) == InsertAt(blocks, at + 1, b)

Removed(blocks, n) == RemoveAt(blocks, n + 1)

(* takeChild(src + 1) followed by insertChild(dst + 1): dst is a position  *)
(* of the list from which src has already been taken.                      *)
MovedInsertFirst(blocks, src, dst) ==   \* mutant: inserts before it takes
  RemoveAt(InsertAt(blocks, dst + 1, blocks[src + 1]), src + 1)

Moved(blocks, src, dst) ==
  InsertAt(RemoveAt(blocks, src + 1), dst + 1, blocks[src + 1])

(* newNumber[n] is the number that block n gets.                           *)
IsRenumbering(newNumber, n) ==
  /\ newNumber \in [Numbers(n) -> Numbers(n)]
  /\ \A i, j \in Numbers(n) : newNumber[i] = newNumber[j] => i = j

Reordered(blocks, newNumber) ==
  [p \in 1 .. Len(blocks) |->
     blocks[1 + CHOOSE n \in Numbers(Len(blocks)) : newNumber[n] = p - 1]]

-----------------------------------------------------------------------------
(* The link rewriting.                                                     *)

(* delta = 0 clears the links to the block, any other delta shifts the     *)
(* links to it and to everything after it.                                 *)
AdjustLinkAfter(l, block, delta) ==   \* mutant: > for >=
  IF l >= 0 /\ IF delta = 0 THEN l = block ELSE l > block
  THEN IF delta = 0 THEN NoLink ELSE l + delta
  ELSE l

AdjustLink(l, block, delta) ==
  IF l >= 0 /\ (l = block \/ (delta # 0 /\ l >= block))
  THEN IF delta = 0 THEN NoLink ELSE l + delta
  ELSE l

(* A map of block numbers leaves the numbers outside its domain alone.     *)
MapLink(l, map) == IF l >= 0 /\ l \in DOMAIN map THEN map[l] ELSE l

(* The removal of a block rewrites a link twice.                           *)
DropLink(l, block) == AdjustLink(AdjustLink(l, block, 0), block, -1)

(* The map built by moveNiBlock: the blocks between the old and the new    *)
(* place step aside by one.                                                *)
MoveMap(src, dst) ==
  [l \in (src .. dst) \cup (dst .. src) |->
     IF l = src THEN dst ELSE IF src < dst THEN l - 1 ELSE l + 1]

-----------------------------------------------------------------------------
(* What a link means: the identity of the block it points at.              *)

Resolve(blocks, l, null, dangling) ==
  IF l < 0 THEN null
  ELSE IF l < Len(blocks) THEN blocks[l + 1]
  ELSE dangling
=============================================================================
