----------------------------- MODULE BlockList -----------------------------
(***************************************************************************)
(* The tree of the block list (NifProxyModel, model/nifproxymodel.cpp) as  *)
(* an observer of NifModel.  An item is a block number below the item it   *)
(* is linked from, so that the tree is a set of paths of numbers; the      *)
(* order of siblings is left out.  The tree is not rebuilt but updated     *)
(* from the link caches whenever linksChanged is emitted, and the items of *)
(* blocks about to be removed are dropped.  All of that happens inside the *)
(* handlers of NifModel, also while these hold the updates and the caches  *)
(* are out of date.                                                        *)
(***************************************************************************)
EXTENDS NifModel

VARIABLE tree     \* the paths of the items

listVars == <<vars, tree>>

-----------------------------------------------------------------------------
(* updateRoot and updateItem for given caches.                             *)

LinksOf(links, n) == IF n \in DOMAIN links THEN ToSet(links[n]) ELSE {}

Parents(path) == ToSet(Front(path))

(* The items that are updated: the roots, and the child links of updated   *)
(* items but for those that are parents already.                           *)
ItemsBelow(kids, paths) ==
  UNION {{Append(p, k) : k \in LinksOf(kids, Last(p)) \ Parents(p)} : p \in paths}

Linked(kids) == UNION {ToSet(kids[n]) : n \in DOMAIN kids}

UpdatedItems(kids, roots) ==
  LET level[d \in 0 .. Cardinality(Linked(kids))] ==
        IF d = 0 THEN {<<r>> : r \in ToSet(roots)} ELSE ItemsBelow(kids, level[d - 1])
  IN UNION {level[d] : d \in 0 .. Cardinality(Linked(kids))}

(* The items a tree built from nothing has: an updated item has one item   *)
(* for each child link and each parent link.                               *)
BuiltItems(kids, ptrs, roots) ==
  LET updated == UpdatedItems(kids, roots)
      items(p) == {Append(p, k) : k \in LinksOf(kids, Last(p)) \cup LinksOf(ptrs, Last(p))}
  IN updated \cup UNION {items(p) : p \in updated}

(* An item that is neither updated nor dropped keeps its children.         *)
Kept(items, old, kids, roots) ==
  LET updated == UpdatedItems(kids, roots)
  IN {p \in old : \E n \in 1 .. Len(p) - 1 : /\ SubSeq(p, 1, n) \in items \ updated}

UpdateRootAdding(old, kids, ptrs, roots, count) ==   \* mutant: drops no roots
  IF count = 0 THEN {}
  ELSE LET items == BuiltItems(kids, ptrs, roots)
       IN items \cup Kept(items, old, kids, roots) \cup {p \in old : Head(p) \notin ToSet(roots)}

UpdateRootFlat(old, kids, ptrs, roots, count) ==   \* mutant: drops items of two levels
  IF count = 0 THEN {}
  ELSE LET items == BuiltItems(kids, ptrs, roots)
       IN items \cup Kept(items, old, kids, roots) \cup {p \in old : Len(p) > 2}

UpdateRoot(old, kids, ptrs, roots, count) ==
  IF count = 0 THEN {}
  ELSE LET items == BuiltItems(kids, ptrs, roots)
       IN items \cup Kept(items, old, kids, roots)

LinksChanged(old) ==
  tree' = UpdateRoot(old, childLinks', parentLinks', rootLinks', Len(order'))

(* rowsAboutToBeRemoved: the items of a block go, with what is below them. *)
WithoutBlock(n) == {p \in tree : n \notin ToSet(p)}

-----------------------------------------------------------------------------
(* The list is attached to a document when that has been loaded.           *)
ListInit ==
  /\ Init
  /\ tree = UpdateRoot({}, childLinks, parentLinks, rootLinks, Count)

ListInsert  == \E b \in Block, at \in -1 .. Count : InsertNiBlock(b, at) /\ LinksChanged(tree)
ListRemove  == \E n \in Numbers(Count) : RemoveNiBlock(n) /\ LinksChanged(WithoutBlock(n))
ListMove    == \E src, dst \in Numbers(Count) :
                 MoveNiBlock(src, dst) /\ LinksChanged(WithoutBlock(src))

(* All blocks are taken out, so that all items go.                         *)
ListReorder == \E newNumber \in Renumberings : ReorderBlocks(newNumber) /\ LinksChanged({})

ListEdit ==
  /\ \/ \E map \in Maps : MapAllLinks(map)
     \/ \E n \in Numbers(Count), s \in Slot, l \in LinkInputs : SetLink(n, s, l)
     \/ \E n \in Numbers(Count), values \in [Slot -> LinkInputs] : LoadIndex(n, values)
     \/ \E n \in Numbers(Count), gone \in SUBSET Slot : DropFields(n, gone)
     \/ \E n \in Numbers(Count), t \in Type : ConvertNiBlock(n, t)
  /\ LinksChanged(tree)

(* The release of the lock tells of new links if there are any; a footer   *)
(* link, a lock, a paste that breaks off, a save and links set in the      *)
(* Processing state do not.                                                *)
ListEndHold ==
  /\ EndHold
  /\ IF "links" \in needUpdates THEN LinksChanged(tree) ELSE UNCHANGED tree

ListSilent ==
  /\ \/ \E i \in DOMAIN footer, l \in FooterInputs : SetFooterLink(i, l)
     \/ \E n \in Numbers(Count), values \in [Slot -> LinkInputs] : SetLinksSilently(n, values)
     \/ BeginHold \/ FailHold \/ Save
  /\ UNCHANGED tree

ListNext ==
  \/ ListInsert \/ ListRemove \/ ListMove \/ ListReorder
  \/ ListEdit \/ ListEndHold \/ ListSilent

ListSpec == ListInit /\ [][ListNext]_listVars

-----------------------------------------------------------------------------
(* Properties.                                                             *)

(* Type correctness: the tree is one, and its items have block numbers.    *)
TreeOK ==
  /\ TypeOK
  /\ tree \subseteq Seq(Nat)
  /\ \A p \in tree : Len(p) > 1 => Front(p) \in tree

Rebuilt == UpdateRoot({}, childLinks, parentLinks, rootLinks, Count)

(* The update of the tree item by item, through any sequence of handlers,  *)
(* comes to what a rebuild from the current caches would give.  Whatever   *)
(* it has besides is what an item kept from the time it was a child link:  *)
(* a parent link is not followed, so that nobody drops it.                 *)
TreeIsRebuilt ==
  /\ Rebuilt \subseteq tree
  /\ \A p \in tree \ Rebuilt : \E n \in 1 .. Len(p) - 1 :
       /\ SubSeq(p, 1, n) \in Rebuilt
       /\ n > 1 /\ p[n] \in LinksOf(parentLinks, p[n - 1]) \ LinksOf(childLinks, p[n - 1])

(* Every block of the document can be selected in the list, but for the    *)
(* texture sets nobody refers to.                                          *)
EveryBlockListed ==
  ~lockUpdates =>
    \A n \in Numbers(Count) : (\E p \in tree : Last(p) = n) \/ Unfiled(n)
=============================================================================
