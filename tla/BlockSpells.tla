---------------------------- MODULE BlockSpells ----------------------------
(***************************************************************************)
(* The spells that remove, copy and rearrange blocks (spells/blocks.cpp,   *)
(* sanitize.cpp, optimize.cpp).  Each is a sequence of handlers of         *)
(* NifModel in the GUI thread, without an event in between; it goes on     *)
(* with block numbers, or persistent indices, it has got before, while the *)
(* handlers give the blocks other numbers and change the link caches.      *)
(*                                                                         *)
(* A document is a value here, and a spell a function of it.  A block has  *)
(* one array of child links (Children of a node, Properties of a shape),   *)
(* the entries of which are its first fields up to the last one that is    *)
(* not empty, and parent links.                                            *)
(***************************************************************************)
EXTENDS Links

CONSTANTS
  Documents,      \* documents to cast a spell on: the types and the fields of their blocks
  NodeType,       \* types that inherit NiNode
  ObjectType,     \* those that inherit NiAVObject, nodes included
  PropertyType,   \* those that inherit NiProperty, but shader properties
  ShapeType,      \* those that inherit NiTriBasedGeom or BSTriShape
  BeforeParent,   \* those of childBeforeParent: bhkRefObject but no bhkConstraint
  Constraint,     \* those that inherit bhkConstraint; parent links are their Entities
  Matched,        \* those the expression of Remove By Id matches
  ShapesFirst,    \* bsVersion < 83 (before Skyrim)
  MaxBlocks       \* bound: blocks of a document and copies made of them

Block == 1 .. MaxBlocks
Field == [Slot -> Int]

ASSUME BoundAssumption == MaxBlocks \in Nat
ASSUME TypeAssumption  == NodeType \subseteq ObjectType /\ ShapeType \subseteq ObjectType
ASSUME VersionAssumption == ShapesFirst \in BOOLEAN /\ (BS151 => ~ShapesFirst)
ASSUME DocumentAssumption ==
  \A d \in Documents : d.types \in Seq(STRING) /\ Len(d.fields) = Len(d.types)

VARIABLES
  doc,     \* the document
  cast     \* the spell that has been cast: its name, block, and the document before

vars == <<doc, cast>>

TexturingProperty == "NiTexturingProperty"
SourceTexture == "NiSourceTexture"

NoFields == [s \in Slot |-> NoLink]

Loaded(d) ==
  [order |-> [i \in 1 .. Len(d.types) |-> i],
   type  |-> [b \in Block |-> IF b \in DOMAIN d.types THEN d.types[b] ELSE "none"],
   link  |-> [b \in Block |-> IF b \in DOMAIN d.types THEN d.fields[b] ELSE NoFields]]

NotCast == [spell |-> "none"]

Init == doc \in {Loaded(d) : d \in Documents} /\ cast = NotCast

-----------------------------------------------------------------------------
(* What spells ask of the document and do to it: the handlers of NifModel. *)

All(d)   == Numbers(Len(d.order))
Cache(d) == LinkCaches(d.order, d.type, d.link)
Kids(d, n) == IF n \in All(d) THEN Cache(d).child[n] ELSE <<>>
Parent(d, n) == GetParent(Cache(d).child, n)

BlockAt(d, n) == d.order[n + 1]
Number(d, b)  == IF Contains(d.order, b) THEN IndexFirstSubSeq(<<b>>, d.order) - 1 ELSE NoLink
TypeAt(d, n)  == IF n \in All(d) THEN d.type[BlockAt(d, n)] ELSE "none"

Rewritten(d, f(_)) ==
  [d EXCEPT !.link = [b \in Block |-> [s \in Slot |-> f(@[b][s])]]]

RemoveNiBlock(d, n) ==
  LET drop(l) == DropLink(l, n)
      rest == Rewritten(d, drop)
  IN [rest EXCEPT !.order = Removed(@, n), !.link[BlockAt(d, n)] = NoFields]

InsertNiBlock(d, t, at) ==
  LET b == Min(Block \ ToSet(d.order))
      inside == at \in 0 .. Len(d.order)
      shift(l) == IF inside THEN AdjustLink(l, at, 1) ELSE l
      rest == Rewritten(d, shift)
  IN [rest EXCEPT !.order = Inserted(@, IF inside THEN at ELSE Len(@), b),
                  !.type[b] = t, !.link[b] = NoFields]

(* A block saved to a buffer and loaded into a new one at the end of the   *)
(* list, where a map may change its links.  A block that is inserted at    *)
(* their number, not at -1, moves those links that are beyond the list.    *)
Copied(d, n, at, map) ==
  LET added == InsertNiBlock(d, TypeAt(d, n), at)
  IN [added EXCEPT !.link[BlockAt(added, Len(d.order))] =
        [s \in Slot |-> MapLink(d.link[BlockAt(d, n)][s], map)]]

(* The entries of the link array of a block, addLink and delLink.          *)
LinkArray(d, n) ==
  LET values == d.link[BlockAt(d, n)]
      used == {s \in RefSlot : values[s] # NoLink}
  IN [i \in 1 .. (IF used = {} THEN 0 ELSE Max(used)) |-> values[i]]

SetLinkArray(d, n, list) ==
  [d EXCEPT !.link[BlockAt(d, n)] =
     [s \in Slot |-> IF s \in DOMAIN list THEN list[s] ELSE IF s \in RefSlot THEN NoLink ELSE @[s]]]

AddLink(d, n, l) == SetLinkArray(d, n, Append(LinkArray(d, n), l))
DelLink(d, n, l) == SetLinkArray(d, n, SelectSeq(LinkArray(d, n), LAMBDA k : k # l))

(* blockLink, for objects below a node and properties of an object.        *)
BlockLink(d, n, child) ==
  IF \/ TypeAt(d, n) \in NodeType /\ TypeAt(d, child) \in ObjectType
     \/ TypeAt(d, n) \in ObjectType \ NodeType /\ TypeAt(d, child) \in PropertyType
  THEN AddLink(d, n, child) ELSE d

-----------------------------------------------------------------------------
(* Removals.                                                               *)

(* removeChildren: the children are kept as persistent indices, and go if  *)
(* the block is their parent, the first one, at that time.                 *)
RECURSIVE RemoveChildren(_, _)
RemoveChildren(d, b) ==
  LET inside == SelectSeq(Kids(d, Number(d, b)), LAMBDA k : k \in All(d))
      blocks == [i \in DOMAIN inside |-> BlockAt(d, inside[i])]
      isChild(e, c) == Contains(e.order, c) /\ Number(e, b) = Parent(e, Number(e, c))
      deep(e, c) == IF isChild(e, c) THEN RemoveChildren(e, c) ELSE e
      flat(e, c) == IF isChild(e, c) THEN RemoveNiBlock(e, Number(e, c)) ELSE e
  IN FoldLeft(flat, FoldLeft(deep, d, blocks), blocks)

RemoveBranch(d, n) ==
  LET e == RemoveChildren(d, BlockAt(d, n))
  IN RemoveNiBlock(e, Number(e, BlockAt(d, n)))

(* getBranch follows the cached child links, beyond the list too.          *)
RECURSIVE GetBranch(_, _)
GetBranch(d, n) == {n} \cup UNION {GetBranch(d, k) : k \in ToSet(Kids(d, n))}

(* m counts the blocks there were, n the ones that stay.                   *)
CropToBranchOneNumber(d, n) ==   \* mutant: looks the new number up
  LET branch == GetBranch(d, n)
      step(r, m) == IF r.n \in branch THEN [r EXCEPT !.n = @ + 1]
                    ELSE [r EXCEPT !.d = RemoveNiBlock(@, r.n)]
  IN FoldLeft(step, [d |-> d, n |-> 0], [i \in 1 .. Len(d.order) |-> i - 1]).d

CropToBranch(d, n) ==
  LET branch == GetBranch(d, n)
      step(r, m) == IF m \in branch THEN [r EXCEPT !.n = @ + 1]
                    ELSE [r EXCEPT !.d = RemoveNiBlock(@, r.n)]
  IN FoldLeft(step, [d |-> d, n |-> 0], [i \in 1 .. Len(d.order) |-> i - 1]).d

RECURSIVE RemoveById(_, _)
RemoveById(d, n) ==
  IF n \notin All(d) THEN d
  ELSE IF TypeAt(d, n) \in Matched THEN RemoveById(RemoveNiBlock(d, n), n)
  ELSE RemoveById(d, n + 1)

-----------------------------------------------------------------------------
(* Optimizations.                                                          *)

(* One round of spCombiProps: properties of the same contents are replaced *)
(* by the first of them.                                                   *)
SameContents(d) ==
  LET contents(n) == <<TypeAt(d, n), d.link[BlockAt(d, n)]>>
      props == {n \in All(d) : TypeAt(d, n) \in PropertyType \cup {SourceTexture}}
      first(n) == Min({m \in props : contents(m) = contents(n)})
  IN [n \in {m \in props : first(m) # m} |-> first(n)]

RECURSIVE CombineProperties(_)
CombineProperties(d) ==
  LET map == SameContents(d)
      replace(l) == MapLink(l, map)
      gone == Reverse(SetToSortSeq(DOMAIN map, <))
  IN IF map = <<>> THEN d
     ELSE CombineProperties(FoldLeft(RemoveNiBlock, Rewritten(d, replace), gone))

(* spRemoveBogusNodes: nodes without links that one block at most refers   *)
(* to, by a child link.                                                    *)
RECURSIVE RemoveBogusNodes(_)
RemoveBogusNodes(d) ==
  LET c == Cache(d)
      refers(n) == {m \in All(d) \ {n} : Contains(c.child[m], n)}
      bogus == {n \in All(d) :
                  /\ TypeAt(d, n) \in NodeType
                  /\ c.child[n] = <<>> /\ c.parent[n] = <<>>
                  /\ Cardinality(refers(n)) < 2
                  /\ \A m \in All(d) \ {n} : ~Contains(c.parent[m], n)}
  IN IF bogus = {} THEN d ELSE RemoveBogusNodes(RemoveNiBlock(d, Min(bogus)))

(* spUniqueProps: a property another block comes first to refer to is      *)
(* replaced by a copy, and with a texturing property its source textures.  *)
(* The links of an object are set when all of them have been copied.       *)
SplitProperty(d, n) ==
  LET texture(r, k) ==
        IF TypeAt(r.d, k) = SourceTexture
        THEN [d |-> Copied(r.d, k, -1, <<>>), map |-> r.map @@ (k :> Len(r.d.order))]
        ELSE r
      sources == IF TypeAt(d, n) = TexturingProperty THEN Kids(d, n) ELSE <<>>
      result == FoldLeft(texture, [d |-> d, map |-> <<>>], sources)
  IN Copied(result.d, n, -1, result.map)

SplitProperties(d) ==
  LET object(e, b) ==
        LET entry(r, l) ==
              IF TypeAt(r.d, l) \in PropertyType /\ Parent(r.d, l) # b
              THEN [d |-> SplitProperty(r.d, l), list |-> Append(r.list, Len(SplitProperty(r.d, l).order) - 1)]
              ELSE [r EXCEPT !.list = Append(@, l)]
            result == FoldLeft(entry, [d |-> e, list |-> <<>>], LinkArray(e, b))
        IN IF TypeAt(e, b) \in ObjectType \ NodeType THEN SetLinkArray(result.d, b, result.list) ELSE e
  IN FoldLeft(object, d, [i \in 1 .. Len(d.order) |-> i - 1])

-----------------------------------------------------------------------------
(* Rearrangements.                                                         *)

(* spFlattenBranch: the children of a node move to its parent, and so do   *)
(* theirs.                                                                 *)
RECURSIVE Flatten(_, _, _)
Flatten(d, n, to) ==
  LET lift(r, l) ==
        IF l \in All(d) /\ Parent(r.d, l) = n
        THEN [d |-> DelLink(AddLink(r.d, to, l), n, l), lifted |-> Append(r.lifted, l)]
        ELSE r
      result == FoldLeft(lift, [d |-> d, lifted |-> <<>>], LinkArray(d, n))
  IN IF TypeAt(d, n) \notin NodeType THEN d
     ELSE FoldLeft(LAMBDA e, l : Flatten(e, l, to), result.d, result.lifted)

(* spAttachParentNode: a node takes the place of the block in the children *)
(* of its parent.                                                          *)
AttachParentNodeUnshifted(d, n, t) ==   \* mutant: links the number from before
  LET p == Parent(d, n)
      e == InsertNiBlock(d, t, n)
      children == IF TypeAt(d, p) \in NodeType THEN LinkArray(d, p) ELSE <<>>
      place == {i \in DOMAIN children : children[i] = n}
      parent == IF p = NoLink THEN 0 ELSE BlockAt(d, p)
      linked == IF place = {} THEN e ELSE [e EXCEPT !.link[parent][Min(place)] = n]
  IN AddLink(linked, n, n)

AttachParentNode(d, n, t) ==
  LET p == Parent(d, n)
      e == InsertNiBlock(d, t, n)
      children == IF TypeAt(d, p) \in NodeType THEN LinkArray(d, p) ELSE <<>>
      place == {i \in DOMAIN children : children[i] = n}
      parent == IF p = NoLink THEN 0 ELSE BlockAt(d, p)
      linked == IF place = {} THEN e ELSE [e EXCEPT !.link[parent][Min(place)] = n]
  IN AddLink(linked, n, n + 1)

(* spAttachNode, spAttachProperty: a new block behind the object, and a    *)
(* link to it.                                                             *)
AttachChild(d, n, t) == AddLink(InsertNiBlock(d, t, n + 1), n, n + 1)

(* spDuplicateBlock: a copy with the same links below the same parent.     *)
DuplicateBlock(d, n) ==
  LET e == Copied(d, n, Len(d.order), <<>>)
  IN BlockLink(e, Parent(e, n), Len(d.order))

(* spDuplicateBranch: copies of the blocks of a branch at the end of the   *)
(* list, below the parent of the original.  Links inside of the branch     *)
(* become links to copies; a branch with links beyond the list cannot be   *)
(* copied.  A parent link out of the branch is looked up by the name of    *)
(* its block, which is taken to be found.                                  *)
RECURSIVE PopulateBlocks(_, _, _)
PopulateBlocks(blocks, d, n) ==
  FoldLeft(LAMBDA list, k : PopulateBlocks(list, d, k),
           IF Contains(blocks, n) THEN blocks ELSE Append(blocks, n), Kids(d, n))

DuplicateBranch(d, n) ==
  LET blocks == PopulateBlocks(<<>>, d, n)
      count == Len(d.order)
      map == [m \in ToSet(blocks) |-> count + IndexFirstSubSeq(<<m>>, blocks) - 1]
      copy(e, m) == Copied(e, m, -1, map)
      parents(m) == IF m \in All(d) THEN ToSet(Cache(d).parent[m]) ELSE {}
      links == ToSet(blocks) \cup UNION {parents(m) : m \in ToSet(blocks)}
  IN IF ~(links \subseteq All(d)) THEN d
     ELSE BlockLink(FoldLeft(copy, d, blocks), Parent(d, n), count)

-----------------------------------------------------------------------------
(* spSanitizeBlockOrder.  addTree takes whatever numbers the links hold,   *)
(* and a block is in the list only after what comes before it: one that is *)
(* met again until then is added twice, or entered without an end if the   *)
(* list has not grown in between.                                          *)
Endless == -2

RECURSIVE AddTree(_, _, _, _)
AddTree(d, path, new, n) ==
  LET add(list, k) == AddTree(d, path \cup {<<n, Len(new)>>}, list, k)
      entities == IF TypeAt(d, n) \in Constraint
                  THEN [i \in 1 .. NumPtrs |-> d.link[BlockAt(d, n)][NumRefs + i]]
                  ELSE <<>>
      early == SelectSeq(Kids(d, n), LAMBDA k : TypeAt(d, k) \in BeforeParent)
      late  == SelectSeq(Kids(d, n), LAMBDA k : TypeAt(d, k) \notin BeforeParent)
  IN IF Contains(new, n) \/ Contains(new, Endless) THEN new
     ELSE IF <<n, Len(new)>> \in path THEN Append(new, Endless)
     ELSE FoldLeft(add, Append(FoldLeft(add, new, entities \o early), n), late)

NewBlocks(d) == FoldLeft(LAMBDA new, r : AddTree(d, {}, new, r), <<>>, Cache(d).root)

(* The blocks are taken for complete by how many they are.  If there are   *)
(* others among them, the inverse is written outside of its bounds.        *)
Complete(d) == Len(NewBlocks(d)) = Len(d.order)
Faults(d)   == \/ Contains(NewBlocks(d), Endless)
               \/ Complete(d) /\ ~(ToSet(NewBlocks(d)) \subseteq All(d))

(* reorderBlocks refuses what is no renumbering.                           *)
SanitizeNotInverted(d) ==   \* mutant: takes newblocks for the order
  LET new == NewBlocks(d)
      number == [n \in All(d) |-> new[n + 1]]
      renumber(l) == MapLink(l, number)
  IN IF Complete(d) /\ ToSet(new) = All(d)
     THEN [Rewritten(d, renumber) EXCEPT !.order = Reordered(@, number)]
     ELSE d

SanitizeBlockOrder(d) ==
  LET new == NewBlocks(d)
      number == [n \in All(d) |-> IndexFirstSubSeq(<<n>>, new) - 1]
      renumber(l) == MapLink(l, number)
  IN IF Complete(d) /\ ToSet(new) = All(d)
     THEN [Rewritten(d, renumber) EXCEPT !.order = Reordered(@, number)]
     ELSE d

(* SpellBook::sanitize: the children of nodes are sorted by number, shapes *)
(* before or after the others (spReorderLinks), empty entries leave the    *)
(* link arrays (spSanitizeLinkArrays), and the blocks are put in order.    *)
ReorderLinks(d) ==
  LET shape(l) == TypeAt(d, l) \in ShapeType
      before(k, l) == IF shape(k) = shape(l) THEN k < l ELSE shape(k) = ShapesFirst
      reorder(e, n) ==
        IF TypeAt(e, n) \in NodeType
        THEN SetLinkArray(e, n, SortSeq(SelectSeq(LinkArray(e, n), LAMBDA l : l >= 0), before))
        ELSE e
  IN FoldLeft(reorder, d, [i \in 1 .. Len(d.order) |-> i - 1])

CollapseLinkArrays(d) ==
  LET collapse(e, n) ==
        IF TypeAt(e, n) \in ObjectType
        THEN SetLinkArray(e, n, SelectSeq(LinkArray(e, n), LAMBDA l : l >= 0))
        ELSE e
  IN FoldLeft(collapse, d, [i \in 1 .. Len(d.order) |-> i - 1])

Collapsed(d)    == CollapseLinkArrays(ReorderLinks(d))
AutoSanitize(d) == SanitizeBlockOrder(Collapsed(d))

-----------------------------------------------------------------------------
(* The blocks a spell can be cast on, one spell in a behaviour.            *)
Castable == IF cast = NotCast THEN All(doc) ELSE {}

Cast(spell, n, result) ==
  /\ cast = NotCast
  /\ doc' = result
  /\ cast' = [spell |-> spell, on |-> n, before |-> doc]

CastRemoveBranch ==
  \E n \in Castable : /\ Contains(Cache(doc).root, n) \/ Parent(doc, n) >= 0
                      /\ Cast("RemoveBranch", n, RemoveBranch(doc, n))
CastCrop    == \E n \in Castable : Cast("Crop", n, CropToBranch(doc, n))
CastRemove  == Cast("RemoveById", NoLink, RemoveById(doc, 0))
CastCombine == Cast("Combine", NoLink, CombineProperties(doc))
CastBogus   == Cast("Bogus", NoLink, RemoveBogusNodes(doc))
CastFlatten ==
  \E n \in Castable : /\ TypeAt(doc, n) \in NodeType
                      /\ TypeAt(doc, Parent(doc, n)) \in NodeType
                      /\ Cast("Flatten", n, Flatten(doc, n, Parent(doc, n)))
CastAttach  ==
  \E n \in Castable, t \in NodeType : Cast("Attach", n, AttachParentNode(doc, n, t))
CastDuplicate == \E n \in Castable : Cast("Duplicate", n, DuplicateBranch(doc, n))
CastDuplicateBlock ==
  \E n \in Castable : Cast("DuplicateBlock", n, DuplicateBlock(doc, n))
CastAttachChild ==
  \E n \in Castable :
    \E t \in IF TypeAt(doc, n) \in NodeType THEN ObjectType
            ELSE IF TypeAt(doc, n) \in ObjectType THEN PropertyType ELSE {} :
      Cast("AttachChild", n, AttachChild(doc, n, t))
CastSplit    == Cast("Split", NoLink, SplitProperties(doc))
CastAutoSanitize ==
  /\ cast = NotCast /\ ~Faults(Collapsed(doc))
  /\ Cast("AutoSanitize", NoLink, AutoSanitize(doc))
CastSanitize  ==
  /\ cast = NotCast /\ ~Faults(doc)
  /\ Cast("Sanitize", NoLink, SanitizeBlockOrder(doc))
SanitizeFaults ==
  /\ cast = NotCast /\ Faults(doc)
  /\ Cast("Fault", NoLink, doc)

Next ==
  \/ CastRemoveBranch \/ CastCrop \/ CastRemove
  \/ CastCombine \/ CastBogus \/ CastSplit
  \/ CastFlatten \/ CastAttach \/ CastAttachChild
  \/ CastDuplicate \/ CastDuplicateBlock
  \/ CastSanitize \/ CastAutoSanitize \/ SanitizeFaults

Spec == Init /\ [][Next]_vars

-----------------------------------------------------------------------------
(* Properties: the document after a spell, compared to the one before.     *)

Before == cast.before
Gone   == ToSet(Before.order) \ ToSet(doc.order)
Stayed == ToSet(Before.order) \cap ToSet(doc.order)

(* What a link leads to: a block, none (0) or something beyond the list.   *)
Beyond == MaxBlocks + 1
Target(d, b, s) == Resolve(d.order, d.link[b][s], 0, Beyond)
ChildBlocks(d, b) == {Target(d, b, s) : s \in RefSlot} \ {0}
NoneBeyond(d) == \A b \in Block, s \in Slot : Target(d, b, s) # Beyond
IsRoot(d, b) == Contains(Cache(d).root, Number(d, b))

(* The blocks above a block, by first parents.                             *)
RECURSIVE Above(_, _)
Above(d, n) == IF Parent(d, n) = NoLink THEN {n} ELSE {n} \cup Above(d, Parent(d, n))

(* blocks.cpp and optimize.cpp: the spells that remove blocks remove these *)
(* and no others, although the numbers they compare change at every step;  *)
(* the rest keeps its order and, but for links to what is gone, its links. *)
(* Remove Branch takes the blocks the first parents of which lead up to    *)
(* the block; those that an earlier parent outside of it refers to stay.   *)
(* Remove Bogus Nodes takes nodes that only lead to others it takes, and   *)
(* that one block at most refers to, never by a parent link.               *)
RemovalsExact ==
  LET blocks(S) == {BlockAt(Before, n) : n \in S \cap All(Before)}
      bogus(b) == /\ Before.type[b] \in NodeType
                  /\ \A k \in ToSet(Kids(Before, Number(Before, b))) :
                       k \in All(Before) /\ BlockAt(Before, k) \in Gone
                  /\ \A c \in Stayed, s \in PtrSlot : Target(Before, c, s) # b
                  /\ Cardinality({c \in Stayed : b \in ChildBlocks(Before, c)}) < 2
  IN cast.spell \in {"RemoveBranch", "Crop", "RemoveById", "Bogus"} =>
       /\ doc.order = SelectSeq(Before.order, LAMBDA b : b \notin Gone)
       /\ \A b \in Stayed, s \in Slot :
            Target(doc, b, s) = IF Target(Before, b, s) \in Gone THEN 0 ELSE Target(Before, b, s)
       /\ CASE cast.spell = "RemoveBranch" ->
                 Gone = blocks({n \in All(Before) : cast.on \in Above(Before, n)})
            [] cast.spell = "Crop" ->
                 Gone = blocks(All(Before) \ GetBranch(Before, cast.on))
            [] cast.spell = "RemoveById" ->
                 Gone = {b \in ToSet(Before.order) : Before.type[b] \in Matched}
            [] cast.spell = "Bogus" -> \A b \in Gone : bogus(b)

(* Combine Properties leaves no two of the same contents, and links to one *)
(* that is gone lead to one of its type.                                   *)
Combined ==
  /\ SameContents(doc) = <<>>
  /\ \A b \in Gone : Before.type[b] \in PropertyType \cup {SourceTexture}
  /\ \A b \in Stayed, s \in Slot :
       LET old == Target(Before, b, s)
           new == Target(doc, b, s)
       IN old = new \/ (old \in Gone /\ new \in Stayed /\ Before.type[new] = Before.type[old])

(* Flatten Branch: everything that was below the node, or below a node     *)
(* that was, is a child of its parent, and not of its first parent before. *)
Flattened ==
  LET to == BlockAt(Before, Parent(Before, cast.on))
      below(n) == n # NoLink /\ TypeAt(Before, n) \in NodeType /\ cast.on \in Above(Before, n)
      lifted == {BlockAt(Before, n) : n \in {m \in All(Before) : below(Parent(Before, m))}}
  IN /\ doc.order = Before.order
     /\ ChildBlocks(doc, to) = ChildBlocks(Before, to) \cup lifted
     /\ \A b \in lifted :
          LET first == Parent(Before, Number(Before, b))
          IN b \notin ChildBlocks(doc, BlockAt(Before, first))

(* Attach Parent Node: the new node is what the parent leads to, and leads *)
(* to the block; no other link changes.  (Of a parent that is no node, the *)
(* links stay as they are, and the new node is a root.)                    *)
Attached ==
  LET on == BlockAt(Before, cast.on)
      new == BlockAt(doc, cast.on)
      p == Parent(Before, cast.on)
  IN p = NoLink \/ TypeAt(Before, p) \in NodeType =>
       /\ new \notin ToSet(Before.order) /\ ChildBlocks(doc, new) = {on}
       /\ p # NoLink => new \in ChildBlocks(doc, BlockAt(Before, p))
       /\ \A b \in Stayed, s \in Slot :
            \/ Target(doc, b, s) = Target(Before, b, s)
            \/ (Target(Before, b, s) = on /\ Target(doc, b, s) = new /\ b = BlockAt(Before, p))

(* Attach Node, Attach Property: the object leads to the new block besides,*)
(* and no other link changes.                                              *)
AttachedChild ==
  LET on == BlockAt(Before, cast.on)
      new == BlockAt(doc, cast.on + 1)
  IN /\ new \notin ToSet(Before.order)
     /\ ChildBlocks(doc, new) = {}
     /\ ChildBlocks(doc, on) = ChildBlocks(Before, on) \cup {new}
     /\ \A b \in Stayed \ {on}, s \in Slot : Target(doc, b, s) = Target(Before, b, s)

(* Split Properties: no two objects share a property any more, and no two  *)
(* blocks a new source texture.  Where a link of an object changes, it led *)
(* to a property and leads to a copy of it; the copy leads to what the     *)
(* property led to, and to copies of its source textures.  (Links beyond   *)
(* the list may lead to the copies.)                                       *)
Split ==
  LET objects == {b \in ToSet(doc.order) : doc.type[b] \in ObjectType \ NodeType}
      added(b) == b \in ToSet(doc.order) \ ToSet(Before.order)
      copies(o, n) == o \in Stayed /\ added(n) /\ doc.type[n] = doc.type[o]
      texture(o, n) == /\ copies(o, n) /\ doc.type[o] = SourceTexture
                       /\ \A s \in Slot : Target(doc, n, s) = Target(Before, o, s)
      property(o, n) == /\ copies(o, n) /\ doc.type[o] \in PropertyType
                        /\ \A s \in Slot : LET k == Target(Before, o, s)
                                            l == Target(doc, n, s)
                                            own == /\ doc.type[o] = TexturingProperty
                                                   /\ k \in Stayed /\ doc.type[k] = SourceTexture
                                        IN IF own THEN texture(k, l) ELSE k = l
      users(b, S) == {c \in S : b \in ChildBlocks(doc, c)}
  IN /\ \A b \in ToSet(doc.order) :
          /\ doc.type[b] \in PropertyType => Cardinality(users(b, objects)) < 2
          /\ added(b) /\ doc.type[b] = SourceTexture => Cardinality(users(b, ToSet(doc.order))) = 1
     /\ \A b \in Stayed, s \in Slot :
          LET o == Target(Before, b, s)
              n == Target(doc, b, s)
          IN o \in {n, Beyond} \/ (b \in objects /\ property(o, n))

(* Duplicate, Duplicate Branch: the copies refer to each other as the      *)
(* originals do (a single block has no other to refer to), and to the same *)
(* blocks outside of the branch; the first one is a child of the parent.   *)
(* (Links beyond the list may lead to the copies and change the parent;    *)
(* the copy of a block that is a child of itself becomes its parent.)      *)
Duplicated ==
  LET branch == cast.spell = "Duplicate"
      blocks == IF branch THEN PopulateBlocks(<<>>, Before, cast.on) ELSE <<cast.on>>
      count == Len(Before.order)
      copyOf(b) == IF branch /\ b \in Block /\ Contains(blocks, Number(Before, b))
                   THEN doc.order[count + IndexFirstSubSeq(<<Number(Before, b)>>, blocks)]
                   ELSE b
      on == BlockAt(Before, cast.on)
      p == Parent(Before, cast.on)
  IN doc # Before /\ (branch \/ (NoneBeyond(Before) /\ on \notin ChildBlocks(Before, on))) =>
       /\ TypeAt(Before, p) \in NodeType /\ Before.type[on] \in ObjectType =>
            Contains(LinkArray(doc, p), count)
       /\ Len(doc.order) = count + Len(blocks)
       /\ \A i \in DOMAIN blocks, s \in Slot :
            LET original == BlockAt(Before, blocks[i])
            IN Target(doc, doc.order[count + i], s) = copyOf(Target(Before, original, s))
       /\ \A b \in Stayed, s \in Slot :
            \/ Target(Before, b, s) \in {Target(doc, b, s), Beyond}
            \/ Number(Before, b) = p

(* blocks.cpp and optimize.cpp: the spells that rearrange blocks do to the *)
(* links, by the block they lead to, just what they are for; those that    *)
(* only link blocks make no block a root that was none.                    *)
RearrangedKeeps ==
  LET orphan(b) == IsRoot(doc, b) /\ ~IsRoot(Before, b)
  IN /\ cast.spell \in {"Flatten", "Attach", "AttachChild", "Duplicate", "DuplicateBlock", "Split"} =>
          /\ Gone = {}
          /\ NoneBeyond(Before) => \A b \in Stayed :
               orphan(b) => cast.spell = "Attach" /\ b = BlockAt(Before, cast.on)
     /\ CASE cast.spell = "Combine"   -> Combined
          [] cast.spell = "Flatten"   -> Flattened
          [] cast.spell = "Attach"    -> Attached
          [] cast.spell = "AttachChild" -> AttachedChild
          [] cast.spell = "Split"     -> Split
          [] cast.spell \in {"Duplicate", "DuplicateBlock"} -> Duplicated
          [] OTHER -> TRUE

Entities(d, n) ==
  {d.link[BlockAt(d, n)][s] : s \in IF TypeAt(d, n) \in Constraint THEN PtrSlot ELSE {}}

(* Trees of blocks the spell does not get through: a block that is neither *)
(* a root nor a child of one (it closes a cycle, or is a texture set that  *)
(* got filed under a shader property); links beyond the list; a constraint *)
(* with an empty entity, with a constraint for an entity, or that several  *)
(* blocks refer to and is below its own entity.                            *)
Loose(d) == \E n \in All(d) : Parent(d, n) = NoLink /\ ~Contains(Cache(d).root, n)
SelfConstrained(d) ==
  \E n \in All(d) : \E e \in Entities(d, n) : TypeAt(d, e) \in Constraint
OddEntity(d) ==
  \E n \in All(d) : \E e \in Entities(d, n) :
    \/ e = NoLink
    \/ n \in GetBranch(d, e) /\ \E p \in All(d) \ {e} : Contains(Kids(d, p), n)
Tangled(d) == ~NoneBeyond(d) \/ Loose(d) \/ SelfConstrained(d) \/ OddEntity(d)

(* Sanitizing keeps what each block leads to, leaves no empty entries, and *)
(* the shapes among the children of a node come last (first before         *)
(* Skyrim); it comes to rest at once in a tree of objects.                 *)
AutoSanitized ==
  LET above(b) == {c \in Stayed : b \in ChildBlocks(Before, c)}
      tree == \A b \in Stayed :
                /\ Cardinality(above(b)) = IF IsRoot(Before, b) THEN 0 ELSE 1
                /\ Before.type[b] \in NodeType =>
                     \A c \in ChildBlocks(Before, b) : c # Beyond /\ Before.type[c] \in ObjectType
  IN /\ Gone = {}
     /\ \A b \in Stayed :
          /\ ChildBlocks(doc, b) = ChildBlocks(Before, b)
          /\ \A s \in PtrSlot : Target(doc, b, s) = Target(Before, b, s)
          /\ doc.type[b] \in ObjectType =>
               ~Contains(LinkArray(doc, Number(doc, b)), NoLink)
          /\ doc.type[b] \in NodeType =>
               LET kids == LinkArray(doc, Number(doc, b))
               IN \A i, j \in DOMAIN kids :
                    TypeAt(doc, kids[i]) \in ShapeType /\ TypeAt(doc, kids[j]) \notin ShapeType =>
                      IF ShapesFirst THEN i < j ELSE j < i
     /\ tree /\ ~Tangled(Before) => AutoSanitize(doc) = doc

(* sanitize.cpp:208-277: the order the spell gives the blocks has every    *)
(* collision block before what refers to it, every constraint after its    *)
(* entities and any other block (but an entity) after a parent, and every  *)
(* link leads where it did; only a tangled document is refused.  The spell *)
(* writes out of bounds, or recurses until the stack ends, only for a      *)
(* constraint that constrains one, or if an odd number makes up for a      *)
(* loose block.                                                            *)
SanitizeOrders ==
  LET place(n) == Number(doc, BlockAt(Before, n))
      parents(n) == {p \in All(Before) : Contains(Kids(Before, p), n)}
      ordered(n) ==
        /\ \A e \in Entities(Before, n) : e \in All(Before) /\ place(e) < place(n)
        /\ IF TypeAt(Before, n) \in BeforeParent THEN \A p \in parents(n) : place(n) < place(p)
           ELSE \/ parents(n) = {} \/ \E p \in parents(n) : place(p) < place(n)
                \/ \E c \in All(Before) : n \in Entities(Before, c)
  IN /\ cast.spell = "Fault" =>
          SelfConstrained(doc) \/ (Loose(doc) /\ (~NoneBeyond(doc) \/ OddEntity(doc)))
     /\ cast.spell = "Sanitize" =>
          /\ \A b \in Stayed, s \in Slot : Target(doc, b, s) = Target(Before, b, s)
          /\ \/ Gone = {} /\ \A n \in All(Before) : ordered(n)
             \/ doc = Before /\ Tangled(Before)
     /\ cast.spell = "AutoSanitize" => AutoSanitized
=============================================================================
