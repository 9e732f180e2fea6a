------------------------------- MODULE Scene -------------------------------
(***************************************************************************)
(* The objects of the 3D view (gl/glscene.cpp, gl/glnode.cpp,              *)
(* gl/glproperty.cpp) and when they follow the document (glview.cpp).      *)
(*                                                                         *)
(* A Node or Property stands for a block and is counted by the lists that  *)
(* hold it: the nodes, properties and roots of the scene, the children and *)
(* properties of a node.  It is deleted when the last list drops it.  The  *)
(* parent of a node is a plain pointer, which nobody resets when the       *)
(* parent is deleted.  A change of links does not update the scene but     *)
(* asks the next paint to build it anew; until then other events may still *)
(* find the old objects.                                                   *)
(*                                                                         *)
(* An object is named by its block: a block that is removed and inserted   *)
(* again is another one, so that it waits for the old object to be gone.   *)
(* The order of lists is left out but for the nodes of the scene.          *)
(***************************************************************************)
EXTENDS Integers, FiniteSets, SequencesExt

CONSTANTS
  NodeBlock,          \* the blocks that are shown as a Node
  PropertyBlock,      \* those that are shown as a Property
  NoNode, Dangling,   \* no parent; a parent that has been deleted
  MaxBlocks,          \* bound: blocks in the document at a time
  MaxSilent           \* bound: those whose links the caches do not have

Block == NodeBlock \cup PropertyBlock

ASSUME KindAssumption ==
  /\ IsFiniteSet(Block)
  /\ NodeBlock \cap PropertyBlock = {} /\ {NoNode, Dangling} \cap Block = {}
  /\ NoNode # Dangling

ASSUME BoundAssumption == MaxBlocks \in Nat /\ MaxSilent \in Nat

VARIABLES
  blocks,      \* the blocks of the document
  links,       \* links[b]: the Children and Properties of b
  known,       \* those the caches of NifModel are up to date with
  scene,       \* the objects
  doCompile    \* the next paint builds the scene anew

document == <<blocks, links, known>>
vars     == <<document, scene, doCompile>>

Scenes ==
  [nodes      : Seq(NodeBlock),
   props      : SUBSET PropertyBlock,
   roots      : SUBSET NodeBlock,
   children   : [NodeBlock -> SUBSET NodeBlock],
   properties : [NodeBlock -> SUBSET PropertyBlock],
   parent     : [NodeBlock -> NodeBlock \cup {NoNode, Dangling}],
   ref        : [Block -> Int],
   fault      : BOOLEAN]         \* memory that has been freed was used

Empty == [nodes      |-> <<>>,
          props      |-> {},
          roots      |-> {},
          children   |-> [n \in NodeBlock |-> {}],
          properties |-> [n \in NodeBlock |-> {}],
          parent     |-> [n \in NodeBlock |-> NoNode],
          ref        |-> [b \in Block |-> 0],
          fault      |-> FALSE]

Objects(s) == {b \in Block : s.ref[b] > 0}

(* The nodes that have an object in their lists.                           *)
Owners(s, b) == {n \in NodeBlock : b \in s.children[n] \cup s.properties[n]}

-----------------------------------------------------------------------------
(* The lists.                                                              *)

(* How many lists drop b, if a list drops each object of a set and the     *)
(* objects of another one are deleted, with the lists they have.           *)
Losses(s, dropped, deleted, b) ==
  Cardinality({b} \cap dropped) + Cardinality(Owners(s, b) \cap deleted)

(* The last list to drop an object deletes it: the least set of objects    *)
(* that has all which are left without a list.                             *)
Deleted(s, dropped) ==
  LET Complete(S) == \A b \in Objects(s) : s.ref[b] <= Losses(s, dropped, S, b) => b \in S
  IN CHOOSE S \in SUBSET Objects(s) :
       Complete(S) /\ \A T \in SUBSET S : Complete(T) => T = S

(* Deleted objects lose their lists, and are no parents any more.          *)
Without(s, dropped, deleted) ==
  LET Left(lists) == [n \in NodeBlock |-> IF n \in deleted THEN {} ELSE lists[n]]
      parent == [n \in NodeBlock |-> IF s.parent[n] \in deleted THEN Dangling ELSE s.parent[n]]
  IN [s EXCEPT
       !.ref = [b \in Block |-> IF b \in deleted THEN 0
                                ELSE s.ref[b] - Losses(s, dropped, deleted, b)],
       !.children = Left(s.children),
       !.properties = Left(s.properties),
       !.parent = [n \in NodeBlock |-> IF n \in deleted THEN NoNode ELSE parent[n]]]

(* Each object of a set is taken out of one list.                          *)
Release(dropped) == [s \in Scenes |-> Without(s, dropped, Deleted(s, dropped))]

AllReleased(s, dropped) == Release(dropped)[s]

Released(s, b) == AllReleased(s, {b})

Held(s, b) == [s EXCEPT !.ref[b] = @ + 1]

(* Node::clear and the start of an update: children and properties.        *)
ClearedChildren(s, n) ==   \* mutant: forgets the properties
  AllReleased([s EXCEPT !.children[n] = {}, !.properties[n] = {}], s.children[n])

Cleared(s, n) ==
  AllReleased([s EXCEPT !.children[n] = {}, !.properties[n] = {}],
              s.children[n] \cup s.properties[n])

MakeParentAdding(s, n, p) ==   \* mutant: the old parent keeps the child
  IF p = NoNode \/ n \in s.children[p] THEN [s EXCEPT !.parent[n] = p]
  ELSE Held([s EXCEPT !.parent[n] = p, !.children[p] = @ \cup {n}], n)

(* The old parent drops the node.                                          *)
LeftParent(s, n) ==
  LET old == s.parent[n]
  IN IF old \in NodeBlock /\ n \in s.children[old]
     THEN Released([s EXCEPT !.children[old] = @ \ {n}], n)
     ELSE s

MakeParentUncounted(s, n, p) ==   \* mutant: the new parent does not count
  LET left == LeftParent(s, n)
  IN IF p = NoNode THEN [left EXCEPT !.parent[n] = p]
     ELSE [left EXCEPT !.parent[n] = p, !.children[p] = @ \cup {n}]

WithParent(s, n, p) ==
  [LeftParent(s, n) EXCEPT !.parent[n] = p, !.fault = @ \/ s.parent[n] = Dangling]

MakeParent(s, n, p) ==
  LET now == WithParent(s, n, p)
  IN IF p = NoNode \/ n \in now.children[p] THEN now
     ELSE Held([now EXCEPT !.children[p] = @ \cup {n}], n)

(* getProperty, and the addition to the properties of a node.              *)
WithProperties(s, n, added) ==
  [s EXCEPT !.props = @ \cup added,
            !.properties[n] = @ \cup added,
            !.ref = [b \in Block |-> s.ref[b] + Cardinality({b} \cap (added \ s.props))
                                     + Cardinality({b} \cap (added \ s.properties[n]))]]

-----------------------------------------------------------------------------
(* Updates.  d is the document, with the child links the cache of NifModel *)
(* knows.                                                                  *)

(* The step of each block of a list, one after the other.                  *)
Through(list, step, s) ==
  LET after[i \in 0 .. Len(list)] == IF i = 0 THEN s ELSE step[list[i]][after[i - 1]]
  IN after[Len(list)]

GetNode(update, s, b) ==
  IF b \in ToSet(s.nodes) THEN s
  ELSE update[b][Held([s EXCEPT !.nodes = Append(@, b)], b)]

(* The child links that are in the cache as well.                          *)
ChildNodes(d, n) == d.links[n] \cap d.childLinks[n] \cap NodeBlock

Adoption(update, n) ==
  [c \in NodeBlock |-> [s \in Scenes |-> MakeParent(GetNode(update, s, c), c, n)]]

(* Node::updateImpl, where update is the one of a node that is new.        *)
NodeUpdated(update, d, s, n) ==
  LET own == WithProperties(Cleared(s, n), n, d.links[n] \cap PropertyBlock)
  IN Through(SetToSeq(ChildNodes(d, n)), Adoption(update, n), own)

(* The updates of all nodes.  Within one another they are as many as there *)
(* are nodes at most, as all but the first are of new nodes.               *)
UpdateIn(update, d) == [n \in NodeBlock |-> [s \in Scenes |-> NodeUpdated(update, d, s, n)]]

Update(d) ==
  LET update[k \in 0 .. Cardinality(NodeBlock)] ==
        IF k = 0 THEN [n \in NodeBlock |-> [s \in Scenes |-> s]]
        ELSE UpdateIn(update[k - 1], d)
  IN update[Cardinality(NodeBlock)]

(* An iteration over the nodes does not survive that one is appended.      *)
Iterated(before, after) ==
  [after EXCEPT !.fault = @ \/ Len(after.nodes) > Len(before.nodes)]

(* Scene::update for one block, and for all.                               *)
BlockUpdated(s, d, b) ==
  IF b \in ToSet(s.nodes) THEN Iterated(s, Update(d)[b][s]) ELSE s

Valid(list, d) ==
  LET valid[i \in 0 .. Len(list)] ==
        IF i = 0 THEN <<>>
        ELSE IF list[i] \in d.blocks THEN Append(valid[i - 1], list[i]) ELSE valid[i - 1]
  IN valid[Len(list)]

Validated(s, d) ==
  LET props == AllReleased([s EXCEPT !.props = @ \cap d.blocks], s.props \ d.blocks)
  IN AllReleased([props EXCEPT !.nodes = Valid(@, d)], ToSet(s.nodes) \ d.blocks)

(* The root links of the cache.                                            *)
RootLinks(d) == {b \in d.blocks : \A p \in d.blocks : b \notin d.childLinks[p]}

WithRoot(s, d, b) ==
  LET top == MakeParent(GetNode(Update(d), s, b), b, NoNode)
  IN Held([top EXCEPT !.roots = @ \cup {b}], b)

SceneUpdated(s, d) ==
  LET valid == Validated(s, d)
      nodes == Iterated(valid, Through(valid.nodes, Update(d), valid))
      rootless == AllReleased([nodes EXCEPT !.roots = {}], nodes.roots)
      top == [b \in NodeBlock |-> [t \in Scenes |-> WithRoot(t, d, b)]]
  IN Through(SetToSeq(RootLinks(d) \cap NodeBlock), top, rootless)

(* Scene::clear and Scene::make.                                           *)
SceneCleared(s) ==
  LET noNodes == AllReleased([s EXCEPT !.nodes = <<>>], ToSet(s.nodes))
      noProps == AllReleased([noNodes EXCEPT !.props = {}], s.props)
  IN AllReleased([noProps EXCEPT !.roots = {}], s.roots)

Made(s, d) == SceneUpdated(SceneCleared(s), d)

-----------------------------------------------------------------------------
(* The document, as it is after a handler of NifModel, with the child      *)
(* links its caches have.                                                  *)
DocumentWith(cached) == [blocks |-> blocks', links |-> links', childLinks |-> cached]

Acyclic(next) ==
  ~ \E S \in (SUBSET DOMAIN next) \ {{}} : \A b \in S : \E p \in S : b \in next[p]

Init ==
  /\ blocks \in SUBSET Block /\ Cardinality(blocks) <= MaxBlocks
  /\ links \in [Block -> SUBSET Block]
  /\ \A b \in Block : links[b] \subseteq IF b \in blocks \cap NodeBlock THEN blocks ELSE {}
  /\ Acyclic(links)
  /\ known = links
  /\ scene = Empty /\ doCompile = TRUE

(* What the view does on linksChanged, which NifModel emits once its       *)
(* caches are up to date: it waits for the next paint.                     *)
LinksChangedAtOnce(s) ==   \* mutant: the update the code has commented out
  known' = links' /\ scene' = SceneUpdated(s, DocumentWith(links')) /\ UNCHANGED doCompile

LinksChanged(s) == known' = links' /\ scene' = s /\ doCompile' = TRUE

InsertBlock(b) ==
  /\ ~scene.fault
  /\ b \notin blocks /\ scene.ref[b] = 0
  /\ Cardinality(blocks) < MaxBlocks
  /\ blocks' = blocks \cup {b}
  /\ UNCHANGED links
  /\ LinksChanged(scene)

RemoveBlock(b) ==
  /\ ~scene.fault
  /\ b \in blocks
  /\ blocks' = blocks \ {b}
  /\ links' = [n \in Block |-> IF n = b THEN {} ELSE links[n] \ {b}]
  /\ LinksChanged(scene)

(* A link is set or cleared: the view first hears of the data, while the   *)
(* caches of NifModel are the old ones, and then of the links.             *)
SetLink(n, b) ==
  /\ ~scene.fault
  /\ n \in blocks \cap NodeBlock /\ b \in blocks
  /\ UNCHANGED blocks
  /\ links' = [links EXCEPT ![n] = IF b \in @ THEN @ \ {b} ELSE @ \cup {b}]
  /\ Acyclic(links')
  /\ LinksChanged(IF doCompile THEN scene ELSE BlockUpdated(scene, DocumentWith(known), n))

(* Links set in the Processing state: the caches stay as they are, and the *)
(* view hears of the data only.  Data of several blocks, of an undo or     *)
(* redo, make it wait for the next paint.                                  *)
SilentlySet(n, set) ==
  /\ ~scene.fault
  /\ n \in blocks \cap NodeBlock /\ set \subseteq blocks
  /\ UNCHANGED <<blocks, known>>
  /\ links' = [links EXCEPT ![n] = set]
  /\ Acyclic(links')
  /\ Cardinality({b \in Block : links'[b] # known[b]}) <= MaxSilent

SetLinksSilently(n, set) ==
  /\ SilentlySet(n, set)
  /\ UNCHANGED doCompile
  /\ scene' = IF doCompile THEN scene ELSE BlockUpdated(scene, DocumentWith(known), n)

SetManySilently(n, set) ==
  /\ SilentlySet(n, set)
  /\ doCompile' = TRUE
  /\ UNCHANGED scene

(* Any other value of a block.                                             *)
SetData(b) ==
  /\ ~scene.fault /\ ~doCompile
  /\ b \in blocks
  /\ UNCHANGED <<document, doCompile>>
  /\ scene' = BlockUpdated(scene, DocumentWith(known), b)

(* A reset of the model, which updates the caches, and an Esc in the view. *)
Reset == ~scene.fault /\ UNCHANGED <<blocks, links>> /\ LinksChanged(scene)

Recompile ==
  /\ ~scene.fault
  /\ doCompile' = TRUE
  /\ UNCHANGED <<document, scene>>

Paint ==
  /\ ~scene.fault /\ doCompile
  /\ doCompile' = FALSE
  /\ UNCHANGED document
  /\ scene' = Made(scene, DocumentWith(known))

(* A menu of the 3D view is toggled, or a cube map selected.               *)
UpdateScene ==
  /\ ~scene.fault
  /\ UNCHANGED <<document, doCompile>>
  /\ scene' = SceneUpdated(scene, DocumentWith(known))

Next ==
  \/ \E b \in Block : InsertBlock(b) \/ RemoveBlock(b) \/ SetData(b)
  \/ \E n, b \in Block : SetLink(n, b)
  \/ \E n \in Block, set \in SUBSET Block : SetLinksSilently(n, set) \/ SetManySilently(n, set)
  \/ Reset \/ Recompile \/ Paint \/ UpdateScene

Spec == Init /\ [][Next]_vars

-----------------------------------------------------------------------------
(* Properties.                                                             *)

(* Type correctness: the document is one, and what the lists hold are      *)
(* objects.                                                                *)
TypeOK ==
  /\ blocks \subseteq Block
  /\ links \in [Block -> SUBSET blocks] /\ known \in [Block -> SUBSET blocks]
  /\ doCompile \in BOOLEAN
  /\ scene.ref \in [Block -> Nat]
  /\ ToSet(scene.nodes) \cup scene.roots \subseteq NodeBlock \cap Objects(scene)
  /\ scene.props \subseteq PropertyBlock \cap Objects(scene)
  /\ scene.children \in [NodeBlock -> SUBSET (NodeBlock \cap Objects(scene))]
  /\ scene.properties \in [NodeBlock -> SUBSET (PropertyBlock \cap Objects(scene))]
  /\ scene.parent \in [NodeBlock -> Objects(scene) \cup {NoNode, Dangling}]

(* An object is counted once for each list that holds it, so that none is  *)
(* deleted while a list holds it and none outlives the last list.          *)
RefsMatch ==
  \A b \in Block : scene.ref[b] =
    Cardinality(Owners(scene, b)) + Cardinality({b} \cap ToSet(scene.nodes))
    + Cardinality({b} \cap scene.roots) + Cardinality({b} \cap scene.props)

(* What a paint shows is the document: each node once, as a root or below  *)
(* one of the nodes that link it, with its own properties.  Later changes  *)
(* of data keep that.  Links set silently are shown wrongly until the      *)
(* caches have them.                                                       *)
PaintedIsDocument ==
  ~doCompile /\ ~scene.fault /\ known = links =>
    /\ ToSet(scene.nodes) = NodeBlock \cap blocks /\ IsInjective(scene.nodes)
    /\ scene.roots = NodeBlock \cap RootLinks([blocks |-> blocks, childLinks |-> known])
    /\ \A n \in NodeBlock \cap blocks :
         /\ scene.properties[n] = links[n] \cap PropertyBlock
         /\ IF n \in scene.roots THEN scene.parent[n] = NoNode /\ Owners(scene, n) = {}
            ELSE scene.parent[n] \in Block /\ Owners(scene, n) = {scene.parent[n]}
         /\ n \notin scene.roots => n \in links[scene.parent[n]]

(* Freed memory is used by nothing but an update of the scene that comes   *)
(* between a change of links and the paint that would rebuild it, or while *)
(* the caches miss links that were set silently.                           *)
FaultsOnlyPending ==
  [][scene'.fault => (doCompile /\ doCompile') \/ known # links]_vars
=============================================================================
