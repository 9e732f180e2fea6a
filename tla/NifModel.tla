------------------------------ MODULE NifModel ------------------------------
(***************************************************************************)
(* The block level of NifModel (model/nifmodel.cpp): the list of blocks,   *)
(* the links between them by block number, the link caches derived from    *)
(* the links, the header and footer derived from blocks and caches, and    *)
(* the lock that delays these derivations.                                 *)
(*                                                                         *)
(* A handler of the code is one action: NifModel lives in the GUI thread   *)
(* and a handler runs to its end before anything else happens.  A spell    *)
(* that holds the updates (obj import, paste branch, attach .KF) calls     *)
(* several handlers between holdUpdates(true) and holdUpdates(false); that *)
(* is a sequence of actions here, so that what is stale in between is      *)
(* visible.                                                                *)
(***************************************************************************)
EXTENDS Links

CONSTANTS
  Block,          \* the block objects a document can be made of
  Type,           \* block types
  Fields,         \* Fields[t] is the set of link fields of a block of type t
  Related,        \* pairs of types, one of which inherits the other
  FileLinks,      \* the numbers the link fields of a file hold
  MaxBeyond,      \* bound: how far beyond the last block they may lie
  LinkInputs,     \* the numbers an edit or the clipboard can give a link field
  FooterInputs,   \* those a Roots link of the footer can be given
  MaxHeld,        \* bound: handlers called by a spell while it holds updates
  MaxSilent,      \* bound: fields set silently since the last link update
  MaxMapped,      \* bound: block numbers in the domain of a map of links
  PasteCanFail,   \* whether a paste can meet clipboard data it cannot read
  Null, Dangling  \* what an empty link, and one beyond the list, points at

ASSUME NullAssumption  == Null \notin Block /\ Dangling \notin Block
ASSUME FieldAssumption == Fields \in [Type -> SUBSET Slot]
(* BSShaderTextureSet of nif.xml has no links.                             *)
ASSUME TextureSetAssumption == TextureSet \in Type => Fields[TextureSet] \cap RefSlot = {}
ASSUME InputAssumption ==
  {NoLink} \cup FileLinks \cup LinkInputs \cup FooterInputs \subseteq Int
ASSUME BoundAssumption ==
  /\ MaxHeld \in Nat /\ MaxSilent \in Nat /\ MaxMapped \in Nat /\ MaxBeyond \in Nat
  /\ PasteCanFail \in BOOLEAN

VARIABLES
  order,          \* the blocks, in the order of the root item's rows
  type,           \* the type of each block
  link,           \* link[b][s]: the value of field s of block b
  childLinks,     \* cache: child block numbers of each block number
  parentLinks,    \* cache: numbers held by the parent links of each block
  rootLinks,      \* cache: numbers of the blocks no child link points at
  header,         \* the block type list and the block type indices
  footer,         \* the Roots links
  lockUpdates,    \* updates are held
  needUpdates,    \* the updates asked for meanwhile
  held,           \* handlers called by the spell that holds the updates; 0: none
  known,          \* history: the links when a link update was last asked for
  written         \* the last handler was a save that returned true

document == <<order, type, link>>
caches   == <<childLinks, parentLinks, rootLinks>>
lock     == <<lockUpdates, needUpdates>>
vars     == <<document, caches, header, footer, lock, held, known, written>>

NoFields == [s \in Slot |-> NoLink]

Count == Len(order)

-----------------------------------------------------------------------------
(* The header: the type of each block, as an index into the list of types  *)
(* in the order of their first appearance.                                 *)
HeaderOf(blocks, ty) ==
  LET names == Distinct([i \in 1 .. Len(blocks) |-> ty[blocks[i]]])
  IN [num   |-> Len(blocks),
      types |-> names,
      index |-> [i \in 1 .. Len(blocks) |-> CHOOSE j \in DOMAIN names : names[j] = ty[blocks[i]]]]

(* The updates asked for at the end of a handler, done or put off; f is    *)
(* the footer as the handler has left it.                                  *)
Refresh(what, f) ==
  /\ header' = IF "header" \in what THEN HeaderOf(order', type') ELSE header
  /\ IF "links" \in what
     THEN \E c \in {LinkCaches(order', type', link')} :
            childLinks' = c.child /\ parentLinks' = c.parent /\ rootLinks' = c.root
     ELSE UNCHANGED caches
  /\ footer' = IF "footer" \in what THEN rootLinks' ELSE f

UpdateOverwriting(what, f) ==   \* mutant: the last request wins
  IF lockUpdates
  THEN /\ needUpdates' = what
       /\ footer' = f
       /\ UNCHANGED <<lockUpdates, caches, header>>
  ELSE Refresh(what, f) /\ UNCHANGED lock

Update(what, f) ==
  IF lockUpdates
  THEN /\ needUpdates' = needUpdates \cup what
       /\ footer' = f
       /\ UNCHANGED <<lockUpdates, caches, header>>
  ELSE Refresh(what, f) /\ UNCHANGED lock

(* The end of a handler that has changed the document: the next state of   *)
(* the caches is to have its links.                                        *)
UpdateKnown(what, f) == known' = link' /\ Update(what, f)

AllUpdates  == {"header", "links", "footer"}
LinkUpdates == {"links", "footer"}

(* A handler is called by the user, or by the spell in progress as long as *)
(* the bound on its calls allows.                                          *)
Called ==
  /\ held <= MaxHeld
  /\ held' = IF held = 0 THEN 0 ELSE held + 1
  /\ written' = FALSE

(* The links of all blocks and of the footer, rewritten by f.              *)
LinksBy(f(_))  == [b \in Block |-> [s \in Slot |-> f(link[b][s])]]
FooterBy(f(_)) == [i \in DOMAIN footer |-> f(footer[i])]

-----------------------------------------------------------------------------
(* A document that has just been loaded: any blocks, types and links, the  *)
(* footer the file has, and a header that may announce more blocks than    *)
(* could be read.                                                          *)
Lists == UNION {[1 .. n -> Block] : n \in 0 .. Cardinality(Block)}

HasOnly(values, t) == \A s \in Slot \ Fields[t] : values[s] = NoLink

Init ==
  /\ order \in Lists /\ IsInjective(order)
  /\ type \in [Block -> Type]
  /\ link \in [Block -> [Slot -> FileLinks]]
  /\ \A b \in Block : IF b \in ToSet(order)
                      THEN /\ HasOnly(link[b], type[b])
                           /\ \A s \in Slot : link[b][s] < Count + MaxBeyond
                      ELSE link[b] = NoFields
  /\ LET c == LinkCaches(order, type, link)
     IN childLinks = c.child /\ parentLinks = c.parent /\ rootLinks = c.root
  /\ \E unread \in Lists : IsInjective(order \o unread) /\ header = HeaderOf(order \o unread, type)
  /\ footer \in {<<>>} \cup {<<l>> : l \in FooterInputs}
  /\ lockUpdates = FALSE /\ needUpdates = {}
  /\ held = 0 /\ written = FALSE
  /\ known = link

-----------------------------------------------------------------------------
(* The handlers.                                                           *)

(* A position that is not in the list means the end, without a shift.      *)
InsertNiBlock(b, at) ==
  LET inside == at \in 0 .. Count
      shift(l) == IF inside THEN AdjustLink(l, at, 1) ELSE l
  IN /\ Called
     /\ b \notin ToSet(order)
     /\ order' = Inserted(order, IF inside THEN at ELSE Count, b)
     /\ link' = [LinksBy(shift) EXCEPT ![b] = NoFields]
     /\ UNCHANGED type
     /\ UpdateKnown(AllUpdates, FooterBy(shift))

(* The header is not updated.                                              *)
RemoveNiBlock(n) ==
  LET drop(l) == DropLink(l, n)
  IN /\ Called
     /\ order' = Removed(order, n)
     /\ link' = [LinksBy(drop) EXCEPT ![order[n + 1]] = NoFields]
     /\ UNCHANGED type
     /\ UpdateKnown(LinkUpdates, FooterBy(drop))

MoveNiBlock(src, dst) ==
  LET step(l) == MapLink(l, MoveMap(src, dst))
  IN /\ Called
     /\ order' = Moved(order, src, dst)
     /\ link' = LinksBy(step)
     /\ UNCHANGED type
     /\ UpdateKnown(AllUpdates, FooterBy(step))

(* Refused unless it is a renumbering, and nothing happens when every      *)
(* block keeps its number.                                                 *)
ReorderBlocks(newNumber) ==
  LET renumber(l) == MapLink(l, newNumber)
  IN /\ Called
     /\ IsRenumbering(newNumber, Count)
     /\ \E n \in Numbers(Count) : newNumber[n] # n
     /\ order' = Reordered(order, newNumber)
     /\ link' = LinksBy(renumber)
     /\ UNCHANGED type
     /\ UpdateKnown(AllUpdates, FooterBy(renumber))

(* The replacement of blocks by others in every link.                      *)
MapAllLinks(map) ==
  LET replace(l) == MapLink(l, map)
  IN /\ Called
     /\ link' = LinksBy(replace)
     /\ UNCHANGED <<order, type>>
     /\ UpdateKnown(AllUpdates, FooterBy(replace))

(* One link of block n: setLink, or setData on a link outside of the       *)
(* Processing state.                                                       *)
SetLink(n, s, l) ==
  /\ Called
  /\ s \in Fields[type[order[n + 1]]]
  /\ link' = [link EXCEPT ![order[n + 1]][s] = l]
  /\ UNCHANGED <<order, type>>
  /\ UpdateKnown(LinkUpdates, footer)

(* The links of block n at once: loadIndex, and setLinkArray.              *)
LoadIndex(n, values) ==
  /\ Called
  /\ HasOnly(values, type[order[n + 1]])
  /\ link' = [link EXCEPT ![order[n + 1]] = values]
  /\ UNCHANGED <<order, type>>
  /\ UpdateKnown(LinkUpdates, footer)

(* Links of block n as setData leaves them in the Processing state: an     *)
(* array the user pastes values over, and the undo or redo of a command    *)
(* that has been merged.  No update follows, and none is put off.          *)
SetLinksSilently(n, values) ==
  /\ held = 0
  /\ HasOnly(values, type[order[n + 1]])
  /\ link' = [link EXCEPT ![order[n + 1]] = values]
  /\ Cardinality({f \in Block \X Slot : link'[f[1]][f[2]] # known[f[1]][f[2]]}) <= MaxSilent
  /\ written' = FALSE
  /\ UNCHANGED <<order, type, caches, header, footer, lock, held, known>>

(* The links of a pasted block, mapped to their numbers in this document.  *)
LoadAndMapLinks(n, values, map) ==
  LoadIndex(n, [s \in Slot |-> MapLink(values[s], map)])

(* A link array of block n is resized: its excess fields cease to exist,   *)
(* new ones hold no link.                                                  *)
DropFields(n, gone) ==
  /\ Called
  /\ link' = [link EXCEPT ![order[n + 1]] =
                [s \in Slot |-> IF s \in gone THEN NoLink ELSE @[s]]]
  /\ UNCHANGED <<order, type>>
  /\ UpdateKnown(LinkUpdates, footer)

(* A conversion to a related type keeps the fields of both types.          *)
ConvertNiBlock(n, t) ==
  LET b == order[n + 1]
  IN /\ Called
     /\ <<type[b], t>> \in Related
     /\ type' = [type EXCEPT ![b] = t]
     /\ link' = [link EXCEPT ![b] =
                   [s \in Slot |-> IF s \in Fields[t] THEN @[s] ELSE NoLink]]
     /\ UNCHANGED order
     /\ UpdateKnown(AllUpdates, footer)

(* A footer link edited by hand has no further effect.                     *)
SetFooterLink(i, l) ==
  /\ Called
  /\ footer' = [footer EXCEPT ![i] = l]
  /\ UNCHANGED <<document, caches, header, lock, known>>

-----------------------------------------------------------------------------
(* The lock: holdUpdates(true), holdUpdates(false), and the return of a    *)
(* paste between the two when a block of the clipboard cannot be read.     *)

BeginHold ==
  /\ MaxHeld > 0 /\ held = 0
  /\ held' = 1
  /\ lockUpdates' = TRUE
  /\ written' = FALSE
  /\ UNCHANGED <<document, caches, header, footer, needUpdates, known>>

EndHold ==
  /\ held > 0
  /\ held' = 0
  /\ lockUpdates' = FALSE
  /\ needUpdates' = {}
  /\ known' = IF "links" \in needUpdates THEN link ELSE known
  /\ UNCHANGED <<document, written>>
  /\ Refresh(needUpdates, footer)

FailHold ==
  /\ PasteCanFail
  /\ held > 1
  /\ held' = 0
  /\ UNCHANGED <<document, caches, header, footer, lock, known, written>>

(* A save asks for the header and the footer once more and writes them     *)
(* with the blocks.                                                        *)
SaveFooterOnly ==   \* mutant: the header is saved as it is
  /\ held = 0
  /\ held' = 0
  /\ written' = TRUE
  /\ UNCHANGED <<document, known>>
  /\ Update({"footer"}, footer)

Save ==
  /\ held = 0
  /\ held' = 0
  /\ written' = TRUE
  /\ UNCHANGED <<document, known>>
  /\ Update({"header", "footer"}, footer)

-----------------------------------------------------------------------------
Renumberings == [Numbers(Count) -> Numbers(Count)]

Maps == UNION {[from -> Numbers(Count)] : from \in {f \in SUBSET Numbers(Count) : Cardinality(f) <= MaxMapped}}

(* The handlers of blocks that keep their types, and saving.               *)
DocumentNext ==
  \/ \E b \in Block, at \in -1 .. Count : InsertNiBlock(b, at)
  \/ \E n \in Numbers(Count) : RemoveNiBlock(n)
  \/ \E src, dst \in Numbers(Count) : MoveNiBlock(src, dst)
  \/ \E newNumber \in Renumberings : ReorderBlocks(newNumber)
  \/ \E map \in Maps : MapAllLinks(map)
  \/ \E n \in Numbers(Count), s \in Slot, l \in LinkInputs : SetLink(n, s, l)
  \/ \E n \in Numbers(Count), values \in [Slot -> LinkInputs] :
       LoadIndex(n, values) \/ SetLinksSilently(n, values)
  \/ \E n \in Numbers(Count), values \in [Slot -> LinkInputs], map \in Maps :
       LoadAndMapLinks(n, values, map)
  \/ \E n \in Numbers(Count), gone \in SUBSET Slot : DropFields(n, gone)
  \/ Save

(* Blocks are converted, the footer's links edited and updates held        *)
(* besides.                                                                *)
Next ==
  \/ DocumentNext
  \/ \E n \in Numbers(Count), t \in Type : ConvertNiBlock(n, t)
  \/ \E i \in DOMAIN footer, l \in FooterInputs : SetFooterLink(i, l)
  \/ BeginHold \/ EndHold \/ FailHold

Spec == Init /\ [][Next]_vars

-----------------------------------------------------------------------------
(* Properties.                                                             *)

(* Type correctness.  No block is twice in the list; a block that is not   *)
(* in it and a field its type does not have hold no link, nor did they at  *)
(* the last link update; nothing waits for the release of a lock nobody    *)
(* holds.                                                                  *)
DocumentOK ==
  /\ order \in Seq(Block) /\ IsInjective(order)
  /\ type \in [Block -> Type]
  /\ link \in [Block -> [Slot -> Int]]
  /\ \A b \in Block, s \in Slot :
       (b \notin ToSet(order) \/ s \notin Fields[type[b]]) => link[b][s] = NoLink

KnownOK ==
  /\ known \in [Block -> [Slot -> Int]]
  /\ \A b \in Block, s \in Slot :
       (b \notin ToSet(order) \/ s \notin Fields[type[b]]) => known[b][s] = NoLink

LockOK ==
  /\ lockUpdates \in BOOLEAN /\ needUpdates \subseteq AllUpdates
  /\ held \in Nat /\ written \in BOOLEAN
  /\ held > 0 => lockUpdates
  /\ needUpdates # {} => lockUpdates

TypeOK == DocumentOK /\ KnownOK /\ LockOK

(* No update is lost: unless a link update is due at the release of the    *)
(* lock, the caches are those of the document as every handler has left it *)
(* but SetLinksSilently, whose links they take up with the next update.    *)
CachesCurrent ==
  "links" \notin needUpdates =>
    <<childLinks, parentLinks, rootLinks>> =
      LET c == LinkCaches(order, type, known) IN <<c.child, c.parent, c.root>>

(* The blocks each block leads to, by the caches, and by the links the     *)
(* last link update was to find.                                           *)
Kids   == [n \in Numbers(Count) |-> ToSet(childLinks[n]) \cap Numbers(Count)]
Refers == [n \in Numbers(Count) |->
             {m \in Numbers(Count) : \E s \in RefSlot : known[order[n + 1]][s] = m}]

Unfiled(n) == BS151 /\ type[order[n + 1]] = TextureSet

(* What a save writes describes itself.  The header gives the type of each *)
(* block that follows; whoever follows the links from the blocks in the    *)
(* footer meets every block; and the footer has no block another one       *)
(* refers to, but one of a cycle.  Links set silently count here as they   *)
(* were before: FooterListsRoots says what the file is like.               *)
SavedConsistent ==
  written =>
    /\ header.num = Count
    /\ \A i \in 1 .. Count : header.types[header.index[i]] = type[order[i]]
    /\ ToSet(footer) \subseteq Numbers(Count)
    /\ \A n \in Numbers(Count) \ Reach(ToSet(footer), Refers) : Unfiled(n)
    /\ \A n \in ToSet(footer), m \in Numbers(Count) :
         n \in Refers[m] => m \in Reach({n}, Refers)

(* The footer of a saved file lists its roots: every block that no child   *)
(* link of another block points at, and perhaps more.                      *)
FooterListsRoots ==
  written =>
    \A n \in Numbers(Count) :
      \/ \E b \in ToSet(order), s \in RefSlot : link[b][s] = n
      \/ Unfiled(n)
      \/ n \in ToSet(footer)

(* The child links of the caches never form a cycle, whatever links the    *)
(* document holds: the scene graph, the block list and the spells recurse  *)
(* over them.                                                              *)
CachesAcyclic ==
  ~lockUpdates => \A S \in (SUBSET Numbers(Count)) \ {{}} : \E n \in S : Kids[n] \cap S = {}

(* Every block can be reached from the root links by child links, so that  *)
(* the block list shows it and the renderer visits it, even if the         *)
(* document's links are cyclic; all but a texture set no block refers to   *)
(* and no shader property precedes.                                        *)
RootsCover ==
  ~lockUpdates =>
    \A n \in Numbers(Count) \ Reach(ToSet(rootLinks), Kids) :
      Unfiled(n) /\ (n = 0 \/ type[order[n]] # LightingShader)

(* A link that an update of the caches found is left out of them only if   *)
(* it closes a cycle.                                                      *)
OnlyCyclesDropped ==
  ~lockUpdates => \A n \in Numbers(Count) : \A m \in Refers[n] \ Kids[n] :
                    n \in Reach({m}, Refers)

(* The document with its links read as references to blocks.  It does what *)
(* an ObjectGraph does: no handler makes a link point at another block     *)
(* unless it is meant to.                                                  *)
Graph == INSTANCE ObjectGraph WITH
           blocks <- order,
           target <- [b \in Block |->
                        [s \in Slot |-> Resolve(order, link[b][s], Null, Dangling)]]

LinksKeepTheirBlock == Graph!Spec
=============================================================================
