------------------------------ MODULE NifUndo ------------------------------
(***************************************************************************)
(* Undo: the commands of model/undocommands.cpp on the QUndoStack of a     *)
(* document, the views that push them (ui/widgets/nifview.cpp,             *)
(* model/nifdelegate.cpp), and the flag that the window is modified, which *)
(* together with the stack decides whether the user is asked before the    *)
(* document is given up.                                                   *)
(*                                                                         *)
(* The document is a handful of value items: the rows of one link array,   *)
(* and the number that gives its size.  A command holds on to its items by *)
(* persistent indices; the index of an item that has been removed is       *)
(* invalid for ever, and rows added later are other items, which no        *)
(* command knows.                                                          *)
(*                                                                         *)
(* Commands of one transaction are merged into one.  Every transaction has *)
(* an ID of its own, so that a transaction is one command here.            *)
(***************************************************************************)
EXTENDS Integers, Sequences, FiniteSets, SequencesExt

CONSTANTS
  Row,            \* the rows of the link array of a loaded document
  Size,           \* the item that gives the size of the array
  LinkValues,     \* what the user enters for a link
  SizeValues,     \* what the user enters for the size
  MaxChanges      \* bound: commands pushed and spells cast

Link == ToSet(Row)
Item == Link \cup {Size}

ASSUME RowAssumption   == Row \in Seq(ToSet(Row)) /\ IsInjective(Row) /\ Size \notin ToSet(Row)
ASSUME ValueAssumption == LinkValues \subseteq Int /\ SizeValues \subseteq Nat
ASSUME BoundAssumption == MaxChanges \in Nat

Input(i) == IF i \in Link THEN LinkValues ELSE SizeValues

VARIABLES
  value,          \* the value of each item
  rows,           \* the number of rows the array has
  alive,          \* the items that have not been removed
  stack, index,   \* QUndoStack: the commands, the number of those in effect,
  clean,          \*   and the position at the last save; -1 if out of reach
  modified,       \* the window is modified
  saved,          \* the document on disk
  snap,           \* history: the values at each position of the stack
  tracked,        \* history: items nothing but commands has changed
  pasted,         \* history: counts a paste has changed
  changes         \* commands pushed and spells cast

document == <<value, rows, alive>>
undo     == <<stack, index, clean>>
history  == <<snap, tracked, pasted>>
vars     == <<document, undo, modified, saved, history, changes>>

Disk == [value |-> value, rows |-> rows]

Init ==
  /\ value \in [Item -> LinkValues \cup {Len(Row)}]
  /\ \A l \in Link : value[l] \in LinkValues
  /\ value[Size] = Len(Row)
  /\ rows = Len(Row) /\ alive = Item
  /\ stack = <<>> /\ index = 0 /\ clean = 0
  /\ modified = FALSE /\ saved = Disk
  /\ snap = <<value>> /\ tracked = Item /\ pasted = {} /\ changes = 0

-----------------------------------------------------------------------------
(* The commands.                                                           *)

Command(kind, idxs, old, new) == [kind |-> kind, idxs |-> idxs, old |-> old, new |-> new]

Valid(c)   == {k \in DOMAIN c.idxs : c.idxs[k] \in alive}
Rank(c, k) == Cardinality({j \in Valid(c) : j <= k})

(* redo() and undo() of a ChangeValueCommand set the k-th VALID item to    *)
(* the k-th value.                                                         *)
SetValues(c, vals) ==
  /\ value' = [i \in Item |-> IF \E k \in Valid(c) : c.idxs[k] = i
                              THEN vals[Rank(c, CHOOSE k \in Valid(c) : c.idxs[k] = i)]
                              ELSE value[i]]
  /\ modified' = (modified \/ Len(c.idxs) > 1 \/ Valid(c) # {})
  /\ UNCHANGED <<rows, alive>>

(* The array gets the size its size item has now, in redo() and in undo(). *)
SetArraySize ==
  /\ rows' = value[Size]
  /\ alive' = alive \ {Row[k] : k \in {j \in DOMAIN Row : j > rows'}}
  /\ modified' = (modified \/ rows' # rows)
  /\ UNCHANGED value

Changes == changes < MaxChanges /\ changes' = changes + 1

(* QUndoStack::push, of a command that is in effect already.               *)
PushKeepingClean(c) ==   \* mutant: a saved state that is cut off stays clean
  /\ Changes
  /\ stack' = Append(SubSeq(stack, 1, index), c)
  /\ index' = index + 1
  /\ clean' = clean
  /\ snap' = Append(SubSeq(snap, 1, index + 1), value')

Push(c) ==
  /\ Changes
  /\ stack' = Append(SubSeq(stack, 1, index), c)
  /\ index' = index + 1
  /\ clean' = IF clean > index THEN -1 ELSE clean
  /\ snap' = Append(SubSeq(snap, 1, index + 1), value')

-----------------------------------------------------------------------------
(* What the user does.                                                     *)

(* An editor is closed on another value than it was opened with.           *)
Edit(i, v) ==
  LET c == Command("value", <<i>>, <<value[i]>>, <<v>>)
  IN /\ i \in alive /\ v # value[i]
     /\ SetValues(c, c.new)
     /\ Push(c)
     /\ UNCHANGED <<saved, tracked, pasted>>

(* One value for all selected links.  Setting a link as a number fails, so *)
(* that its command finds the value the link has had, and sets it.         *)
Paste(items, v) ==
  /\ items # <<>>
  /\ ToSet(items) \subseteq Link \cap alive
  /\ value' = [i \in Item |-> IF Contains(items, i) THEN v ELSE value[i]]
  /\ modified' = TRUE
  /\ Push(Command("value", items, [k \in DOMAIN items |-> value[items[k]]],
                  [k \in DOMAIN items |-> v]))
  /\ UNCHANGED <<rows, alive, saved, tracked, pasted>>

(* A count gets its value before the command is created, which finds that  *)
(* value for the old one.                                                  *)
PasteSize(v) ==
  LET c == Command("value", <<Size>>, <<v>>, <<v>>)
  IN /\ Size \in alive
     /\ SetValues(c, c.new)
     /\ Push(c)
     /\ pasted' = pasted \cup {Size}
     /\ UNCHANGED <<saved, tracked>>

(* The values of an array for the first rows of another one, in the        *)
(* Processing state.                                                       *)
PasteArray(vals) ==
  LET items == SubSeq(Row, 1, Len(vals))
  IN /\ vals # <<>>
     /\ ToSet(items) \subseteq alive
     /\ value' = [i \in Item |-> IF Contains(items, i)
                                 THEN vals[CHOOSE k \in DOMAIN items : items[k] = i]
                                 ELSE value[i]]
     /\ modified' = TRUE
     /\ Push(Command("value", items, [k \in DOMAIN items |-> value[items[k]]], vals))
     /\ UNCHANGED <<rows, alive, saved, tracked, pasted>>

(* Ctrl+Up and Ctrl+Down: rows a and b, next to each other, change places. *)
SwapLinksCrossed(a, b) ==   \* mutant: takes the old values for the new ones
  LET swapped == [value EXCEPT ![Row[a]] = value[Row[b]], ![Row[b]] = value[Row[a]]]
  IN /\ {Row[a], Row[b]} \subseteq alive
     /\ value' = swapped /\ modified' = TRUE
     /\ Push(Command("value", <<Row[a], Row[b]>>,
                     <<swapped[Row[a]], swapped[Row[b]]>>, <<value[Row[a]], value[Row[b]]>>))
     /\ UNCHANGED <<rows, alive, saved, tracked, pasted>>

SwapLinks(a, b) ==
  LET swapped == [value EXCEPT ![Row[a]] = value[Row[b]], ![Row[b]] = value[Row[a]]]
  IN /\ {Row[a], Row[b]} \subseteq alive
     /\ value' = swapped /\ modified' = TRUE
     /\ Push(Command("value", <<Row[a], Row[b]>>,
                     <<value[Row[a]], value[Row[b]]>>, <<swapped[Row[a]], swapped[Row[b]]>>))
     /\ UNCHANGED <<rows, alive, saved, tracked, pasted>>

(* The spell Array/Update pushes a command; the header is refreshed after  *)
(* it as after every spell, and that modifies the window.                  *)
UpdateArray ==
  /\ Size \in alive
  /\ rows' = value[Size]
  /\ alive' = alive \ {Row[k] : k \in {j \in DOMAIN Row : j > rows'}}
  /\ modified' = TRUE
  /\ UNCHANGED value
  /\ Push(Command("array", <<>>, <<>>, <<>>))
  /\ tracked' = tracked \cap alive'
  /\ UNCHANGED <<saved, pasted>>

(* Any other spell changes the document past the stack.                    *)
CastSpellMuted(i, v) ==   \* mutant: the header is not refreshed
  /\ Changes
  /\ i \in alive
  /\ value' = [value EXCEPT ![i] = v]
  /\ tracked' = tracked \ {i}
  /\ UNCHANGED <<rows, alive, undo, modified, saved, snap, pasted>>

CastSpell(i, v) ==
  /\ Changes
  /\ i \in alive
  /\ value' = [value EXCEPT ![i] = v]
  /\ modified' = TRUE
  /\ tracked' = tracked \ {i}
  /\ UNCHANGED <<rows, alive, undo, saved, snap, pasted>>

(* The items that get the values of others, because an item before them is *)
(* no longer there.                                                        *)
Misplaced(c) ==
  IF \A k \in Valid(c) : 1 .. k \subseteq Valid(c) THEN {} ELSE ToSet(c.idxs)

Undo ==
  LET c == stack[index]
  IN /\ index > 0
     /\ IF c.kind = "array" THEN SetArraySize ELSE SetValues(c, c.old)
     /\ index' = index - 1
     /\ tracked' = (tracked \cap alive') \ Misplaced(c)
     /\ UNCHANGED <<stack, clean, saved, snap, pasted, changes>>

Redo ==
  LET c == stack[index + 1]
  IN /\ index < Len(stack)
     /\ IF c.kind = "array" THEN SetArraySize ELSE SetValues(c, c.new)
     /\ index' = index + 1
     /\ tracked' = (tracked \cap alive') \ Misplaced(c)
     /\ UNCHANGED <<stack, clean, saved, snap, pasted, changes>>

(* A save that succeeds.                                                   *)
Save ==
  /\ saved' = Disk
  /\ clean' = index
  /\ modified' = FALSE
  /\ UNCHANGED <<document, stack, index, history, changes>>

Lists(S) == UNION {[1 .. n -> S] : n \in 1 .. Len(Row)}

Next ==
  \/ \E i \in Item : \E v \in Input(i) : Edit(i, v) \/ CastSpell(i, v)
  \/ \E items \in {s \in Lists(Link) : IsInjective(s)}, v \in LinkValues : Paste(items, v)
  \/ \E v \in SizeValues : PasteSize(v)
  \/ \E vals \in Lists(LinkValues) : PasteArray(vals)
  \/ \E a, b \in DOMAIN Row : (a - b = 1 \/ b - a = 1) /\ SwapLinks(a, b)
  \/ UpdateArray
  \/ Undo \/ Redo
  \/ Save

Spec == Init /\ [][Next]_vars

-----------------------------------------------------------------------------
(* Properties.                                                             *)

(* Type correctness; a save that can be returned to is on the stack.       *)
TypeOK ==
  /\ value \in [Item -> Int] /\ rows \in Nat
  /\ tracked \subseteq alive /\ alive \subseteq Item
  /\ \A k \in DOMAIN stack : LET c == stack[k] IN
       /\ c.kind \in {"value", "array"}
       /\ c.idxs \in Seq(Item) /\ IsInjective(c.idxs)
       /\ Len(c.old) = Len(c.idxs) /\ Len(c.new) = Len(c.idxs)
  /\ Len(stack) <= changes /\ changes <= MaxChanges
  /\ index \in 0 .. Len(stack) /\ clean \in -1 .. Len(stack)
  /\ modified \in BOOLEAN
  /\ Len(snap) = Len(stack) + 1

(* Wherever the user goes on the stack, and whatever part of it a new      *)
(* command cuts off, the items have the values they had there before; not  *)
(* those a spell has changed past the stack, pasted counts, and those of a *)
(* command whose values were misplaced.                                    *)
UndoRestores == \A i \in tracked \ pasted : value[i] = snap[index + 1][i]

(* saveConfirm() asks before unsaved changes are given up: if neither the  *)
(* window is modified nor the stack away from the last save, the document  *)
(* is the one on disk.                                                     *)
NothingLostSilently ==
  (~modified /\ index = clean) =>
    rows = saved.rows /\ \A i \in alive : value[i] = saved.value[i]
=============================================================================
