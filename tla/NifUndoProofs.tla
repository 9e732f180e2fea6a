--------------------------- MODULE NifUndoProofs ---------------------------
(***************************************************************************)
(* What undo and redo restore, and that changes are not given up without a *)
(* question, for any array, values, and length of the undo stack.          *)
(***************************************************************************)
EXTENDS NifUndo, FiniteSetTheorems, SequenceTheorems, TLAPS

Values == [Item -> Int]

(* A command has a value for each of its items; the size of an array is    *)
(* changed on its own.                                                     *)
CommandSet ==
  {c \in [kind : {"value", "array"}, idxs : Seq(Item), old : Seq(Int), new : Seq(Int)] :
     /\ IsInjective(c.idxs) /\ (c.kind = "array" => c.idxs = <<>>)
     /\ Len(c.old) = Len(c.idxs) /\ Len(c.new) = Len(c.idxs)
     /\ \A k \in DOMAIN c.idxs : c.idxs[k] = Size => Len(c.idxs) = 1 /\ c.old[1] \in Nat /\ c.new[1] \in Nat}

DocumentOK ==
  /\ value \in Values /\ value[Size] \in Nat /\ rows \in Nat
  /\ tracked \subseteq alive /\ alive \subseteq Item
  /\ modified \in BOOLEAN

StackOK ==
  /\ stack \in Seq(CommandSet) /\ snap \in Seq(Values) /\ Len(snap) = Len(stack) + 1
  /\ index \in 0 .. Len(stack) /\ clean \in -1 .. Len(stack)
  /\ changes \in Nat /\ Len(stack) <= changes /\ changes <= MaxChanges

(* What a command says of an item: the values before and after it.         *)
Records(c, before, after, i) ==
  /\ \A p \in DOMAIN c.idxs : c.idxs[p] = i => before[i] = c.old[p] /\ after[i] = c.new[p]
  /\ i \notin ToSet(c.idxs) => before[i] = after[i]

StackRecords ==
  \A k \in 1 .. Len(stack) : \A i \in tracked \ pasted : Records(stack[k], snap[k], snap[k + 1], i)

(* The flag of the window alone says that nothing has changed.             *)
Unchanged == ~modified => rows = saved.rows /\ \A i \in alive : value[i] = saved.value[i]

IInv == DocumentOK /\ StackOK /\ UndoRestores /\ StackRecords /\ Unchanged

-----------------------------------------------------------------------------
(* The items of a command that are still there.                            *)

LEMMA RowType == Row \in Seq(Link) /\ Len(Row) \in Nat /\ DOMAIN Row = 1 .. Len(Row) /\ Size \in Item
                 /\ \A k \in DOMAIN Row : Row[k] \in Link
BY RowAssumption DEF RowAssumption, Link, Item

LEMMA RankType ==
  ASSUME NEW c \in CommandSet, NEW k \in Valid(c)
  PROVE  /\ k \in 1 .. Len(c.idxs) /\ Rank(c, k) \in 1 .. Len(c.idxs)
         /\ 1 .. k \subseteq Valid(c) => Rank(c, k) = k
<1> DEFINE S == {j \in Valid(c) : j <= k}
           n == Len(c.idxs)
<1>1. n \in Nat /\ DOMAIN c.idxs = 1 .. n
  BY DEF CommandSet
<1>2. Valid(c) \subseteq 1 .. n /\ k \in 1 .. n
  BY <1>1 DEF Valid
<1>3. S \subseteq 1 .. k /\ k \in S
  BY <1>2
<1>4. IsFiniteSet(1 .. k) /\ Cardinality(1 .. k) = k
  BY <1>2, FS_Interval
<1> HIDE DEF S
<1>5. IsFiniteSet(S) /\ Cardinality(S) <= k
  BY <1>3, <1>4, FS_Subset
<1>6. Cardinality(S) \in Nat /\ Cardinality(S) # 0
  BY <1>3, <1>5, FS_CardinalityType, FS_EmptySet
<1>7. Cardinality(S) \in 1 .. n
  BY <1>1, <1>2, <1>5, <1>6
<1>8. ASSUME 1 .. k \subseteq Valid(c) PROVE S = 1 .. k
  BY <1>2, <1>8 DEF S
<1> QED
  BY <1>2, <1>4, <1>7, <1>8 DEF Rank, S

(* What redo() and undo() do to the items, of whatever values.             *)
LEMMA SetValuesStep ==
  ASSUME DocumentOK, NEW c \in CommandSet, NEW vals \in {c.old, c.new}, SetValues(c, vals)
  PROVE  /\ value' \in Values /\ value'[Size] \in Nat
         /\ \A i \in alive \ Misplaced(c) :
              /\ \A p \in DOMAIN c.idxs : c.idxs[p] = i => value'[i] = vals[p]
              /\ i \notin ToSet(c.idxs) => value'[i] = value[i]
<1>1. /\ c.idxs \in Seq(Item) /\ IsInjective(c.idxs)
      /\ vals \in Seq(Int) /\ Len(vals) = Len(c.idxs)
      /\ DOMAIN c.idxs = 1 .. Len(c.idxs) /\ Len(c.idxs) \in Nat
      /\ \A k \in DOMAIN c.idxs : c.idxs[k] = Size => Len(c.idxs) = 1 /\ vals[1] \in Nat
  BY DEF CommandSet
<1>2. \A k \in 1 .. Len(c.idxs) : vals[k] \in Int
  BY <1>1
<1> DEFINE Has(i) == \E k \in Valid(c) : c.idxs[k] = i
           At(i)  == CHOOSE k \in Valid(c) : c.idxs[k] = i
<1>3. value' = [i \in Item |-> IF Has(i) THEN vals[Rank(c, At(i))] ELSE value[i]]
  BY DEF SetValues
<1>4. \A i \in Item : Has(i) => At(i) \in Valid(c) /\ c.idxs[At(i)] = i
  OBVIOUS
<1> HIDE DEF Has, At
<1>5. \A i \in Item : Has(i) => vals[Rank(c, At(i))] \in Int
  BY <1>2, <1>4, RankType
<1>6. value' \in Values
  BY <1>3, <1>5 DEF DocumentOK, Values
<1>7. value'[Size] \in Nat
  <2>1. CASE Has(Size)
    <3>1. At(Size) \in 1 .. Len(c.idxs) /\ Rank(c, At(Size)) \in 1 .. Len(c.idxs) /\ c.idxs[At(Size)] = Size
      BY <1>4, <2>1, RankType, RowType
    <3>3. Len(c.idxs) = 1 /\ vals[1] \in Nat
      BY <1>1, <3>1
    <3>2. Rank(c, At(Size)) = 1 /\ vals[1] \in Nat
      BY <3>1, <3>3
    <3> QED
      BY <1>3, <2>1, <3>2, RowType
  <2>2. CASE ~Has(Size)
    BY <1>3, <2>2, RowType DEF DocumentOK
  <2> QED
    BY <2>1, <2>2
<1>8. ASSUME NEW i \in alive, i \notin Misplaced(c), NEW p \in DOMAIN c.idxs, c.idxs[p] = i
      PROVE  value'[i] = vals[p]
  <2>1. p \in Valid(c)
    BY <1>8 DEF Valid
  <2>2. i \in Item /\ Has(i)
    BY <1>8, <2>1 DEF DocumentOK, Has
  <2>3. At(i) = p
    BY <1>1, <1>4, <1>8, <2>2 DEF IsInjective, Valid
  <2>4. 1 .. p \subseteq Valid(c)
    BY <1>8, <2>1 DEF Misplaced, ToSet
  <2>5. Rank(c, p) = p
    BY <2>1, <2>4, RankType
  <2> QED
    BY <1>3, <2>2, <2>3, <2>5
<1>9. ASSUME NEW i \in alive, i \notin ToSet(c.idxs) PROVE value'[i] = value[i]
  <2>1. i \in Item /\ ~Has(i)
    BY <1>9 DEF DocumentOK, Has, Valid, ToSet
  <2> QED
    BY <1>3, <2>1
<1> QED
  BY <1>6, <1>7, <1>8, <1>9

(* With no item left, nothing changes.                                     *)
LEMMA SetNothing ==
  ASSUME DocumentOK, NEW c, NEW vals, SetValues(c, vals), ~modified'
  PROVE  ~modified /\ value' = value
BY DEF SetValues, DocumentOK, Values

-----------------------------------------------------------------------------
(* QUndoStack::push, of a command that records what has happened.          *)

LEMMA PushStep ==
  ASSUME StackOK, UndoRestores, StackRecords, NEW c \in CommandSet, Push(c), value' \in Values,
         tracked' \subseteq tracked, pasted \subseteq pasted',
         \A i \in tracked' \ pasted' : Records(c, value, value', i)
  PROVE  StackOK' /\ UndoRestores' /\ StackRecords'
<1> DEFINE before == SubSeq(stack, 1, index)
           past   == SubSeq(snap, 1, index + 1)
<1>1. /\ stack \in Seq(CommandSet) /\ snap \in Seq(Values) /\ Len(snap) = Len(stack) + 1
      /\ index \in Nat /\ index <= Len(stack) /\ Len(stack) \in Nat
  BY DEF StackOK
<1>2. /\ before \in Seq(CommandSet) /\ Len(before) = index
      /\ \A k \in 1 .. index : before[k] = stack[k]
  BY <1>1, SubSeqProperties
<1>3. /\ past \in Seq(Values) /\ Len(past) = index + 1
      /\ \A k \in 1 .. (index + 1) : past[k] = snap[k]
  <2>1. Len(past) = index + 1
    BY <1>1, SubSeqProperties
  <2>2. past \in Seq(Values) /\ \A k \in 1 .. (index + 1) : past[k] = snap[k]
    BY <1>1, SubSeqProperties
  <2> QED
    BY <2>1, <2>2
<1>4. stack' = Append(before, c) /\ snap' = Append(past, value') /\ index' = index + 1
      /\ Changes /\ clean' = IF clean > index THEN -1 ELSE clean
  BY DEF Push
<1> HIDE DEF before, past
<1>5. /\ stack' \in Seq(CommandSet) /\ Len(stack') = index + 1
      /\ \A k \in 1 .. index : stack'[k] = stack[k]
      /\ stack'[index + 1] = c
  BY <1>1, <1>2, <1>4, AppendProperties
<1>6. /\ snap' \in Seq(Values) /\ Len(snap') = index + 2
      /\ \A k \in 1 .. (index + 1) : snap'[k] = snap[k]
      /\ snap'[index + 2] = value'
  <2>1. snap' \in Seq(Values) /\ Len(snap') = Len(past) + 1
    BY <1>3, <1>4, AppendProperties
  <2>2. (\A k \in 1 .. Len(past) : snap'[k] = past[k]) /\ snap'[Len(past) + 1] = value'
    BY <1>3, <1>4, AppendProperties
  <2>3. (index + 1) + 1 = index + 2
    BY <1>1
  <2> QED
    BY <1>3, <2>1, <2>2, <2>3
<1>7. StackOK'
  <2>1. clean \in Int /\ clean >= -1 /\ changes \in Nat /\ changes' = changes + 1 /\ changes' <= MaxChanges
        /\ Len(stack) <= changes
    BY BoundAssumption, <1>4 DEF StackOK, Changes, BoundAssumption
  <2>2. index' \in 0 .. Len(stack') /\ clean' \in -1 .. Len(stack')
    BY <1>1, <1>4, <1>5, <2>1
  <2>3. changes' \in Nat /\ Len(stack') <= changes' /\ Len(snap') = Len(stack') + 1
    BY <1>1, <1>5, <1>6, <2>1
  <2> QED
    BY <1>5, <1>6, <2>1, <2>2, <2>3 DEF StackOK
<1>8. UndoRestores'
  <2>1. index' + 1 = index + 2
    BY <1>1, <1>4
  <2> QED
    BY <1>6, <2>1 DEF UndoRestores
<1>9. ASSUME NEW k \in 1 .. (index + 1), NEW i \in tracked' \ pasted'
      PROVE  Records(stack'[k], snap'[k], snap'[k + 1], i)
  <2>1. i \in tracked \ pasted
    OBVIOUS
  <2>2. CASE k \in 1 .. index
    <3>1. k \in 1 .. Len(stack) /\ k \in 1 .. (index + 1) /\ k + 1 \in 1 .. (index + 1)
      BY <1>1, <2>2
    <3>2. stack'[k] = stack[k] /\ snap'[k] = snap[k] /\ snap'[k + 1] = snap[k + 1]
      BY <1>5, <1>6, <2>2, <3>1
    <3> QED
      BY <2>1, <3>1, <3>2 DEF StackRecords
  <2>3. CASE k = index + 1
    <3>1. stack'[k] = c /\ snap'[k] = snap[index + 1] /\ snap'[k + 1] = value'
      <4>1. k + 1 = index + 2
        BY <1>1, <2>3
      <4> QED
        BY <1>5, <1>6, <2>3, <4>1
    <3>2. snap[index + 1][i] = value[i]
      BY <2>1 DEF UndoRestores
    <3>3. Records(c, value, value', i)
      BY <1>9
    <3> QED
      BY <3>1, <3>2, <3>3 DEF Records
  <2> QED
    BY <1>1, <2>2, <2>3
<1>10. StackRecords'
  BY <1>5, <1>9 DEF StackRecords
<1> QED
  BY <1>7, <1>8, <1>10

(* One step up or down the stack.                                          *)
LEMMA StepStep ==
  ASSUME StackOK, StackRecords, UNCHANGED <<stack, clean, snap, pasted, changes>>,
         index' \in 0 .. Len(stack), tracked' \subseteq tracked,
         \A i \in tracked' \ pasted : value'[i] = snap[index' + 1][i]
  PROVE  StackOK' /\ UndoRestores' /\ StackRecords'
<1>1. StackOK'
  BY DEF StackOK
<1>2. UndoRestores'
  BY DEF UndoRestores
<1>3. StackRecords'
  <2> SUFFICES ASSUME NEW k \in 1 .. Len(stack), NEW i \in tracked' \ pasted
               PROVE  Records(stack[k], snap[k], snap[k + 1], i)
    BY DEF StackRecords
  <2> QED
    BY DEF StackRecords
<1> QED
  BY <1>1, <1>2, <1>3

-----------------------------------------------------------------------------
(* The actions.                                                            *)

LEMMA InitInv == Init => IInv
<1> SUFFICES ASSUME Init PROVE IInv
  OBVIOUS
<1>1. value \in Values /\ value[Size] = Len(Row)
  <2>1. value \in [Item -> LinkValues \cup {Len(Row)}] /\ value[Size] = Len(Row)
    BY DEF Init
  <2>2. LinkValues \cup {Len(Row)} \subseteq Int
    <3>1. Len(Row) \in Nat
      BY RowType
    <3>2. \A i \in LinkValues : i \in Int
      BY ValueAssumption DEF ValueAssumption
    <3>3. \A i \in {Len(Row)} : i \in Int
      BY <3>1
    <3> QED
      BY <3>2, <3>3
  <2> QED
    BY <2>1, <2>2 DEF Values
<1>2. DocumentOK
  BY <1>1, RowType DEF Init, DocumentOK
<1>3. stack = <<>> /\ Len(stack) = 0 /\ index = 0 /\ clean = 0 /\ changes = 0
  BY DEF Init
<1>4. snap = <<value>> /\ Len(snap) = 1 /\ snap[1] = value /\ snap \in Seq(Values)
  BY <1>1 DEF Init
<1>5. StackOK
  BY <1>3, <1>4, BoundAssumption DEF StackOK, BoundAssumption
<1>6. UndoRestores /\ StackRecords
  BY <1>3, <1>4 DEF UndoRestores, StackRecords
<1>7. Unchanged
  BY DEF Init, Unchanged, Disk
<1> QED
  BY <1>2, <1>5, <1>6, <1>7 DEF IInv

LEMMA EditInv == ASSUME IInv, NEW i \in Item, NEW v \in Input(i), Edit(i, v) PROVE IInv'
<1> DEFINE c == Command("value", <<i>>, <<value[i]>>, <<v>>)
<1>1. DocumentOK /\ StackOK /\ UndoRestores /\ StackRecords
  BY DEF IInv
<1>2. i \in alive /\ SetValues(c, c.new) /\ Push(c) /\ UNCHANGED <<saved, tracked, pasted>>
  BY DEF Edit
<1>3. value[i] \in Int /\ v \in Int /\ (i = Size => value[i] \in Nat /\ v \in Nat)
  BY <1>1, ValueAssumption, RowAssumption DEF DocumentOK, Values, Input, ValueAssumption, RowAssumption, Link
<1>4. /\ c.idxs = <<i>> /\ DOMAIN c.idxs = {1} /\ Len(c.idxs) = 1 /\ c.idxs[1] = i
      /\ c.old = <<value[i]>> /\ c.new = <<v>> /\ c.old[1] = value[i] /\ c.new[1] = v
  BY DEF Command
<1>5. c \in CommandSet
  BY <1>3 DEF Command, CommandSet, IsInjective
<1> HIDE DEF c
<1>6. Valid(c) = {1} /\ Misplaced(c) = {}
  BY <1>2, <1>4 DEF Valid, Misplaced
<1>7. /\ value' \in Values /\ value'[Size] \in Nat
      /\ \A j \in alive : /\ \A p \in DOMAIN c.idxs : c.idxs[p] = j => value'[j] = c.new[p]
                          /\ j \notin ToSet(c.idxs) => value'[j] = value[j]
  BY <1>1, <1>2, <1>5, <1>6, SetValuesStep
<1>8. \A j \in tracked : Records(c, value, value', j)
  BY <1>1, <1>4, <1>7 DEF Records, DocumentOK
<1>9. modified' = TRUE /\ UNCHANGED <<rows, alive>>
  BY <1>2, <1>6 DEF SetValues
<1>10. StackOK' /\ UndoRestores' /\ StackRecords'
  BY <1>1, <1>2, <1>5, <1>7, <1>8, PushStep
<1>11. DocumentOK'
  BY <1>1, <1>2, <1>7, <1>9 DEF DocumentOK
<1>12. Unchanged'
  BY <1>9 DEF Unchanged
<1> QED
  BY <1>10, <1>11, <1>12 DEF IInv

LEMMA CastSpellInv == ASSUME IInv, NEW i \in Item, NEW v \in Input(i), CastSpell(i, v) PROVE IInv'
<1>1. DocumentOK /\ StackOK /\ UndoRestores /\ StackRecords
  BY DEF IInv
<1>2. /\ Changes /\ value' = [value EXCEPT ![i] = v] /\ modified' /\ modified' = TRUE
      /\ tracked' = tracked \ {i}
      /\ UNCHANGED <<rows, alive, stack, index, clean, saved, snap, pasted>>
  BY DEF CastSpell, undo
<1>3. v \in Int /\ (i = Size => v \in Nat)
  BY ValueAssumption, RowAssumption DEF Input, ValueAssumption, RowAssumption, Link
<1>4. DocumentOK'
  BY <1>1, <1>2, <1>3 DEF DocumentOK, Values
<1>5. changes' \in Nat /\ changes' = changes + 1 /\ changes' <= MaxChanges /\ changes \in Nat
  BY <1>1, <1>2, BoundAssumption DEF StackOK, Changes, BoundAssumption
<1>6. StackOK'
  BY <1>1, <1>2, <1>5 DEF StackOK
<1>7. UndoRestores'
  <2>1. \A j \in tracked' : value'[j] = value[j]
    BY <1>1, <1>2 DEF DocumentOK, Values
  <2> QED
    BY <1>1, <1>2, <2>1 DEF UndoRestores
<1>8. StackRecords'
  BY <1>1, <1>2 DEF StackRecords
<1>9. Unchanged'
  BY <1>2 DEF Unchanged
<1> QED
  BY <1>4, <1>6, <1>7, <1>8, <1>9 DEF IInv

(* A paste of links records what has been there before.                    *)
LEMMA PasteStep ==
  ASSUME IInv, NEW items \in Seq(Link), NEW vals \in Seq(Int), Len(vals) = Len(items),
         IsInjective(items), NEW old \in Seq(Int), Len(old) = Len(items),
         Push(Command("value", items, old, vals)),
         \A k \in DOMAIN items : old[k] = value[items[k]],
         value' \in [Item -> Int],
         \A k \in DOMAIN items : value'[items[k]] = vals[k],
         \A i \in Item \ ToSet(items) : value'[i] = value[i],
         modified' = TRUE, UNCHANGED <<rows, alive, saved, tracked, pasted>>
  PROVE  IInv'
<1> DEFINE c == Command("value", items, old, vals)
<1>1. DocumentOK /\ StackOK /\ UndoRestores /\ StackRecords
  BY DEF IInv
<1>2. /\ items \in Seq(Item) /\ DOMAIN items = 1 .. Len(items)
      /\ \A k \in DOMAIN items : items[k] # Size
  BY RowAssumption DEF Item, Link, RowAssumption
<1>3. c \in CommandSet /\ c.idxs = items /\ c.old = old /\ c.new = vals
  BY <1>2 DEF Command, CommandSet
<1> HIDE DEF c
<1>4. value' \in Values /\ value'[Size] \in Nat
  <2>1. Size \notin ToSet(items)
    BY <1>2 DEF ToSet
  <2> QED
    BY <1>1, <2>1, RowType DEF DocumentOK, Values
<1>5. \A i \in tracked' \ pasted' : Records(c, value, value', i)
  BY <1>1, <1>3 DEF Records, DocumentOK
<1>6. StackOK' /\ UndoRestores' /\ StackRecords'
  <2>1. Push(c) /\ tracked' \subseteq tracked /\ pasted \subseteq pasted'
    BY DEF c
  <2> QED
    BY <1>1, <1>3, <1>4, <1>5, <2>1, PushStep
<1>7. DocumentOK' /\ Unchanged'
  BY <1>1, <1>4 DEF DocumentOK, Unchanged
<1> QED
  BY <1>6, <1>7 DEF IInv

LEMMA LinkValuesInt ==
  ASSUME DocumentOK, NEW items \in Seq(Link)
  PROVE  LET old == [k \in DOMAIN items |-> value[items[k]]]
         IN old \in Seq(Int) /\ Len(old) = Len(items) /\ \A k \in DOMAIN items : old[k] = value[items[k]]
<1>1. DOMAIN items = 1 .. Len(items) /\ Len(items) \in Nat
  OBVIOUS
<1>2. \A k \in DOMAIN items : value[items[k]] \in Int
  BY DEF DocumentOK, Values, Item
<1> QED
  BY <1>1, <1>2

LEMMA PasteInv ==
  ASSUME IInv, NEW items \in Lists(Link), IsInjective(items), NEW v \in LinkValues, Paste(items, v)
  PROVE  IInv'
<1> DEFINE vals == [k \in DOMAIN items |-> v]
           old  == [k \in DOMAIN items |-> value[items[k]]]
<1>1. v \in Int
  BY ValueAssumption DEF ValueAssumption
<1>2. items \in Seq(Link) /\ \A k \in DOMAIN items : items[k] \in Item
  BY RowType DEF Lists, Item
<1>3. vals \in Seq(Int) /\ Len(vals) = Len(items) /\ \A k \in DOMAIN items : vals[k] = v
  BY <1>1, <1>2
<1>4. old \in Seq(Int) /\ Len(old) = Len(items) /\ \A k \in DOMAIN items : old[k] = value[items[k]]
  BY <1>2, LinkValuesInt DEF IInv
<1>5. \A i \in Item : value'[i] = IF Contains(items, i) THEN v ELSE value[i]
  BY DEF Paste
<1>6. value' \in [Item -> Int]
  BY <1>1 DEF Paste, IInv, DocumentOK, Values
<1>7. \A i : Contains(items, i) <=> i \in ToSet(items)
  BY <1>2 DEF Contains, ToSet
<1>8. /\ \A k \in DOMAIN items : value'[items[k]] = vals[k]
      /\ \A i \in Item \ ToSet(items) : value'[i] = value[i]
  BY <1>2, <1>3, <1>5, <1>7 DEF ToSet
<1>9. /\ Push(Command("value", items, old, vals)) /\ modified' = TRUE
      /\ UNCHANGED <<rows, alive, saved, tracked, pasted>>
  BY DEF Paste
<1> HIDE DEF vals, old
<1> QED
  BY <1>2, <1>3, <1>4, <1>6, <1>8, <1>9, PasteStep

(* A paste of the count is no record of it, and is excepted.               *)
LEMMA PasteSizeInv == ASSUME IInv, NEW v \in SizeValues, PasteSize(v) PROVE IInv'
<1> DEFINE c == Command("value", <<Size>>, <<v>>, <<v>>)
<1>1. DocumentOK /\ StackOK /\ UndoRestores /\ StackRecords
  BY DEF IInv
<1>2. /\ Size \in alive /\ SetValues(c, c.new) /\ Push(c)
      /\ pasted' = pasted \cup {Size} /\ UNCHANGED <<saved, tracked>>
  BY DEF PasteSize
<1>3. v \in Nat /\ v \in Int
  BY ValueAssumption DEF ValueAssumption
<1>4. /\ c.idxs = <<Size>> /\ DOMAIN c.idxs = {1} /\ Len(c.idxs) = 1 /\ c.idxs[1] = Size
      /\ c.old = <<v>> /\ c.new = <<v>> /\ c.new[1] = v
  BY DEF Command
<1>5. c \in CommandSet
  BY <1>3, RowType DEF Command, CommandSet, IsInjective
<1> HIDE DEF c
<1>6. Valid(c) = {1} /\ Misplaced(c) = {}
  BY <1>2, <1>4 DEF Valid, Misplaced
<1>7. /\ value' \in Values /\ value'[Size] \in Nat
      /\ \A j \in alive : /\ \A p \in DOMAIN c.idxs : c.idxs[p] = j => value'[j] = c.new[p]
                          /\ j \notin ToSet(c.idxs) => value'[j] = value[j]
  BY <1>1, <1>2, <1>5, <1>6, SetValuesStep
<1>8. \A j \in tracked' \ pasted' : Records(c, value, value', j)
  BY <1>1, <1>2, <1>4, <1>7 DEF Records, DocumentOK
<1>9. modified' = TRUE /\ UNCHANGED <<rows, alive>>
  BY <1>2, <1>6 DEF SetValues
<1>10. StackOK' /\ UndoRestores' /\ StackRecords'
  BY <1>1, <1>2, <1>5, <1>7, <1>8, PushStep
<1>11. DocumentOK'
  BY <1>1, <1>2, <1>7, <1>9 DEF DocumentOK
<1>12. Unchanged'
  BY <1>9 DEF Unchanged
<1> QED
  BY <1>10, <1>11, <1>12 DEF IInv

LEMMA PasteArrayInv == ASSUME IInv, NEW vals \in Lists(LinkValues), PasteArray(vals) PROVE IInv'
<1> DEFINE items == SubSeq(Row, 1, Len(vals))
           Place(i) == CHOOSE k \in DOMAIN items : items[k] = i
           old == [k \in DOMAIN items |-> value[items[k]]]
<1>1. PICK n \in 1 .. Len(Row) : vals \in [1 .. n -> LinkValues]
  BY DEF Lists
<1>2. n \in Nat /\ n <= Len(Row) /\ n >= 1 /\ LinkValues \subseteq Int
  BY <1>1, RowType, ValueAssumption DEF ValueAssumption
<1>3. vals \in Seq(Int) /\ Len(vals) = n
  <2> HIDE DEF items, old, Place
  <2>1. vals = [k \in 1 .. n |-> vals[k]] /\ \A k \in 1 .. n : vals[k] \in Int
    BY <1>1, <1>2
  <2>2. [k \in 1 .. n |-> vals[k]] \in Seq(Int) /\ Len([k \in 1 .. n |-> vals[k]]) = n
    BY <1>2, <2>1
  <2> QED
    BY <2>1, <2>2
<1>4. /\ items \in Seq(Link) /\ Len(items) = n /\ DOMAIN items = 1 .. n
      /\ \A k \in 1 .. n : items[k] = Row[k]
  BY <1>2, <1>3, RowType, SubSeqProperties
<1>5. IsInjective(items)
  BY <1>2, <1>4, RowAssumption, RowType DEF IsInjective, RowAssumption
<1>6. old \in Seq(Int) /\ Len(old) = Len(items) /\ \A k \in DOMAIN items : old[k] = value[items[k]]
  BY <1>4, LinkValuesInt DEF IInv
<1>7. value' = [i \in Item |-> IF Contains(items, i) THEN vals[Place(i)] ELSE value[i]]
  BY DEF PasteArray
<1>8. /\ Push(Command("value", items, old, vals)) /\ modified' = TRUE
      /\ UNCHANGED <<rows, alive, saved, tracked, pasted>>
  BY DEF PasteArray
<1>9. \A k \in 1 .. n : Place(items[k]) = k
  BY <1>4, <1>5 DEF IsInjective
<1> HIDE DEF items, old, Place
<1>10. \A i : Contains(items, i) <=> i \in ToSet(items)
  BY <1>4 DEF Contains, ToSet
<1>11. \A i \in ToSet(items) : vals[Place(i)] \in Int
  BY <1>1, <1>2, <1>4, <1>9 DEF ToSet
<1>12. value' \in [Item -> Int]
  BY <1>7, <1>10, <1>11 DEF IInv, DocumentOK, Values
<1>13. /\ \A k \in DOMAIN items : value'[items[k]] = vals[k]
       /\ \A i \in Item \ ToSet(items) : value'[i] = value[i]
  BY <1>4, <1>7, <1>9, <1>10 DEF ToSet, Item
<1> QED
  <2>1. items \in Seq(Link) /\ vals \in Seq(Int) /\ Len(vals) = Len(items)
    BY <1>3, <1>4
  <2> QED
    BY <1>5, <1>6, <1>8, <1>12, <1>13, <2>1, PasteStep

LEMMA SwapLinksInv ==
  ASSUME IInv, NEW a \in DOMAIN Row, NEW b \in DOMAIN Row, a - b = 1 \/ b - a = 1, SwapLinks(a, b)
  PROVE  IInv'
<1> DEFINE x == Row[a]
           y == Row[b]
           c == Command("value", <<x, y>>, <<value[x], value[y]>>, <<value[y], value[x]>>)
<1>1. DocumentOK /\ StackOK /\ UndoRestores /\ StackRecords
  BY DEF IInv
<1>2. x \in Link /\ y \in Link /\ x # y /\ x # Size /\ y # Size /\ x \in Item /\ y \in Item
  <2>1. a # b
    BY RowType
  <2> QED
    BY <2>1, RowType, RowAssumption DEF RowAssumption, IsInjective, Link, Item
<1> HIDE DEF x, y
<1>3. /\ value' = [value EXCEPT ![x] = value[y], ![y] = value[x]] /\ modified' = TRUE
      /\ UNCHANGED <<rows, alive, saved, tracked, pasted>>
  BY DEF SwapLinks, x, y
<1>4. value \in Values /\ value[Size] \in Nat /\ value[x] \in Int /\ value[y] \in Int
  BY <1>1, <1>2 DEF DocumentOK, Values
<1>5. /\ value' \in Values /\ value'[Size] \in Nat /\ value'[x] = value[y] /\ value'[y] = value[x]
      /\ \A i \in Item \ {x, y} : value'[i] = value[i]
  BY <1>2, <1>3, <1>4, RowType DEF Values
<1>6. Push(c)
  <2>1. Push(Command("value", <<x, y>>, <<value[x], value[y]>>,
                     <<[value EXCEPT ![x] = value[y], ![y] = value[x]][x],
                       [value EXCEPT ![x] = value[y], ![y] = value[x]][y]>>))
    BY DEF SwapLinks, x, y
  <2>2. /\ [value EXCEPT ![x] = value[y], ![y] = value[x]][x] = value[y]
        /\ [value EXCEPT ![x] = value[y], ![y] = value[x]][y] = value[x]
    BY <1>2, <1>4 DEF Values
  <2> QED
    BY <2>1, <2>2
<1>7. c \in CommandSet
  <2>1. /\ c.idxs \in Seq(Item) /\ c.old \in Seq(Int) /\ c.new \in Seq(Int) /\ c.kind = "value"
        /\ Len(c.idxs) = 2 /\ Len(c.old) = 2 /\ Len(c.new) = 2
    BY <1>2, <1>4 DEF Command
  <2>2. DOMAIN c.idxs = {1, 2} /\ c.idxs[1] = x /\ c.idxs[2] = y
    BY DEF Command
  <2>3. c \in [kind : {"value", "array"}, idxs : Seq(Item), old : Seq(Int), new : Seq(Int)]
    BY <2>1 DEF Command
  <2> HIDE DEF c
  <2>4. IsInjective(c.idxs)
    BY <1>2, <2>2 DEF IsInjective
  <2> QED
    BY <1>2, <2>1, <2>2, <2>3, <2>4 DEF CommandSet
<1>8. /\ c.idxs = <<x, y>> /\ c.old = <<value[x], value[y]>> /\ c.new = <<value[y], value[x]>>
  BY DEF Command
<1> HIDE DEF c
<1>9. \A i \in tracked' \ pasted' : Records(c, value, value', i)
  <2>1. tracked' \subseteq Item
    BY <1>1, <1>3 DEF DocumentOK
  <2> QED
    BY <1>2, <1>5, <1>8, <2>1 DEF Records, ToSet
<1>10. StackOK' /\ UndoRestores' /\ StackRecords'
  BY <1>1, <1>3, <1>5, <1>6, <1>7, <1>9, PushStep
<1>11. DocumentOK' /\ Unchanged'
  BY <1>1, <1>3, <1>5 DEF DocumentOK, Unchanged
<1> QED
  BY <1>10, <1>11 DEF IInv

LEMMA UpdateArrayInv == IInv /\ UpdateArray => IInv'
<1> SUFFICES ASSUME IInv, UpdateArray PROVE IInv'
  OBVIOUS
<1> DEFINE c == Command("array", <<>>, <<>>, <<>>)
<1>1. DocumentOK /\ StackOK /\ UndoRestores /\ StackRecords
  BY DEF IInv
<1>2. /\ rows' = value[Size] /\ alive' \subseteq alive /\ modified' = TRUE
      /\ Push(c) /\ tracked' = tracked \cap alive' /\ UNCHANGED <<value, saved, pasted>>
  BY DEF UpdateArray
<1>3. c \in CommandSet /\ c.idxs = <<>>
  BY DEF Command, CommandSet, IsInjective
<1> HIDE DEF c
<1>4. value' \in Values /\ \A i \in tracked' \ pasted' : Records(c, value, value', i)
  BY <1>1, <1>2, <1>3 DEF Records, DocumentOK
<1>5. StackOK' /\ UndoRestores' /\ StackRecords'
  BY <1>1, <1>2, <1>3, <1>4, PushStep
<1>6. DocumentOK' /\ Unchanged'
  BY <1>1, <1>2 DEF DocumentOK, Unchanged
<1> QED
  BY <1>5, <1>6 DEF IInv

(* The array gets the size the document says; no value changes.            *)
LEMMA SetArraySizeStep ==
  ASSUME DocumentOK, Unchanged, SetArraySize, UNCHANGED saved, tracked' \subseteq tracked \cap alive'
  PROVE  DocumentOK' /\ Unchanged' /\ value' = value
<1>1. /\ rows' = value[Size] /\ alive' \subseteq alive /\ value' = value
      /\ modified' = (modified \/ rows' # rows)
  BY DEF SetArraySize
<1> QED
  BY <1>1 DEF DocumentOK, Unchanged

LEMMA SetValuesDocument ==
  ASSUME DocumentOK, Unchanged, NEW c \in CommandSet, NEW vals \in {c.old, c.new}, SetValues(c, vals),
         UNCHANGED saved, tracked' \subseteq tracked
  PROVE  DocumentOK' /\ Unchanged'
<1>1. value' \in Values /\ value'[Size] \in Nat
  BY SetValuesStep
<1>2. UNCHANGED <<rows, alive>> /\ modified' \in BOOLEAN
  BY DEF SetValues, DocumentOK
<1>3. ~modified' => ~modified /\ value' = value
  BY SetNothing
<1> QED
  BY <1>1, <1>2, <1>3 DEF DocumentOK, Unchanged

LEMMA UndoInv == IInv /\ Undo => IInv'
<1> SUFFICES ASSUME IInv, Undo PROVE IInv'
  OBVIOUS
<1> DEFINE c == stack[index]
<1>1. DocumentOK /\ StackOK /\ UndoRestores /\ StackRecords /\ Unchanged
  BY DEF IInv
<1>2. /\ index > 0 /\ index' = index - 1
      /\ IF c.kind = "array" THEN SetArraySize ELSE SetValues(c, c.old)
      /\ tracked' = (tracked \cap alive') \ Misplaced(c)
      /\ UNCHANGED <<stack, clean, saved, snap, pasted, changes>>
  BY DEF Undo
<1>3. index \in 1 .. Len(stack) /\ index' \in 0 .. Len(stack) /\ index' + 1 = index /\ c \in CommandSet
  BY <1>1, <1>2 DEF StackOK
<1>4. \A i \in tracked \ pasted : value[i] = snap[index + 1][i] /\ Records(c, snap[index], snap[index + 1], i)
  BY <1>1, <1>3 DEF UndoRestores, StackRecords
<1>5. /\ DocumentOK' /\ Unchanged'
      /\ \A i \in tracked' \ pasted : value'[i] = snap[index][i]
  <2> HIDE DEF c
  <2>1. CASE c.kind = "array"
    <3>1. DocumentOK' /\ Unchanged' /\ value' = value
      BY <1>1, <1>2, <2>1, SetArraySizeStep
    <3>2. c.idxs = <<>>
      BY <1>3, <2>1 DEF CommandSet
    <3> QED
      BY <1>2, <1>4, <3>1, <3>2 DEF Records, ToSet
  <2>2. CASE c.kind # "array"
    <3>1. SetValues(c, c.old) /\ UNCHANGED <<saved, alive>> /\ tracked' \subseteq tracked
      BY <1>2, <2>2 DEF SetValues
    <3>2. DocumentOK' /\ Unchanged'
      BY <1>1, <1>3, <3>1, SetValuesDocument
    <3>3. \A i \in alive \ Misplaced(c) :
            /\ \A p \in DOMAIN c.idxs : c.idxs[p] = i => value'[i] = c.old[p]
            /\ i \notin ToSet(c.idxs) => value'[i] = value[i]
      BY <1>1, <1>3, <3>1, SetValuesStep
    <3>4. ASSUME NEW i \in tracked', i \notin pasted PROVE value'[i] = snap[index][i]
      <4>1. i \in tracked /\ i \in alive \ Misplaced(c)
        BY <1>2, <3>1, <3>4
      <4>2. Records(c, snap[index], snap[index + 1], i) /\ value[i] = snap[index + 1][i]
        BY <1>4, <3>4, <4>1
      <4>3. CASE i \in ToSet(c.idxs)
        <5>1. PICK p \in DOMAIN c.idxs : c.idxs[p] = i
          BY <4>3 DEF ToSet
        <5> QED
          BY <3>3, <4>1, <4>2, <5>1 DEF Records
      <4>4. CASE i \notin ToSet(c.idxs)
        BY <3>3, <4>1, <4>2, <4>4 DEF Records
      <4> QED
        BY <4>3, <4>4
    <3> QED
      BY <3>2, <3>4
  <2> QED
    BY <2>1, <2>2
<1>6. StackOK' /\ UndoRestores' /\ StackRecords'
  <2>1. tracked' \subseteq tracked
    BY <1>2
  <2> QED
    BY <1>1, <1>2, <1>3, <1>5, <2>1, StepStep
<1> QED
  BY <1>5, <1>6 DEF IInv

LEMMA RedoInv == IInv /\ Redo => IInv'
<1> SUFFICES ASSUME IInv, Redo PROVE IInv'
  OBVIOUS
<1> DEFINE n == index + 1
           c == stack[n]
<1>1. DocumentOK /\ StackOK /\ UndoRestores /\ StackRecords /\ Unchanged
  BY DEF IInv
<1>2. /\ index < Len(stack) /\ index' = n
      /\ IF c.kind = "array" THEN SetArraySize ELSE SetValues(c, c.new)
      /\ tracked' = (tracked \cap alive') \ Misplaced(c)
      /\ UNCHANGED <<stack, clean, saved, snap, pasted, changes>>
  BY DEF Redo
<1>3. n \in 1 .. Len(stack) /\ index' \in 0 .. Len(stack) /\ c \in CommandSet
  BY <1>1, <1>2 DEF StackOK
<1>4. \A i \in tracked \ pasted : value[i] = snap[n][i] /\ Records(c, snap[n], snap[n + 1], i)
  BY <1>1, <1>3 DEF UndoRestores, StackRecords
<1>5. /\ DocumentOK' /\ Unchanged'
      /\ \A i \in tracked' \ pasted : value'[i] = snap[n + 1][i]
  <2> HIDE DEF c, n
  <2>1. CASE c.kind = "array"
    <3>1. DocumentOK' /\ Unchanged' /\ value' = value
      BY <1>1, <1>2, <2>1, SetArraySizeStep
    <3>2. c.idxs = <<>>
      BY <1>3, <2>1 DEF CommandSet
    <3> QED
      BY <1>2, <1>4, <3>1, <3>2 DEF Records, ToSet
  <2>2. CASE c.kind # "array"
    <3>1. SetValues(c, c.new) /\ UNCHANGED <<saved, alive>> /\ tracked' \subseteq tracked
      BY <1>2, <2>2 DEF SetValues
    <3>2. DocumentOK' /\ Unchanged'
      BY <1>1, <1>3, <3>1, SetValuesDocument
    <3>3. \A i \in alive \ Misplaced(c) :
            /\ \A p \in DOMAIN c.idxs : c.idxs[p] = i => value'[i] = c.new[p]
            /\ i \notin ToSet(c.idxs) => value'[i] = value[i]
      BY <1>1, <1>3, <3>1, SetValuesStep
    <3>4. ASSUME NEW i \in tracked', i \notin pasted PROVE value'[i] = snap[n + 1][i]
      <4>1. i \in tracked /\ i \in alive \ Misplaced(c)
        BY <1>2, <3>1, <3>4
      <4>2. Records(c, snap[n], snap[n + 1], i) /\ value[i] = snap[n][i]
        BY <1>4, <3>4, <4>1
      <4>3. CASE i \in ToSet(c.idxs)
        <5>1. PICK p \in DOMAIN c.idxs : c.idxs[p] = i
          BY <4>3 DEF ToSet
        <5> QED
          BY <3>3, <4>1, <4>2, <5>1 DEF Records
      <4>4. CASE i \notin ToSet(c.idxs)
        BY <3>3, <4>1, <4>2, <4>4 DEF Records
      <4> QED
        BY <4>3, <4>4
    <3> QED
      BY <3>2, <3>4
  <2> QED
    BY <2>1, <2>2
<1>6. StackOK' /\ UndoRestores' /\ StackRecords'
  <2>1. tracked' \subseteq tracked
    BY <1>2
  <2> QED
    BY <1>1, <1>2, <1>3, <1>5, <2>1, StepStep
<1> QED
  BY <1>5, <1>6 DEF IInv

LEMMA SaveInv == IInv /\ Save => IInv'
<1> SUFFICES ASSUME IInv, Save PROVE IInv'
  OBVIOUS
<1>1. DocumentOK /\ StackOK /\ UndoRestores /\ StackRecords
  BY DEF IInv
<1>2. /\ saved' = Disk /\ clean' = index /\ modified' = FALSE
      /\ UNCHANGED <<value, rows, alive, stack, index, snap, tracked, pasted, changes>>
  BY DEF Save, document, history
<1>3. DocumentOK' /\ UndoRestores' /\ StackRecords'
  BY <1>1, <1>2 DEF DocumentOK, UndoRestores, StackRecords
<1>4. StackOK'
  BY <1>1, <1>2 DEF StackOK
<1>5. Unchanged'
  BY <1>2 DEF Unchanged, Disk
<1> QED
  BY <1>3, <1>4, <1>5 DEF IInv

-----------------------------------------------------------------------------
LEMMA StepInv == IInv /\ [Next]_vars => IInv'
<1> SUFFICES ASSUME IInv, [Next]_vars PROVE IInv'
  OBVIOUS
<1>1. ASSUME NEW i \in Item, NEW v \in Input(i), Edit(i, v) \/ CastSpell(i, v) PROVE IInv'
  BY <1>1, EditInv, CastSpellInv
<1>2. ASSUME NEW items \in Lists(Link), IsInjective(items), NEW v \in LinkValues, Paste(items, v) PROVE IInv'
  BY <1>2, PasteInv
<1>3. ASSUME NEW vals \in Lists(LinkValues), PasteArray(vals) PROVE IInv'
  BY <1>3, PasteArrayInv
<1>4. ASSUME NEW a \in DOMAIN Row, NEW b \in DOMAIN Row, a - b = 1 \/ b - a = 1, SwapLinks(a, b) PROVE IInv'
  BY <1>4, SwapLinksInv
<1>5. CASE UpdateArray
  BY <1>5, UpdateArrayInv
<1>6. CASE Undo
  BY <1>6, UndoInv
<1>7. CASE Redo
  BY <1>7, RedoInv
<1>8. CASE Save
  BY <1>8, SaveInv
<1>9. CASE UNCHANGED vars
  <2>1. UNCHANGED <<value, rows, alive, stack, index, clean, modified, saved, snap, tracked, pasted, changes>>
    BY <1>9 DEF vars, document, undo, history
  <2> QED
    BY <2>1 DEF IInv, DocumentOK, StackOK, UndoRestores, StackRecords, Unchanged
<1>10. ASSUME NEW v \in SizeValues, PasteSize(v) PROVE IInv'
  BY <1>10, PasteSizeInv
<1> QED
  BY <1>1, <1>2, <1>3, <1>4, <1>5, <1>6, <1>7, <1>8, <1>9, <1>10 DEF Next

LEMMA Invariance == Spec => []IInv
BY InitInv, StepInv, PTL DEF Spec

LEMMA Typed == IInv => TypeOK
<1> SUFFICES ASSUME IInv PROVE TypeOK
  OBVIOUS
<1>1. DocumentOK /\ StackOK
  BY DEF IInv
<1>2. \A k \in DOMAIN stack : stack[k] \in CommandSet
  BY <1>1 DEF StackOK
<1>3. \A k \in DOMAIN stack : LET c == stack[k] IN
        /\ c.kind \in {"value", "array"}
        /\ c.idxs \in Seq(Item) /\ IsInjective(c.idxs)
        /\ Len(c.old) = Len(c.idxs) /\ Len(c.new) = Len(c.idxs)
  BY <1>2 DEF CommandSet
<1> QED
  BY <1>1, <1>3 DEF TypeOK, DocumentOK, StackOK, Values

(* Commands always have as many values as items, no size of an array is    *)
(* ever negative, and the position of the last save is on the stack, or    *)
(* out of reach (QUndoStack, ChangeValueCommand).                          *)
THEOREM UndoTypeCorrect == Spec => []TypeOK
BY Invariance, Typed, PTL

(* Undo and redo, as often as one likes and with new commands in between,  *)
(* restore the values of every item but those the property excepts.        *)
THEOREM UndoRestoresValues == Spec => []UndoRestores
<1>1. IInv => UndoRestores
  BY DEF IInv
<1> QED
  BY Invariance, <1>1, PTL

(* saveConfirm() asks whenever the document is not the one on disk: the    *)
(* flag of the window is set by whatever changes it, undo included.        *)
THEOREM AskedBeforeLoss == Spec => []NothingLostSilently
<1>1. IInv => NothingLostSilently
  BY DEF IInv, Unchanged, NothingLostSilently
<1> QED
  BY Invariance, <1>1, PTL
=============================================================================
