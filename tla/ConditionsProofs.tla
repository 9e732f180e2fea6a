-------------------------- MODULE ConditionsProofs --------------------------
(***************************************************************************)
(* Theorems about the conditions of fields (Conditions), for every schema. *)
(***************************************************************************)
EXTENDS Conditions, FiniteSetTheorems, WellFoundedInduction, TLAPS

-----------------------------------------------------------------------------
(* Recursion and induction over the items of a block, by position.         *)

LEMMA LeastNumber ==
  ASSUME NEW T \in SUBSET Nat, T # {}
  PROVE  \E x \in T : \A y \in T : x <= y
<1>1. IsWellFoundedOn(OpToRel(<, Nat), Nat)
  BY NatLessThanWellFounded
<1>2. PICK x \in T : \A y \in T : ~ (<<y, x>> \in OpToRel(<, Nat))
  BY <1>1, WFMin
<1>3. \A y \in T : ~ (y < x)
  BY <1>2 DEF OpToRel
<1> QED
  BY <1>3

LEMMA PositionType ==
  \E n \in Nat : \A i \in Item : Position[i] \in Nat /\ Position[i] < n
<1>1. PICK n \in Nat : n = Cardinality(Item)
  BY TreeAssumption, FS_CardinalityType
<1>2. \A i \in Item : Position[i] \in 1 .. n
  BY <1>1, TreeAssumption
<1>3. n + 1 \in Nat /\ \A i \in Item : Position[i] \in Nat /\ Position[i] < n + 1
  BY <1>2
<1> QED
  BY <1>3

LEMMA ItemInduction ==
  ASSUME NEW T,
         \A i \in Item : (\A j \in Item : Position[j] < Position[i] => j \in T) => i \in T
  PROVE  Item \subseteq T
<1> SUFFICES ASSUME Item \ T # {} PROVE FALSE
  OBVIOUS
<1> DEFINE P == {Position[i] : i \in Item \ T}
<1>1. P \in SUBSET Nat /\ P # {}
  BY PositionType
<1>2. PICK x \in P : \A y \in P : x <= y
  BY <1>1, LeastNumber
<1>3. PICK i \in Item \ T : Position[i] = x
  BY <1>2
<1>4. \A j \in Item \ T : Position[i] <= Position[j]
  BY <1>2, <1>3
<1>5. \A j \in Item : Position[j] < Position[i] => j \in T
  BY <1>3, <1>4, PositionType
<1> QED
  BY <1>3, <1>5

(* A definition of f[i] from the items before i has a solution.            *)
Backward(S, step) ==
  \A i \in Item : \A f, g \in [Item -> S] :
    (\A j \in Item : Position[j] < Position[i] => f[j] = g[j]) => step[i][f] = step[i][g]

Solvable(S, step) == \E f \in [Item -> S] : \A i \in Item : f[i] = step[i][f]

LEMMA ItemRecursion ==
  ASSUME NEW S, S # {}, NEW step \in [Item -> [[Item -> S] -> S]], Backward(S, step)
  PROVE  Solvable(S, step)
<1> USE DEF Backward
<1> DEFINE Good(f, n) == \A i \in Item : Position[i] < n => f[i] = step[i][f]
<1> DEFINE T == {n \in Nat : \A f \in [Item -> S] : ~Good(f, n)}
<1>1. ASSUME NEW n \in Nat, NEW f \in [Item -> S], Good(f, n)
      PROVE  \E g \in [Item -> S] : Good(g, n + 1)
  <2> DEFINE g == [i \in Item |-> step[i][f]]
  <2>1. g \in [Item -> S] /\ \A i \in Item : g[i] = step[i][f]
    OBVIOUS
  <2>2. \A j \in Item : Position[j] < n => f[j] = g[j]
    BY <1>1, <2>1
  <2> HIDE DEF g
  <2>3. ASSUME NEW i \in Item, Position[i] < n + 1 PROVE g[i] = step[i][g]
    <3>1. \A j \in Item : Position[j] < Position[i] => f[j] = g[j]
      BY <2>2, <2>3, PositionType
    <3> QED
      BY <2>1, <3>1
  <2> QED
    BY <2>1, <2>3
<1>2. \E f \in [Item -> S] : Good(f, 0)
  <2>1. PICK s \in S : TRUE
    OBVIOUS
  <2>2. [i \in Item |-> s] \in [Item -> S]
    BY <2>1
  <2>3. Good([i \in Item |-> s], 0)
    BY PositionType
  <2> QED
    BY <2>2, <2>3
<1> HIDE DEF Good
<1>3. T = {}
  <2> SUFFICES ASSUME T # {} PROVE FALSE
    OBVIOUS
  <2>1. PICK x \in T : \A y \in T : x <= y
    BY LeastNumber
  <2>2. x # 0 /\ x \in Nat
    BY <1>2, <2>1
  <2>3. PICK y \in Nat : y + 1 = x
    <3>1. x - 1 \in Nat /\ (x - 1) + 1 = x
      BY <2>2
    <3> QED
      BY <3>1
  <2>4. y \notin T
    BY <2>1, <2>3
  <2>5. PICK f \in [Item -> S] : Good(f, y)
    BY <2>4
  <2>6. \E g \in [Item -> S] : Good(g, x)
    BY <1>1, <2>3, <2>5
  <2> QED
    BY <2>6, <2>1
<1>4. PICK n \in Nat : \A i \in Item : Position[i] \in Nat /\ Position[i] < n
  BY PositionType
<1>5. PICK f \in [Item -> S] : Good(f, n)
  BY <1>3
<1> QED
  BY <1>4, <1>5 DEF Good, Solvable

-----------------------------------------------------------------------------
(* What the recursive definitions give.                                    *)

LEMMA AboveDef ==
  /\ Above \in [Item -> SUBSET Item]
  /\ \A i \in Item : Above[i] = {i} \cup IF Parent[i] = Top THEN {} ELSE Above[Parent[i]]
<1> DEFINE S == SUBSET Item
<1> DEFINE step == [i \in Item |-> [f \in [Item -> S] |->
                     {i} \cup IF Parent[i] = Top THEN {} ELSE f[Parent[i]]]]
<1> DEFINE Rec(f) == f = [i \in Item |-> {i} \cup IF Parent[i] = Top THEN {} ELSE f[Parent[i]]]
<1>1. step \in [Item -> [[Item -> S] -> S]]
  BY TreeAssumption
<1>2. ASSUME NEW i \in Item, NEW f \in [Item -> S], NEW g \in [Item -> S],
             \A j \in Item : Position[j] < Position[i] => f[j] = g[j]
      PROVE  step[i][f] = step[i][g]
  BY <1>2, TreeAssumption
<1>3. \A i \in Item : \A f \in [Item -> S] :
        step[i][f] = {i} \cup IF Parent[i] = Top THEN {} ELSE f[Parent[i]]
  OBVIOUS
<1> HIDE DEF step
<1>4. PICK f \in [Item -> S] : \A i \in Item : f[i] = step[i][f]
  <2>1. S # {}
    OBVIOUS
  <2>2. Backward(S, step)
    BY <1>2 DEF Backward
  <2> HIDE DEF S
  <2>3. Solvable(S, step)
    BY <1>1, <2>1, <2>2, ItemRecursion
  <2> QED
    BY <2>3 DEF Solvable
<1>5. Rec(f)
  <2>1. \A i \in Item : f[i] = {i} \cup IF Parent[i] = Top THEN {} ELSE f[Parent[i]]
    BY <1>3, <1>4
  <2>2. f = [i \in Item |-> f[i]]
    BY <1>4
  <2> QED
    BY <2>1, <2>2, Zenon
<1>6. PICK h : Rec(h) /\ Above = h
  BY <1>5, Zenon DEF Above
<1>7. \A i \in Item : h[i] = {i} \cup IF Parent[i] = Top THEN {} ELSE h[Parent[i]]
  BY <1>6, Zenon
<1>8. h = [i \in Item |-> h[i]]
  BY <1>6
<1> DEFINE T == {i \in Item : h[i] \in SUBSET Item}
<1>9. Item \subseteq T
  <2>1. ASSUME NEW i \in Item, \A j \in Item : Position[j] < Position[i] => j \in T
        PROVE  i \in T
    BY <1>7, <2>1, TreeAssumption
  <2> HIDE DEF T
  <2> QED
    BY <2>1, ItemInduction
<1> QED
  BY <1>6, <1>7, <1>8, <1>9

LEMMA AboveFacts ==
  /\ \A i \in Item : i \in Above[i] /\ Above[i] \subseteq Item
  /\ \A i \in Item : Parent[i] # Top => Above[Parent[i]] \subseteq Above[i] /\ Parent[i] \in Above[i]
  /\ \A i \in Item : \A a \in Above[i] : a = i \/ (Parent[i] # Top /\ a \in Above[Parent[i]])
<1>1. \A i \in Item : i \in Above[i] /\ Above[i] \subseteq Item
  BY AboveDef
<1>2. \A i \in Item : Parent[i] # Top => Above[Parent[i]] \subseteq Above[i] /\ Parent[i] \in Above[i]
  <2>1. ASSUME NEW i \in Item, Parent[i] # Top
        PROVE  Above[Parent[i]] \subseteq Above[i] /\ Parent[i] \in Above[i]
    <3>1. Parent[i] \in Item
      BY <2>1, TreeAssumption
    <3>2. Parent[i] \in Above[Parent[i]]
      BY <1>1, <3>1
    <3>3. Above[i] = {i} \cup Above[Parent[i]]
      BY <2>1, AboveDef
    <3> QED
      BY <3>2, <3>3
  <2> QED
    BY <2>1
<1>3. \A i \in Item : \A a \in Above[i] : a = i \/ (Parent[i] # Top /\ a \in Above[Parent[i]])
  <2>1. ASSUME NEW i \in Item, NEW a \in Above[i], a # i
        PROVE  Parent[i] # Top /\ a \in Above[Parent[i]]
    BY <2>1, AboveDef, Zenon
  <2> QED
    BY <2>1
<1> QED
  BY <1>1, <1>2, <1>3

LEMMA AboveEarlier ==
  ASSUME NEW i \in Item, NEW a \in Above[i]
  PROVE  /\ a \in Item /\ Position[a] <= Position[i]
         /\ Above[a] \subseteq Above[i]
<1> DEFINE T == {x \in Item : \A b \in Above[x] :
                   b \in Item /\ Position[b] <= Position[x] /\ Above[b] \subseteq Above[x]}
<1>1. Item \subseteq T
  <2>1. ASSUME NEW x \in Item, \A j \in Item : Position[j] < Position[x] => j \in T
        PROVE  x \in T
    <3>1. SUFFICES ASSUME NEW b \in Above[x]
          PROVE  b \in Item /\ Position[b] <= Position[x] /\ Above[b] \subseteq Above[x]
      OBVIOUS
    <3>2. CASE b = x
      BY <3>2, PositionType
    <3>3. CASE Parent[x] # Top /\ b \in Above[Parent[x]]
      <4>1. Parent[x] \in Item /\ Position[Parent[x]] < Position[x] /\ Parent[x] \in T
        BY <2>1, <3>3, TreeAssumption
      <4>2. b \in Item /\ Position[b] <= Position[Parent[x]] /\ Above[b] \subseteq Above[Parent[x]]
        BY <3>3, <4>1
      <4> QED
        BY <3>3, <4>1, <4>2, AboveFacts, PositionType
    <3> QED
      BY <3>2, <3>3, AboveFacts
  <2> HIDE DEF T
  <2> QED
    BY <2>1, ItemInduction
<1> QED
  BY <1>1

(* Everything the existence of an item is made of precedes it.             *)
LEMMA Earlier ==
  ASSUME NEW i \in Item
  PROVE  /\ Parent[i] # Top => Parent[i] \in Item /\ Position[Parent[i]] < Position[i]
         /\ Reference[i] \in Item
         /\ Reference[i] # i => Position[Reference[i]] < Position[i]
         /\ Reads[i] \subseteq Control /\ Control \subseteq Item
         /\ \A j \in Reads[i] : j \in Item /\ Position[j] < Position[i]
<1>1. Reads[i] \subseteq Control /\ Control \subseteq Item
  BY SchemaAssumption DEF Control, Leaf
<1>2. ASSUME NEW j \in Reads[i] PROVE j \in Item /\ Position[j] < Position[i]
  <2>1. PICK b \in Above[i] : b \in Later(j)
    BY ScopeAssumption
  <2>2. b \in Item /\ Position[b] > Position[j] /\ Position[b] <= Position[i]
    BY <2>1, AboveEarlier DEF Later
  <2> QED
    BY <1>1, <2>2, PositionType
<1> QED
  BY <1>1, <1>2, TreeAssumption, SchemaAssumption, FirstAssumption

(* One step of each recursion: the body of the definition, with f for what *)
(* is being defined.                                                       *)
FreshAt(val, f, i) ==
  /\ Parent[i] # Top => f[Parent[i]]
  /\ IF Reference[i] # i THEN f[Reference[i]] ELSE ItemHolds(i, f, val)

EvalAt(f, i) == IF condition[i] # Unknown THEN condition[i] ELSE FreshAt(value, f, i)

TouchedAt(eval, f, i) ==
  IF condition[i] # Unknown THEN {}
  ELSE {i} \cup (IF Parent[i] = Top THEN {} ELSE f[Parent[i]])
           \cup (IF Parent[i] # Top /\ ~eval[Parent[i]] THEN {}
                 ELSE IF Reference[i] # i THEN f[Reference[i]]
                 ELSE UNION {f[j] : j \in Reads[i]})

PlainAt(f, i) ==
  /\ Parent[i] # Top => f[Parent[i]]
  /\ \A j \in Reads[i] : f[j] /\ ReadsAny(Above[j]) \subseteq ReadsAny(Above[i] \ {i})

LEMMA ItemHoldsSame ==
  ASSUME NEW i \in Item, NEW f, NEW g, NEW val, NEW wal,
         \A j \in Reads[i] : f[j] = g[j] /\ val[j] = wal[j]
  PROVE  ItemHolds(i, f, val) = ItemHolds(i, g, wal)
<1>1. [j \in Reads[i] |-> IF f[j] THEN val[j] ELSE 0] = [j \in Reads[i] |-> IF g[j] THEN wal[j] ELSE 0]
  OBVIOUS
<1> QED
  BY <1>1 DEF ItemHolds

LEMMA ItemHoldsBoolean ==
  \A i, f, val : ItemHolds(i, f, val) \in BOOLEAN
BY DEF ItemHolds, ConditionHolds

LEMMA FreshAtSame ==
  ASSUME NEW i \in Item, NEW f, NEW g, NEW val,
         \A j \in Item : Position[j] < Position[i] => f[j] = g[j]
  PROVE  FreshAt(val, f, i) = FreshAt(val, g, i)
<1>1. ItemHolds(i, f, val) = ItemHolds(i, g, val)
  BY Earlier, ItemHoldsSame
<1>2. Parent[i] # Top => f[Parent[i]] = g[Parent[i]]
  BY Earlier
<1>3. Reference[i] # i => f[Reference[i]] = g[Reference[i]]
  BY Earlier
<1> QED
  BY <1>1, <1>2, <1>3 DEF FreshAt

LEMMA FreshAtBoolean ==
  ASSUME NEW val, NEW f \in [Item -> BOOLEAN], NEW i \in Item
  PROVE  FreshAt(val, f, i) \in BOOLEAN
BY ItemHoldsBoolean DEF FreshAt

LEMMA FreshDef ==
  ASSUME NEW val
  PROVE  /\ Fresh(val) \in [Item -> BOOLEAN]
         /\ \A i \in Item : Fresh(val)[i] = FreshAt(val, Fresh(val), i)
<1> DEFINE S == BOOLEAN
<1> DEFINE step == [i \in Item |-> [f \in [Item -> S] |-> FreshAt(val, f, i)]]
<1> DEFINE Rec(f) == f = [i \in Item |-> FreshAt(val, f, i)]
<1>1. \A f \in [Item -> S] : \A i \in Item : FreshAt(val, f, i) \in S
  BY FreshAtBoolean
<1>2. ASSUME NEW i \in Item, NEW f, NEW g, \A j \in Item : Position[j] < Position[i] => f[j] = g[j]
      PROVE  FreshAt(val, f, i) = FreshAt(val, g, i)
  BY <1>2, FreshAtSame
<1>3. \A i \in Item : \A f \in [Item -> S] : step[i][f] = FreshAt(val, f, i)
  OBVIOUS
<1>4. step \in [Item -> [[Item -> S] -> S]]
  BY <1>1
<1>5. S # {}
  OBVIOUS
<1> HIDE DEF step, S
<1>6. Backward(S, step)
  BY <1>2, <1>3 DEF Backward
<1>7. PICK f \in [Item -> S] : \A i \in Item : f[i] = FreshAt(val, f, i)
  <2>1. Solvable(S, step)
    BY <1>4, <1>5, <1>6, ItemRecursion
  <2> QED
    BY <1>3, <2>1 DEF Solvable
<1>8. Rec(f)
  <2>1. f = [i \in Item |-> f[i]]
    BY <1>7
  <2> QED
    BY <1>7, <2>1, Zenon
<1>9. PICK h : Rec(h) /\ Fresh(val) = h
  BY <1>8, Zenon DEF Fresh, FreshAt
<1>10. \A i \in Item : h[i] = FreshAt(val, h, i)
  BY <1>9, Zenon
<1>11. h = [i \in Item |-> h[i]]
  BY <1>9, Zenon
<1> DEFINE T == {i \in Item : h[i] = f[i]}
<1>12. Item \subseteq T
  <2>1. ASSUME NEW i \in Item, \A j \in Item : Position[j] < Position[i] => j \in T
        PROVE  i \in T
    <3>1. FreshAt(val, h, i) = FreshAt(val, f, i)
      BY <1>2, <2>1
    <3> QED
      BY <1>7, <1>10, <3>1
  <2> HIDE DEF T
  <2> QED
    BY <2>1, ItemInduction
<1>13. h = f
  <2>1. f = [i \in Item |-> f[i]]
    BY <1>7
  <2>2. [i \in Item |-> h[i]] = [i \in Item |-> f[i]]
    BY <1>12
  <2> QED
    BY <1>11, <2>1, <2>2
<1> QED
  BY <1>7, <1>9, <1>13 DEF S

LEMMA EvalAtSame ==
  ASSUME NEW i \in Item, NEW f, NEW g,
         \A j \in Item : Position[j] < Position[i] => f[j] = g[j]
  PROVE  EvalAt(f, i) = EvalAt(g, i)
BY FreshAtSame DEF EvalAt

LEMMA EvalDef ==
  ASSUME condition \in [Item -> BOOLEAN \cup {Unknown}]
  PROVE  /\ Eval \in [Item -> BOOLEAN]
         /\ \A i \in Item : Eval[i] = EvalAt(Eval, i)
<1> DEFINE S == BOOLEAN
<1> DEFINE step == [i \in Item |-> [f \in [Item -> S] |-> EvalAt(f, i)]]
<1> DEFINE Rec(f) == f = [i \in Item |-> EvalAt(f, i)]
<1>1. \A f \in [Item -> S] : \A i \in Item : EvalAt(f, i) \in S
  BY FreshAtBoolean DEF EvalAt
<1>2. ASSUME NEW i \in Item, NEW f, NEW g, \A j \in Item : Position[j] < Position[i] => f[j] = g[j]
      PROVE  EvalAt(f, i) = EvalAt(g, i)
  BY <1>2, EvalAtSame
<1>3. \A i \in Item : \A f \in [Item -> S] : step[i][f] = EvalAt(f, i)
  OBVIOUS
<1>4. step \in [Item -> [[Item -> S] -> S]]
  BY <1>1
<1>5. S # {}
  OBVIOUS
<1> HIDE DEF step, S
<1>6. Backward(S, step)
  BY <1>2, <1>3 DEF Backward
<1>7. PICK f \in [Item -> S] : \A i \in Item : f[i] = EvalAt(f, i)
  <2>1. Solvable(S, step)
    BY <1>4, <1>5, <1>6, ItemRecursion
  <2> QED
    BY <1>3, <2>1 DEF Solvable
<1>8. Rec(f)
  <2>1. f = [i \in Item |-> f[i]]
    BY <1>7
  <2> QED
    BY <1>7, <2>1, Zenon
<1>9. PICK h : Rec(h) /\ Eval = h
  BY <1>8, Zenon DEF Eval, EvalAt, FreshAt
<1>10. \A i \in Item : h[i] = EvalAt(h, i)
  BY <1>9, Zenon
<1>11. h = [i \in Item |-> h[i]]
  BY <1>9, Zenon
<1> DEFINE T == {i \in Item : h[i] = f[i]}
<1>12. Item \subseteq T
  <2>1. ASSUME NEW i \in Item, \A j \in Item : Position[j] < Position[i] => j \in T
        PROVE  i \in T
    <3>1. EvalAt(h, i) = EvalAt(f, i)
      BY <1>2, <2>1
    <3> QED
      BY <1>7, <1>10, <3>1
  <2> HIDE DEF T
  <2> QED
    BY <2>1, ItemInduction
<1>13. h = f
  <2>1. f = [i \in Item |-> f[i]]
    BY <1>7
  <2>2. [i \in Item |-> h[i]] = [i \in Item |-> f[i]]
    BY <1>12
  <2> QED
    BY <1>11, <2>1, <2>2
<1> QED
  BY <1>7, <1>9, <1>13 DEF S

LEMMA PlainAtSame ==
  ASSUME NEW i \in Item, NEW f, NEW g,
         \A j \in Item : Position[j] < Position[i] => f[j] = g[j]
  PROVE  PlainAt(f, i) = PlainAt(g, i)
<1>1. \A j \in Reads[i] : f[j] = g[j]
  BY Earlier
<1>2. Parent[i] # Top => f[Parent[i]] = g[Parent[i]]
  BY Earlier
<1> QED
  BY <1>1, <1>2, Zenon DEF PlainAt

LEMMA PlainAtBoolean ==
  ASSUME NEW f \in [Item -> BOOLEAN], NEW i \in Item
  PROVE  PlainAt(f, i) \in BOOLEAN
BY DEF PlainAt

LEMMA PlainDef ==
  /\ Plain \in [Item -> BOOLEAN]
  /\ \A i \in Item : Plain[i] = PlainAt(Plain, i)
<1> DEFINE S == BOOLEAN
<1> DEFINE step == [i \in Item |-> [f \in [Item -> S] |-> PlainAt(f, i)]]
<1> DEFINE Rec(f) == f = [i \in Item |-> PlainAt(f, i)]
<1>1. \A f \in [Item -> S] : \A i \in Item : PlainAt(f, i) \in S
  BY PlainAtBoolean
<1>2. ASSUME NEW i \in Item, NEW f, NEW g, \A j \in Item : Position[j] < Position[i] => f[j] = g[j]
      PROVE  PlainAt(f, i) = PlainAt(g, i)
  BY <1>2, PlainAtSame
<1>3. \A i \in Item : \A f \in [Item -> S] : step[i][f] = PlainAt(f, i)
  OBVIOUS
<1>4. step \in [Item -> [[Item -> S] -> S]]
  BY <1>1
<1>5. S # {}
  OBVIOUS
<1> HIDE DEF step, S
<1>6. Backward(S, step)
  BY <1>2, <1>3 DEF Backward
<1>7. PICK f \in [Item -> S] : \A i \in Item : f[i] = PlainAt(f, i)
  <2>1. Solvable(S, step)
    BY <1>4, <1>5, <1>6, ItemRecursion
  <2> QED
    BY <1>3, <2>1 DEF Solvable
<1>8. Rec(f)
  <2>1. f = [i \in Item |-> f[i]]
    BY <1>7
  <2> QED
    BY <1>7, <2>1, Zenon
<1>9. PICK h : Rec(h) /\ Plain = h
  BY <1>8, Zenon DEF Plain, PlainAt
<1>10. \A i \in Item : h[i] = PlainAt(h, i)
  BY <1>9, Zenon
<1>11. h = [i \in Item |-> h[i]]
  BY <1>9, Zenon
<1> DEFINE T == {i \in Item : h[i] = f[i]}
<1>12. Item \subseteq T
  <2>1. ASSUME NEW i \in Item, \A j \in Item : Position[j] < Position[i] => j \in T
        PROVE  i \in T
    <3>1. PlainAt(h, i) = PlainAt(f, i)
      BY <1>2, <2>1
    <3> QED
      BY <1>7, <1>10, <3>1
  <2> HIDE DEF T
  <2> QED
    BY <2>1, ItemInduction
<1>13. h = f
  <2>1. f = [i \in Item |-> f[i]]
    BY <1>7
  <2>2. [i \in Item |-> h[i]] = [i \in Item |-> f[i]]
    BY <1>12
  <2> QED
    BY <1>11, <2>1, <2>2
<1> QED
  BY <1>7, <1>9, <1>13 DEF S

LEMMA TouchedAtSame ==
  ASSUME NEW i \in Item, NEW f, NEW g, NEW eval,
         \A j \in Item : Position[j] < Position[i] => f[j] = g[j]
  PROVE  TouchedAt(eval, f, i) = TouchedAt(eval, g, i)
<1>1. {f[j] : j \in Reads[i]} = {g[j] : j \in Reads[i]}
  BY Earlier
<1>2. Parent[i] # Top => f[Parent[i]] = g[Parent[i]]
  BY Earlier
<1>3. Reference[i] # i => f[Reference[i]] = g[Reference[i]]
  BY Earlier
<1> QED
  BY <1>1, <1>2, <1>3 DEF TouchedAt

LEMMA TouchedAtType ==
  ASSUME NEW f \in [Item -> SUBSET Item], NEW i \in Item, NEW eval
  PROVE  TouchedAt(eval, f, i) \in SUBSET Item
<1>1. Reads[i] \subseteq Item /\ (Parent[i] # Top => Parent[i] \in Item) /\ Reference[i] \in Item
  BY Earlier
<1>2. UNION {f[j] : j \in Reads[i]} \subseteq Item
  BY <1>1
<1>3. (Parent[i] # Top => f[Parent[i]] \subseteq Item) /\ f[Reference[i]] \subseteq Item
  BY <1>1
<1> QED
  BY <1>2, <1>3 DEF TouchedAt

(* The items that are evaluated along with each item.                      *)
Touched ==
  LET eval == Eval
      touched[i \in Item] == TouchedAt(eval, touched, i)
  IN touched

LEMMA TouchedDef ==
  /\ Touched \in [Item -> SUBSET Item]
  /\ \A i \in Item : Touched[i] = TouchedAt(Eval, Touched, i)
<1> DEFINE S == SUBSET Item
<1> DEFINE step == [i \in Item |-> [f \in [Item -> S] |-> TouchedAt(Eval, f, i)]]
<1> DEFINE Rec(f) == f = [i \in Item |-> TouchedAt(Eval, f, i)]
<1>1. \A f \in [Item -> S] : \A i \in Item : TouchedAt(Eval, f, i) \in S
  BY TouchedAtType
<1>2. ASSUME NEW i \in Item, NEW f, NEW g, \A j \in Item : Position[j] < Position[i] => f[j] = g[j]
      PROVE  TouchedAt(Eval, f, i) = TouchedAt(Eval, g, i)
  BY <1>2, TouchedAtSame
<1>3. \A i \in Item : \A f \in [Item -> S] : step[i][f] = TouchedAt(Eval, f, i)
  OBVIOUS
<1>4. step \in [Item -> [[Item -> S] -> S]]
  BY <1>1
<1>5. S # {}
  OBVIOUS
<1> HIDE DEF step, S
<1>6. Backward(S, step)
  BY <1>2, <1>3 DEF Backward
<1>7. PICK f \in [Item -> S] : \A i \in Item : f[i] = TouchedAt(Eval, f, i)
  <2>1. Solvable(S, step)
    BY <1>4, <1>5, <1>6, ItemRecursion
  <2> QED
    BY <1>3, <2>1 DEF Solvable
<1>8. Rec(f)
  <2>1. f = [i \in Item |-> f[i]]
    BY <1>7
  <2> QED
    BY <1>7, <2>1, Zenon
<1>9. PICK h : Rec(h) /\ Touched = h
  BY <1>8, Zenon DEF Touched
<1>10. \A i \in Item : h[i] = TouchedAt(Eval, h, i)
  BY <1>9, Zenon
<1>11. h = [i \in Item |-> h[i]]
  BY <1>9, Zenon
<1> DEFINE T == {i \in Item : h[i] = f[i]}
<1>12. Item \subseteq T
  <2>1. ASSUME NEW i \in Item, \A j \in Item : Position[j] < Position[i] => j \in T
        PROVE  i \in T
    <3>1. TouchedAt(Eval, h, i) = TouchedAt(Eval, f, i)
      BY <1>2, <2>1
    <3> QED
      BY <1>7, <1>10, <3>1
  <2> HIDE DEF T
  <2> QED
    BY <2>1, ItemInduction
<1>13. h = f
  <2>1. f = [i \in Item |-> f[i]]
    BY <1>7
  <2>2. [i \in Item |-> h[i]] = [i \in Item |-> f[i]]
    BY <1>12
  <2> QED
    BY <1>11, <2>1, <2>2
<1> QED
  BY <1>7, <1>9, <1>13 DEF S

LEMMA EvaluatedDef ==
  ASSUME NEW items
  PROVE  Evaluated(items) =
           LET all == UNION {Touched[i] : i \in items}
           IN [i \in Item |-> IF i \in all THEN Eval[i] ELSE condition[i]]
BY Zenon DEF Evaluated, Touched, TouchedAt

LoadAt(values, stop, load, i) ==
  LET present ==
        /\ Parent[i] # Top => load[Parent[i]].present
        /\ IF Reference[i] # i THEN load[Reference[i]].present
           ELSE ConditionHolds(i, [j \in Reads[i] |-> IF load[j].present THEN load[j].value ELSE 0])
  IN [present |-> present,
      value   |-> IF i \notin Control THEN 0
                  ELSE IF present /\ Before(i, stop) THEN values[i] ELSE value[i]]

Loaded == [present : BOOLEAN, value : 0 .. 1]

LEMMA LoadAtSame ==
  ASSUME NEW i \in Item, NEW f, NEW g, NEW values, NEW stop,
         \A j \in Item : Position[j] < Position[i] => f[j] = g[j]
  PROVE  LoadAt(values, stop, f, i) = LoadAt(values, stop, g, i)
<1>1. [j \in Reads[i] |-> IF f[j].present THEN f[j].value ELSE 0]
        = [j \in Reads[i] |-> IF g[j].present THEN g[j].value ELSE 0]
  BY Earlier
<1>2. Parent[i] # Top => f[Parent[i]] = g[Parent[i]]
  BY Earlier
<1>3. Reference[i] # i => f[Reference[i]] = g[Reference[i]]
  BY Earlier
<1> QED
  BY <1>1, <1>2, <1>3 DEF LoadAt

LEMMA LoadAtType ==
  ASSUME value \in [Control -> 0 .. 1], NEW values \in [Control -> 0 .. 1], NEW stop,
         NEW f \in [Item -> Loaded], NEW i \in Item
  PROVE  LoadAt(values, stop, f, i) \in Loaded
<1>1. (Parent[i] # Top => Parent[i] \in Item) /\ Reference[i] \in Item
  BY Earlier
<1> DEFINE holds == ConditionHolds(i, [j \in Reads[i] |-> IF f[j].present THEN f[j].value ELSE 0])
<1> DEFINE present == /\ Parent[i] # Top => f[Parent[i]].present
                      /\ IF Reference[i] # i THEN f[Reference[i]].present ELSE holds
<1>2. holds \in BOOLEAN
  BY DEF ConditionHolds
<1> HIDE DEF holds
<1>3. present \in BOOLEAN
  BY <1>1, <1>2 DEF Loaded
<1> HIDE DEF present
<1>4. (IF i \notin Control THEN 0 ELSE IF present /\ Before(i, stop) THEN values[i] ELSE value[i]) \in 0 .. 1
  OBVIOUS
<1> QED
  BY <1>3, <1>4 DEF LoadAt, Loaded, present, holds

LEMMA InputDef ==
  ASSUME value \in [Control -> 0 .. 1], NEW values \in [Control -> 0 .. 1], NEW stop
  PROVE  /\ Input(values, stop) \in [Item -> Loaded]
         /\ \A i \in Item : Input(values, stop)[i] = LoadAt(values, stop, Input(values, stop), i)
<1> DEFINE S == Loaded
<1> DEFINE step == [i \in Item |-> [f \in [Item -> S] |-> LoadAt(values, stop, f, i)]]
<1> DEFINE Rec(f) == f = [i \in Item |-> LoadAt(values, stop, f, i)]
<1>1. \A f \in [Item -> S] : \A i \in Item : LoadAt(values, stop, f, i) \in S
  BY LoadAtType
<1>2. ASSUME NEW i \in Item, NEW f, NEW g, \A j \in Item : Position[j] < Position[i] => f[j] = g[j]
      PROVE  LoadAt(values, stop, f, i) = LoadAt(values, stop, g, i)
  BY <1>2, LoadAtSame
<1>3. \A i \in Item : \A f \in [Item -> S] : step[i][f] = LoadAt(values, stop, f, i)
  OBVIOUS
<1>4. step \in [Item -> [[Item -> S] -> S]]
  BY <1>1
<1>5. S # {}
  <2>1. [present |-> TRUE, value |-> 0] \in Loaded
    BY DEF Loaded
  <2> QED
    BY <2>1
<1> HIDE DEF step, S
<1>6. Backward(S, step)
  BY <1>2, <1>3 DEF Backward
<1>7. PICK f \in [Item -> S] : \A i \in Item : f[i] = LoadAt(values, stop, f, i)
  <2>1. Solvable(S, step)
    BY <1>4, <1>5, <1>6, ItemRecursion
  <2> QED
    BY <1>3, <2>1 DEF Solvable
<1>8. Rec(f)
  <2>1. f = [i \in Item |-> f[i]]
    BY <1>7
  <2> QED
    BY <1>7, <2>1, Zenon
<1>9. PICK h : Rec(h) /\ Input(values, stop) = h
  BY <1>8, Zenon DEF Input, LoadAt
<1>10. \A i \in Item : h[i] = LoadAt(values, stop, h, i)
  BY <1>9, Zenon
<1>11. h = [i \in Item |-> h[i]]
  BY <1>9, Zenon
<1> DEFINE T == {i \in Item : h[i] = f[i]}
<1>12. Item \subseteq T
  <2>1. ASSUME NEW i \in Item, \A j \in Item : Position[j] < Position[i] => j \in T
        PROVE  i \in T
    <3>1. LoadAt(values, stop, h, i) = LoadAt(values, stop, f, i)
      BY <1>2, <2>1
    <3> QED
      BY <1>7, <1>10, <3>1
  <2> HIDE DEF T
  <2> QED
    BY <2>1, ItemInduction
<1>13. h = f
  <2>1. f = [i \in Item |-> f[i]]
    BY <1>7
  <2>2. [i \in Item |-> h[i]] = [i \in Item |-> f[i]]
    BY <1>12
  <2> QED
    BY <1>11, <2>1, <2>2
<1> QED
  BY <1>7, <1>9, <1>13 DEF S

-----------------------------------------------------------------------------
(* Caches: below an item that is not cached nothing is, and below one that *)
(* does not exist nothing does.                                            *)

Cache == [Item -> BOOLEAN \cup {Unknown}]

Closed(cache) ==
  \A i \in Item : cache[i] # Unknown /\ Parent[i] # Top => cache[Parent[i]] # Unknown

Coherent(cache) ==
  \A i \in Item : cache[i] = TRUE /\ Parent[i] # Top => cache[Parent[i]] = TRUE

LEMMA UnknownIsNoTruth ==
  \A x \in BOOLEAN : x # Unknown
BY SchemaAssumption

LEMMA ClosedAbove ==
  ASSUME NEW cache
  PROVE  Closed(cache) <=> \A i \in Item : cache[i] # Unknown => \A a \in Above[i] : cache[a] # Unknown
<1>1. ASSUME Closed(cache)
      PROVE  \A i \in Item : cache[i] # Unknown => \A a \in Above[i] : cache[a] # Unknown
  <2> DEFINE T == {i \in Item : cache[i] # Unknown => \A a \in Above[i] : cache[a] # Unknown}
  <2>1. ASSUME NEW i \in Item, \A j \in Item : Position[j] < Position[i] => j \in T
        PROVE  i \in T
    <3>1. Parent[i] # Top => Parent[i] \in T
      BY <2>1, Earlier
    <3>2. Parent[i] # Top /\ cache[i] # Unknown => \A a \in Above[Parent[i]] : cache[a] # Unknown
      BY <1>1, <3>1 DEF Closed
    <3> QED
      BY <3>2, AboveFacts
  <2> HIDE DEF T
  <2>2. Item \subseteq T
    BY <2>1, ItemInduction
  <2> QED
    BY <2>2 DEF T
<1>2. ASSUME \A i \in Item : cache[i] # Unknown => \A a \in Above[i] : cache[a] # Unknown
      PROVE  Closed(cache)
  BY <1>2, AboveFacts DEF Closed
<1> QED
  BY <1>1, <1>2

(* invalidateCondition stops at items that are not cached, and forgets     *)
(* everything below the items all the same.                                *)
LEMMA InvalidatedForgets ==
  ASSUME NEW cache \in Cache, Closed(cache), NEW items
  PROVE  \A i \in Item : Invalidated(cache, items)[i] =
           IF Above[i] \cap items = {} THEN cache[i] ELSE Unknown
<1> DEFINE all == UNION {Cascade(c, cache) : c \in items}
<1>1. ASSUME NEW i \in Item
      PROVE  Invalidated(cache, items)[i] = IF i \in all THEN Unknown ELSE cache[i]
  BY DEF Invalidated
<1>2. ASSUME NEW i \in Item, Above[i] \cap items = {}
      PROVE  i \notin all
  BY <1>2 DEF Cascade
<1>3. ASSUME NEW i \in Item, Above[i] \cap items # {}, cache[i] # Unknown
      PROVE  i \in all
  <2>1. PICK c \in items : c \in Above[i]
    BY <1>3
  <2>2. \A x \in Above[i] : cache[x] # Unknown
    BY <1>3, ClosedAbove
  <2>3. i \in Cascade(c, cache)
    BY <2>1, <2>2 DEF Cascade
  <2> QED
    BY <2>1, <2>3
<1> HIDE DEF all
<1> QED
  BY <1>1, <1>2, <1>3

LEMMA InvalidatedKeeps ==
  ASSUME NEW cache \in Cache, Closed(cache), NEW items
  PROVE  /\ Invalidated(cache, items) \in Cache
         /\ Closed(Invalidated(cache, items))
         /\ Coherent(cache) => Coherent(Invalidated(cache, items))
<1> DEFINE after == Invalidated(cache, items)
<1>1. after = [i \in Item |-> after[i]]
  BY DEF Invalidated
<1>2. \A i \in Item : after[i] = IF Above[i] \cap items = {} THEN cache[i] ELSE Unknown
  BY InvalidatedForgets
<1> HIDE DEF after
<1>3. after \in Cache
  BY <1>1, <1>2 DEF Cache
<1>4. ASSUME NEW i \in Item, after[i] # Unknown, Parent[i] # Top
      PROVE  Parent[i] \in Item /\ after[i] = cache[i] /\ after[Parent[i]] = cache[Parent[i]]
  <2>1. Parent[i] \in Item /\ Above[Parent[i]] \subseteq Above[i]
    BY <1>4, AboveFacts, Earlier
  <2> QED
    BY <1>2, <1>4, <2>1
<1>5. Closed(after)
  BY <1>4 DEF Closed
<1>6. Coherent(cache) => Coherent(after)
  BY <1>4, UnknownIsNoTruth DEF Coherent
<1> QED
  BY <1>3, <1>5, <1>6 DEF after

(* What has been evaluated is cached along with what is above it.          *)
LEMMA TouchedFacts ==
  ASSUME NEW i \in Item, NEW d \in Touched[i]
  PROVE  /\ d \in Item /\ condition[d] = Unknown
         /\ Parent[d] # Top => condition[Parent[d]] # Unknown \/ Parent[d] \in Touched[i]
<1> DEFINE Fits(x, e) == /\ e \in Item /\ condition[e] = Unknown
                         /\ Parent[e] # Top => condition[Parent[e]] # Unknown \/ Parent[e] \in Touched[x]
<1> DEFINE T == {x \in Item : \A e \in Touched[x] : Fits(x, e)}
<1>1. ASSUME NEW x \in Item, \A j \in Item : Position[j] < Position[x] => j \in T, NEW e \in Touched[x]
      PROVE  Fits(x, e)
  <2>1. Touched[x] = TouchedAt(Eval, Touched, x) /\ condition[x] = Unknown
    BY TouchedDef DEF TouchedAt
  <2>2. ASSUME NEW y \in Item, Position[y] < Position[x], e \in Touched[y], Touched[y] \subseteq Touched[x]
        PROVE  Fits(x, e)
    BY <1>1, <2>2
  <2>3. CASE e = x
    <3>1. SUFFICES ASSUME Parent[x] # Top, condition[Parent[x]] = Unknown PROVE Parent[x] \in Touched[x]
      BY <2>1, <2>3
    <3>2. Parent[x] \in Item /\ Touched[Parent[x]] \subseteq Touched[x]
      BY <2>1, <3>1, Earlier DEF TouchedAt
    <3>3. Parent[x] \in Touched[Parent[x]]
      BY <3>1, <3>2, TouchedDef DEF TouchedAt
    <3> QED
      BY <3>2, <3>3
  <2>4. CASE Parent[x] # Top /\ e \in Touched[Parent[x]]
    <3>1. Touched[Parent[x]] \subseteq Touched[x]
      BY <2>1, <2>4 DEF TouchedAt
    <3> QED
      BY <2>2, <2>4, <3>1, Earlier
  <2>5. CASE ~(Parent[x] # Top /\ ~Eval[Parent[x]]) /\ Reference[x] # x /\ e \in Touched[Reference[x]]
    <3>1. Touched[Reference[x]] \subseteq Touched[x]
      BY <2>1, <2>5 DEF TouchedAt
    <3> QED
      BY <2>2, <2>5, <3>1, Earlier
  <2>6. CASE ~(Parent[x] # Top /\ ~Eval[Parent[x]]) /\ Reference[x] = x
             /\ e \in UNION {Touched[j] : j \in Reads[x]}
    <3>1. PICK j \in Reads[x] : e \in Touched[j]
      BY <2>6
    <3>2. UNION {Touched[k] : k \in Reads[x]} \subseteq Touched[x]
      BY <2>1, <2>6 DEF TouchedAt
    <3>3. Touched[j] \subseteq Touched[x]
      BY <3>1, <3>2
    <3> QED
      BY <2>2, <3>1, <3>3, Earlier
  <2> HIDE DEF Fits
  <2> QED
    BY <2>1, <2>3, <2>4, <2>5, <2>6 DEF TouchedAt
<1> HIDE DEF Fits
<1>2. \A x \in Item : (\A j \in Item : Position[j] < Position[x] => j \in T) => x \in T
  BY <1>1
<1> HIDE DEF T
<1>3. Item \subseteq T
  BY <1>2, ItemInduction
<1> QED
  BY <1>3 DEF T, Fits

LEMMA EvaluatedFacts ==
  ASSUME condition \in Cache, Closed(condition), NEW items \in SUBSET Item
  PROVE  /\ Evaluated(items) \in Cache
         /\ Closed(Evaluated(items))
         /\ Coherent(condition) => Coherent(Evaluated(items))
         /\ \A i \in Item : Evaluated(items)[i] # Unknown => Evaluated(items)[i] = Eval[i]
         /\ \A i \in items : Evaluated(items)[i] = Eval[i]
<1> DEFINE after == Evaluated(items)
<1> DEFINE all == UNION {Touched[i] : i \in items}
<1>1. after = [i \in Item |-> IF i \in all THEN Eval[i] ELSE condition[i]]
  BY EvaluatedDef
<1>2. Eval \in [Item -> BOOLEAN] /\ \A i \in Item : Eval[i] = EvalAt(Eval, i)
  BY EvalDef DEF Cache
<1>3. \A i \in items : condition[i] = Unknown => i \in all
  <2>1. ASSUME NEW i \in items, condition[i] = Unknown PROVE i \in Touched[i]
    BY <2>1, TouchedDef DEF TouchedAt
  <2> QED
    BY <2>1
<1>4. \A d \in all : d \in Item /\ condition[d] = Unknown
                   /\ (Parent[d] # Top => condition[Parent[d]] # Unknown \/ Parent[d] \in all)
  <2>1. ASSUME NEW d \in all
        PROVE  d \in Item /\ condition[d] = Unknown
               /\ (Parent[d] # Top => condition[Parent[d]] # Unknown \/ Parent[d] \in all)
    <3>1. PICK i \in items : d \in Touched[i]
      OBVIOUS
    <3>2. Touched[i] \subseteq all
      OBVIOUS
    <3> QED
      BY <3>1, <3>2, TouchedFacts
  <2> QED
    BY <2>1
<1> HIDE DEF all, after
<1>5. \A i \in Item : condition[i] # Unknown => Eval[i] = condition[i]
  BY <1>2 DEF EvalAt
<1>6. \A i \in Item : after[i] = IF i \in all THEN Eval[i] ELSE condition[i]
  BY <1>1
<1>7. after \in Cache
  BY <1>1, <1>2 DEF Cache
<1>8. \A i \in Item : after[i] # Unknown => after[i] = Eval[i]
  BY <1>5, <1>6
<1>9. \A i \in items : after[i] = Eval[i]
  BY <1>3, <1>5, <1>6
<1>10. \A i \in Item : after[i] # Unknown /\ Parent[i] # Top => after[Parent[i]] # Unknown
  <2>1. ASSUME NEW i \in Item, after[i] # Unknown, Parent[i] # Top
        PROVE  after[Parent[i]] # Unknown
    <3>1. Parent[i] \in Item /\ (condition[Parent[i]] # Unknown \/ Parent[i] \in all)
      BY <1>4, <1>6, <2>1, Earlier DEF Closed
    <3> QED
      BY <1>2, <1>5, <1>6, <3>1, UnknownIsNoTruth
  <2> QED
    BY <2>1
<1>11. ASSUME Coherent(condition), NEW i \in Item, after[i] = TRUE, Parent[i] # Top
       PROVE  after[Parent[i]] = TRUE
  <2>1. Parent[i] \in Item /\ after[Parent[i]] = Eval[Parent[i]] /\ Eval[i] = TRUE
    BY <1>8, <1>10, <1>11, UnknownIsNoTruth, Earlier
  <2>2. CASE condition[i] = Unknown
    <3>1. FreshAt(value, Eval, i)
      BY <1>2, <2>1, <2>2 DEF EvalAt
    <3>2. Eval[Parent[i]]
      BY <1>11, <3>1 DEF FreshAt
    <3> QED
      BY <1>2, <2>1, <3>2
  <2>3. CASE condition[i] # Unknown
    <3>1. condition[Parent[i]] = TRUE
      BY <1>5, <1>11, <2>1, <2>3 DEF Coherent
    <3> QED
      BY <1>5, <2>1, <3>1, UnknownIsNoTruth
  <2> QED
    BY <2>2, <2>3
<1> QED
  BY <1>7, <1>8, <1>9, <1>10, <1>11 DEF after, Closed, Coherent

-----------------------------------------------------------------------------
(* What a load does: it finds what exists once the values are there, and   *)
(* everything it does not come by is below something that does not.        *)

LEMMA InputFresh ==
  ASSUME value \in [Control -> 0 .. 1], NEW values \in [Control -> 0 .. 1], NEW stop
  PROVE  \A i \in Item : Input(values, stop)[i].present
                            = Fresh([c \in Control |-> Input(values, stop)[c].value])[i]
<1> DEFINE load == Input(values, stop)
<1> DEFINE val == [c \in Control |-> load[c].value]
<1>1. load \in [Item -> Loaded] /\ \A i \in Item : load[i] = LoadAt(values, stop, load, i)
  BY InputDef
<1>2. Fresh(val) \in [Item -> BOOLEAN] /\ \A i \in Item : Fresh(val)[i] = FreshAt(val, Fresh(val), i)
  BY FreshDef
<1>3. \A c \in Control : val[c] = load[c].value
  OBVIOUS
<1> HIDE DEF load, val
<1> DEFINE T == {i \in Item : load[i].present = Fresh(val)[i]}
<1>4. ASSUME NEW i \in Item, \A j \in Item : Position[j] < Position[i] => j \in T
      PROVE  i \in T
  <2>1. \A j \in Reads[i] : load[j].present = Fresh(val)[j] /\ load[j].value = val[j]
    BY <1>3, <1>4, Earlier
  <2>2. [j \in Reads[i] |-> IF load[j].present THEN load[j].value ELSE 0]
          = [j \in Reads[i] |-> IF Fresh(val)[j] THEN val[j] ELSE 0]
    BY <2>1
  <2>3. Parent[i] # Top => load[Parent[i]].present = Fresh(val)[Parent[i]]
    BY <1>4, Earlier
  <2>4. Reference[i] # i => load[Reference[i]].present = Fresh(val)[Reference[i]]
    BY <1>4, Earlier
  <2>5. LoadAt(values, stop, load, i).present = FreshAt(val, Fresh(val), i)
    BY <2>2, <2>3, <2>4 DEF LoadAt, FreshAt, ItemHolds
  <2> QED
    BY <1>1, <1>2, <2>5
<1> HIDE DEF T
<1>5. Item \subseteq T
  BY <1>4, ItemInduction
<1> QED
  BY <1>5 DEF T, val, load

LEMMA VisitedAbove ==
  ASSUME value \in [Control -> 0 .. 1], NEW values \in [Control -> 0 .. 1],
         NEW stop \in {None} \cup Breaks,
         NEW i \in Visited(Input(values, stop), stop), Parent[i] # Top
  PROVE  /\ i \in Item /\ Parent[i] \in Item
         /\ Parent[i] \in Visited(Input(values, stop), stop)
         /\ Input(values, stop)[Parent[i]].present
<1> DEFINE load == Input(values, stop)
<1> DEFINE fresh == Fresh([c \in Control |-> load[c].value])
<1>1. \A j \in Item : load[j].present = fresh[j] /\ (fresh[j] /\ Parent[j] # Top => fresh[Parent[j]])
  <2>1. \A j \in Item : load[j].present = fresh[j]
    BY InputFresh
  <2>2. \A val : \A j \in Item : Fresh(val)[j] = FreshAt(val, Fresh(val), j)
    BY FreshDef
  <2>3. \A j \in Item : fresh[j] = FreshAt([c \in Control |-> load[c].value], fresh, j)
    BY <2>2
  <2> HIDE DEF load, fresh
  <2> QED
    BY <2>1, <2>3 DEF FreshAt
<1> HIDE DEF load, fresh
<1>2. i \in Item /\ Parent[i] \in Item /\ Position[Parent[i]] < Position[i] /\ load[Parent[i]].present
  BY Earlier DEF Visited, load
<1>3. Before(i, stop) \/ i = stop
  BY DEF Visited
<1>4. Before(Parent[i], stop)
  <2>1. stop = None \/ stop \in Item
    BY SchemaAssumption DEF Leaf
  <2> QED
    BY <1>2, <1>3, <2>1, PositionType DEF Before
<1>5. Parent[Parent[i]] # Top => load[Parent[Parent[i]]].present
  BY <1>1, <1>2, Earlier
<1> QED
  BY <1>2, <1>4, <1>5 DEF Visited, load

(* The caches a load leaves.                                               *)
LoadedCache(values, stop) ==
  LET load    == Input(values, stop)
      visited == Visited(load, stop)
      reset   == Invalidated(condition, visited)
  IN [i \in Item |-> IF i \in visited THEN load[i].present ELSE reset[i]]

LEMMA LoadedCacheFacts ==
  ASSUME value \in [Control -> 0 .. 1], condition \in Cache, Closed(condition),
         NEW values \in [Control -> 0 .. 1], NEW stop \in {None} \cup Breaks
  PROVE  /\ LoadedCache(values, stop) \in Cache
         /\ Closed(LoadedCache(values, stop))
         /\ Coherent(condition) => Coherent(LoadedCache(values, stop))
         /\ \A i \in Item : LoadedCache(values, stop)[i] # Unknown =>
              \/ LoadedCache(values, stop)[i] = Input(values, stop)[i].present
              \/ LoadedCache(values, stop)[i] = condition[i]
         /\ stop = None => \A i \in Item : LoadedCache(values, stop)[i] # Unknown =>
              LoadedCache(values, stop)[i] = Input(values, stop)[i].present
<1> DEFINE load == Input(values, stop)
<1> DEFINE visited == Visited(load, stop)
<1> DEFINE reset == Invalidated(condition, visited)
<1> DEFINE after == LoadedCache(values, stop)
<1>1. after = [i \in Item |-> IF i \in visited THEN load[i].present ELSE reset[i]]
  BY DEF LoadedCache
<1>2. load \in [Item -> Loaded] /\ \A j \in Item : load[j] = LoadAt(values, stop, load, j)
  BY InputDef
<1>3. \A i \in visited : Parent[i] # Top => Parent[i] \in visited /\ load[Parent[i]].present
  BY VisitedAbove
<1>4. \A i \in Item : reset[i] = IF Above[i] \cap visited = {} THEN condition[i] ELSE Unknown
  BY InvalidatedForgets
<1>5. reset \in Cache /\ Closed(reset) /\ (Coherent(condition) => Coherent(reset))
  BY InvalidatedKeeps
<1>6. stop = None => \A i \in Item : i \in visited <=> (Parent[i] # Top => load[Parent[i]].present)
  BY DEF Visited, Before
<1>7. \A i \in Item : load[i].present \in BOOLEAN
  BY <1>2 DEF Loaded
<1> HIDE DEF after, reset, visited, load
<1>8. \A i \in Item : after[i] = IF i \in visited THEN load[i].present ELSE reset[i]
  BY <1>1
<1>9. after \in Cache
  BY <1>1, <1>5, <1>7 DEF Cache
<1>10. ASSUME NEW i \in Item, after[i] # Unknown, Parent[i] # Top
       PROVE  Parent[i] \in Item /\ after[Parent[i]] # Unknown
  <2>1. Parent[i] \in Item
    BY <1>10, Earlier
  <2>2. CASE Parent[i] \in visited
    BY <1>7, <1>8, <2>1, <2>2, UnknownIsNoTruth
  <2>3. CASE Parent[i] \notin visited
    <3>1. i \notin visited
      BY <1>3, <1>10, <2>3
    <3> QED
      BY <1>5, <1>8, <1>10, <2>1, <2>3, <3>1 DEF Closed
  <2> QED
    BY <2>2, <2>3
<1>11. ASSUME Coherent(condition), NEW i \in Item, after[i] = TRUE, Parent[i] # Top
       PROVE  after[Parent[i]] = TRUE
  <2>1. Parent[i] \in Item
    BY <1>11, Earlier
  <2>2. CASE i \in visited
    <3>1. Parent[i] \in visited /\ load[Parent[i]].present
      BY <1>3, <1>11, <2>2
    <3> QED
      BY <1>7, <1>8, <2>1, <3>1
  <2>3. CASE i \notin visited
    <3>1. reset[i] = TRUE /\ reset[Parent[i]] = TRUE
      BY <1>5, <1>8, <1>11, <2>3 DEF Coherent
    <3>2. Above[i] \cap visited = {} /\ Parent[i] \in Above[i]
      BY <1>4, <1>11, <3>1, UnknownIsNoTruth, AboveFacts
    <3> QED
      BY <1>8, <2>1, <3>1, <3>2
  <2> QED
    BY <2>2, <2>3
<1>12. ASSUME NEW i \in Item, after[i] # Unknown
       PROVE  after[i] = load[i].present \/ after[i] = condition[i]
  BY <1>4, <1>8, <1>12
<1> DEFINE T == {i \in Item : i \in visited \/ Above[i] \cap visited # {}}
<1>13. ASSUME stop = None PROVE Item \subseteq T
  <2>1. ASSUME NEW i \in Item, \A j \in Item : Position[j] < Position[i] => j \in T
        PROVE  i \in T
    <3>1. CASE Parent[i] = Top
      BY <1>6, <1>13, <3>1
    <3>2. CASE Parent[i] # Top
      <4>1. Parent[i] \in T
        BY <2>1, <3>2, Earlier
      <4> QED
        BY <3>2, <4>1, AboveFacts
    <3> QED
      BY <3>1, <3>2
  <2> HIDE DEF T
  <2> QED
    BY <2>1, ItemInduction
<1>14. ASSUME stop = None, NEW i \in Item, after[i] # Unknown
       PROVE  after[i] = load[i].present
  BY <1>4, <1>8, <1>13, <1>14
<1>15. Closed(after) /\ (Coherent(condition) => Coherent(after))
  BY <1>10, <1>11 DEF Closed, Coherent
<1>16. /\ \A i \in Item : after[i] # Unknown => after[i] = load[i].present \/ after[i] = condition[i]
       /\ stop = None => \A i \in Item : after[i] # Unknown => after[i] = load[i].present
  BY <1>12, <1>14
<1> QED
  BY <1>9, <1>15, <1>16 DEF after, load

-----------------------------------------------------------------------------
(* Type correctness.                                                       *)

Typed ==
  /\ value \in [Control -> 0 .. 1]
  /\ condition \in Cache /\ Closed(condition)
  /\ silent \subseteq Control
  /\ moved = None \/ moved \in [did : {"load", "save"}, items : SUBSET Leaf]

LEMMA TypeIs == TypeOK <=> Typed
BY ClosedAbove DEF TypeOK, Cache, Typed

(* What a step makes of the caches.                                        *)
LEMMA CachesStep ==
  ASSUME TypeOK, Coherent(condition), [Next]_vars
  PROVE  condition' \in Cache /\ Closed(condition') /\ Coherent(condition')
<1>1. value \in [Control -> 0 .. 1] /\ condition \in Cache /\ Closed(condition)
  BY TypeIs DEF Typed
<1>2. Control \subseteq Item
  BY SchemaAssumption DEF Leaf
<1>3. CASE \E i \in Item : Look(i)
  <2>1. PICK i \in Item : condition' = Evaluated({i})
    BY <1>3 DEF Look
  <2>2. {i} \in SUBSET Item
    OBVIOUS
  <2> QED
    BY <1>1, <2>1, <2>2, EvaluatedFacts
<1>4. CASE \E i \in Control, v \in 0 .. 1 : SetData(i, v)
  <2>1. PICK i \in Control : condition' = Invalidated(Evaluated({i}), Dependent(i))
    BY <1>4 DEF SetData
  <2>2. {i} \in SUBSET Item
    BY <1>2
  <2>3. Evaluated({i}) \in Cache /\ Closed(Evaluated({i})) /\ Coherent(Evaluated({i}))
    BY <1>1, <2>2, EvaluatedFacts
  <2> QED
    BY <2>1, <2>3, InvalidatedKeeps
<1>5. CASE \E items \in SUBSET Control : \E values \in [items -> 0 .. 1] : UndoMany(items, values)
  BY <1>1, <1>5 DEF UndoMany
<1>6. CASE \E values \in [Control -> 0 .. 1], stop \in {None} \cup Breaks : Load(values, stop)
  <2>1. PICK values \in [Control -> 0 .. 1], stop \in {None} \cup Breaks : Load(values, stop)
    BY <1>6
  <2>2. condition' = LoadedCache(values, stop)
    BY <2>1 DEF Load, LoadedCache
  <2> QED
    BY <1>1, <2>2, LoadedCacheFacts
<1>7. CASE Save
  <2>1. condition' = Evaluated({i \in Item : Parent[i] = Top \/ Eval[Parent[i]]})
    BY <1>7 DEF Save
  <2>2. {i \in Item : Parent[i] = Top \/ Eval[Parent[i]]} \in SUBSET Item
    OBVIOUS
  <2> QED
    BY <1>1, <2>1, <2>2, EvaluatedFacts
<1>8. CASE UNCHANGED vars
  BY <1>1, <1>8 DEF vars
<1> QED
  BY <1>3, <1>4, <1>5, <1>6, <1>7, <1>8 DEF Next

LEMMA TypeStep ==
  ASSUME TypeOK, Coherent(condition), [Next]_vars
  PROVE  TypeOK' /\ Coherent(condition')
<1>1. /\ value \in [Control -> 0 .. 1] /\ silent \subseteq Control
      /\ moved = None \/ moved \in [did : {"load", "save"}, items : SUBSET Leaf]
  BY DEF TypeOK
<1>2. /\ value' \in [Control -> 0 .. 1] /\ silent' \subseteq Control
      /\ moved' = None \/ moved' \in [did : {"load", "save"}, items : SUBSET Leaf]
  <2>1. CASE \E i \in Item : Look(i)
    BY <1>1, <2>1 DEF Look
  <2>2. CASE \E i \in Control, v \in 0 .. 1 : SetData(i, v)
    BY <1>1, <2>2 DEF SetData
  <2>3. CASE \E items \in SUBSET Control : \E values \in [items -> 0 .. 1] : UndoMany(items, values)
    <3>1. PICK items \in SUBSET Control : \E values \in [items -> 0 .. 1] : UndoMany(items, values)
      BY <2>3
    <3>2. PICK values \in [items -> 0 .. 1] : UndoMany(items, values)
      BY <3>1
    <3>3. value' = [i \in Control |-> IF i \in items THEN values[i] ELSE value[i]]
      BY <3>2 DEF UndoMany
    <3>4. silent' = silent \cup items /\ moved' = None
      BY <3>2 DEF UndoMany
    <3> QED
      BY <1>1, <3>3, <3>4
  <2>4. CASE \E values \in [Control -> 0 .. 1], stop \in {None} \cup Breaks : Load(values, stop)
    <3>1. PICK values \in [Control -> 0 .. 1], stop \in {None} \cup Breaks : Load(values, stop)
      BY <2>4
    <3>2. Input(values, stop) \in [Item -> Loaded] /\ Control \subseteq Item
      BY <1>1, InputDef, SchemaAssumption DEF Leaf
    <3>3. value' = [i \in Control |-> Input(values, stop)[i].value]
      BY <3>1 DEF Load
    <3>4. silent' = IF stop = None THEN {} ELSE silent \cup {i \in Control : Before(i, stop)}
      BY <3>1 DEF Load
    <3>5. moved' = IF stop # None THEN None
                   ELSE [did |-> "load", items |-> {i \in Leaf : Input(values, stop)[i].present}]
      BY <3>1 DEF Load
    <3>6. value' \in [Control -> 0 .. 1]
      BY <3>2, <3>3 DEF Loaded
    <3>7. moved' = None \/ moved' \in [did : {"load", "save"}, items : SUBSET Leaf]
      BY <3>5
    <3> QED
      BY <1>1, <3>4, <3>6, <3>7
  <2>5. CASE Save
    <3>1. moved' = [did |-> "save", items |-> {i \in Leaf : Eval[i]}] /\ UNCHANGED <<value, silent>>
      BY <2>5 DEF Save
    <3> QED
      BY <1>1, <3>1
  <2>6. CASE UNCHANGED vars
    BY <1>1, <2>6 DEF vars
  <2> QED
    BY <2>1, <2>2, <2>3, <2>4, <2>5, <2>6 DEF Next
<1>3. condition' \in Cache /\ Closed(condition') /\ Coherent(condition')
  BY CachesStep
<1>4. TypeOK' <=> Typed'
  BY TypeIs, PTL
<1> QED
  BY <1>2, <1>3, <1>4 DEF Typed

LEMMA TypeInit ==
  Init => TypeOK /\ Coherent(condition)
<1> SUFFICES ASSUME Init PROVE TypeOK /\ Coherent(condition)
  OBVIOUS
<1>1. condition \in Cache /\ \A i \in Item : condition[i] = Unknown
  BY DEF Init, Cache
<1>2. Closed(condition) /\ Coherent(condition)
  BY <1>1, UnknownIsNoTruth DEF Closed, Coherent
<1>3. value \in [Control -> 0 .. 1] /\ silent \subseteq Control /\ moved = None
  BY DEF Init
<1> QED
  BY <1>1, <1>2, <1>3, TypeIs DEF Typed

(* TypeOK always holds: the caches of what is above a cached item are      *)
(* there as well, so invalidateCondition may stop where it stops           *)
(* (nifitem.h 564-573).                                                    *)
THEOREM ConditionTypes == Spec => []TypeOK
<1>1. TypeOK /\ Coherent(condition) /\ [Next]_vars => (TypeOK /\ Coherent(condition))'
  BY TypeStep
<1> QED
  BY <1>1, TypeInit, PTL DEF Spec

-----------------------------------------------------------------------------
(* Loads.                                                                  *)

LEMMA LoadStep ==
  ASSUME TypeOK, Coherent(condition),
         NEW values \in [Control -> 0 .. 1], NEW stop \in {None} \cup Breaks, Load(values, stop)
  PROVE  /\ \A i \in Item : Input(values, stop)[i].present = Fresh(value')[i]
         /\ \A i \in Item : condition'[i] # Unknown =>
              condition'[i] = Fresh(value')[i] \/ condition'[i] = condition[i]
         /\ stop = None => /\ \A i \in Item : condition'[i] # Unknown => condition'[i] = Fresh(value')[i]
                           /\ moved'.items = {i \in Leaf : Fresh(value')[i]}
<1>1. /\ value \in [Control -> 0 .. 1] /\ condition \in Cache /\ Closed(condition)
      /\ Leaf \subseteq Item
  BY TypeIs DEF Typed, Leaf
<1>2. /\ condition' = LoadedCache(values, stop)
      /\ value' = [i \in Control |-> Input(values, stop)[i].value]
      /\ moved' = IF stop # None THEN None
                  ELSE [did |-> "load", items |-> {i \in Leaf : Input(values, stop)[i].present}]
  BY DEF Load, LoadedCache
<1>3. \A i \in Item : Input(values, stop)[i].present = Fresh(value')[i]
  BY <1>1, <1>2, InputFresh
<1>4. \A i \in Item : condition'[i] # Unknown =>
        condition'[i] = Fresh(value')[i] \/ condition'[i] = condition[i]
  BY <1>1, <1>2, <1>3, LoadedCacheFacts
<1>5. stop = None => \A i \in Item : condition'[i] # Unknown => condition'[i] = Fresh(value')[i]
  BY <1>1, <1>2, <1>3, LoadedCacheFacts
<1>6. stop = None => moved'.items = {i \in Leaf : Fresh(value')[i]}
  <2>1. {i \in Leaf : Input(values, stop)[i].present} = {i \in Leaf : Fresh(value')[i]}
    BY <1>1, <1>3
  <2>2. SUFFICES ASSUME stop = None PROVE moved'.items = {i \in Leaf : Fresh(value')[i]}
    OBVIOUS
  <2>3. moved' = [did |-> "load", items |-> {i \in Leaf : Input(values, stop)[i].present}]
    BY <1>2, <2>2
  <2> QED
    BY <2>1, <2>3
<1> QED
  BY <1>3, <1>4, <1>5, <1>6

LEMMA LoadConsistentStep ==
  ASSUME TypeOK, Coherent(condition), LoadIsConsistent, [Next]_vars
  PROVE  LoadIsConsistent'
<1>1. ASSUME moved' = None \/ moved'.did = "save" PROVE LoadIsConsistent'
  BY <1>1 DEF LoadIsConsistent
<1>2. CASE \E i \in Item : Look(i)
  BY <1>1, <1>2 DEF Look
<1>3. CASE \E i \in Control, v \in 0 .. 1 : SetData(i, v)
  BY <1>1, <1>3 DEF SetData
<1>4. CASE \E items \in SUBSET Control : \E values \in [items -> 0 .. 1] : UndoMany(items, values)
  BY <1>1, <1>4 DEF UndoMany
<1>5. CASE \E values \in [Control -> 0 .. 1], stop \in {None} \cup Breaks : Load(values, stop)
  <2>1. PICK values \in [Control -> 0 .. 1], stop \in {None} \cup Breaks : Load(values, stop)
    BY <1>5
  <2>2. CASE stop # None
    <3>1. moved' = None
      BY <2>1, <2>2 DEF Load
    <3> QED
      BY <1>1, <3>1
  <2>3. CASE stop = None
    <3>1. /\ \A i \in Item : condition'[i] # Unknown => condition'[i] = Fresh(value')[i]
          /\ moved'.items = {i \in Leaf : Fresh(value')[i]}
      BY <2>1, <2>3, LoadStep
    <3>2. Stale' = {}
      BY <3>1 DEF Stale
    <3> QED
      BY <3>1, <3>2 DEF LoadIsConsistent
  <2> QED
    BY <2>2, <2>3
<1>6. CASE Save
  <2>1. moved'.did = "save"
    BY <1>6 DEF Save
  <2> QED
    BY <1>1, <2>1
<1>7. CASE UNCHANGED vars
  <2>1. Stale' = Stale
    BY <1>7 DEF vars, Stale
  <2> QED
    BY <1>7, <2>1 DEF vars, LoadIsConsistent
<1> QED
  BY <1>2, <1>3, <1>4, <1>5, <1>6, <1>7 DEF Next

(* LoadIsConsistent always holds: loadItem resets and asks each condition  *)
(* just before it reads the field (nifmodel.cpp 2306-2333), and so reads   *)
(* the fields that exist for the values it has read in the end, and leaves *)
(* no wrong condition in a cache, whatever was cached before.              *)
THEOREM LoadsTakeWhatExists == Spec => []LoadIsConsistent
<1>1. Init => LoadIsConsistent
  BY DEF Init, LoadIsConsistent
<1>2. TypeOK /\ Coherent(condition) /\ LoadIsConsistent /\ [Next]_vars
        => (TypeOK /\ Coherent(condition) /\ LoadIsConsistent)'
  BY TypeStep, LoadConsistentStep
<1> QED
  BY <1>1, <1>2, TypeInit, PTL DEF Spec

-----------------------------------------------------------------------------
(* Changes of values.  The existence of a plain item depends on the values *)
(* that it and the items above it read, and on nothing else.               *)

LEMMA ReadsAbove ==
  ASSUME NEW i \in Item
  PROVE  /\ Parent[i] = Top  => Above[i] \ {i} = {} /\ ReadsAny(Above[i]) = Reads[i]
         /\ Parent[i] # Top => /\ Above[i] \ {i} = Above[Parent[i]]
                               /\ ReadsAny(Above[i]) = Reads[i] \cup ReadsAny(Above[Parent[i]])
<1>1. CASE Parent[i] = Top
  <2>1. Above[i] = {i}
    BY <1>1, AboveDef
  <2> QED
    BY <1>1, <2>1 DEF ReadsAny
<1>2. CASE Parent[i] # Top
  <2>1. Above[i] = {i} \cup Above[Parent[i]]
    BY <1>2, AboveDef
  <2>2. i \notin Above[Parent[i]]
    <3>1. Parent[i] \in Item /\ Position[Parent[i]] < Position[i]
      BY <1>2, Earlier
    <3>2. \A a \in Above[Parent[i]] : Position[a] <= Position[Parent[i]]
      BY <3>1, AboveEarlier
    <3> QED
      BY <3>1, <3>2, PositionType
  <2>3. ReadsAny(Above[i]) = Reads[i] \cup ReadsAny(Above[Parent[i]])
    BY <2>1 DEF ReadsAny
  <2> QED
    BY <1>2, <2>1, <2>2, <2>3
<1> QED
  BY <1>1, <1>2

LEMMA PlainBelow ==
  ASSUME NEW i \in Item, Plain[i]
  PROVE  /\ Parent[i] # Top => Plain[Parent[i]] /\ ReadsAny(Above[Parent[i]]) \subseteq ReadsAny(Above[i])
         /\ \A j \in Reads[i] : /\ j \in ReadsAny(Above[i]) /\ Plain[j]
                                /\ ReadsAny(Above[j]) \subseteq ReadsAny(Above[i])
<1>1. PlainAt(Plain, i)
  BY PlainDef
<1>2. ReadsAny(Above[i] \ {i}) \subseteq ReadsAny(Above[i]) /\ Reads[i] \subseteq ReadsAny(Above[i])
  BY AboveFacts DEF ReadsAny
<1> QED
  BY <1>1, <1>2, ReadsAbove DEF PlainAt

LEMMA PlainFirst ==
  ASSUME NEW i \in Item, Plain[i], Reference[i] # i
  PROVE  /\ Plain[Reference[i]] /\ ReadsAny(Above[Reference[i]]) = ReadsAny(Above[i])
<1>1. PICK r \in Item : r = Reference[i]
  BY Earlier
<1>2. /\ Cond[r] = Cond[i] /\ Parent[r] # Top /\ Parent[i] # Top
      /\ Parent[Parent[r]] = Parent[Parent[i]]
      /\ Reads[Parent[r]] = {} /\ Reads[Parent[i]] = {}
  BY <1>1, FirstAssumption
<1>3. PICK P \in Item : P = Parent[i]
  BY <1>2, Earlier
<1>4. PICK Q \in Item : Q = Parent[r]
  BY <1>2, Earlier
<1>5. Reads[r] = Reads[i]
  BY <1>2 DEF Reads
<1>6. ReadsAny(Above[P]) = ReadsAny(Above[Q])
  BY <1>2, <1>3, <1>4, ReadsAbove
<1>7. ReadsAny(Above[r]) = ReadsAny(Above[i]) /\ ReadsAny(Above[r] \ {r}) = ReadsAny(Above[i] \ {i})
  <2>1. Above[i] \ {i} = Above[P] /\ Above[r] \ {r} = Above[Q]
    BY <1>2, <1>3, <1>4, ReadsAbove
  <2>2. ReadsAny(Above[i] \ {i}) = ReadsAny(Above[r] \ {r})
    BY <1>6, <2>1
  <2>3. /\ ReadsAny(Above[i]) = Reads[i] \cup ReadsAny(Above[P])
        /\ ReadsAny(Above[r]) = Reads[r] \cup ReadsAny(Above[Q])
    BY <1>2, <1>3, <1>4, ReadsAbove
  <2> QED
    BY <1>5, <1>6, <2>2, <2>3
<1>8. Plain[i] = PlainAt(Plain, i) /\ Plain[P] = PlainAt(Plain, P) /\ Plain[Q] = PlainAt(Plain, Q)
      /\ Plain[r] = PlainAt(Plain, r)
  BY PlainDef
<1>9. Plain[P]
  BY <1>2, <1>3, PlainBelow
<1>10. Plain[Q]
  <2>1. Parent[Q] # Top => Plain[Parent[Q]]
    BY <1>2, <1>3, <1>4, <1>9, PlainBelow
  <2> QED
    BY <1>2, <1>4, <1>8, <2>1 DEF PlainAt
<1>11. Plain[r]
  <2>1. \A j \in Reads[i] : Plain[j] /\ ReadsAny(Above[j]) \subseteq ReadsAny(Above[i] \ {i})
    BY <1>8 DEF PlainAt
  <2> QED
    BY <1>4, <1>5, <1>7, <1>8, <1>10, <2>1 DEF PlainAt
<1> QED
  BY <1>1, <1>7, <1>11

LEMMA FreshSame ==
  ASSUME NEW v, NEW w, NEW i \in Item, Plain[i], \A j \in ReadsAny(Above[i]) : v[j] = w[j]
  PROVE  Fresh(v)[i] = Fresh(w)[i]
<1> DEFINE T == {x \in Item : Plain[x] /\ (\A j \in ReadsAny(Above[x]) : v[j] = w[j])
                              => Fresh(v)[x] = Fresh(w)[x]}
<1>1. ASSUME NEW x \in Item, \A j \in Item : Position[j] < Position[x] => j \in T
      PROVE  x \in T
  <2>1. SUFFICES ASSUME Plain[x], \A j \in ReadsAny(Above[x]) : v[j] = w[j]
                 PROVE  Fresh(v)[x] = Fresh(w)[x]
    OBVIOUS
  <2>2. ASSUME NEW y \in Item, Position[y] < Position[x], Plain[y],
               ReadsAny(Above[y]) \subseteq ReadsAny(Above[x])
        PROVE  Fresh(v)[y] = Fresh(w)[y]
    BY <1>1, <2>1, <2>2
  <2>3. Parent[x] # Top => Fresh(v)[Parent[x]] = Fresh(w)[Parent[x]]
    BY <2>1, <2>2, PlainBelow, Earlier
  <2>4. Reference[x] # x => Fresh(v)[Reference[x]] = Fresh(w)[Reference[x]]
    BY <2>1, <2>2, PlainFirst, Earlier
  <2>5. \A j \in Reads[x] : Fresh(v)[j] = Fresh(w)[j] /\ v[j] = w[j]
    BY <2>1, <2>2, PlainBelow, Earlier
  <2>6. ItemHolds(x, Fresh(v), v) = ItemHolds(x, Fresh(w), w)
    BY <2>5, ItemHoldsSame
  <2>7. FreshAt(v, Fresh(v), x) = FreshAt(w, Fresh(w), x)
    BY <2>3, <2>4, <2>6 DEF FreshAt
  <2> QED
    BY <2>7, FreshDef
<1> HIDE DEF T
<1>2. Item \subseteq T
  BY <1>1, ItemInduction
<1> QED
  BY <1>2 DEF T

(* The caches that StaleOnlyThrough says are right.                        *)
Right ==
  \A i \in Item : condition[i] # Unknown /\ Plain[i] /\ ReadsAny(Above[i]) \cap silent = {}
                  => condition[i] = Fresh(value)[i]

SavedRight ==
  moved # None /\ moved.did = "save" =>
    \A i \in Leaf : (i \in moved.items) = Fresh(value)[i] \/ Above[i] \cap Stale # {}

LEMMA StaleOnlyThroughIs == StaleOnlyThrough <=> Right /\ SavedRight
<1>1. \A i : i \in Stale <=> i \in Item /\ condition[i] # Unknown /\ condition[i] # Fresh(value)[i]
  BY DEF Stale
<1>2. (\A i \in Stale : ~Plain[i] \/ ReadsAny(Above[i]) \cap silent # {}) <=> Right
  BY <1>1 DEF Right
<1> QED
  BY <1>2 DEF StaleOnlyThrough, SavedRight

(* Asking a condition gives what it is, as far as the caches are right.    *)
LEMMA EvalRight ==
  ASSUME condition \in Cache, Right,
         NEW i \in Item, Plain[i], ReadsAny(Above[i]) \cap silent = {}
  PROVE  Eval[i] = Fresh(value)[i]
<1> DEFINE T == {x \in Item : Plain[x] /\ ReadsAny(Above[x]) \cap silent = {}
                              => Eval[x] = Fresh(value)[x]}
<1>1. ASSUME NEW x \in Item, \A j \in Item : Position[j] < Position[x] => j \in T
      PROVE  x \in T
  <2>1. SUFFICES ASSUME Plain[x], ReadsAny(Above[x]) \cap silent = {}
                 PROVE  Eval[x] = Fresh(value)[x]
    OBVIOUS
  <2>2. ASSUME NEW y \in Item, Position[y] < Position[x], Plain[y],
               ReadsAny(Above[y]) \subseteq ReadsAny(Above[x])
        PROVE  Eval[y] = Fresh(value)[y]
    BY <1>1, <2>1, <2>2
  <2>3. Eval[x] = EvalAt(Eval, x) /\ Fresh(value)[x] = FreshAt(value, Fresh(value), x)
    BY EvalDef, FreshDef DEF Cache
  <2>4. CASE condition[x] # Unknown
    BY <2>1, <2>3, <2>4 DEF Right, EvalAt
  <2>5. CASE condition[x] = Unknown
    <3>1. Parent[x] # Top => Eval[Parent[x]] = Fresh(value)[Parent[x]]
      BY <2>1, <2>2, PlainBelow, Earlier
    <3>2. Reference[x] # x => Eval[Reference[x]] = Fresh(value)[Reference[x]]
      BY <2>1, <2>2, PlainFirst, Earlier
    <3>3. \A j \in Reads[x] : Eval[j] = Fresh(value)[j] /\ value[j] = value[j]
      BY <2>1, <2>2, PlainBelow, Earlier
    <3>4. ItemHolds(x, Eval, value) = ItemHolds(x, Fresh(value), value)
      BY <3>3, ItemHoldsSame
    <3>5. FreshAt(value, Eval, x) = FreshAt(value, Fresh(value), x)
      BY <3>1, <3>2, <3>4 DEF FreshAt
    <3> QED
      BY <2>3, <2>5, <3>5 DEF EvalAt
  <2> QED
    BY <2>4, <2>5
<1> HIDE DEF T
<1>2. Item \subseteq T
  BY <1>1, ItemInduction
<1> QED
  BY <1>2 DEF T

(* invalidateDependentConditions reaches whatever reads the item.          *)
LEMMA Reached ==
  ASSUME NEW i \in Item, NEW c \in ReadsAny(Above[i])
  PROVE  Above[i] \cap Dependent(c) # {}
<1>1. PICK a \in Above[i] : c \in Reads[a]
  BY DEF ReadsAny
<1>2. a \in Item /\ Above[a] \subseteq Above[i]
  BY <1>1, AboveEarlier
<1>3. PICK b \in Above[a] : b \in Later(c) /\ c \in Mentions[b]
  BY <1>1, <1>2, ScopeAssumption
<1>4. ~(Parent[c] # Top /\ Parent[c] \in Array)
  BY <1>1, <1>2, ScopeAssumption
<1>5. b \in Dependent(c)
  BY <1>3, <1>4 DEF Dependent
<1> QED
  BY <1>2, <1>3, <1>5

LEMMA RightStep ==
  ASSUME TypeOK, Coherent(condition), Right, [Next]_vars
  PROVE  Right'
<1>1. /\ value \in [Control -> 0 .. 1] /\ condition \in Cache /\ Closed(condition)
      /\ silent \subseteq Control /\ Control \subseteq Item
  BY TypeIs, SchemaAssumption DEF Typed, Leaf
<1>2. ASSUME NEW items \in SUBSET Item, condition' = Evaluated(items), UNCHANGED <<value, silent>>
      PROVE  Right'
  <2>1. \A i \in Item : condition'[i] # Unknown => condition'[i] = Eval[i]
    BY <1>1, <1>2, EvaluatedFacts
  <2> QED
    BY <1>1, <1>2, <2>1, EvalRight DEF Right
<1>3. CASE \E i \in Item : Look(i)
  <2>1. PICK i \in Item : Look(i)
    BY <1>3
  <2>2. {i} \in SUBSET Item /\ condition' = Evaluated({i}) /\ UNCHANGED <<value, silent>>
    BY <2>1 DEF Look
  <2> QED
    BY <1>2, <2>2
<1>4. CASE \E c \in Control, v \in 0 .. 1 : SetData(c, v)
  <2>1. PICK c \in Control, v \in 0 .. 1 : SetData(c, v)
    BY <1>4
  <2>2. /\ condition' = Invalidated(Evaluated({c}), Dependent(c))
        /\ value' = [value EXCEPT ![c] = v] /\ silent' = silent
    BY <2>1 DEF SetData
  <2>3. {c} \in SUBSET Item
    BY <1>1
  <2>4. /\ Evaluated({c}) \in Cache /\ Closed(Evaluated({c}))
        /\ \A i \in Item : Evaluated({c})[i] # Unknown => Evaluated({c})[i] = Eval[i]
    BY <1>1, <2>3, EvaluatedFacts
  <2>5. ASSUME NEW i \in Item, condition'[i] # Unknown, Plain[i], ReadsAny(Above[i]) \cap silent' = {}
        PROVE  condition'[i] = Fresh(value')[i]
    <3>1. Above[i] \cap Dependent(c) = {} /\ condition'[i] = Evaluated({c})[i]
      BY <2>2, <2>4, <2>5, InvalidatedForgets
    <3>2. condition'[i] = Fresh(value)[i]
      BY <1>1, <2>2, <2>4, <2>5, <3>1, EvalRight
    <3>3. c \notin ReadsAny(Above[i])
      BY <3>1, Reached
    <3>4. \A j \in ReadsAny(Above[i]) : value[j] = value'[j]
      <4>1. ReadsAny(Above[i]) \subseteq Control
        BY AboveFacts, Earlier DEF ReadsAny
      <4> QED
        BY <1>1, <2>2, <3>3, <4>1
    <3>5. Fresh(value)[i] = Fresh(value')[i]
      BY <2>5, <3>4, FreshSame
    <3> QED
      BY <3>2, <3>5
  <2> QED
    BY <2>5 DEF Right
<1>5. ASSUME NEW i \in Item, Plain[i], ReadsAny(Above[i]) \cap silent' = {}, silent \subseteq silent',
             condition[i] # Unknown, \A j \in Control \ silent' : value'[j] = value[j]
      PROVE  condition[i] = Fresh(value')[i]
  <2>1. ReadsAny(Above[i]) \subseteq Control
    BY AboveFacts, Earlier DEF ReadsAny
  <2>2. \A j \in ReadsAny(Above[i]) : value[j] = value'[j]
    BY <1>5, <2>1
  <2>3. Fresh(value)[i] = Fresh(value')[i]
    BY <1>5, <2>2, FreshSame
  <2> QED
    BY <1>5, <2>3 DEF Right
<1>6. CASE \E items \in SUBSET Control : \E values \in [items -> 0 .. 1] : UndoMany(items, values)
  <2>1. PICK items \in SUBSET Control : \E values \in [items -> 0 .. 1] : UndoMany(items, values)
    BY <1>6
  <2>2. PICK values \in [items -> 0 .. 1] : UndoMany(items, values)
    BY <2>1
  <2>3. /\ value' = [i \in Control |-> IF i \in items THEN values[i] ELSE value[i]]
        /\ silent' = silent \cup items /\ condition' = condition
    BY <2>2 DEF UndoMany
  <2>4. \A j \in Control \ silent' : value'[j] = value[j]
    BY <2>3
  <2> QED
    BY <1>5, <2>3, <2>4 DEF Right
<1>7. CASE \E values \in [Control -> 0 .. 1], stop \in {None} \cup Breaks : Load(values, stop)
  <2>1. PICK values \in [Control -> 0 .. 1], stop \in {None} \cup Breaks : Load(values, stop)
    BY <1>7
  <2>2. \A i \in Item : condition'[i] # Unknown =>
          condition'[i] = Fresh(value')[i] \/ condition'[i] = condition[i]
    BY <2>1, LoadStep
  <2>3. CASE stop = None
    <3>1. \A i \in Item : condition'[i] # Unknown => condition'[i] = Fresh(value')[i]
      BY <2>1, <2>3, LoadStep
    <3> QED
      BY <3>1 DEF Right
  <2>4. CASE stop # None
    <3>1. /\ value' = [i \in Control |-> Input(values, stop)[i].value]
          /\ silent' = silent \cup {i \in Control : Before(i, stop)}
      BY <2>1, <2>4 DEF Load
    <3>2. ASSUME NEW j \in Control \ silent' PROVE value'[j] = value[j]
      <4>1. Input(values, stop)[j] = LoadAt(values, stop, Input(values, stop), j)
        BY <1>1, InputDef
      <4>2. ~Before(j, stop)
        BY <3>1
      <4>3. LoadAt(values, stop, Input(values, stop), j).value = value[j]
        BY <4>2 DEF LoadAt
      <4> QED
        BY <3>1, <4>1, <4>3
    <3> QED
      BY <1>5, <2>2, <3>1, <3>2 DEF Right
  <2> QED
    BY <2>3, <2>4
<1>8. CASE Save
  <2>1. /\ condition' = Evaluated({i \in Item : Parent[i] = Top \/ Eval[Parent[i]]})
        /\ UNCHANGED <<value, silent>>
    BY <1>8 DEF Save
  <2>2. {i \in Item : Parent[i] = Top \/ Eval[Parent[i]]} \in SUBSET Item
    OBVIOUS
  <2> QED
    BY <1>2, <2>1, <2>2
<1>9. CASE UNCHANGED vars
  BY <1>9 DEF vars, Right
<1> QED
  BY <1>3, <1>4, <1>6, <1>7, <1>8, <1>9 DEF Next

(* What a save takes for existing or not against the values, it has        *)
(* cached, or something above it.                                          *)
LEMMA SaveFollowsCaches ==
  ASSUME TypeOK, Coherent(condition), NEW i \in Item, Eval[i] # Fresh(value)[i]
  PROVE  LET after == Evaluated({x \in Item : Parent[x] = Top \/ Eval[Parent[x]]})
         IN \E a \in Above[i] : after[a] # Unknown /\ after[a] # Fresh(value)[a]
<1> DEFINE items == {x \in Item : Parent[x] = Top \/ Eval[Parent[x]]}
<1> DEFINE after == Evaluated(items)
<1> DEFINE T == {x \in Item : Eval[x] # Fresh(value)[x]
                   => \E a \in Above[x] : after[a] # Unknown /\ after[a] # Fresh(value)[a]}
<1>1. condition \in Cache /\ Closed(condition)
  BY TypeIs DEF Typed
<1>2. \A x \in items : after[x] = Eval[x]
  BY <1>1, EvaluatedFacts
<1>3. /\ Eval \in [Item -> BOOLEAN] /\ \A x \in Item : Eval[x] = EvalAt(Eval, x)
      /\ Fresh(value) \in [Item -> BOOLEAN]
      /\ \A x \in Item : Fresh(value)[x] = FreshAt(value, Fresh(value), x)
  BY <1>1, EvalDef, FreshDef DEF Cache
<1>4. \A x \in Item : x \in items <=> Parent[x] = Top \/ Eval[Parent[x]]
  OBVIOUS
<1> HIDE DEF after, items
<1>5. ASSUME NEW x \in Item, \A j \in Item : Position[j] < Position[x] => j \in T
      PROVE  x \in T
  <2>1. SUFFICES ASSUME Eval[x] # Fresh(value)[x]
                 PROVE  \E a \in Above[x] : after[a] # Unknown /\ after[a] # Fresh(value)[a]
    OBVIOUS
  <2>2. CASE x \in items
    BY <1>2, <1>3, <2>1, <2>2, AboveFacts, UnknownIsNoTruth
  <2>3. CASE x \notin items
    <3>1. Parent[x] # Top /\ Parent[x] \in Item /\ ~Eval[Parent[x]] /\ Parent[x] \in T
      BY <1>4, <1>5, <2>3, Earlier
    <3>2. Eval[x] = FALSE
      <4>1. CASE condition[x] = Unknown
        <5>1. EvalAt(Eval, x) = FreshAt(value, Eval, x)
          BY <4>1 DEF EvalAt
        <5>2. FreshAt(value, Eval, x) => Eval[Parent[x]]
          BY <3>1 DEF FreshAt
        <5> QED
          BY <1>3, <3>1, <5>1, <5>2
      <4>2. CASE condition[x] # Unknown
        <5>1. Eval[x] = condition[x]
          BY <1>3, <4>2 DEF EvalAt
        <5>2. condition[x] = TRUE => Eval[Parent[x]] = TRUE
          BY <1>3, <3>1, UnknownIsNoTruth DEF Coherent, EvalAt
        <5> QED
          BY <1>3, <3>1, <5>1, <5>2
      <4> QED
        BY <4>1, <4>2
    <3>3. Fresh(value)[x]
      BY <1>3, <2>1, <3>2
    <3>4. Fresh(value)[Parent[x]]
      BY <1>3, <3>1, <3>3 DEF FreshAt
    <3>5. Eval[Parent[x]] # Fresh(value)[Parent[x]]
      BY <3>1, <3>4
    <3>6. PICK a \in Above[Parent[x]] : after[a] # Unknown /\ after[a] # Fresh(value)[a]
      BY <3>1, <3>5
    <3> QED
      BY <3>1, <3>6, AboveFacts
  <2> QED
    BY <2>2, <2>3
<1> HIDE DEF T
<1>6. Item \subseteq T
  BY <1>5, ItemInduction
<1> QED
  BY <1>6 DEF T, after, items

LEMMA SavedRightStep ==
  ASSUME TypeOK, Coherent(condition), SavedRight, [Next]_vars
  PROVE  SavedRight'
<1>1. ASSUME moved' = None \/ moved'.did = "load" PROVE SavedRight'
  BY <1>1 DEF SavedRight
<1>2. CASE \E i \in Item : Look(i)
  BY <1>1, <1>2 DEF Look
<1>3. CASE \E i \in Control, v \in 0 .. 1 : SetData(i, v)
  BY <1>1, <1>3 DEF SetData
<1>4. CASE \E items \in SUBSET Control : \E values \in [items -> 0 .. 1] : UndoMany(items, values)
  BY <1>1, <1>4 DEF UndoMany
<1>5. CASE \E values \in [Control -> 0 .. 1], stop \in {None} \cup Breaks : Load(values, stop)
  <2>1. PICK values \in [Control -> 0 .. 1], stop \in {None} \cup Breaks : Load(values, stop)
    BY <1>5
  <2>2. moved' = IF stop # None THEN None
                 ELSE [did |-> "load", items |-> {i \in Leaf : Input(values, stop)[i].present}]
    BY <2>1 DEF Load
  <2>3. moved' = None \/ moved'.did = "load"
    BY <2>2
  <2> QED
    BY <1>1, <2>3
<1>6. CASE Save
  <2>1. /\ condition' = Evaluated({x \in Item : Parent[x] = Top \/ Eval[Parent[x]]})
        /\ moved' = [did |-> "save", items |-> {i \in Leaf : Eval[i]}]
        /\ value' = value
    BY <1>6 DEF Save
  <2>2. ASSUME NEW i \in Leaf, (i \in moved'.items) # Fresh(value')[i]
        PROVE  Above[i] \cap Stale' # {}
    <3>1. i \in Item /\ (i \in moved'.items <=> Eval[i])
      BY <2>1 DEF Leaf
    <3>2. Eval \in [Item -> BOOLEAN] /\ Fresh(value) \in [Item -> BOOLEAN]
      BY TypeIs, EvalDef, FreshDef DEF Typed, Cache
    <3>3. Eval[i] # Fresh(value)[i]
      BY <2>1, <2>2, <3>1, <3>2
    <3>4. PICK a \in Above[i] : condition'[a] # Unknown /\ condition'[a] # Fresh(value)[a]
      BY <2>1, <3>1, <3>3, SaveFollowsCaches
    <3>5. a \in Stale'
      BY <2>1, <3>1, <3>4, AboveFacts DEF Stale
    <3> QED
      BY <3>4, <3>5
  <2> QED
    BY <2>2 DEF SavedRight
<1>7. CASE UNCHANGED vars
  <2>1. Stale' = Stale
    BY <1>7 DEF vars, Stale
  <2> QED
    BY <1>7, <2>1 DEF vars, SavedRight
<1> QED
  BY <1>2, <1>3, <1>4, <1>5, <1>6, <1>7 DEF Next

(* StaleOnlyThrough always holds: for every schema in which a condition    *)
(* names earlier siblings and ARG, a change of one value resets every      *)
(* condition that depends on it (nifmodel.cpp 2495-2519), so that a cached *)
(* condition is wrong only after an undo of several values, after a load   *)
(* that broke off, or where it reads a field that may not exist; and a     *)
(* save goes wrong only there.                                             *)
THEOREM ConditionsStaleOnlyThrough == Spec => []StaleOnlyThrough
<1>1. Init => Right /\ SavedRight
  BY DEF Init, Right, SavedRight
<1>2. TypeOK /\ Coherent(condition) /\ Right /\ SavedRight /\ [Next]_vars
        => (TypeOK /\ Coherent(condition) /\ Right /\ SavedRight)'
  BY TypeStep, RightStep, SavedRightStep
<1> QED
  BY <1>1, <1>2, TypeInit, StaleOnlyThroughIs, PTL DEF Spec
=============================================================================
