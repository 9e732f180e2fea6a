---------------------------- MODULE SceneProofs ----------------------------
(***************************************************************************)
(* The objects of the 3D view, for any blocks and any document without     *)
(* cycles of links.                                                        *)
(*                                                                         *)
(* The invariant has three parts.  The scene is sound: what a list holds   *)
(* is an object, and each object counts its lists.  No node is below       *)
(* itself, so that Scene::clear leaves nothing.  And a scene that waits    *)
(* for no paint is painted: it has the nodes, roots, properties and        *)
(* children of the document.                                               *)
(*                                                                         *)
(* An update is followed from step to step, within one another and one     *)
(* after the other, by the relation Grows.  It says what any scene has in  *)
(* the end, and what a tidy scene has, whose nodes are children of their   *)
(* parents only.  That the updates of new nodes within one another come to *)
(* an end is by induction on the blocks that have no node yet.             *)
(***************************************************************************)
EXTENDS Scene, FunctionTheorems, FiniteSetTheorems, SequenceTheorems, WellFoundedInduction, TLAPS

-----------------------------------------------------------------------------
(* Induction over numbers, and functions defined by it.                    *)

(* A set of numbers has a least one.                                       *)
LEMMA LeastNumber ==
  ASSUME NEW T \in SUBSET Nat, T # {}
  PROVE  \E x \in T : \A y \in T : x <= y
<1>1. IsWellFoundedOn(OpToRel(<, Nat), Nat)
  BY NatLessThanWellFounded
<1>2. PICK x \in T : \A y \in T : ~ (<<y, x>> \in OpToRel(<, Nat))
  BY <1>1, WFMin
<1>3. \A y \in T : ~ (y < x)
  BY <1>2 DEF OpToRel
<1> QED
  BY <1>3

(* Induction: sets of numbers stand for the properties of numbers.         *)
LEMMA SetInduction ==
  ASSUME NEW T, 0 \in T, \A n \in Nat : n \in T => n + 1 \in T
  PROVE  Nat \subseteq T
<1> SUFFICES ASSUME Nat \ T # {} PROVE FALSE
  OBVIOUS
<1>1. PICK x \in Nat \ T : \A y \in Nat \ T : x <= y
  BY LeastNumber
<1>2. x # 0 /\ x - 1 \in Nat /\ x - 1 \in T
  BY <1>1
<1> QED
  BY <1>1, <1>2

(* The same up to a bound.                                                 *)
LEMMA BoundedInduction ==
  ASSUME NEW n \in Nat, NEW T, 0 \in T, \A i \in 1 .. n : i - 1 \in T => i \in T
  PROVE  0 .. n \subseteq T
<1> DEFINE U == {i \in Nat : i <= n => i \in T}
<1>1. ASSUME NEW i \in Nat, i \in U PROVE i + 1 \in U
  <2> SUFFICES ASSUME i + 1 <= n PROVE i + 1 \in T
    OBVIOUS
  <2>1. i + 1 \in 1 .. n /\ (i + 1) - 1 = i /\ i \in T
    BY <1>1
  <2> QED
    BY <2>1
<1>2. 0 \in U
  OBVIOUS
<1>3. Nat \subseteq U
  <2> HIDE DEF U
  <2> QED
    BY <1>1, <1>2, SetInduction
<1> QED
  BY <1>3

(* A function that is defined by recursion over 0 .. n.                    *)
Recurses(f, n, s0, step) == f[0] = s0 /\ \A i \in 1 .. n : f[i] = step[i][f[i - 1]]

(* There is one such function.                                             *)
LEMMA RecursionExists ==
  ASSUME NEW n \in Nat, NEW S, NEW s0 \in S, NEW step \in [1 .. n -> [S -> S]]
  PROVE  \E f \in [0 .. n -> S] : Recurses(f, n, s0, step)
<1> DEFINE Good(m) == \E f \in [0 .. m -> S] :
                         f[0] = s0 /\ \A i \in 1 .. m : f[i] = step[i][f[i - 1]]
           T == {m \in Nat : m <= n => Good(m)}
<1>1. 0 \in T
  <2> DEFINE f == [i \in 0 .. 0 |-> s0]
  <2>1. f \in [0 .. 0 -> S] /\ f[0] = s0 /\ \A i \in 1 .. 0 : f[i] = step[i][f[i - 1]]
    OBVIOUS
  <2>2. Good(0)
    BY <2>1
  <2> QED
    BY <2>2
<1>2. ASSUME NEW m \in Nat, m \in T PROVE m + 1 \in T
  <2> SUFFICES ASSUME m + 1 <= n PROVE Good(m + 1)
    OBVIOUS
  <2>1. PICK f \in [0 .. m -> S] : f[0] = s0 /\ \A i \in 1 .. m : f[i] = step[i][f[i - 1]]
    BY <1>2
  <2> DEFINE g == [i \in 0 .. m + 1 |-> IF i = m + 1 THEN step[m + 1][f[m]] ELSE f[i]]
  <2>2. g \in [0 .. m + 1 -> S]
    BY <2>1
  <2>3. g[0] = s0 /\ \A i \in 1 .. m + 1 : g[i] = step[i][g[i - 1]]
    BY <2>1
  <2> QED
    BY <2>2, <2>3
<1> HIDE DEF T
<1>3. n \in T
  BY <1>1, <1>2, SetInduction
<1> QED
  BY <1>3 DEF T, Recurses

(* Append adds an element to a sequence and to its set.                    *)
LEMMA AppendSet ==
  ASSUME NEW S, NEW s \in Seq(S), NEW e \in S
  PROVE  Append(s, e) \in Seq(S) /\ ToSet(Append(s, e)) = ToSet(s) \cup {e}
<1>1. /\ Append(s, e) \in Seq(S) /\ Len(Append(s, e)) = Len(s) + 1 /\ Len(s) \in Nat
      /\ \A i \in 1 .. Len(s) : Append(s, e)[i] = s[i]
      /\ Append(s, e)[Len(s) + 1] = e
  BY AppendProperties
<1>2. DOMAIN s = 1 .. Len(s) /\ DOMAIN Append(s, e) = 1 .. Len(s) + 1
  BY <1>1
<1> QED
  BY <1>1, <1>2 DEF ToSet

-----------------------------------------------------------------------------
(* What the lists hold.                                                    *)

Nodes(s) == ToSet(s.nodes)

Count(s, b) ==
  Cardinality(Owners(s, b)) + Cardinality({b} \cap Nodes(s))
  + Cardinality({b} \cap s.roots) + Cardinality({b} \cap s.props)

(* The objects are those of the lists, but for the counts.                 *)
WellLinked(s) ==
  /\ s \in Scenes /\ IsInjective(s.nodes)
  /\ \A n \in NodeBlock : s.parent[n] \in Objects(s) \cup {NoNode, Dangling}
  /\ \A n \in NodeBlock \ Objects(s) :
       s.children[n] = {} /\ s.properties[n] = {} /\ s.parent[n] = NoNode

(* Each object counts its lists, and once more if it is to be dropped.     *)
Counted(s, dropped) ==
  \A b \in Block : s.ref[b] = Count(s, b) + Cardinality({b} \cap dropped)

Sound(s) == WellLinked(s) /\ Counted(s, {})

(* How often a set has b.                                                  *)
LEMMA OneOf ==
  ASSUME NEW b, NEW S
  PROVE  /\ Cardinality({b} \cap S) = IF b \in S THEN 1 ELSE 0
         /\ Cardinality({b} \ S) = IF b \in S THEN 0 ELSE 1
         /\ Cardinality({b} \cap S) \in Nat
<1>1. ({b} \cap S = IF b \in S THEN {b} ELSE {}) /\ ({b} \ S = IF b \in S THEN {} ELSE {b})
  OBVIOUS
<1>2. Cardinality({b}) = 1
  BY FS_Singleton
<1>3. Cardinality({}) = 0
  BY FS_EmptySet
<1>4. Cardinality({b} \cap S) = IF b \in S THEN 1 ELSE 0
  BY <1>1, <1>2, <1>3
<1>5. Cardinality({b} \cap S) \in Nat
  BY <1>4
<1> QED
  BY <1>1, <1>2, <1>3, <1>4, <1>5

(* The blocks are finitely many, of two kinds.                             *)
LEMMA Kinds ==
  /\ IsFiniteSet(NodeBlock) /\ IsFiniteSet(PropertyBlock) /\ IsFiniteSet(Block)
  /\ NodeBlock \subseteq Block /\ PropertyBlock \subseteq Block
  /\ NodeBlock \cap PropertyBlock = {}
  /\ NoNode \notin Block /\ Dangling \notin Block /\ NoNode # Dangling
<1>1. NodeBlock \in SUBSET Block /\ PropertyBlock \in SUBSET Block
  BY DEF Block
<1>2. IsFiniteSet(NodeBlock) /\ IsFiniteSet(PropertyBlock)
  BY <1>1, KindAssumption, FS_Subset
<1> QED
  BY <1>1, <1>2, KindAssumption

(* The types of the fields of a scene.                                     *)
LEMMA Fields ==
  ASSUME NEW s \in Scenes
  PROVE  /\ s.nodes \in Seq(NodeBlock) /\ Nodes(s) \subseteq NodeBlock
         /\ s.props \in SUBSET PropertyBlock
         /\ s.roots \in SUBSET NodeBlock
         /\ s.children \in [NodeBlock -> SUBSET NodeBlock]
         /\ s.properties \in [NodeBlock -> SUBSET PropertyBlock]
         /\ s.parent \in [NodeBlock -> NodeBlock \cup {NoNode, Dangling}]
         /\ s.ref \in [Block -> Int]
         /\ s.fault \in BOOLEAN
<1>1. s.nodes \in Seq(NodeBlock)
  BY DEF Scenes
<1>2. Nodes(s) \subseteq NodeBlock
  BY <1>1 DEF Nodes, ToSet
<1> QED
  BY <1>1, <1>2 DEF Scenes

(* Counts of the owners of an object, all or those of a set.               *)
LEMMA OwnerCounts ==
  ASSUME NEW s, NEW b, NEW S
  PROVE  /\ Owners(s, b) \cap S \in SUBSET NodeBlock
         /\ IsFiniteSet(Owners(s, b)) /\ IsFiniteSet(Owners(s, b) \cap S)
         /\ Cardinality(Owners(s, b)) \in Nat /\ Cardinality(Owners(s, b) \cap S) \in Nat
         /\ Cardinality(Owners(s, b) \cap S) <= Cardinality(Owners(s, b))
         /\ Cardinality(Owners(s, b) \cap S) = Cardinality(Owners(s, b)) => Owners(s, b) \subseteq S
         /\ Cardinality(Owners(s, b) \ S) = Cardinality(Owners(s, b)) - Cardinality(Owners(s, b) \cap S)
         /\ Cardinality(Owners(s, b)) = 0 <=> Owners(s, b) = {}
<1> DEFINE O == Owners(s, b)
<1>1. O \in SUBSET NodeBlock
  BY DEF Owners
<1> HIDE DEF O
<1>2. IsFiniteSet(O) /\ O \cap S \in SUBSET O
  BY <1>1, Kinds, FS_Subset
<1>3. IsFiniteSet(O \cap S) /\ Cardinality(O \cap S) <= Cardinality(O)
      /\ (Cardinality(O) = Cardinality(O \cap S) => O = O \cap S)
  BY <1>2, FS_Subset
<1>4. Cardinality(O) \in Nat /\ Cardinality(O \cap S) \in Nat
  BY <1>2, <1>3, FS_CardinalityType
<1>5. Cardinality(O \ S) = Cardinality(O) - Cardinality(O \cap S)
  BY <1>2, FS_Difference
<1>6. Cardinality(O) = 0 <=> O = {}
  BY <1>2, FS_EmptySet
<1> QED
  BY <1>1, <1>2, <1>3, <1>4, <1>5, <1>6 DEF O

(* Count by cases.                                                         *)
LEMMA CountFacts ==
  ASSUME NEW s, NEW b
  PROVE  /\ Count(s, b) \in Nat
         /\ Count(s, b) = Cardinality(Owners(s, b)) + (IF b \in Nodes(s) THEN 1 ELSE 0)
                          + (IF b \in s.roots THEN 1 ELSE 0) + (IF b \in s.props THEN 1 ELSE 0)
         /\ Cardinality(Owners(s, b)) \in Nat
         /\ Count(s, b) = 0 <=> Owners(s, b) = {} /\ b \notin Nodes(s) \cup s.roots \cup s.props
<1>1. Count(s, b) = Cardinality(Owners(s, b)) + (IF b \in Nodes(s) THEN 1 ELSE 0)
                    + (IF b \in s.roots THEN 1 ELSE 0) + (IF b \in s.props THEN 1 ELSE 0)
  <2>1. /\ Cardinality({b} \cap Nodes(s)) = IF b \in Nodes(s) THEN 1 ELSE 0
        /\ Cardinality({b} \cap s.roots) = IF b \in s.roots THEN 1 ELSE 0
        /\ Cardinality({b} \cap s.props) = IF b \in s.props THEN 1 ELSE 0
    BY OneOf
  <2> QED
    BY <2>1 DEF Count
<1>2. Cardinality(Owners(s, b)) \in Nat /\ (Cardinality(Owners(s, b)) = 0 <=> Owners(s, b) = {})
  BY OwnerCounts
<1> QED
  BY <1>1, <1>2

(* What is counted by a list is an object, and the other way round.        *)
LEMMA ObjectsListed ==
  ASSUME NEW s, Sound(s)
  PROVE  Objects(s) = {b \in Block : Owners(s, b) # {} \/ b \in Nodes(s) \cup s.roots \cup s.props}
<1>1. \A b \in Block : s.ref[b] = Count(s, b)
  <2>1. \A b \in Block : Cardinality({b} \cap {}) = 0 /\ Count(s, b) \in Nat
    BY OneOf, CountFacts
  <2> QED
    BY <2>1 DEF Sound, Counted
<1> QED
  BY <1>1, CountFacts DEF Objects

(* What a list of a sound scene holds is an object of the kind.            *)
LEMMA ListedObjects ==
  ASSUME NEW s, Sound(s)
  PROVE  /\ Nodes(s) \cup s.roots \subseteq NodeBlock \cap Objects(s)
         /\ s.props \subseteq PropertyBlock \cap Objects(s)
         /\ \A n \in NodeBlock : /\ s.children[n] \subseteq NodeBlock \cap Objects(s)
                                 /\ s.properties[n] \subseteq PropertyBlock \cap Objects(s)
<1>1. s \in Scenes
  BY DEF Sound, WellLinked
<1> QED
  BY <1>1, ObjectsListed, Fields, Kinds DEF Owners

-----------------------------------------------------------------------------
(* Releasing objects.                                                      *)

(* The set of deleted objects is complete, and has no other one.           *)
LEMMA DeletedProperties ==
  ASSUME NEW s \in Scenes, NEW dropped
  PROVE  /\ Deleted(s, dropped) \in SUBSET Objects(s)
         /\ \A b \in Objects(s) : b \in Deleted(s, dropped)
               <=> s.ref[b] <= Losses(s, dropped, Deleted(s, dropped), b)
         /\ (\A b \in Objects(s) : ~ (s.ref[b] <= Losses(s, dropped, {}, b)))
               => Deleted(s, dropped) = {}
<1> DEFINE Complete(S) == \A b \in Objects(s) : s.ref[b] <= Losses(s, dropped, S, b) => b \in S
           All == {S \in SUBSET Objects(s) : Complete(S)}
           least == {b \in Objects(s) : \A S \in All : b \in S}
           D == Deleted(s, dropped)
<1>m. ASSUME NEW S, NEW T, S \subseteq T, NEW b
      PROVE  Losses(s, dropped, S, b) <= Losses(s, dropped, T, b)
             /\ Losses(s, dropped, S, b) \in Nat /\ Losses(s, dropped, T, b) \in Nat
  <2>1. IsFiniteSet(Owners(s, b) \cap T) /\ Owners(s, b) \cap S \in SUBSET (Owners(s, b) \cap T)
    BY <1>m, OwnerCounts
  <2>2. Cardinality(Owners(s, b) \cap S) <= Cardinality(Owners(s, b) \cap T)
    BY <2>1, FS_Subset
  <2>3. Cardinality({b} \cap dropped) \in Nat
    BY OneOf
  <2>4. Cardinality(Owners(s, b) \cap S) \in Nat /\ Cardinality(Owners(s, b) \cap T) \in Nat
    BY OwnerCounts
  <2> QED
    BY <2>2, <2>3, <2>4 DEF Losses
<1>i. \A b \in Objects(s) : s.ref[b] \in Int
  BY Fields DEF Objects
<1>1. Objects(s) \in All
  OBVIOUS
<1>2. Complete(least)
  <2> SUFFICES ASSUME NEW b \in Objects(s), s.ref[b] <= Losses(s, dropped, least, b),
                      NEW S \in All
               PROVE  b \in S
    OBVIOUS
  <2>1. least \subseteq S
    OBVIOUS
  <2>2. s.ref[b] <= Losses(s, dropped, S, b)
    BY <2>1, <1>m, <1>i
  <2> QED
    BY <2>2
<1>3. least \in SUBSET Objects(s) /\ \A T \in SUBSET least : Complete(T) => T = least
  OBVIOUS
<1>4. D \in SUBSET Objects(s) /\ Complete(D) /\ \A T \in SUBSET D : Complete(T) => T = D
  <2> HIDE DEF least, All
  <2> QED
    BY <1>2, <1>3 DEF Deleted
<1> HIDE DEF D
<1> DEFINE next == {b \in Objects(s) : s.ref[b] <= Losses(s, dropped, D, b)}
<1>5. next \subseteq D
  BY <1>4
<1>6. Complete(next)
  <2> SUFFICES ASSUME NEW b \in Objects(s), s.ref[b] <= Losses(s, dropped, next, b)
               PROVE  s.ref[b] <= Losses(s, dropped, D, b)
    OBVIOUS
  <2> QED
    BY <1>5, <1>m, <1>i
<1>7. next = D
  BY <1>4, <1>5, <1>6
<1>8. (\A b \in Objects(s) : ~ (s.ref[b] <= Losses(s, dropped, {}, b))) => D = {}
  BY <1>4
<1> QED
  BY <1>4, <1>7, <1>8 DEF D

(* The fields after objects are dropped.                                   *)
LEMMA ReleasedFields ==
  ASSUME NEW s \in Scenes, NEW dropped
  PROVE  LET t == AllReleased(s, dropped)
             D == Deleted(s, dropped)
         IN /\ t \in Scenes
            /\ t.nodes = s.nodes /\ t.props = s.props /\ t.roots = s.roots /\ t.fault = s.fault
            /\ t.ref = [b \in Block |-> IF b \in D THEN 0 ELSE s.ref[b] - Losses(s, dropped, D, b)]
            /\ t.children = [n \in NodeBlock |-> IF n \in D THEN {} ELSE s.children[n]]
            /\ t.properties = [n \in NodeBlock |-> IF n \in D THEN {} ELSE s.properties[n]]
            /\ t.parent = [n \in NodeBlock |-> IF n \in D THEN NoNode
                                               ELSE IF s.parent[n] \in D THEN Dangling ELSE s.parent[n]]
<1> DEFINE D == Deleted(s, dropped)
           t == AllReleased(s, dropped)
<1>3. t = Without(s, dropped, D)
  BY DEF AllReleased, Release
<1> HIDE DEF D, t
<1> DEFINE ref == [b \in Block |-> IF b \in D THEN 0 ELSE s.ref[b] - Losses(s, dropped, D, b)]
           children == [n \in NodeBlock |-> IF n \in D THEN {} ELSE s.children[n]]
           properties == [n \in NodeBlock |-> IF n \in D THEN {} ELSE s.properties[n]]
           old == [n \in NodeBlock |-> IF s.parent[n] \in D THEN Dangling ELSE s.parent[n]]
           parent == [n \in NodeBlock |-> IF n \in D THEN NoNode ELSE old[n]]
<1>4. t = [s EXCEPT !.ref = ref, !.children = children, !.properties = properties, !.parent = parent]
  BY <1>3, Zenon DEF Without
<1>5. ref \in [Block -> Int]
  <2> SUFFICES ASSUME NEW b \in Block
               PROVE  (IF b \in D THEN 0 ELSE s.ref[b] - Losses(s, dropped, D, b)) \in Int
    OBVIOUS
  <2>1. Cardinality({b} \cap dropped) \in Nat /\ Cardinality(Owners(s, b) \cap D) \in Nat
    BY OneOf, OwnerCounts, Zenon
  <2>2. s.ref[b] \in Int
    BY Fields
  <2> QED
    BY <2>1, <2>2 DEF Losses
<1>6. /\ children \in [NodeBlock -> SUBSET NodeBlock]
      /\ properties \in [NodeBlock -> SUBSET PropertyBlock]
      /\ parent \in [NodeBlock -> NodeBlock \cup {NoNode, Dangling}]
  <2>1. /\ s.children \in [NodeBlock -> SUBSET NodeBlock]
        /\ s.properties \in [NodeBlock -> SUBSET PropertyBlock]
        /\ s.parent \in [NodeBlock -> NodeBlock \cup {NoNode, Dangling}]
    BY Fields
  <2> QED
    BY <2>1
<1> HIDE DEF ref, children, properties, parent
<1>9. /\ t \in Scenes
      /\ t.nodes = s.nodes /\ t.props = s.props /\ t.roots = s.roots /\ t.fault = s.fault
      /\ t.ref = ref /\ t.children = children /\ t.properties = properties /\ t.parent = parent
  BY <1>4, <1>5, <1>6 DEF Scenes
<1> QED
  BY <1>9 DEF D, t, ref, children, properties, parent

(* From s to t objects are dropped, and those no list holds are deleted.   *)
Drops(s, t) ==
  /\ t.nodes = s.nodes /\ t.props = s.props /\ t.roots = s.roots /\ t.fault = s.fault
  /\ Objects(t) \subseteq Objects(s)
  /\ \A n \in NodeBlock \cap Objects(t) :
       /\ t.children[n] = s.children[n] /\ t.properties[n] = s.properties[n]
       /\ \/ t.parent[n] = s.parent[n]
          \/ s.parent[n] \in NodeBlock \ Objects(t) /\ t.parent[n] = Dangling

(* Objects are dropped that are counted once too often: now none is.       *)
LEMMA ReleasedSound ==
  ASSUME NEW s, NEW dropped \in SUBSET Block, WellLinked(s), Counted(s, dropped)
  PROVE  Sound(AllReleased(s, dropped)) /\ Drops(s, AllReleased(s, dropped))
<1> DEFINE D == Deleted(s, dropped)
           t == AllReleased(s, dropped)
<1>1. s \in Scenes
  BY DEF WellLinked
<1>2. D \in SUBSET Objects(s) /\ \A b \in Objects(s) : b \in D <=> s.ref[b] <= Losses(s, dropped, D, b)
  BY <1>1, DeletedProperties
<1>o. Objects(s) \subseteq Block
  BY DEF Objects
<1>7. /\ t \in Scenes
      /\ t.nodes = s.nodes /\ t.props = s.props /\ t.roots = s.roots /\ t.fault = s.fault
      /\ t.ref = [b \in Block |-> IF b \in D THEN 0 ELSE s.ref[b] - Losses(s, dropped, D, b)]
      /\ t.children = [n \in NodeBlock |-> IF n \in D THEN {} ELSE s.children[n]]
      /\ t.properties = [n \in NodeBlock |-> IF n \in D THEN {} ELSE s.properties[n]]
      /\ t.parent = [n \in NodeBlock |-> IF n \in D THEN NoNode
                                         ELSE IF s.parent[n] \in D THEN Dangling ELSE s.parent[n]]
  BY <1>1, ReleasedFields
<1> HIDE DEF D, t
<1>8. \A b \in Block : /\ Losses(s, dropped, D, b) \in Nat
                       /\ Losses(s, dropped, D, b) = (IF b \in dropped THEN 1 ELSE 0)
                                                     + Cardinality(Owners(s, b) \cap D)
  <2> SUFFICES ASSUME NEW b \in Block
               PROVE  /\ Losses(s, dropped, D, b) \in Nat
                      /\ Losses(s, dropped, D, b) = (IF b \in dropped THEN 1 ELSE 0)
                                                    + Cardinality(Owners(s, b) \cap D)
    OBVIOUS
  <2>1. Cardinality({b} \cap dropped) = (IF b \in dropped THEN 1 ELSE 0)
        /\ Cardinality(Owners(s, b) \cap D) \in Nat
    BY OneOf, OwnerCounts
  <2> QED
    BY <2>1 DEF Losses
<1>10. \A b \in Block : s.ref[b] = Count(s, b) + (IF b \in dropped THEN 1 ELSE 0) /\ s.ref[b] \in Nat
  <2> SUFFICES ASSUME NEW b \in Block
               PROVE  s.ref[b] = Count(s, b) + (IF b \in dropped THEN 1 ELSE 0) /\ s.ref[b] \in Nat
    OBVIOUS
  <2>1. Cardinality({b} \cap dropped) = (IF b \in dropped THEN 1 ELSE 0) /\ Count(s, b) \in Nat
    BY OneOf, CountFacts
  <2> QED
    BY <2>1 DEF Counted
<1>11. Nodes(t) = Nodes(s)
  BY <1>7 DEF Nodes
<1>12. \A b \in Block : Owners(t, b) = Owners(s, b) \ D
  BY <1>7 DEF Owners
<1>13. \A b \in Block \ Objects(s) : Losses(s, dropped, D, b) = 0
  <2> SUFFICES ASSUME NEW b \in Block \ Objects(s) PROVE Losses(s, dropped, D, b) = 0
    OBVIOUS
  <2>1. s.ref[b] = 0 /\ Count(s, b) = 0 /\ b \notin dropped
    BY <1>10, CountFacts DEF Objects
  <2>2. Owners(s, b) = {}
    BY <2>1, CountFacts
  <2> QED
    BY <1>8, <2>1, <2>2, FS_EmptySet
<1>14. Objects(t) = Objects(s) \ D
  <2>1. ASSUME NEW b \in Block PROVE t.ref[b] > 0 <=> b \in Objects(s) \ D
    <3>1. /\ s.ref[b] \in Nat /\ Losses(s, dropped, D, b) \in Nat
          /\ t.ref[b] = IF b \in D THEN 0 ELSE s.ref[b] - Losses(s, dropped, D, b)
      BY <1>7, <1>8, <1>10
    <3>2. CASE b \in Objects(s)
      BY <1>2, <3>1, <3>2
    <3>3. CASE b \notin Objects(s)
      <4>1. s.ref[b] = 0 /\ Losses(s, dropped, D, b) = 0
        BY <1>13, <3>1, <3>3 DEF Objects
      <4> QED
        BY <3>1, <3>3, <4>1
    <3> QED
      BY <3>2, <3>3
  <2> QED
    BY <2>1 DEF Objects
<1>15. \A b \in Block : t.ref[b] = Count(t, b)
  <2> SUFFICES ASSUME NEW b \in Block PROVE t.ref[b] = Count(t, b)
    OBVIOUS
  <2> DEFINE lost == Cardinality(Owners(s, b) \cap D)
             kept == Cardinality(Owners(s, b))
             lists == (IF b \in Nodes(s) THEN 1 ELSE 0) + (IF b \in s.roots THEN 1 ELSE 0)
                      + (IF b \in s.props THEN 1 ELSE 0)
  <2>1. lost \in Nat /\ kept \in Nat /\ lost <= kept /\ lists \in Nat
        /\ Cardinality(Owners(t, b)) = kept - lost
    <3>1. Owners(t, b) = Owners(s, b) \ D
      BY <1>12
    <3>2. lost \in Nat /\ kept \in Nat /\ lost <= kept
      BY OwnerCounts
    <3>3. Cardinality(Owners(s, b) \ D) = kept - lost
      BY OwnerCounts
    <3>4. lists \in Nat
      OBVIOUS
    <3> QED
      BY <3>1, <3>2, <3>3, <3>4
  <2>2. Count(s, b) = kept + lists /\ Count(t, b) = kept - lost + lists
    BY <1>7, <1>11, <2>1, CountFacts
  <2>3. s.ref[b] = Count(s, b) + (IF b \in dropped THEN 1 ELSE 0)
        /\ Losses(s, dropped, D, b) = (IF b \in dropped THEN 1 ELSE 0) + lost
    BY <1>8, <1>10
  <2> HIDE DEF lost, kept, lists
  <2>4. CASE b \notin D
    <3>1. t.ref[b] = s.ref[b] - Losses(s, dropped, D, b)
      BY <1>7, <2>4
    <3> QED
      BY <2>1, <2>2, <2>3, <3>1
  <2>5. CASE b \in D
    <3>1. t.ref[b] = 0 /\ s.ref[b] <= Losses(s, dropped, D, b)
      BY <1>2, <1>7, <2>5
    <3> QED
      BY <2>1, <2>2, <2>3, <3>1
  <2> QED
    BY <2>4, <2>5
<1>16. \A n \in NodeBlock : t.parent[n] \in Objects(t) \cup {NoNode, Dangling}
  BY <1>7, <1>14 DEF WellLinked
<1>17. \A n \in NodeBlock \ Objects(t) :
         t.children[n] = {} /\ t.properties[n] = {} /\ t.parent[n] = NoNode
  <2> SUFFICES ASSUME NEW n \in NodeBlock \ Objects(t)
               PROVE  t.children[n] = {} /\ t.properties[n] = {} /\ t.parent[n] = NoNode
    OBVIOUS
  <2>1. CASE n \in D
    BY <1>7, <2>1
  <2>2. CASE n \notin D
    <3>1. s.children[n] = {} /\ s.properties[n] = {} /\ s.parent[n] = NoNode
      BY <1>14, <2>2 DEF WellLinked
    <3>2. NoNode \notin D
      BY <1>2, <1>o, Kinds
    <3> QED
      BY <1>7, <2>2, <3>1, <3>2
  <2> QED
    BY <2>1, <2>2
<1>18. Sound(t)
  <2>1. Counted(t, {})
    <3> SUFFICES ASSUME NEW b \in Block PROVE t.ref[b] = Count(t, b) + Cardinality({b} \cap {})
      BY DEF Counted
    <3>1. Cardinality({b} \cap {}) = 0 /\ Count(t, b) \in Nat
      BY OneOf, CountFacts
    <3> QED
      BY <1>15, <3>1
  <2>2. IsInjective(t.nodes)
    BY <1>7 DEF WellLinked
  <2> QED
    BY <1>7, <1>16, <1>17, <2>1, <2>2 DEF Sound, WellLinked
<1>19. Drops(s, t)
  <2>1. \A n \in NodeBlock \cap Objects(t) : s.parent[n] \in D => s.parent[n] \in NodeBlock \ Objects(t)
    BY <1>1, <1>2, <1>14, <1>o, Fields, Kinds
  <2> QED
    BY <1>7, <1>14, <2>1 DEF Drops
<1> QED
  BY <1>18, <1>19 DEF t

(* Objects that are in a list still are not deleted.                       *)
LEMMA ReleasedHeld ==
  ASSUME NEW s, NEW dropped \in SUBSET Block, WellLinked(s), Counted(s, dropped),
         \A b \in dropped : Count(s, b) > 0
  PROVE  LET t == AllReleased(s, dropped)
         IN /\ Sound(t) /\ Objects(t) = Objects(s)
            /\ t.nodes = s.nodes /\ t.props = s.props /\ t.roots = s.roots /\ t.fault = s.fault
            /\ t.children = s.children /\ t.properties = s.properties /\ t.parent = s.parent
<1> DEFINE t == AllReleased(s, dropped)
<1>1. s \in Scenes
  BY DEF WellLinked
<1>2. ASSUME NEW b \in Block
      PROVE  /\ s.ref[b] = Count(s, b) + (IF b \in dropped THEN 1 ELSE 0) /\ Count(s, b) \in Nat
             /\ Losses(s, dropped, {}, b) = (IF b \in dropped THEN 1 ELSE 0)
  <2>1. Cardinality({b} \cap dropped) = (IF b \in dropped THEN 1 ELSE 0) /\ Count(s, b) \in Nat
    BY OneOf, CountFacts
  <2>2. Cardinality(Owners(s, b) \cap {}) = 0
    BY FS_EmptySet
  <2> QED
    BY <2>1, <2>2 DEF Counted, Losses
<1>3. Deleted(s, dropped) = {}
  <2>1. \A b \in Objects(s) : ~ (s.ref[b] <= Losses(s, dropped, {}, b))
    BY <1>2 DEF Objects
  <2> QED
    BY <1>1, <2>1, DeletedProperties
<1> HIDE DEF t
<1>4. /\ t.nodes = s.nodes /\ t.props = s.props /\ t.roots = s.roots /\ t.fault = s.fault
      /\ t.ref = [b \in Block |-> s.ref[b] - Losses(s, dropped, {}, b)]
      /\ t.children = [n \in NodeBlock |-> s.children[n]]
      /\ t.properties = [n \in NodeBlock |-> s.properties[n]]
      /\ t.parent = [n \in NodeBlock |-> s.parent[n]]
  BY <1>1, <1>3, ReleasedFields DEF t
<1>5. Objects(t) = Objects(s)
  <2>1. \A b \in Block : t.ref[b] > 0 <=> s.ref[b] > 0
    BY <1>2, <1>4
  <2> QED
    BY <2>1 DEF Objects
<1>6. t.children = s.children /\ t.properties = s.properties /\ t.parent = s.parent
  BY <1>1, <1>4, Fields
<1>7. Sound(t)
  BY ReleasedSound DEF t
<1> QED
  BY <1>4, <1>5, <1>6, <1>7 DEF t

-----------------------------------------------------------------------------
(* The steps of an update: what each does to the lists.                    *)

(* One more list has the object: its count alone has changed.              *)
LEMMA HeldFields ==
  ASSUME NEW s \in Scenes, NEW b \in Block
  PROVE  LET t == Held(s, b)
         IN /\ t \in Scenes
            /\ t.nodes = s.nodes /\ t.props = s.props /\ t.roots = s.roots /\ t.fault = s.fault
            /\ t.children = s.children /\ t.properties = s.properties /\ t.parent = s.parent
            /\ \A c \in Block : t.ref[c] = IF c = b THEN s.ref[c] + 1 ELSE s.ref[c]
<1> DEFINE ref == [s.ref EXCEPT ![b] = @ + 1]
           t == Held(s, b)
<1>1. t = [s EXCEPT !.ref = ref]
  BY DEF Held, Scenes
<1>2. ref \in [Block -> Int] /\ \A c \in Block : ref[c] = IF c = b THEN s.ref[c] + 1 ELSE s.ref[c]
  BY Fields
<1> HIDE DEF ref, t
<1>3. /\ t \in Scenes /\ t.ref = ref
      /\ t.nodes = s.nodes /\ t.props = s.props /\ t.roots = s.roots /\ t.fault = s.fault
      /\ t.children = s.children /\ t.properties = s.properties /\ t.parent = s.parent
  BY <1>1, <1>2 DEF Scenes
<1> QED
  BY <1>2, <1>3 DEF t

(* The object of a block the scene has no node of.                         *)
NewNode(s, b) == Held([s EXCEPT !.nodes = Append(@, b)], b)

(* The fields of a scene that gets a node.                                 *)
LEMMA NewNodeFields ==
  ASSUME NEW s \in Scenes, NEW b \in NodeBlock
  PROVE  LET t == NewNode(s, b)
         IN /\ t \in Scenes
            /\ t.nodes = Append(s.nodes, b) /\ Nodes(t) = Nodes(s) \cup {b}
            /\ t.props = s.props /\ t.roots = s.roots /\ t.fault = s.fault
            /\ t.children = s.children /\ t.properties = s.properties /\ t.parent = s.parent
            /\ \A c \in Block : t.ref[c] = IF c = b THEN s.ref[c] + 1 ELSE s.ref[c]
<1> DEFINE list == Append(s.nodes, b)
           u == [s EXCEPT !.nodes = list]
           t == NewNode(s, b)
<1>1. list \in Seq(NodeBlock) /\ ToSet(list) = Nodes(s) \cup {b}
  BY Fields, AppendSet DEF Nodes
<1>2. t = Held(u, b)
  BY DEF NewNode
<1> HIDE DEF list
<1>3. /\ u \in Scenes /\ u.nodes = list
      /\ u.props = s.props /\ u.roots = s.roots /\ u.fault = s.fault /\ u.ref = s.ref
      /\ u.children = s.children /\ u.properties = s.properties /\ u.parent = s.parent
  BY <1>1 DEF Scenes
<1> HIDE DEF u, t
<1>4. b \in Block
  BY Kinds
<1>5. /\ t \in Scenes
      /\ t.nodes = u.nodes /\ t.props = u.props /\ t.roots = u.roots /\ t.fault = u.fault
      /\ t.children = u.children /\ t.properties = u.properties /\ t.parent = u.parent
      /\ \A c \in Block : t.ref[c] = IF c = b THEN u.ref[c] + 1 ELSE u.ref[c]
  BY <1>2, <1>3, <1>4, HeldFields
<1> QED
  BY <1>1, <1>3, <1>5 DEF t, list, Nodes

(* No element twice, by the places in the list.                            *)
LEMMA InjectiveList ==
  ASSUME NEW t, NEW n \in Nat, DOMAIN t = 1 .. n
  PROVE  IsInjective(t) <=> \A i, j \in 1 .. n : t[i] = t[j] => i = j
BY DEF IsInjective

(* A list to which an element is appended that it had not.                 *)
LEMMA AppendedOnce ==
  ASSUME NEW S, NEW s \in Seq(S), NEW e \in S, IsInjective(s), e \notin ToSet(s),
         NEW t, t = Append(s, e)
  PROVE  IsInjective(t)
<1>1. /\ Append(s, e) \in Seq(S) /\ Len(Append(s, e)) = Len(s) + 1 /\ Len(s) \in Nat
      /\ \A i \in 1 .. Len(s) : Append(s, e)[i] = s[i]
      /\ Append(s, e)[Len(s) + 1] = e
  BY AppendProperties
<1>2. DOMAIN s = 1 .. Len(s) /\ DOMAIN Append(s, e) = 1 .. Len(s) + 1
  BY <1>1
<1>3. \A i \in 1 .. Len(s) : s[i] # e
  BY <1>2 DEF ToSet
<1>4. \A i, j \in 1 .. Len(s) : s[i] = s[j] => i = j
  BY <1>2 DEF IsInjective
<1>5. ASSUME NEW i \in 1 .. Len(s) + 1, NEW j \in 1 .. Len(s) + 1, t[i] = t[j]
      PROVE  i = j
  <2>1. CASE i \in 1 .. Len(s) /\ j \in 1 .. Len(s)
    BY <1>1, <1>4, <1>5, <2>1
  <2>2. CASE i \in 1 .. Len(s) /\ j = Len(s) + 1
    BY <1>1, <1>3, <1>5, <2>2
  <2>3. CASE i = Len(s) + 1 /\ j \in 1 .. Len(s)
    BY <1>1, <1>3, <1>5, <2>3
  <2> QED
    BY <1>1, <1>5, <2>1, <2>2, <2>3
<1>6. DOMAIN t = 1 .. Len(s) + 1 /\ Len(s) + 1 \in Nat
  BY <1>1, <1>2
<1>7. \A i, j \in 1 .. Len(s) + 1 : t[i] = t[j] => i = j
  BY <1>5
<1> QED
  BY <1>6, <1>7, InjectiveList

(* A new node is counted by the nodes of the scene.                        *)
LEMMA NewNodeSound ==
  ASSUME NEW s, Sound(s), NEW b \in NodeBlock, b \notin Nodes(s)
  PROVE  LET t == NewNode(s, b)
         IN /\ Sound(t) /\ Nodes(t) = Nodes(s) \cup {b} /\ Objects(t) = Objects(s) \cup {b}
            /\ t.props = s.props /\ t.roots = s.roots /\ t.fault = s.fault
            /\ t.children = s.children /\ t.properties = s.properties /\ t.parent = s.parent
<1> DEFINE t == NewNode(s, b)
<1>1. s \in Scenes /\ b \in Block
  BY Kinds DEF Sound, WellLinked
<1>2. /\ t \in Scenes
      /\ t.nodes = Append(s.nodes, b) /\ Nodes(t) = Nodes(s) \cup {b}
      /\ t.props = s.props /\ t.roots = s.roots /\ t.fault = s.fault
      /\ t.children = s.children /\ t.properties = s.properties /\ t.parent = s.parent
      /\ \A c \in Block : t.ref[c] = IF c = b THEN s.ref[c] + 1 ELSE s.ref[c]
  BY <1>1, NewNodeFields
<1> HIDE DEF t
<1>3. \A c \in Block : Count(t, c) = IF c = b THEN Count(s, c) + 1 ELSE Count(s, c)
  <2> SUFFICES ASSUME NEW c \in Block PROVE Count(t, c) = IF c = b THEN Count(s, c) + 1 ELSE Count(s, c)
    OBVIOUS
  <2>1. Owners(t, c) = Owners(s, c)
    BY <1>2 DEF Owners
  <2> QED
    BY <1>2, <2>1, CountFacts
<1>4. \A c \in Block : s.ref[c] = Count(s, c) /\ Count(s, c) \in Nat
  <2>1. \A c \in Block : Cardinality({c} \cap {}) = 0 /\ Count(s, c) \in Nat
    BY OneOf, CountFacts
  <2> QED
    BY <2>1 DEF Sound, Counted
<1>5. Counted(t, {})
  <2>1. \A c \in Block : Cardinality({c} \cap {}) = 0 /\ Count(t, c) \in Nat
    BY OneOf, CountFacts
  <2> QED
    BY <1>2, <1>3, <1>4, <2>1 DEF Counted
<1>6. Objects(t) = Objects(s) \cup {b}
  BY <1>1, <1>2, <1>4 DEF Objects
<1>7. IsInjective(t.nodes)
  <2>1. s.nodes \in Seq(NodeBlock) /\ IsInjective(s.nodes) /\ b \notin ToSet(s.nodes)
    BY <1>1, Fields DEF Sound, WellLinked, Nodes
  <2> QED
    BY <1>2, <2>1, AppendedOnce
<1>8. WellLinked(t)
  BY <1>2, <1>6, <1>7 DEF Sound, WellLinked
<1> QED
  BY <1>2, <1>5, <1>6, <1>8 DEF t, Sound

(* A node leaves its parent and gets another one, or none.                 *)
Reparented(s, t, n, p) ==
  /\ t \in Scenes
  /\ t.nodes = s.nodes /\ t.props = s.props /\ t.roots = s.roots
  /\ t.properties = s.properties
  /\ t.parent = [s.parent EXCEPT ![n] = p]
  /\ t.fault = (s.fault \/ s.parent[n] = Dangling)
  /\ \A m \in NodeBlock : t.children[m] =
       IF m = p THEN s.children[m] \cup {n}
       ELSE IF m = s.parent[n] THEN s.children[m] \ {n} ELSE s.children[m]

(* Replacing the children of one node.                                     *)
LEMMA ChildrenSet ==
  ASSUME NEW s \in Scenes, NEW m \in NodeBlock, NEW set \in SUBSET NodeBlock
  PROVE  LET t == [s EXCEPT !.children[m] = set]
         IN /\ t \in Scenes
            /\ t.nodes = s.nodes /\ t.props = s.props /\ t.roots = s.roots /\ t.fault = s.fault
            /\ t.properties = s.properties /\ t.parent = s.parent /\ t.ref = s.ref
            /\ t.children = [s.children EXCEPT ![m] = set]
<1> DEFINE children == [s.children EXCEPT ![m] = set]
           t == [s EXCEPT !.children[m] = set]
<1>1. t = [s EXCEPT !.children = children]
  BY DEF Scenes
<1>2. children \in [NodeBlock -> SUBSET NodeBlock]
  BY Fields
<1> HIDE DEF children, t
<1>3. /\ t \in Scenes /\ t.children = children
      /\ t.nodes = s.nodes /\ t.props = s.props /\ t.roots = s.roots /\ t.fault = s.fault
      /\ t.properties = s.properties /\ t.parent = s.parent /\ t.ref = s.ref
  BY <1>1, <1>2 DEF Scenes
<1> QED
  BY <1>3 DEF children, t

(* LeftParent is a scene.                                                  *)
LEMMA LeftParentType ==
  ASSUME NEW s \in Scenes, NEW n \in NodeBlock
  PROVE  LeftParent(s, n) \in Scenes
<1> DEFINE old == s.parent[n]
           set == s.children[old] \ {n}
           u == [s EXCEPT !.children[old] = set]
<1>1. CASE old \in NodeBlock /\ n \in s.children[old]
  <2>1. set \in SUBSET NodeBlock
    BY <1>1, Fields
  <2>2. LeftParent(s, n) = AllReleased(u, {n})
    <3>1. u = [s EXCEPT !.children[old] = @ \ {n}]
      BY <1>1 DEF Scenes
    <3> QED
      BY <1>1, <3>1 DEF LeftParent, Released
  <2> HIDE DEF set
  <2>3. u \in Scenes
    BY <1>1, <2>1, ChildrenSet
  <2> HIDE DEF u
  <2> QED
    BY <2>2, <2>3, ReleasedFields
<1>2. CASE ~ (old \in NodeBlock /\ n \in s.children[old])
  BY <1>2 DEF LeftParent
<1> QED
  BY <1>1, <1>2

(* The counts of a sound scene.                                            *)
LEMMA SoundCounts ==
  ASSUME NEW s, Sound(s)
  PROVE  s \in Scenes /\ \A b \in Block : s.ref[b] = Count(s, b)
<1>1. \A b \in Block : Cardinality({b} \cap {}) = 0 /\ Count(s, b) \in Nat
  BY OneOf, CountFacts
<1> QED
  BY <1>1 DEF Sound, WellLinked, Counted

(* The old parent drops the node, which the scene still holds.             *)
LEMMA LeftParentSound ==
  ASSUME NEW s, Sound(s), NEW n \in Nodes(s)
  PROVE  LET t == LeftParent(s, n)
         IN /\ Sound(t) /\ Objects(t) = Objects(s)
            /\ t.nodes = s.nodes /\ t.props = s.props /\ t.roots = s.roots /\ t.fault = s.fault
            /\ t.properties = s.properties /\ t.parent = s.parent
            /\ \A m \in NodeBlock : t.children[m] = IF m = s.parent[n] THEN s.children[m] \ {n}
                                                    ELSE s.children[m]
<1> DEFINE old == s.parent[n]
           set == s.children[old] \ {n}
           u == [s EXCEPT !.children[old] = set]
<1>s. s \in Scenes /\ n \in NodeBlock /\ n \in Block
  BY SoundCounts, Fields, Kinds
<1>1. CASE old \in NodeBlock /\ n \in s.children[old]
  <2>1. set \in SUBSET NodeBlock
    BY <1>1, <1>s, Fields
  <2>2. LeftParent(s, n) = AllReleased(u, {n})
    <3>1. u = [s EXCEPT !.children[old] = @ \ {n}]
      BY <1>1, <1>s DEF Scenes
    <3> QED
      BY <1>1, <3>1 DEF LeftParent, Released
  <2>3. /\ u \in Scenes
        /\ u.nodes = s.nodes /\ u.props = s.props /\ u.roots = s.roots /\ u.fault = s.fault
        /\ u.properties = s.properties /\ u.parent = s.parent /\ u.ref = s.ref
        /\ u.children = [s.children EXCEPT ![old] = set]
    <3> HIDE DEF set
    <3> QED
      BY <1>1, <1>s, <2>1, ChildrenSet
  <2> HIDE DEF u
  <2>4. Nodes(u) = Nodes(s) /\ Objects(u) = Objects(s)
    BY <2>3 DEF Nodes, Objects
  <2>5. \A m \in NodeBlock : u.children[m] = IF m = old THEN s.children[m] \ {n} ELSE s.children[m]
    BY <1>1, <1>s, <2>3, Fields
  <2> HIDE DEF set
  <2>6. WellLinked(u)
    BY <2>3, <2>4, <2>5 DEF Sound, WellLinked
  <2>7. Owners(u, n) = Owners(s, n) \ {old} /\ old \in Owners(s, n)
    <3>1. n \notin s.properties[old]
      BY <1>1, <1>s, Fields, Kinds
    <3> QED
      BY <1>1, <2>3, <2>5, <3>1 DEF Owners
  <2>8. \A b \in Block \ {n} : Owners(u, b) = Owners(s, b)
    BY <2>3, <2>5 DEF Owners
  <2>9. Counted(u, {n})
    <3> SUFFICES ASSUME NEW b \in Block PROVE u.ref[b] = Count(u, b) + Cardinality({b} \cap {n})
      BY DEF Counted
    <3>1. Cardinality({b} \cap {n}) = IF b = n THEN 1 ELSE 0
      BY OneOf
    <3>2. u.ref[b] = Count(s, b)
      BY <2>3, SoundCounts
    <3>3. CASE b # n
      <4>1. Count(u, b) = Count(s, b) /\ Count(s, b) \in Nat
        <5>1. Owners(u, b) = Owners(s, b)
          BY <2>8, <3>3
        <5> QED
          BY <2>3, <2>4, <5>1, CountFacts
      <4> QED
        BY <3>1, <3>2, <3>3, <4>1
    <3>4. CASE b = n
      <4>1. Cardinality(Owners(u, n)) = Cardinality(Owners(s, n)) - 1
        <5>1. IsFiniteSet(Owners(s, n))
          BY OwnerCounts
        <5> QED
          BY <2>7, <5>1, FS_RemoveElement
      <4>2. /\ Count(u, n) = Cardinality(Owners(u, n)) + (IF n \in Nodes(s) THEN 1 ELSE 0)
                             + (IF n \in s.roots THEN 1 ELSE 0) + (IF n \in s.props THEN 1 ELSE 0)
            /\ Count(s, n) = Cardinality(Owners(s, n)) + (IF n \in Nodes(s) THEN 1 ELSE 0)
                             + (IF n \in s.roots THEN 1 ELSE 0) + (IF n \in s.props THEN 1 ELSE 0)
            /\ Cardinality(Owners(s, n)) \in Nat
        BY <2>3, <2>4, CountFacts
      <4> QED
        BY <3>1, <3>2, <3>4, <4>1, <4>2
    <3> QED
      BY <3>3, <3>4
  <2>10. \A b \in {n} : Count(u, b) > 0
    <3>1. Count(u, n) # 0 /\ Count(u, n) \in Nat
      BY <2>4, CountFacts
    <3> QED
      BY <3>1
  <2>11. {n} \in SUBSET Block
    BY <1>s
  <2>12. LET t == AllReleased(u, {n})
         IN /\ Sound(t) /\ Objects(t) = Objects(u)
            /\ t.nodes = u.nodes /\ t.props = u.props /\ t.roots = u.roots /\ t.fault = u.fault
            /\ t.children = u.children /\ t.properties = u.properties /\ t.parent = u.parent
    BY <2>6, <2>9, <2>10, <2>11, ReleasedHeld
  <2> DEFINE t == LeftParent(s, n)
  <2>13. /\ Sound(t) /\ Objects(t) = Objects(u)
         /\ t.nodes = u.nodes /\ t.props = u.props /\ t.roots = u.roots /\ t.fault = u.fault
         /\ t.children = u.children /\ t.properties = u.properties /\ t.parent = u.parent
    BY <2>2, <2>12, Zenon
  <2> HIDE DEF t
  <2>14. /\ Sound(t) /\ Objects(t) = Objects(s)
         /\ t.nodes = s.nodes /\ t.props = s.props /\ t.roots = s.roots /\ t.fault = s.fault
         /\ t.properties = s.properties /\ t.parent = s.parent
    BY <2>3, <2>4, <2>13
  <2>15. \A m \in NodeBlock : t.children[m] = IF m = old THEN s.children[m] \ {n} ELSE s.children[m]
    BY <2>5, <2>13
  <2> QED
    BY <2>14, <2>15 DEF t
<1>2. CASE ~ (old \in NodeBlock /\ n \in s.children[old])
  BY <1>2 DEF LeftParent
<1> QED
  BY <1>1, <1>2

(* The fields of a scene in which a node gets a parent.                    *)
LEMMA WithParentFields ==
  ASSUME NEW s \in Scenes, NEW n \in NodeBlock, NEW p \in NodeBlock \cup {NoNode}
  PROVE  LET left == LeftParent(s, n)
             t == WithParent(s, n, p)
         IN /\ t \in Scenes
            /\ t.nodes = left.nodes /\ t.props = left.props /\ t.roots = left.roots
            /\ t.fault = (left.fault \/ s.parent[n] = Dangling)
            /\ t.children = left.children /\ t.properties = left.properties /\ t.ref = left.ref
            /\ t.parent = [left.parent EXCEPT ![n] = p]
<1> DEFINE left == LeftParent(s, n)
           t == WithParent(s, n, p)
           fault == left.fault \/ s.parent[n] = Dangling
           parent == [left.parent EXCEPT ![n] = p]
<1>1. left \in Scenes
  BY LeftParentType
<1>2. t = [left EXCEPT !.parent = parent, !.fault = fault]
  <2>1. t = [left EXCEPT !.parent[n] = p, !.fault = @ \/ s.parent[n] = Dangling]
    BY DEF WithParent
  <2> HIDE DEF t, left
  <2> QED
    BY <1>1, <2>1 DEF Scenes
<1> HIDE DEF left
<1>3. parent \in [NodeBlock -> NodeBlock \cup {NoNode, Dangling}] /\ fault \in BOOLEAN
  BY <1>1, Fields
<1> HIDE DEF parent, t, fault
<1>4. /\ t \in Scenes /\ t.parent = parent /\ t.fault = fault
      /\ t.nodes = left.nodes /\ t.props = left.props /\ t.roots = left.roots
      /\ t.children = left.children /\ t.properties = left.properties /\ t.ref = left.ref
  BY <1>1, <1>2, <1>3 DEF Scenes
<1> QED
  BY <1>4 DEF parent, t, fault, left

(* makeParent by cases: the parent has the node already or not.            *)
LEMMA MakeParentSteps ==
  ASSUME NEW s \in Scenes, NEW n \in NodeBlock, NEW p \in NodeBlock \cup {NoNode}
  PROVE  LET now == WithParent(s, n, p)
         IN /\ p = NoNode \/ n \in now.children[p] => MakeParent(s, n, p) = now
            /\ ~ (p = NoNode \/ n \in now.children[p]) =>
                 MakeParent(s, n, p) = Held([now EXCEPT !.children[p] = now.children[p] \cup {n}], n)
<1> DEFINE now == WithParent(s, n, p)
<1>1. now \in Scenes
  BY WithParentFields
<1> HIDE DEF now
<1>2. MakeParent(s, n, p) = IF p = NoNode \/ n \in now.children[p] THEN now
                            ELSE Held([now EXCEPT !.children[p] = now.children[p] \cup {n}], n)
  BY <1>1 DEF MakeParent, now, Scenes
<1> QED
  BY <1>2 DEF now

(* MakeParent is a scene.                                                  *)
LEMMA MakeParentType ==
  ASSUME NEW s \in Scenes, NEW n \in NodeBlock, NEW p \in NodeBlock \cup {NoNode}
  PROVE  MakeParent(s, n, p) \in Scenes
<1> DEFINE now == WithParent(s, n, p)
           set == now.children[p] \cup {n}
           u == [now EXCEPT !.children[p] = set]
<1>1. /\ now \in Scenes
      /\ p = NoNode \/ n \in now.children[p] => MakeParent(s, n, p) = now
      /\ ~ (p = NoNode \/ n \in now.children[p]) => MakeParent(s, n, p) = Held(u, n)
  <2>1. now \in Scenes
    BY WithParentFields
  <2>2. /\ p = NoNode \/ n \in now.children[p] => MakeParent(s, n, p) = now
        /\ ~ (p = NoNode \/ n \in now.children[p]) => MakeParent(s, n, p) = Held(u, n)
    BY MakeParentSteps, Zenon
  <2> HIDE DEF now, u
  <2> QED
    BY <2>1, <2>2, Zenon
<1> HIDE DEF now
<1>2. ASSUME p # NoNode PROVE Held(u, n) \in Scenes
  <2>1. set \in SUBSET NodeBlock /\ p \in NodeBlock /\ n \in Block
    BY <1>1, <1>2, Fields, Kinds
  <2> HIDE DEF set
  <2>2. u \in Scenes
    BY <1>1, <2>1, ChildrenSet
  <2> HIDE DEF u
  <2> QED
    BY <2>1, <2>2, HeldFields
<1> QED
  BY <1>1, <1>2

(* makeParent keeps a scene sound, and all objects.                        *)
LEMMA MakeParentSound ==
  ASSUME NEW s, Sound(s), NEW n \in Nodes(s), NEW p \in Nodes(s) \cup {NoNode}
  PROVE  /\ Sound(MakeParent(s, n, p)) /\ Reparented(s, MakeParent(s, n, p), n, p)
         /\ Objects(MakeParent(s, n, p)) = Objects(s)
<1> DEFINE left == LeftParent(s, n)
           fault == left.fault \/ s.parent[n] = Dangling
           now == WithParent(s, n, p)
           set == now.children[p] \cup {n}
           u == [now EXCEPT !.children[p] = set]
           t == MakeParent(s, n, p)
<1>s. s \in Scenes /\ n \in NodeBlock /\ n \in Block /\ p \in NodeBlock \cup {NoNode}
  BY SoundCounts, Fields, Kinds
<1>1. /\ now \in Scenes
      /\ p = NoNode \/ n \in now.children[p] => t = now
      /\ ~ (p = NoNode \/ n \in now.children[p]) => t = Held(u, n)
  <2>1. now \in Scenes
    BY <1>s, WithParentFields
  <2>2. /\ p = NoNode \/ n \in now.children[p] => t = now
        /\ ~ (p = NoNode \/ n \in now.children[p]) => t = Held(u, n)
    BY <1>s, MakeParentSteps, Zenon
  <2> HIDE DEF now, u, t
  <2> QED
    BY <2>1, <2>2, Zenon
<1>2. /\ Sound(left) /\ Objects(left) = Objects(s) /\ left \in Scenes
      /\ left.nodes = s.nodes /\ left.props = s.props /\ left.roots = s.roots /\ left.fault = s.fault
      /\ left.properties = s.properties /\ left.parent = s.parent
      /\ \A m \in NodeBlock : left.children[m] = IF m = s.parent[n] THEN s.children[m] \ {n}
                                                 ELSE s.children[m]
  BY <1>s, LeftParentSound, LeftParentType
<1>4. /\ now.nodes = left.nodes /\ now.props = left.props /\ now.roots = left.roots /\ now.fault = fault
      /\ now.children = left.children /\ now.properties = left.properties /\ now.ref = left.ref
      /\ now.parent = [left.parent EXCEPT ![n] = p]
  BY <1>s, WithParentFields
<1> HIDE DEF left, t, now
<1>3. fault \in BOOLEAN /\ fault = (s.fault \/ s.parent[n] = Dangling)
  BY <1>2, <1>s, Fields
<1> HIDE DEF fault
<1>5. /\ Objects(now) = Objects(s) /\ Nodes(now) = Nodes(s)
      /\ \A b \in Block : Owners(now, b) = Owners(left, b)
  BY <1>2, <1>4 DEF Objects, Nodes, Owners
<1>6. Nodes(s) \subseteq Objects(s)
  BY ListedObjects
<1>7. WellLinked(now)
  <2>1. IsInjective(now.nodes)
    BY <1>2, <1>4 DEF Sound, WellLinked
  <2>2. \A m \in NodeBlock : now.parent[m] = IF m = n THEN p ELSE left.parent[m]
    BY <1>s, <1>2, <1>4, Fields
  <2> QED
    BY <1>1, <1>2, <1>4, <1>5, <1>6, <2>1, <2>2 DEF Sound, WellLinked
<1>8. \A b \in Block : now.ref[b] = Count(now, b)
  <2> SUFFICES ASSUME NEW b \in Block PROVE now.ref[b] = Count(now, b)
    OBVIOUS
  <2>1. left.ref[b] = Count(left, b)
    BY <1>2, SoundCounts
  <2>2. Owners(now, b) = Owners(left, b) /\ Nodes(now) = Nodes(left)
    BY <1>4, <1>5 DEF Nodes
  <2> QED
    BY <1>4, <2>1, <2>2 DEF Count
<1>9. Counted(now, {})
  <2>1. \A b \in Block : Cardinality({b} \cap {}) = 0 /\ Count(now, b) \in Nat
    BY OneOf, CountFacts
  <2> QED
    BY <1>8, <2>1 DEF Counted
<1>10. \A m \in NodeBlock : now.children[m] = IF m = s.parent[n] THEN s.children[m] \ {n} ELSE s.children[m]
  BY <1>2, <1>4
<1>11. CASE p = NoNode \/ n \in now.children[p]
  <2>1. t = now
    BY <1>1, <1>11
  <2>2. \A m \in NodeBlock : now.children[m] =
          IF m = p THEN s.children[m] \cup {n}
          ELSE IF m = s.parent[n] THEN s.children[m] \ {n} ELSE s.children[m]
    BY <1>10, <1>11, <1>s, Kinds
  <2>3. Reparented(s, t, n, p)
    BY <1>1, <1>2, <1>3, <1>4, <2>1, <2>2 DEF Reparented
  <2> QED
    BY <1>5, <1>7, <1>9, <2>1, <2>3 DEF Sound, t
<1>12. CASE ~ (p = NoNode \/ n \in now.children[p])
  <2>1. t = Held(u, n) /\ p \in NodeBlock /\ p \in Nodes(s)
    BY <1>1, <1>s, <1>12
  <2>2. set \in SUBSET NodeBlock
    BY <1>1, <1>s, <2>1, Fields
  <2>3. /\ u \in Scenes
        /\ u.nodes = now.nodes /\ u.props = now.props /\ u.roots = now.roots /\ u.fault = now.fault
        /\ u.properties = now.properties /\ u.parent = now.parent /\ u.ref = now.ref
        /\ u.children = [now.children EXCEPT ![p] = set]
    <3> HIDE DEF set
    <3> QED
      BY <1>1, <2>1, <2>2, ChildrenSet
  <2> HIDE DEF u
  <2>4. /\ t \in Scenes
        /\ t.nodes = u.nodes /\ t.props = u.props /\ t.roots = u.roots /\ t.fault = u.fault
        /\ t.children = u.children /\ t.properties = u.properties /\ t.parent = u.parent
        /\ \A c \in Block : t.ref[c] = IF c = n THEN u.ref[c] + 1 ELSE u.ref[c]
    BY <1>s, <2>1, <2>3, HeldFields
  <2>5. \A m \in NodeBlock : t.children[m] = IF m = p THEN now.children[m] \cup {n} ELSE now.children[m]
    <3>1. now.children \in [NodeBlock -> SUBSET NodeBlock]
      BY <1>1, Fields
    <3>2. t.children = [now.children EXCEPT ![p] = now.children[p] \cup {n}]
      BY <2>3, <2>4
    <3> QED
      BY <2>1, <3>1, <3>2
  <2> HIDE DEF set
  <2>6. Nodes(t) = Nodes(s) /\ Nodes(t) = Nodes(now)
    BY <1>5, <2>3, <2>4 DEF Nodes
  <2>7. Objects(t) = Objects(now)
    <3>1. n \in Objects(now) /\ now.ref[n] \in Int
      BY <1>1, <1>5, <1>6, <1>s, Fields
    <3>2. now.ref[n] > 0
      BY <3>1 DEF Objects
    <3>3. \A c \in Block : t.ref[c] > 0 <=> now.ref[c] > 0
      BY <2>3, <2>4, <3>1, <3>2
    <3> QED
      BY <3>3 DEF Objects
  <2>8. Owners(t, n) = Owners(now, n) \cup {p} /\ p \notin Owners(now, n)
    <3>1. n \notin now.properties[p]
      BY <1>1, <1>s, <2>1, Fields, Kinds
    <3> QED
      BY <1>12, <2>1, <2>3, <2>4, <2>5, <3>1 DEF Owners
  <2>9. \A b \in Block \ {n} : Owners(t, b) = Owners(now, b)
    BY <2>3, <2>4, <2>5 DEF Owners
  <2>10. \A b \in Block : t.ref[b] = Count(t, b)
    <3> SUFFICES ASSUME NEW b \in Block PROVE t.ref[b] = Count(t, b)
      OBVIOUS
    <3>1. t.ref[b] = IF b = n THEN Count(now, b) + 1 ELSE Count(now, b)
      BY <1>8, <2>3, <2>4
    <3>2. /\ Count(t, b) = Cardinality(Owners(t, b)) + (IF b \in Nodes(now) THEN 1 ELSE 0)
                           + (IF b \in now.roots THEN 1 ELSE 0) + (IF b \in now.props THEN 1 ELSE 0)
          /\ Count(now, b) = Cardinality(Owners(now, b)) + (IF b \in Nodes(now) THEN 1 ELSE 0)
                           + (IF b \in now.roots THEN 1 ELSE 0) + (IF b \in now.props THEN 1 ELSE 0)
          /\ Cardinality(Owners(now, b)) \in Nat
      BY <2>3, <2>4, <2>6, CountFacts
    <3>3. Cardinality(Owners(t, b)) = IF b = n THEN Cardinality(Owners(now, b)) + 1
                                      ELSE Cardinality(Owners(now, b))
      <4>1. CASE b = n
        <5>1. IsFiniteSet(Owners(now, b))
          BY OwnerCounts
        <5> QED
          BY <2>8, <4>1, <5>1, FS_AddElement
      <4>2. CASE b # n
        BY <2>9, <4>2
      <4> QED
        BY <4>1, <4>2
    <3> QED
      BY <3>1, <3>2, <3>3
  <2>11. Counted(t, {})
    <3>1. \A b \in Block : Cardinality({b} \cap {}) = 0 /\ Count(t, b) \in Nat
      BY OneOf, CountFacts
    <3> QED
      BY <2>10, <3>1 DEF Counted
  <2>12. WellLinked(t)
    <3>1. p \in Objects(t) /\ IsInjective(t.nodes)
      BY <1>5, <1>6, <1>7, <2>1, <2>3, <2>4, <2>7 DEF WellLinked
    <3> QED
      BY <1>7, <2>3, <2>4, <2>5, <2>7, <3>1 DEF WellLinked
  <2>13. Reparented(s, t, n, p)
    <3>1. \A m \in NodeBlock : t.children[m] =
            IF m = p THEN s.children[m] \cup {n}
            ELSE IF m = s.parent[n] THEN s.children[m] \ {n} ELSE s.children[m]
      BY <1>10, <2>5
    <3> QED
      BY <1>2, <1>3, <1>4, <2>3, <2>4, <3>1 DEF Reparented
  <2> QED
    BY <1>5, <2>7, <2>11, <2>12, <2>13 DEF Sound, t
<1> QED
  BY <1>11, <1>12

(* The lists of a node are emptied, and then what they held is dropped.    *)
ListsEmptied(s, n) == [s EXCEPT !.children[n] = {}, !.properties[n] = {}]

(* The fields of a scene with the lists of a node emptied.                 *)
LEMMA ListsEmptiedFields ==
  ASSUME NEW s \in Scenes, NEW n \in NodeBlock
  PROVE  LET t == ListsEmptied(s, n)
         IN /\ t \in Scenes
            /\ t.nodes = s.nodes /\ t.props = s.props /\ t.roots = s.roots /\ t.fault = s.fault
            /\ t.parent = s.parent /\ t.ref = s.ref
            /\ t.children = [s.children EXCEPT ![n] = {}]
            /\ t.properties = [s.properties EXCEPT ![n] = {}]
<1> DEFINE children == [s.children EXCEPT ![n] = {}]
           properties == [s.properties EXCEPT ![n] = {}]
           t == ListsEmptied(s, n)
<1>1. t = [s EXCEPT !.children = children, !.properties = properties]
  BY DEF Scenes, ListsEmptied
<1>2. children \in [NodeBlock -> SUBSET NodeBlock] /\ properties \in [NodeBlock -> SUBSET PropertyBlock]
  BY Fields
<1> HIDE DEF children, properties, t
<1>3. /\ t \in Scenes /\ t.children = children /\ t.properties = properties
      /\ t.nodes = s.nodes /\ t.props = s.props /\ t.roots = s.roots /\ t.fault = s.fault
      /\ t.parent = s.parent /\ t.ref = s.ref
  BY <1>1, <1>2 DEF Scenes
<1> QED
  BY <1>3 DEF children, properties, t

(* Cleared is a scene.                                                     *)
LEMMA ClearedType ==
  ASSUME NEW s \in Scenes, NEW n \in NodeBlock
  PROVE  Cleared(s, n) \in Scenes
<1> DEFINE u == ListsEmptied(s, n)
           dropped == s.children[n] \cup s.properties[n]
<1>1. Cleared(s, n) = AllReleased(u, dropped)
  BY DEF Cleared, ListsEmptied
<1>2. u \in Scenes
  BY ListsEmptiedFields
<1> HIDE DEF u, dropped
<1> QED
  BY <1>1, <1>2, ReleasedFields

(* What it leaves of the scene.                                            *)
ClearedFrom(s, t, n) ==
  /\ t.nodes = s.nodes /\ t.props = s.props /\ t.roots = s.roots /\ t.fault = s.fault
  /\ Objects(t) \subseteq Objects(s)
  /\ t.children[n] = {} /\ t.properties[n] = {}
  /\ \A m \in NodeBlock : t.children[m] \subseteq s.children[m]
  /\ \A m \in Nodes(s) :
       /\ m # n => t.children[m] = s.children[m] /\ t.properties[m] = s.properties[m]
       /\ \/ t.parent[m] = s.parent[m]
          \/ s.parent[m] \in NodeBlock \ Objects(t) /\ t.parent[m] = Dangling

(* A node of the scene is cleared.                                         *)
LEMMA ClearedSound ==
  ASSUME NEW s, Sound(s), NEW n \in Nodes(s)
  PROVE  Sound(Cleared(s, n)) /\ ClearedFrom(s, Cleared(s, n), n)
<1> DEFINE dropped == s.children[n] \cup s.properties[n]
           u == ListsEmptied(s, n)
           t == Cleared(s, n)
<1>1. s \in Scenes /\ n \in NodeBlock /\ n \in Block /\ Nodes(s) \subseteq Objects(s) /\ Nodes(s) \subseteq NodeBlock
  BY SoundCounts, ListedObjects, Fields, Kinds
<1>2. /\ u \in Scenes
      /\ u.nodes = s.nodes /\ u.props = s.props /\ u.roots = s.roots /\ u.fault = s.fault
      /\ u.parent = s.parent /\ u.ref = s.ref
      /\ u.children = [s.children EXCEPT ![n] = {}]
      /\ u.properties = [s.properties EXCEPT ![n] = {}]
  BY <1>1, ListsEmptiedFields
<1>3. t = AllReleased(u, dropped)
  BY DEF Cleared, ListsEmptied
<1> HIDE DEF u, t
<1>4. dropped \in SUBSET Block
  BY <1>1, Fields, Kinds
<1>5. \A m \in NodeBlock : /\ u.children[m] = IF m = n THEN {} ELSE s.children[m]
                           /\ u.properties[m] = IF m = n THEN {} ELSE s.properties[m]
  <2>1. s.children \in [NodeBlock -> SUBSET NodeBlock] /\ s.properties \in [NodeBlock -> SUBSET PropertyBlock]
    BY <1>1, Fields
  <2> QED
    BY <1>1, <1>2, <2>1
<1>6. \A b \in Block : Owners(u, b) = Owners(s, b) \ {n} /\ (n \in Owners(s, b) <=> b \in dropped)
  BY <1>1, <1>5 DEF Owners
<1>7. Objects(u) = Objects(s) /\ Nodes(u) = Nodes(s)
  BY <1>2 DEF Objects, Nodes
<1>8. WellLinked(u)
  BY <1>2, <1>5, <1>7 DEF Sound, WellLinked
<1> HIDE DEF dropped
<1>9. Counted(u, dropped)
  <2> SUFFICES ASSUME NEW b \in Block PROVE u.ref[b] = Count(u, b) + Cardinality({b} \cap dropped)
    BY DEF Counted
  <2>1. u.ref[b] = Count(s, b)
    BY <1>2, SoundCounts
  <2>2. Cardinality({b} \cap dropped) = IF b \in dropped THEN 1 ELSE 0
    BY OneOf
  <2>3. Cardinality(Owners(u, b)) = IF b \in dropped THEN Cardinality(Owners(s, b)) - 1
                                    ELSE Cardinality(Owners(s, b))
    <3>1. Owners(u, b) = Owners(s, b) \ {n} /\ (n \in Owners(s, b) <=> b \in dropped)
      BY <1>6
    <3>2. IsFiniteSet(Owners(s, b))
      BY OwnerCounts
    <3>3. CASE b \in dropped
      BY <3>1, <3>2, <3>3, FS_RemoveElement
    <3>4. CASE b \notin dropped
      <4>1. Owners(u, b) = Owners(s, b)
        BY <3>1, <3>4
      <4> QED
        BY <3>4, <4>1
    <3> QED
      BY <3>3, <3>4
  <2>4. /\ Count(u, b) = Cardinality(Owners(u, b)) + (IF b \in Nodes(s) THEN 1 ELSE 0)
                         + (IF b \in s.roots THEN 1 ELSE 0) + (IF b \in s.props THEN 1 ELSE 0)
        /\ Count(s, b) = Cardinality(Owners(s, b)) + (IF b \in Nodes(s) THEN 1 ELSE 0)
                         + (IF b \in s.roots THEN 1 ELSE 0) + (IF b \in s.props THEN 1 ELSE 0)
        /\ Cardinality(Owners(s, b)) \in Nat
    BY <1>2, <1>7, CountFacts
  <2> QED
    BY <2>1, <2>2, <2>3, <2>4
<1>10. Sound(t) /\ Drops(u, t)
  BY <1>3, <1>4, <1>8, <1>9, ReleasedSound
<1>11. Nodes(s) \subseteq Objects(t)
  <2>1. Nodes(t) = Nodes(s)
    BY <1>2, <1>10 DEF Drops, Nodes
  <2> QED
    BY <1>10, <2>1, ListedObjects
<1>12. \A m \in NodeBlock : t.children[m] \subseteq s.children[m]
  <2> SUFFICES ASSUME NEW m \in NodeBlock PROVE t.children[m] \subseteq s.children[m]
    OBVIOUS
  <2>1. CASE m \in Objects(t)
    BY <1>5, <1>10, <2>1 DEF Drops
  <2>2. CASE m \notin Objects(t)
    BY <1>10, <2>2 DEF Sound, WellLinked
  <2> QED
    BY <2>1, <2>2
<1>13. ClearedFrom(s, t, n)
  BY <1>1, <1>2, <1>5, <1>7, <1>10, <1>11, <1>12 DEF Drops, ClearedFrom
<1> QED
  BY <1>10, <1>13 DEF t

(* WithProperties is a scene.                                              *)
LEMMA PropertiesType ==
  ASSUME NEW s \in Scenes, NEW n \in NodeBlock, NEW added \in SUBSET PropertyBlock
  PROVE  LET t == WithProperties(s, n, added)
         IN /\ t \in Scenes
            /\ t.nodes = s.nodes /\ t.roots = s.roots /\ t.fault = s.fault
            /\ t.children = s.children /\ t.parent = s.parent
            /\ t.props = s.props \cup added
            /\ t.properties = [s.properties EXCEPT ![n] = s.properties[n] \cup added]
            /\ \A b \in Block : t.ref[b] = s.ref[b] + Cardinality({b} \cap (added \ s.props))
                                           + Cardinality({b} \cap (added \ s.properties[n]))
<1> DEFINE props == s.props \cup added
           properties == [s.properties EXCEPT ![n] = s.properties[n] \cup added]
           ref == [b \in Block |-> s.ref[b] + Cardinality({b} \cap (added \ s.props))
                                   + Cardinality({b} \cap (added \ s.properties[n]))]
           t == WithProperties(s, n, added)
<1>1. t = [s EXCEPT !.props = props, !.properties = properties, !.ref = ref]
  <2>1. [s EXCEPT !.properties[n] = s.properties[n] \cup added] = [s EXCEPT !.properties = properties]
    BY DEF Scenes
  <2> HIDE DEF ref
  <2>2. t = [s EXCEPT !.props = @ \cup added, !.properties[n] = @ \cup added, !.ref = ref]
    BY DEF WithProperties, ref
  <2> HIDE DEF t
  <2> QED
    BY <2>2 DEF Scenes
<1>2. props \in SUBSET PropertyBlock /\ properties \in [NodeBlock -> SUBSET PropertyBlock]
  BY Fields
<1>3. ref \in [Block -> Int]
  <2> SUFFICES ASSUME NEW b \in Block
               PROVE  s.ref[b] + Cardinality({b} \cap (added \ s.props))
                               + Cardinality({b} \cap (added \ s.properties[n])) \in Int
    OBVIOUS
  <2>1. Cardinality({b} \cap (added \ s.props)) \in Nat
        /\ Cardinality({b} \cap (added \ s.properties[n])) \in Nat
    BY OneOf, Zenon
  <2>2. s.ref[b] \in Int
    BY Fields
  <2> QED
    BY <2>1, <2>2
<1> HIDE DEF props, properties, ref, t
<1>4. /\ t \in Scenes /\ t.props = props /\ t.properties = properties /\ t.ref = ref
      /\ t.nodes = s.nodes /\ t.roots = s.roots /\ t.fault = s.fault
      /\ t.children = s.children /\ t.parent = s.parent
  BY <1>1, <1>2, <1>3 DEF Scenes
<1> QED
  BY <1>4 DEF props, properties, ref, t

(* A node of the scene without properties gets some.                       *)
LEMMA PropertiesSound ==
  ASSUME NEW s, Sound(s), NEW n \in Nodes(s), NEW added \in SUBSET PropertyBlock
  PROVE  LET t == WithProperties(s, n, added)
         IN /\ Sound(t) /\ Nodes(t) = Nodes(s) /\ Objects(t) = Objects(s) \cup added
            /\ t.nodes = s.nodes /\ t.roots = s.roots /\ t.fault = s.fault
            /\ t.children = s.children /\ t.parent = s.parent
            /\ t.properties = [s.properties EXCEPT ![n] = s.properties[n] \cup added]
<1> DEFINE t == WithProperties(s, n, added)
           own == added \ s.properties[n]
           new == added \ s.props
<1>1. s \in Scenes /\ n \in NodeBlock /\ Nodes(s) \subseteq Objects(s) /\ added \subseteq Block
      /\ added \cap NodeBlock = {}
  BY SoundCounts, ListedObjects, Fields, Kinds
<1>2. /\ t \in Scenes
      /\ t.nodes = s.nodes /\ t.roots = s.roots /\ t.fault = s.fault
      /\ t.children = s.children /\ t.parent = s.parent
      /\ t.props = s.props \cup added
      /\ t.properties = [s.properties EXCEPT ![n] = s.properties[n] \cup added]
      /\ \A b \in Block : t.ref[b] = s.ref[b] + Cardinality({b} \cap new) + Cardinality({b} \cap own)
  BY <1>1, PropertiesType
<1> HIDE DEF t
<1>3. Nodes(t) = Nodes(s)
  BY <1>2 DEF Nodes
<1>4. \A m \in NodeBlock : t.properties[m] = IF m = n THEN s.properties[m] \cup added ELSE s.properties[m]
  <2>1. s.properties \in [NodeBlock -> SUBSET PropertyBlock]
    BY <1>1, Fields
  <2> QED
    BY <1>1, <1>2, <2>1
<1>5. \A b \in Block : t.ref[b] = Count(t, b)
  <2> SUFFICES ASSUME NEW b \in Block PROVE t.ref[b] = Count(t, b)
    OBVIOUS
  <2>1. s.ref[b] = Count(s, b)
    BY SoundCounts
  <2>2. Cardinality({b} \cap new) = (IF b \in new THEN 1 ELSE 0)
        /\ Cardinality({b} \cap own) = (IF b \in own THEN 1 ELSE 0)
    <3> HIDE DEF new, own
    <3> QED
      BY OneOf
  <2>3. Cardinality(Owners(t, b)) = Cardinality(Owners(s, b)) + (IF b \in own THEN 1 ELSE 0)
    <3>1. CASE b \in own
      <4>1. b \notin s.children[n]
        BY <1>1, <3>1, Fields
      <4>2. Owners(t, b) = Owners(s, b) \cup {n} /\ n \notin Owners(s, b)
        BY <1>1, <1>2, <1>4, <3>1, <4>1 DEF Owners
      <4>3. IsFiniteSet(Owners(s, b))
        BY OwnerCounts
      <4> QED
        BY <3>1, <4>2, <4>3, FS_AddElement
    <3>2. CASE b \notin own
      <4>1. Owners(t, b) = Owners(s, b)
        BY <1>2, <1>4, <3>2 DEF Owners
      <4>2. Cardinality(Owners(s, b)) \in Nat
        BY OwnerCounts
      <4> QED
        BY <3>2, <4>1, <4>2
    <3> QED
      BY <3>1, <3>2
  <2>4. /\ Count(t, b) = Cardinality(Owners(t, b)) + (IF b \in Nodes(s) THEN 1 ELSE 0)
                         + (IF b \in s.roots THEN 1 ELSE 0) + (IF b \in s.props \cup added THEN 1 ELSE 0)
        /\ Count(s, b) = Cardinality(Owners(s, b)) + (IF b \in Nodes(s) THEN 1 ELSE 0)
                         + (IF b \in s.roots THEN 1 ELSE 0) + (IF b \in s.props THEN 1 ELSE 0)
        /\ Cardinality(Owners(s, b)) \in Nat
    BY <1>2, <1>3, CountFacts
  <2>5. t.ref[b] = s.ref[b] + (IF b \in new THEN 1 ELSE 0) + (IF b \in own THEN 1 ELSE 0)
    BY <1>2, <2>2
  <2> HIDE DEF own
  <2> QED
    BY <2>1, <2>3, <2>4, <2>5
<1>6. Counted(t, {})
  <2>1. \A b \in Block : Cardinality({b} \cap {}) = 0 /\ Count(t, b) \in Nat
    BY OneOf, CountFacts
  <2> QED
    BY <1>5, <2>1 DEF Counted
<1>7. Objects(t) = Objects(s) \cup added
  <2>1. ASSUME NEW b \in Block PROVE t.ref[b] > 0 <=> b \in Objects(s) \cup added
    <3>1. t.ref[b] = Count(t, b) /\ s.ref[b] = Count(s, b) /\ Count(t, b) \in Nat /\ Count(s, b) \in Nat
      BY <1>5, SoundCounts, CountFacts
    <3>2. Count(s, b) = 0 <=> Owners(s, b) = {} /\ b \notin Nodes(s) \cup s.roots \cup s.props
      BY CountFacts
    <3>3. Count(t, b) = 0 <=> Owners(t, b) = {} /\ b \notin Nodes(s) \cup s.roots \cup s.props \cup added
      BY <1>2, <1>3, CountFacts
    <3>4. b \notin added => Owners(t, b) = Owners(s, b)
      BY <1>2, <1>4 DEF Owners
    <3> QED
      BY <3>1, <3>2, <3>3, <3>4 DEF Objects
  <2>2. Objects(s) \subseteq Block
    BY DEF Objects
  <2> QED
    BY <1>1, <2>1, <2>2 DEF Objects
<1>8. WellLinked(t)
  BY <1>1, <1>2, <1>4, <1>7 DEF Sound, WellLinked
<1> QED
  BY <1>2, <1>3, <1>6, <1>7, <1>8 DEF t, Sound

-----------------------------------------------------------------------------
(* Lists of blocks.                                                        *)

(* The sequence of a set has each element once.                            *)
LEMMA SequenceOfSet ==
  ASSUME NEW S, IsFiniteSet(S)
  PROVE  /\ SetToSeq(S) \in Seq(S) /\ ToSet(SetToSeq(S)) = S
         /\ \A i, j \in 1 .. Len(SetToSeq(S)) : SetToSeq(S)[i] = SetToSeq(S)[j] => i = j
<1> DEFINE n == Cardinality(S)
           f == SetToSeq(S)
<1>1. n \in Nat /\ ExistsBijection(1 .. n, S)
  BY FS_CardinalityType
<1> HIDE DEF n
<1>2. \E g \in [1 .. n -> S] : IsInjective(g)
  BY <1>1 DEF ExistsBijection, Bijection, Injection, IsInjective
<1>3. f \in [1 .. n -> S] /\ IsInjective(f)
  BY <1>2 DEF SetToSeq, n
<1> HIDE DEF f
<1>4. f \in Injection(1 .. n, S)
  BY <1>3 DEF Injection, IsInjective
<1>5. Cardinality(1 .. n) = n
  BY <1>1, FS_Interval
<1>6. f \in Surjection(1 .. n, S)
  BY <1>4, <1>5, FS_Injection DEF n
<1>7. ToSet(f) = S
  BY <1>3, <1>6 DEF Surjection, ToSet
<1>8. f \in Seq(S) /\ Len(f) = n /\ \A i, j \in 1 .. n : f[i] = f[j] => i = j
  BY <1>1, <1>3 DEF IsInjective
<1> QED
  BY <1>7, <1>8 DEF f

(* The scenes between the steps for the blocks of a list.                  *)
Steps(after, list, step, s) ==
  /\ after \in [0 .. Len(list) -> Scenes]
  /\ after[0] = s
  /\ \A i \in 1 .. Len(list) : list[i] \in NodeBlock /\ after[i] = step[list[i]][after[i - 1]]
  /\ Through(list, step, s) = after[Len(list)]

(* Through is the last scene of such steps.                                *)
LEMMA ThroughSteps ==
  ASSUME NEW list \in Seq(NodeBlock), NEW step \in [NodeBlock -> [Scenes -> Scenes]], NEW s \in Scenes
  PROVE  \E after : Steps(after, list, step, s)
<1>1. PICK n \in Nat : n = Len(list)
  OBVIOUS
<1>2. \A i \in 1 .. n : list[i] \in NodeBlock
  BY <1>1
<1> DEFINE Rec(f) == f = [i \in 0 .. Len(list) |-> IF i = 0 THEN s ELSE step[list[i]][f[i - 1]]]
           by == [i \in 1 .. n |-> step[list[i]]]
<1>3. by \in [1 .. n -> [Scenes -> Scenes]]
  BY <1>2
<1>4. PICK f \in [0 .. n -> Scenes] : Recurses(f, n, s, by)
  <2> HIDE DEF by
  <2> QED
    BY <1>3, RecursionExists
<1>5. \A i \in 1 .. n : f[i] = step[list[i]][f[i - 1]]
  BY <1>4 DEF Recurses
<1>6. Rec(f)
  <2>1. \A i \in 0 .. n : f[i] = IF i = 0 THEN s ELSE step[list[i]][f[i - 1]]
    <3> SUFFICES ASSUME NEW i \in 0 .. n, i # 0 PROVE i \in 1 .. n
      BY <1>4, <1>5, Zenon DEF Recurses
    <3> QED
      BY <1>1
  <2>2. f = [i \in 0 .. n |-> f[i]]
    BY <1>4
  <2> QED
    BY <1>1, <2>1, <2>2, Zenon
<1>7. PICK h : Rec(h) /\ Through(list, step, s) = h[Len(list)]
  BY <1>6 DEF Through
<1>8. h[0] = s /\ \A i \in 1 .. n : h[i] = step[list[i]][h[i - 1]]
  <2>1. \A i \in 0 .. n : h[i] = IF i = 0 THEN s ELSE step[list[i]][h[i - 1]]
    BY <1>1, <1>7, Zenon
  <2>2. 0 \in 0 .. n /\ \A i \in 1 .. n : i \in 0 .. n /\ i # 0
    OBVIOUS
  <2> QED
    BY <2>1, <2>2, Zenon
<1>9. DOMAIN h = 0 .. n /\ h = [i \in 0 .. n |-> h[i]]
  BY <1>1, <1>7, Zenon
<1> HIDE DEF Rec
<1>10. \A i \in 0 .. n : h[i] \in Scenes
  <2> DEFINE T == {i \in 0 .. n : h[i] \in Scenes}
  <2>1. 0 \in T /\ \A i \in 1 .. n : i - 1 \in T => i \in T
    BY <1>2, <1>8
  <2> HIDE DEF T
  <2>2. 0 .. n \subseteq T
    BY <2>1, BoundedInduction
  <2> QED
    BY <2>2 DEF T
<1>11. h \in [0 .. n -> Scenes]
  BY <1>9, <1>10
<1> QED
  BY <1>1, <1>2, <1>7, <1>8, <1>11 DEF Steps

(* Through is a scene.                                                     *)
LEMMA ThroughType ==
  ASSUME NEW list \in Seq(NodeBlock), NEW step \in [NodeBlock -> [Scenes -> Scenes]], NEW s \in Scenes
  PROVE  Through(list, step, s) \in Scenes
<1>1. PICK after : Steps(after, list, step, s)
  BY ThroughSteps
<1>2. Len(list) \in 0 .. Len(list)
  OBVIOUS
<1> QED
  BY <1>1, <1>2 DEF Steps

(* The valid blocks of a list.                                             *)
LEMMA ValidProperties ==
  ASSUME NEW list \in Seq(NodeBlock), NEW d, IsInjective(list)
  PROVE  /\ Valid(list, d) \in Seq(NodeBlock) /\ IsInjective(Valid(list, d))
         /\ ToSet(Valid(list, d)) = ToSet(list) \cap d.blocks
<1> DEFINE S == NodeBlock
           set == d.blocks
<1>1. PICK n \in Nat : n = Len(list)
  OBVIOUS
<1>2. \A i \in 1 .. n : list[i] \in S
  BY <1>1
<1>e. /\ <<>> \in Seq(S)
      /\ \A x \in Seq(S), e \in S : Append(x, e) \in Seq(S)
  OBVIOUS
<1>d. DOMAIN list = 1 .. n
  BY <1>1
<1>a. ToSet(list) = {list[j] : j \in 1 .. n}
  BY <1>d DEF ToSet
<1>i. \A i, j \in 1 .. n : list[i] = list[j] => i = j
  BY <1>d, InjectiveList
<1> HIDE DEF S
<1> DEFINE Rec(f) == f = [i \in 0 .. Len(list) |->
                       IF i = 0 THEN <<>>
                       ELSE IF list[i] \in d.blocks THEN Append(f[i - 1], list[i]) ELSE f[i - 1]]
           Q == Seq(S)
           none == <<>>
           step == [i \in 1 .. n |-> [x \in Q |->
                       IF list[i] \in d.blocks THEN Append(x, list[i]) ELSE x]]
<1> HIDE DEF Q
<1>3. \A i \in 1 .. n, x \in Q : (IF list[i] \in d.blocks THEN Append(x, list[i]) ELSE x) \in Q
  BY <1>2, <1>e DEF Q
<1>4. step \in [1 .. n -> [Q -> Q]]
  BY <1>3
<1>5. PICK f \in [0 .. n -> Q] : Recurses(f, n, none, step)
  <2>1. none \in Q
    BY <1>e DEF Q
  <2> HIDE DEF step, none
  <2> QED
    BY <1>4, <2>1, RecursionExists
<1>6. \A i \in 1 .. n : f[i] = IF list[i] \in d.blocks THEN Append(f[i - 1], list[i]) ELSE f[i - 1]
  <2> SUFFICES ASSUME NEW i \in 1 .. n
               PROVE  f[i] = IF list[i] \in d.blocks THEN Append(f[i - 1], list[i]) ELSE f[i - 1]
    OBVIOUS
  <2>1. i - 1 \in 0 .. n /\ f[i - 1] \in Q
    OBVIOUS
  <2>2. step[i][f[i - 1]] = IF list[i] \in d.blocks THEN Append(f[i - 1], list[i]) ELSE f[i - 1]
    BY <2>1
  <2> QED
    BY <1>5, <2>2 DEF Recurses
<1>7. Rec(f)
  <2>1. \A i \in 0 .. n : f[i] = IF i = 0 THEN <<>>
                                 ELSE IF list[i] \in d.blocks THEN Append(f[i - 1], list[i]) ELSE f[i - 1]
    <3> SUFFICES ASSUME NEW i \in 0 .. n, i # 0 PROVE i \in 1 .. n
      BY <1>5, <1>6, Zenon DEF Recurses
    <3> QED
      BY <1>1
  <2>2. f = [i \in 0 .. n |-> f[i]]
    BY <1>5
  <2> QED
    BY <1>1, <2>1, <2>2, Zenon
<1>8. PICK h : Rec(h) /\ Valid(list, d) = h[Len(list)]
  BY <1>7 DEF Valid
<1>9. /\ h[0] = <<>>
      /\ \A i \in 1 .. n :
           h[i] = IF list[i] \in d.blocks THEN Append(h[i - 1], list[i]) ELSE h[i - 1]
  <2>1. \A i \in 0 .. n : h[i] = IF i = 0 THEN <<>>
                                 ELSE IF list[i] \in d.blocks THEN Append(h[i - 1], list[i]) ELSE h[i - 1]
    BY <1>1, <1>8, Zenon
  <2>2. 0 \in 0 .. n /\ \A i \in 1 .. n : i \in 0 .. n /\ i # 0
    OBVIOUS
  <2> QED
    BY <2>1, <2>2, Zenon
<1> HIDE DEF Rec, set
<1> DEFINE Ok(i) == /\ h[i] \in Seq(S) /\ IsInjective(h[i])
                    /\ ToSet(h[i]) = {list[j] : j \in 1 .. i} \cap set
           T == {i \in 0 .. n : Ok(i)}
<1>10. Ok(0)
  <2>1. ToSet(<<>>) = {} /\ {list[j] : j \in 1 .. 0} = {}
    BY DEF ToSet
  <2>2. IsInjective(<<>>)
    BY DEF IsInjective
  <2> QED
    BY <1>9, <2>1, <2>2, <1>e
<1>11. ASSUME NEW i \in 1 .. n, Ok(i - 1) PROVE Ok(i)
  <2>2. {list[j] : j \in 1 .. i} = {list[j] : j \in 1 .. i - 1} \cup {list[i]}
    BY <1>1
  <2>3. CASE list[i] \in set
    <3>1. h[i] = Append(h[i - 1], list[i])
      BY <1>9, <2>3 DEF set
    <3>2. h[i] \in Seq(S) /\ ToSet(h[i]) = ToSet(h[i - 1]) \cup {list[i]}
      BY <1>2, <1>11, <3>1, AppendSet
    <3>3. list[i] \notin ToSet(h[i - 1])
      <4> SUFFICES ASSUME NEW j \in 1 .. i - 1, list[j] = list[i] PROVE FALSE
        BY <1>11
      <4>1. j \in 1 .. n /\ j # i
        OBVIOUS
      <4> QED
        BY <1>i, <4>1
    <3>4. IsInjective(h[i])
      BY <1>2, <1>11, <3>1, <3>3, AppendedOnce
    <3> QED
      BY <1>11, <2>2, <2>3, <3>2, <3>4
  <2>4. CASE list[i] \notin set
    <3>1. h[i] = h[i - 1]
      BY <1>9, <2>4 DEF set
    <3> QED
      BY <1>11, <2>2, <2>4, <3>1
  <2> QED
    BY <2>3, <2>4
<1>12. Ok(n)
  <2>1. 0 \in T /\ \A i \in 1 .. n : i - 1 \in T => i \in T
    <3> HIDE DEF Ok
    <3> QED
      BY <1>10, <1>11
  <2> HIDE DEF T
  <2>2. 0 .. n \subseteq T
    BY <2>1, BoundedInduction
  <2>3. n \in T
    BY <2>2
  <2> QED
    BY <2>3, Zenon DEF T
<1> QED
  BY <1>1, <1>8, <1>12, <1>a DEF S, set

-----------------------------------------------------------------------------
(* Updates of nodes: each is a function on scenes.                         *)

Updates == [NodeBlock -> [Scenes -> Scenes]]

(* A document that links its own blocks only.                              *)
Document(d) ==
  /\ d.blocks \in SUBSET Block
  /\ d.links \in [Block -> SUBSET d.blocks] /\ d.childLinks \in [Block -> SUBSET Block]
  /\ \A b \in Block \ (NodeBlock \cap d.blocks) : d.links[b] = {}

(* The children and properties of a node are blocks of the document.       *)
LEMMA DocumentNodes ==
  ASSUME NEW d, Document(d), NEW n \in NodeBlock
  PROVE  /\ ChildNodes(d, n) \in SUBSET NodeBlock /\ ChildNodes(d, n) \subseteq d.blocks
         /\ d.links[n] \cap PropertyBlock \in SUBSET PropertyBlock
         /\ IsFiniteSet(ChildNodes(d, n))
<1>1. ChildNodes(d, n) \in SUBSET NodeBlock
  BY DEF ChildNodes
<1>2. d.links[n] \subseteq d.blocks
  BY Kinds DEF Document
<1>3. IsFiniteSet(ChildNodes(d, n))
  BY <1>1, Kinds, FS_Subset
<1> QED
  BY <1>1, <1>2, <1>3 DEF ChildNodes

(* getNode by cases: there is a node already or not.                       *)
LEMMA GetNodeSteps ==
  ASSUME NEW update, NEW s, NEW b
  PROVE  /\ b \in Nodes(s) => GetNode(update, s, b) = s
         /\ b \notin Nodes(s) => GetNode(update, s, b) = update[b][NewNode(s, b)]
BY DEF GetNode, Nodes, NewNode

(* GetNode is a scene.                                                     *)
LEMMA GetNodeType ==
  ASSUME NEW update \in Updates, NEW s \in Scenes, NEW b \in NodeBlock
  PROVE  GetNode(update, s, b) \in Scenes
<1>1. NewNode(s, b) \in Scenes
  BY NewNodeFields
<1>2. update[b][NewNode(s, b)] \in Scenes
  BY <1>1 DEF Updates
<1> QED
  BY <1>2, GetNodeSteps

(* Adoption maps scenes to scenes.                                         *)
LEMMA AdoptionType ==
  ASSUME NEW update \in Updates, NEW n \in NodeBlock
  PROVE  /\ Adoption(update, n) \in Updates
         /\ \A c \in NodeBlock, s \in Scenes :
              Adoption(update, n)[c][s] = MakeParent(GetNode(update, s, c), c, n)
<1>1. \A c \in NodeBlock, s \in Scenes : MakeParent(GetNode(update, s, c), c, n) \in Scenes
  BY GetNodeType, MakeParentType
<1> QED
  BY <1>1 DEF Adoption, Updates

Own(d, s, n) == WithProperties(Cleared(s, n), n, d.links[n] \cap PropertyBlock)

(* NodeUpdated is a scene, the last one of its steps.                      *)
LEMMA NodeUpdatedType ==
  ASSUME NEW update \in Updates, NEW d, Document(d), NEW s \in Scenes, NEW n \in NodeBlock
  PROVE  /\ NodeUpdated(update, d, s, n) \in Scenes
         /\ NodeUpdated(update, d, s, n)
              = Through(SetToSeq(ChildNodes(d, n)), Adoption(update, n), Own(d, s, n))
         /\ Own(d, s, n) \in Scenes
<1>1. Own(d, s, n) \in Scenes
  <2>1. Cleared(s, n) \in Scenes
    BY ClearedType
  <2>2. d.links[n] \cap PropertyBlock \in SUBSET PropertyBlock
    OBVIOUS
  <2> QED
    BY <2>1, <2>2, PropertiesType, Zenon DEF Own
<1>2. NodeUpdated(update, d, s, n)
        = Through(SetToSeq(ChildNodes(d, n)), Adoption(update, n), Own(d, s, n))
  BY DEF NodeUpdated, Own
<1>3. SetToSeq(ChildNodes(d, n)) \in Seq(NodeBlock)
  <2> DEFINE kids == ChildNodes(d, n)
             list == SetToSeq(kids)
  <2>1. IsFiniteSet(kids) /\ kids \in SUBSET NodeBlock
    BY DocumentNodes
  <2>2. list \in Seq(kids)
    BY <2>1, SequenceOfSet
  <2> HIDE DEF kids, list
  <2>3. list \in Seq(NodeBlock)
    BY <2>1, <2>2
  <2> QED
    BY <2>3 DEF kids, list
<1>4. Through(SetToSeq(ChildNodes(d, n)), Adoption(update, n), Own(d, s, n)) \in Scenes
  <2>1. Adoption(update, n) \in [NodeBlock -> [Scenes -> Scenes]]
    BY AdoptionType DEF Updates
  <2> QED
    BY <1>1, <1>3, <2>1, ThroughType
<1> QED
  BY <1>1, <1>2, <1>4

(* An update with one more level of updates within it.                     *)
LEMMA UpdateInType ==
  ASSUME NEW update \in Updates, NEW d, Document(d)
  PROVE  /\ UpdateIn(update, d) \in Updates
         /\ \A n \in NodeBlock, s \in Scenes : UpdateIn(update, d)[n][s] = NodeUpdated(update, d, s, n)
BY NodeUpdatedType DEF UpdateIn, Updates

(* The updates with so many nested ones.                                   *)
Nested(f, d) ==
  /\ f \in [0 .. Cardinality(NodeBlock) -> Updates]
  /\ \A k \in 1 .. Cardinality(NodeBlock) : f[k] = UpdateIn(f[k - 1], d)
  /\ Update(d) = f[Cardinality(NodeBlock)]

(* Update is the last one of them.                                         *)
LEMMA UpdateSteps ==
  ASSUME NEW d, Document(d)
  PROVE  \E f : Nested(f, d)
<1>1. PICK n \in Nat : n = Cardinality(NodeBlock)
  BY Kinds, FS_CardinalityType
<1> DEFINE none == [m \in NodeBlock |-> [s \in Scenes |-> s]]
           Rec(f) == f = [k \in 0 .. Cardinality(NodeBlock) |->
                           IF k = 0 THEN none ELSE UpdateIn(f[k - 1], d)]
           by == [k \in 1 .. n |-> [u \in Updates |-> UpdateIn(u, d)]]
<1>2. none \in Updates
  BY DEF Updates
<1>3. \A u \in Updates : UpdateIn(u, d) \in Updates
  BY UpdateInType
<1>4. by \in [1 .. n -> [Updates -> Updates]]
  BY <1>3
<1>5. Update(d) = (CHOOSE f : Rec(f))[Cardinality(NodeBlock)]
  BY DEF Update
<1> HIDE DEF none
<1>6. PICK f \in [0 .. n -> Updates] : Recurses(f, n, none, by)
  <2> HIDE DEF by
  <2> QED
    BY <1>2, <1>4, RecursionExists
<1>7. \A k \in 1 .. n : f[k] = UpdateIn(f[k - 1], d)
  <2> SUFFICES ASSUME NEW k \in 1 .. n PROVE f[k] = UpdateIn(f[k - 1], d)
    OBVIOUS
  <2>1. k - 1 \in 0 .. n /\ f[k - 1] \in Updates
    OBVIOUS
  <2>2. f[k] = by[k][f[k - 1]]
    BY <1>6 DEF Recurses
  <2> QED
    BY <2>1, <2>2
<1>8. Rec(f)
  <2>1. \A k \in 0 .. n : f[k] = IF k = 0 THEN none ELSE UpdateIn(f[k - 1], d)
    <3> SUFFICES ASSUME NEW k \in 0 .. n, k # 0 PROVE k \in 1 .. n
      BY <1>6, <1>7, Zenon DEF Recurses
    <3> QED
      BY <1>1
  <2>2. f = [k \in 0 .. n |-> f[k]]
    BY <1>6
  <2> QED
    BY <1>1, <2>1, <2>2, Zenon
<1>9. PICK h : Rec(h) /\ Update(d) = h[Cardinality(NodeBlock)]
  BY <1>5, <1>8
<1>10. h[0] = none /\ \A k \in 1 .. n : h[k] = UpdateIn(h[k - 1], d)
  <2>1. \A k \in 0 .. n : h[k] = IF k = 0 THEN none ELSE UpdateIn(h[k - 1], d)
    BY <1>1, <1>9, Zenon
  <2>2. 0 \in 0 .. n /\ \A k \in 1 .. n : k \in 0 .. n /\ k # 0
    OBVIOUS
  <2> QED
    BY <2>1, <2>2, Zenon
<1>11. DOMAIN h = 0 .. n /\ h = [k \in 0 .. n |-> h[k]]
  BY <1>1, <1>9, Zenon
<1> HIDE DEF Rec
<1>12. \A k \in 0 .. n : h[k] \in Updates
  <2> DEFINE T == {k \in 0 .. n : h[k] \in Updates}
  <2>1. 0 \in T /\ \A k \in 1 .. n : k - 1 \in T => k \in T
    BY <1>2, <1>3, <1>10
  <2> HIDE DEF T
  <2>2. 0 .. n \subseteq T
    BY <2>1, BoundedInduction
  <2> QED
    BY <2>2 DEF T
<1>13. h \in [0 .. n -> Updates]
  BY <1>11, <1>12
<1> QED
  BY <1>1, <1>9, <1>10, <1>13, Zenon DEF Nested

(* Update maps scenes to scenes.                                           *)
LEMMA UpdateType ==
  ASSUME NEW d, Document(d)
  PROVE  Update(d) \in Updates
<1>1. PICK f : Nested(f, d)
  BY UpdateSteps
<1>2. Cardinality(NodeBlock) \in Nat
  BY Kinds, FS_CardinalityType
<1>3. Cardinality(NodeBlock) \in 0 .. Cardinality(NodeBlock)
  BY <1>2
<1> QED
  BY <1>1, <1>3 DEF Nested

-----------------------------------------------------------------------------
(* What an update does to the scene.                                       *)

(* The node has a parent, and is a child of it if the document says so.    *)
Attached(d, s, x) ==
  /\ s.parent[x] \in NodeBlock
  /\ x \in ChildNodes(d, s.parent[x]) => x \in s.children[s.parent[x]]

(* Nodes are children of their parents only, and of those that may have    *)
(* them; all node objects are nodes of the scene.                          *)
Tidy(may, s) ==
  /\ Sound(s) /\ NodeBlock \cap Objects(s) \subseteq Nodes(s)
  /\ \A x \in Nodes(s) :
       /\ s.parent[x] = NoNode \/ (s.parent[x] \in Nodes(s) /\ x \in may[s.parent[x]])
       /\ \A p \in NodeBlock : x \in s.children[p] => p = s.parent[x]

Allows(may, d) == \A p \in NodeBlock : ChildNodes(d, p) \subseteq may[p]
Rooted(may, d) == \A p \in NodeBlock : may[p] \cap RootLinks(d) = {}

New(s, t) == Nodes(t) \ Nodes(s)

(* The nodes of a set and the new ones have the children and properties of *)
(* the document, but for the children that are left to do.                 *)
Shows(d, A, left, s, t) ==
  /\ \A p \in A \cup New(s, t) : \A c \in ChildNodes(d, p) :
       (c \in Nodes(t) /\ Attached(d, t, c)) \/ c \in left
  /\ \A x \in Nodes(s) : Attached(d, s, x) => Attached(d, t, x) \/ x \in left

Keeps(d, may, A, left, s, t) ==
  /\ Tidy(may, t) /\ t.fault = s.fault
  /\ \A p \in A \cup New(s, t) : t.properties[p] = d.links[p] \cap PropertyBlock
  /\ \A p \in Nodes(s) \ A : t.properties[p] = s.properties[p]
  /\ Rooted(may, d) => Shows(d, A, left, s, t)

Grows(d, may, A, left, s, t) ==
  /\ Sound(t) /\ (s.fault => t.fault)
  /\ Nodes(s) \subseteq Nodes(t) /\ Nodes(t) \subseteq Nodes(s) \cup d.blocks /\ A \subseteq Nodes(t)
  /\ \A p \in A \cup New(s, t) : t.children[p] \subseteq ChildNodes(d, p) \cap Nodes(t)
  /\ \A p \in NodeBlock \ (A \cup New(s, t)) : t.children[p] \subseteq s.children[p]
  /\ Tidy(may, s) => Keeps(d, may, A, left, s, t)

Grown(d, may, A, left, s, t) == Grows(d, may, A, left, s, t) /\ t.roots = s.roots

(* No step.                                                                *)
LEMMA GrownSame ==
  ASSUME NEW d, NEW may, NEW s, Sound(s)
  PROVE  Grown(d, may, {}, {}, s, s)
<1>1. New(s, s) = {}
  BY DEF New
<1> QED
  BY <1>1 DEF Grown, Grows, Keeps, Shows

(* One after the other.                                                    *)
LEMMA GrowsTwice ==
  ASSUME NEW d, NEW may, NEW s, NEW t, NEW u, NEW A, NEW B, NEW left, NEW more,
         Grows(d, may, A, left, s, t), Grows(d, may, B, more, t, u)
  PROVE  Grows(d, may, A \cup B, left \cup more, s, u)
<1>1. /\ Nodes(s) \subseteq Nodes(t) /\ Nodes(t) \subseteq Nodes(u) /\ A \subseteq Nodes(t) /\ B \subseteq Nodes(u)
      /\ Nodes(u) \subseteq NodeBlock
      /\ Nodes(u) \subseteq Nodes(s) \cup d.blocks
      /\ Sound(u) /\ (s.fault => u.fault)
  BY SoundCounts, Fields DEF Grows
<1>2. New(s, u) = New(s, t) \cup New(t, u)
  BY <1>1 DEF New
<1>3. \A p \in A \cup B \cup New(s, u) : u.children[p] \subseteq ChildNodes(d, p) \cap Nodes(u)
  <2> SUFFICES ASSUME NEW p \in A \cup B \cup New(s, u)
               PROVE  u.children[p] \subseteq ChildNodes(d, p) \cap Nodes(u)
    OBVIOUS
  <2>1. CASE p \in B \cup New(t, u)
    BY <2>1 DEF Grows
  <2>2. CASE p \notin B \cup New(t, u)
    <3>1. p \in A \cup New(s, t) /\ p \in NodeBlock
      BY <1>1, <1>2, <2>2 DEF New
    <3>2. u.children[p] \subseteq t.children[p]
      BY <2>2, <3>1 DEF Grows
    <3>3. t.children[p] \subseteq ChildNodes(d, p) \cap Nodes(t)
      BY <3>1 DEF Grows
    <3> QED
      BY <1>1, <3>2, <3>3
  <2> QED
    BY <2>1, <2>2
<1>4. \A p \in NodeBlock \ (A \cup B \cup New(s, u)) : u.children[p] \subseteq s.children[p]
  <2> SUFFICES ASSUME NEW p \in NodeBlock \ (A \cup B \cup New(s, u))
               PROVE  u.children[p] \subseteq s.children[p]
    OBVIOUS
  <2>1. u.children[p] \subseteq t.children[p]
    BY <1>2 DEF Grows
  <2>2. t.children[p] \subseteq s.children[p]
    BY <1>2 DEF Grows
  <2> QED
    BY <2>1, <2>2
<1>5. ASSUME Tidy(may, s) PROVE Keeps(d, may, A \cup B, left \cup more, s, u)
  <2>1. Keeps(d, may, A, left, s, t)
    BY <1>5 DEF Grows
  <2>2. Keeps(d, may, B, more, t, u)
    BY <2>1 DEF Grows, Keeps
  <2>3. \A p \in A \cup B \cup New(s, u) : u.properties[p] = d.links[p] \cap PropertyBlock
    <3> SUFFICES ASSUME NEW p \in A \cup B \cup New(s, u)
                 PROVE  u.properties[p] = d.links[p] \cap PropertyBlock
      OBVIOUS
    <3>1. CASE p \in B \cup New(t, u)
      BY <2>2, <3>1 DEF Keeps
    <3>2. CASE p \notin B \cup New(t, u)
      <4>1. p \in A \cup New(s, t) /\ p \in Nodes(t) \ B
        BY <1>1, <1>2, <3>2 DEF New
      <4> QED
        BY <2>1, <2>2, <4>1 DEF Keeps
    <3> QED
      BY <3>1, <3>2
  <2>4. \A p \in Nodes(s) \ (A \cup B) : u.properties[p] = s.properties[p]
    <3> SUFFICES ASSUME NEW p \in Nodes(s) \ (A \cup B) PROVE u.properties[p] = s.properties[p]
      OBVIOUS
    <3>1. p \in Nodes(t) \ B /\ p \in Nodes(s) \ A
      BY <1>1
    <3> QED
      BY <2>1, <2>2, <3>1 DEF Keeps
  <2>5. ASSUME Rooted(may, d) PROVE Shows(d, A \cup B, left \cup more, s, u)
    <3>1. Shows(d, A, left, s, t) /\ Shows(d, B, more, t, u)
      BY <2>1, <2>2, <2>5 DEF Keeps
    <3>2. ASSUME NEW p \in A \cup B \cup New(s, u), NEW c \in ChildNodes(d, p)
          PROVE  (c \in Nodes(u) /\ Attached(d, u, c)) \/ c \in left \cup more
      <4>1. CASE p \in B \cup New(t, u)
        BY <3>1, <4>1 DEF Shows
      <4>2. CASE p \notin B \cup New(t, u)
        <5>1. p \in A \cup New(s, t)
          BY <1>2, <4>2
        <5>2. (c \in Nodes(t) /\ Attached(d, t, c)) \/ c \in left
          BY <3>1, <5>1 DEF Shows
        <5>3. CASE c \in Nodes(t) /\ Attached(d, t, c)
          <6>1. Attached(d, u, c) \/ c \in more
            BY <3>1, <5>3 DEF Shows
          <6> QED
            BY <1>1, <5>3, <6>1
        <5> QED
          BY <5>2, <5>3
      <4> QED
        BY <4>1, <4>2
    <3>3. \A x \in Nodes(s) : Attached(d, s, x) => Attached(d, u, x) \/ x \in left \cup more
      BY <1>1, <3>1 DEF Shows
    <3> QED
      BY <3>2, <3>3 DEF Shows
  <2> QED
    BY <2>1, <2>2, <2>3, <2>4, <2>5 DEF Keeps
<1> QED
  BY <1>1, <1>3, <1>4, <1>5 DEF Grows

(* The same, with the roots.                                               *)
LEMMA GrownTwice ==
  ASSUME NEW d, NEW may, NEW s, NEW t, NEW u, NEW A, NEW B, NEW left, NEW more,
         Grown(d, may, A, left, s, t), Grown(d, may, B, more, t, u)
  PROVE  Grown(d, may, A \cup B, left \cup more, s, u)
BY GrowsTwice DEF Grown

(* An object that is new is among the nodes the update is done with.       *)
LEMMA NewNodeTidy ==
  ASSUME NEW may, NEW s, Tidy(may, s), NEW b \in NodeBlock \ Nodes(s)
  PROVE  Tidy(may, NewNode(s, b))
<1> DEFINE h == NewNode(s, b)
<1>1. /\ Sound(h) /\ Nodes(h) = Nodes(s) \cup {b} /\ Objects(h) = Objects(s) \cup {b}
      /\ h.children = s.children /\ h.parent = s.parent
  BY NewNodeSound DEF Tidy
<1> HIDE DEF h
<1>2. b \notin Objects(s)
  BY DEF Tidy
<1>3. s.parent[b] = NoNode /\ \A p \in NodeBlock : b \notin s.children[p]
  BY <1>2, ListedObjects DEF Tidy, Sound, WellLinked
<1>4. Tidy(may, h)
  BY <1>1, <1>3 DEF Tidy
<1> QED
  BY <1>4 DEF h

(* A new node, and then its update.                                        *)
LEMMA GrownNew ==
  ASSUME NEW d, NEW may, NEW s, Sound(s), NEW b \in NodeBlock \cap d.blocks, b \notin Nodes(s), NEW t,
         Grown(d, may, {b}, {}, NewNode(s, b), t)
  PROVE  Grown(d, may, {}, {}, s, t)
<1> DEFINE h == NewNode(s, b)
<1>1. /\ Nodes(h) = Nodes(s) \cup {b} /\ h.roots = s.roots /\ h.fault = s.fault
      /\ h.children = s.children /\ h.properties = s.properties /\ h.parent = s.parent
  BY NewNodeSound
<1>2. Grown(d, may, {b}, {}, h, t)
  OBVIOUS
<1>3. Tidy(may, s) => Tidy(may, h)
  BY NewNodeTidy
<1> HIDE DEF h
<1>4. New(s, t) = {b} \cup New(h, t)
  BY <1>1, <1>2 DEF New, Grown, Grows
<1>5. ASSUME Tidy(may, s) PROVE Keeps(d, may, {}, {}, s, t)
  <2>1. Keeps(d, may, {b}, {}, h, t)
    BY <1>2, <1>3, <1>5 DEF Grown, Grows
  <2>2. ASSUME Rooted(may, d) PROVE Shows(d, {}, {}, s, t)
    <3>1. Shows(d, {b}, {}, h, t)
      BY <2>1, <2>2 DEF Keeps
    <3>2. \A x \in Nodes(s) : Attached(d, s, x) => Attached(d, h, x)
      BY <1>1 DEF Attached
    <3> QED
      BY <1>1, <1>4, <3>1, <3>2 DEF Shows
  <2> QED
    BY <1>1, <1>4, <2>1, <2>2 DEF Keeps
<1> QED
  BY <1>1, <1>2, <1>4, <1>5 DEF Grown, Grows

(* An update does as it should, for a node that is new to the scene s.     *)
Updating(update, d, may, s) ==
  \A c \in NodeBlock \ Nodes(s) : \A t \in Scenes :
    Sound(t) /\ Nodes(s) \cup {c} \subseteq Nodes(t) => Grown(d, may, {c}, {}, t, update[c][t])

(* getNode, which updates a node that is new.                              *)
LEMMA GrownGet ==
  ASSUME NEW update, NEW d, NEW may, NEW r, NEW s, Updating(update, d, may, r), Sound(s),
         Nodes(r) \subseteq Nodes(s), NEW b \in NodeBlock \cap d.blocks
  PROVE  Grown(d, may, {}, {}, s, GetNode(update, s, b)) /\ b \in Nodes(GetNode(update, s, b))
<1>1. CASE b \in Nodes(s)
  BY <1>1, GrownSame, GetNodeSteps
<1>2. CASE b \notin Nodes(s)
  <2> DEFINE h == NewNode(s, b)
             t == GetNode(update, s, b)
  <2>1. Sound(h) /\ Nodes(h) = Nodes(s) \cup {b}
    BY <1>2, NewNodeSound
  <2>2. t = update[b][h]
    BY <1>2, GetNodeSteps
  <2> HIDE DEF t
  <2>3. Grown(d, may, {b}, {}, h, t)
    <3> HIDE DEF h
    <3>1. h \in Scenes
      BY <2>1, SoundCounts
    <3> QED
      BY <1>2, <2>1, <2>2, <3>1 DEF Updating
  <2>4. Grown(d, may, {}, {}, s, t)
    BY <1>2, <2>3, GrownNew
  <2>5. b \in Nodes(t)
    BY <2>3 DEF Grown, Grows
  <2> QED
    BY <2>4, <2>5 DEF t
<1> QED
  BY <1>1, <1>2

(* A child is given its parent.                                            *)
LEMMA GrownAdopt ==
  ASSUME NEW d, NEW may, NEW s, NEW t, NEW n, NEW left, NEW c,
         Allows(may, d), Grown(d, may, {n}, left, s, t),
         c \in ChildNodes(d, n), c \in Nodes(t)
  PROVE  Grown(d, may, {n}, left \ {c}, s, MakeParent(t, c, n))
<1> DEFINE u == MakeParent(t, c, n)
<1>1. Sound(t) /\ n \in Nodes(t) /\ Nodes(t) \subseteq NodeBlock
  BY SoundCounts, Fields DEF Grown, Grows
<1>2. Sound(u) /\ Reparented(t, u, c, n) /\ Objects(u) = Objects(t)
  BY <1>1, MakeParentSound
<1> HIDE DEF u
<1>3. Nodes(u) = Nodes(t) /\ New(s, u) = New(s, t)
  BY <1>2 DEF Reparented, Nodes, New
<1>4. \A m \in NodeBlock :
        /\ m # n => u.children[m] \subseteq t.children[m]
        /\ m = n => u.children[m] = t.children[m] \cup {c}
        /\ m # n /\ m # t.parent[c] => u.children[m] = t.children[m]
        /\ m # n /\ m = t.parent[c] => u.children[m] = t.children[m] \ {c}
  BY <1>2 DEF Reparented
<1>5. \A m \in NodeBlock : u.parent[m] = IF m = c THEN n ELSE t.parent[m]
  <2>1. t.parent \in [NodeBlock -> NodeBlock \cup {NoNode, Dangling}]
    BY <1>1, SoundCounts, Fields
  <2> QED
    BY <1>1, <1>2, <2>1 DEF Reparented
<1>6. ASSUME Tidy(may, s) PROVE Keeps(d, may, {n}, left \ {c}, s, u)
  <2>1. Keeps(d, may, {n}, left, s, t)
    BY <1>6 DEF Grown, Grows
  <2>2. Tidy(may, t)
    BY <2>1 DEF Keeps
  <2>3. c \in may[n]
    BY <1>1 DEF Allows
  <2>4. Tidy(may, u)
    <3>1. ASSUME NEW x \in Nodes(u), NEW p \in NodeBlock, x \in u.children[p] PROVE p = u.parent[x]
      <4>1. CASE x = c
        BY <1>1, <1>3, <1>4, <1>5, <2>2, <3>1, <4>1 DEF Tidy
      <4>2. CASE x # c
        BY <1>1, <1>3, <1>4, <1>5, <2>2, <3>1, <4>2 DEF Tidy
      <4> QED
        BY <4>1, <4>2
    <3>2. ASSUME NEW x \in Nodes(u)
          PROVE  u.parent[x] = NoNode \/ (u.parent[x] \in Nodes(u) /\ x \in may[u.parent[x]])
      BY <1>1, <1>3, <1>5, <2>2, <2>3 DEF Tidy
    <3> QED
      BY <1>2, <1>3, <2>2, <3>1, <3>2 DEF Tidy
  <2>5. u.fault = t.fault
    <3>1. t.parent[c] # Dangling
      BY <1>1, <2>2, Kinds DEF Tidy
    <3>2. t.fault \in BOOLEAN
      BY <1>1, SoundCounts, Fields
    <3> QED
      BY <1>2, <3>1, <3>2 DEF Reparented
  <2>6. u.properties = t.properties
    BY <1>2 DEF Reparented
  <2>7. ASSUME Rooted(may, d) PROVE Shows(d, {n}, left \ {c}, s, u)
    <3>1. Shows(d, {n}, left, s, t)
      BY <2>1, <2>7 DEF Keeps
    <3>2. Attached(d, u, c)
      BY <1>1, <1>4, <1>5 DEF Attached
    <3>3. ASSUME NEW x \in Nodes(t), Attached(d, t, x) PROVE Attached(d, u, x)
      <4>1. CASE x = c
        BY <3>2, <4>1
      <4>2. CASE x # c
        <5>1. x \in NodeBlock /\ u.parent[x] = t.parent[x] /\ t.parent[x] \in NodeBlock
          BY <1>1, <1>5, <3>3, <4>2 DEF Attached
        <5>2. x \in t.children[t.parent[x]] => x \in u.children[t.parent[x]]
          BY <1>4, <4>2, <5>1
        <5> QED
          BY <3>3, <5>1, <5>2 DEF Attached
      <4> QED
        BY <4>1, <4>2
    <3>4. Nodes(s) \subseteq Nodes(t)
      BY DEF Grown, Grows
    <3> QED
      BY <1>3, <3>1, <3>2, <3>3, <3>4 DEF Shows
  <2> QED
    BY <1>3, <2>1, <2>4, <2>5, <2>6, <2>7 DEF Keeps
<1>7. \A p \in {n} \cup New(s, u) : u.children[p] \subseteq ChildNodes(d, p) \cap Nodes(u)
  <2>1. \A p \in {n} \cup New(s, t) : t.children[p] \subseteq ChildNodes(d, p) \cap Nodes(t) /\ p \in NodeBlock
    BY <1>1 DEF Grown, Grows, New
  <2> QED
    BY <1>3, <1>4, <2>1
<1>8. \A p \in NodeBlock \ ({n} \cup New(s, u)) : u.children[p] \subseteq s.children[p]
  BY <1>3, <1>4 DEF Grown, Grows
<1>9. u.roots = s.roots /\ (s.fault => u.fault)
  BY <1>2 DEF Reparented, Grown, Grows
<1> QED
  BY <1>2, <1>3, <1>6, <1>7, <1>8, <1>9 DEF Grown, Grows, u

(* The lists of a node are emptied and get its properties.                 *)
LEMMA GrownOwn ==
  ASSUME NEW d, Document(d), NEW may, NEW s, Sound(s), NEW n \in Nodes(s)
  PROVE  Grown(d, may, {n}, ChildNodes(d, n), s, Own(d, s, n))
<1> DEFINE c == Cleared(s, n)
           added == d.links[n] \cap PropertyBlock
           t == Own(d, s, n)
<1>1. s \in Scenes /\ n \in NodeBlock /\ Nodes(s) \subseteq NodeBlock /\ Nodes(s) \subseteq Objects(s)
  BY SoundCounts, ListedObjects, Fields
<1>2. Sound(c) /\ ClearedFrom(s, c, n)
  BY ClearedSound
<1>3. t = WithProperties(c, n, added)
  BY DEF Own
<1>4. Nodes(c) = Nodes(s)
  BY <1>2 DEF ClearedFrom, Nodes
<1>5. added \in SUBSET PropertyBlock
  OBVIOUS
<1> HIDE DEF c, t, added
<1>6. /\ Sound(t) /\ Nodes(t) = Nodes(c) /\ Objects(t) = Objects(c) \cup added
      /\ t.roots = c.roots /\ t.fault = c.fault
      /\ t.children = c.children /\ t.parent = c.parent
      /\ t.properties = [c.properties EXCEPT ![n] = c.properties[n] \cup added]
  BY <1>2, <1>3, <1>4, <1>5, PropertiesSound
<1>7. New(s, t) = {}
  BY <1>4, <1>6 DEF New
<1>8. \A m \in NodeBlock : t.properties[m] = IF m = n THEN c.properties[m] \cup added ELSE c.properties[m]
  <2>1. c.properties \in [NodeBlock -> SUBSET PropertyBlock]
    BY <1>2, SoundCounts, Fields
  <2> QED
    BY <1>1, <1>6, <2>1
<1>9. ASSUME Tidy(may, s) PROVE Keeps(d, may, {n}, ChildNodes(d, n), s, t)
  <2>1. \A m \in Nodes(s) : t.parent[m] = s.parent[m]
    <3>1. Nodes(s) \subseteq Objects(c)
      BY <1>2, <1>4, ListedObjects
    <3>2. \A m \in Nodes(s) : s.parent[m] \notin NodeBlock \ Objects(c)
      BY <1>9, <3>1, Kinds DEF Tidy
    <3> QED
      BY <1>2, <1>6, <3>2 DEF ClearedFrom
  <2>2. Tidy(may, t)
    <3>1. NodeBlock \cap Objects(t) \subseteq Nodes(t)
      BY <1>2, <1>4, <1>5, <1>6, <1>9, Kinds DEF Tidy, ClearedFrom
    <3>2. \A p \in NodeBlock : t.children[p] \subseteq s.children[p]
      BY <1>2, <1>6 DEF ClearedFrom
    <3> QED
      BY <1>4, <1>6, <1>9, <2>1, <3>1, <3>2 DEF Tidy
  <2>3. t.properties[n] = added
    BY <1>1, <1>2, <1>8 DEF ClearedFrom
  <2>4. \A p \in Nodes(s) \ {n} : t.properties[p] = s.properties[p]
    BY <1>1, <1>2, <1>8 DEF ClearedFrom
  <2>5. ASSUME Rooted(may, d) PROVE Shows(d, {n}, ChildNodes(d, n), s, t)
    <3>1. ASSUME NEW x \in Nodes(s), Attached(d, s, x), x \notin ChildNodes(d, n) PROVE Attached(d, t, x)
      <4>1. s.parent[x] \in NodeBlock /\ t.parent[x] = s.parent[x]
        BY <2>1, <3>1 DEF Attached
      <4>2. ASSUME x \in ChildNodes(d, s.parent[x]) PROVE x \in t.children[s.parent[x]]
        <5>1. s.parent[x] # n /\ s.parent[x] \in Nodes(s) /\ x \in s.children[s.parent[x]]
          BY <1>9, <3>1, <4>1, <4>2, Kinds DEF Tidy, Attached
        <5> QED
          BY <1>2, <1>6, <4>1, <5>1 DEF ClearedFrom
      <4> QED
        BY <4>1, <4>2 DEF Attached
    <3> QED
      BY <1>7, <3>1 DEF Shows
  <2>6. t.fault = s.fault
    BY <1>2, <1>6 DEF ClearedFrom
  <2> QED
    BY <1>7, <2>2, <2>3, <2>4, <2>5, <2>6 DEF Keeps, added
<1>10. /\ Nodes(t) = Nodes(s) /\ t.roots = s.roots /\ t.fault = s.fault
       /\ t.children[n] = {} /\ \A p \in NodeBlock : t.children[p] \subseteq s.children[p]
  BY <1>2, <1>4, <1>6 DEF ClearedFrom
<1> QED
  BY <1>6, <1>7, <1>9, <1>10 DEF Grown, Grows, t

(* The update of a node, with the ones of nodes that are new to it.        *)
LEMMA NodeUpdatedGrown ==
  ASSUME NEW update \in Updates, NEW d, Document(d), NEW may, Allows(may, d),
         NEW s, Sound(s), NEW n \in Nodes(s), Updating(update, d, may, s)
  PROVE  Grown(d, may, {n}, {}, s, NodeUpdated(update, d, s, n))
<1> DEFINE kids == ChildNodes(d, n)
           list == SetToSeq(kids)
           adopt == Adoption(update, n)
           own == Own(d, s, n)
           t == NodeUpdated(update, d, s, n)
<1>1. s \in Scenes /\ n \in NodeBlock
  BY SoundCounts, Fields
<1>2. kids \in SUBSET NodeBlock /\ kids \subseteq d.blocks /\ IsFiniteSet(kids)
  BY <1>1, DocumentNodes
<1>3. t = Through(list, adopt, own) /\ own \in Scenes
  BY <1>1, NodeUpdatedType
<1>4. /\ adopt \in [NodeBlock -> [Scenes -> Scenes]]
      /\ \A c \in NodeBlock, r \in Scenes : adopt[c][r] = MakeParent(GetNode(update, r, c), c, n)
  BY <1>1, AdoptionType DEF Updates
<1>5. Grown(d, may, {n}, kids, s, own)
  BY GrownOwn
<1>6. list \in Seq(NodeBlock) /\ ToSet(list) = kids
  <2> HIDE DEF kids
  <2>1. list \in Seq(kids) /\ ToSet(list) = kids
    BY <1>2, SequenceOfSet
  <2> HIDE DEF list
  <2> QED
    BY <1>2, <2>1
<1>k. \A c \in kids : c \in ChildNodes(d, n)
  OBVIOUS
<1> HIDE DEF kids, list, adopt, own, t
<1>7. PICK after : Steps(after, list, adopt, own)
  BY <1>3, <1>4, <1>6, ThroughSteps
<1>8. Len(list) \in Nat /\ ToSet(list) = {list[i] : i \in 1 .. Len(list)}
  BY <1>6 DEF ToSet
<1> DEFINE left(i) == kids \ {list[j] : j \in 1 .. i}
           T == {i \in 0 .. Len(list) : Grown(d, may, {n}, left(i), s, after[i])}
<1>9. 0 \in T
  <2>1. left(0) = kids /\ after[0] = own
    BY <1>7 DEF Steps
  <2>2. Grown(d, may, {n}, left(0), s, after[0])
    BY <1>5, <2>1
  <2> HIDE DEF left
  <2> QED
    BY <1>8, <2>2
<1>10. ASSUME NEW i \in 1 .. Len(list), i - 1 \in T PROVE i \in T
  <2> DEFINE c == list[i]
             r == after[i - 1]
             g == GetNode(update, r, c)
  <2>1. Grown(d, may, {n}, left(i - 1), s, r)
    BY <1>10
  <2>2. c \in kids /\ c \in NodeBlock \cap d.blocks /\ left(i) = left(i - 1) \ {c}
    <3>1. {list[j] : j \in 1 .. i} = {list[j] : j \in 1 .. i - 1} \cup {list[i]}
      BY <1>8
    <3> QED
      BY <1>2, <1>6, <1>8, <3>1
  <2>3. r \in Scenes /\ after[i] = MakeParent(g, c, n)
    <3>1. i - 1 \in 0 .. Len(list)
      BY <1>8
    <3>2. after[i] = adopt[c][r] /\ r \in Scenes
      BY <1>7, <3>1 DEF Steps
    <3> QED
      BY <1>4, <2>2, <3>2
  <2> HIDE DEF left, c, r
  <2>4. Sound(r) /\ Nodes(s) \subseteq Nodes(r)
    BY <2>1 DEF Grown, Grows
  <2>5. Grown(d, may, {}, {}, r, g) /\ c \in Nodes(g)
    BY <2>2, <2>4, GrownGet
  <2> HIDE DEF g
  <2>6. Grown(d, may, {n}, left(i - 1), s, g)
    <3>1. Grown(d, may, {n} \cup {}, left(i - 1) \cup {}, s, g)
      BY <2>1, <2>5, GrownTwice
    <3>2. {n} \cup {} = {n} /\ left(i - 1) \cup {} = left(i - 1)
      OBVIOUS
    <3> QED
      BY <3>1, <3>2, Zenon
  <2>7. Grown(d, may, {n}, left(i - 1) \ {c}, s, MakeParent(g, c, n))
    BY <1>k, <2>2, <2>5, <2>6, GrownAdopt
  <2>8. Grown(d, may, {n}, left(i), s, after[i])
    BY <2>2, <2>3, <2>7
  <2> QED
    BY <1>8, <2>8
<1>11. Len(list) \in T
  <2> HIDE DEF T
  <2>1. 0 .. Len(list) \subseteq T
    BY <1>8, <1>9, <1>10, BoundedInduction
  <2> QED
    BY <1>8, <2>1
<1>12. left(Len(list)) = {}
  BY <1>6, <1>8
<1>13. after[Len(list)] = t
  BY <1>3, <1>7 DEF Steps
<1>14. Grown(d, may, {n}, left(Len(list)), s, after[Len(list)])
  <2> HIDE DEF left
  <2> QED
    BY <1>11
<1> HIDE DEF left
<1>15. Grown(d, may, {n}, {}, s, t)
  BY <1>12, <1>13, <1>14
<1> QED
  BY <1>15 DEF t

(* Any update of a node, by induction on the blocks without a node.        *)
LEMMA UpdateGrown ==
  ASSUME NEW d, Document(d), NEW may, Allows(may, d), NEW s, Sound(s), NEW n \in Nodes(s)
  PROVE  Grown(d, may, {n}, {}, s, Update(d)[n][s])
<1> DEFINE top == Cardinality(NodeBlock)
           Missing(t) == Cardinality(NodeBlock \ Nodes(t))
<1>1. top \in Nat
  BY Kinds, FS_CardinalityType
<1>2. PICK f : Nested(f, d)
  BY UpdateSteps
<1> DEFINE Good(k) == \A t \in Scenes, m \in NodeBlock :
                        Sound(t) /\ m \in Nodes(t) /\ Missing(t) < k => Grown(d, may, {m}, {}, t, f[k][m][t])
           T == {k \in 0 .. top : Good(k)}
<1>3. \A t : Missing(t) \in Nat
  BY Kinds, FS_Difference, FS_CardinalityType
<1>4. 0 \in T
  <2>1. Good(0)
    <3> HIDE DEF Missing
    <3> QED
      BY <1>3
  <2> HIDE DEF Good
  <2> QED
    BY <1>1, <2>1
<1>5. ASSUME NEW k \in 1 .. top, k - 1 \in T PROVE k \in T
  <2> SUFFICES ASSUME NEW t \in Scenes, NEW m \in NodeBlock, Sound(t), m \in Nodes(t), Missing(t) < k
               PROVE  Grown(d, may, {m}, {}, t, f[k][m][t])
    BY <1>1
  <2>1. f[k - 1] \in Updates /\ f[k] = UpdateIn(f[k - 1], d)
    <3>1. k - 1 \in 0 .. top
      BY <1>1
    <3> QED
      BY <1>2, <3>1 DEF Nested
  <2>2. f[k][m][t] = NodeUpdated(f[k - 1], d, t, m)
    BY <2>1, UpdateInType
  <2>3. Updating(f[k - 1], d, may, t)
    <3> SUFFICES ASSUME NEW c \in NodeBlock \ Nodes(t), NEW u \in Scenes, Sound(u),
                        Nodes(t) \cup {c} \subseteq Nodes(u)
                 PROVE  Grown(d, may, {c}, {}, u, f[k - 1][c][u])
      BY DEF Updating
    <3>1. Missing(u) < Missing(t)
      <4>1. NodeBlock \ Nodes(u) \in SUBSET (NodeBlock \ Nodes(t))
        OBVIOUS
      <4>2. IsFiniteSet(NodeBlock \ Nodes(t))
        BY Kinds, FS_Difference
      <4>3. NodeBlock \ Nodes(u) # NodeBlock \ Nodes(t)
        OBVIOUS
      <4>4. Missing(u) <= Missing(t) /\ Missing(u) # Missing(t)
        BY <4>1, <4>2, <4>3, FS_Subset
      <4> HIDE DEF Missing
      <4> QED
        BY <1>3, <4>4
    <3>2. Missing(u) < k - 1
      <4> HIDE DEF Missing
      <4> QED
        BY <1>1, <1>3, <3>1
    <3> QED
      BY <1>5, <3>2
  <2> QED
    BY <2>1, <2>2, <2>3, NodeUpdatedGrown
<1>6. Good(top)
  <2> HIDE DEF Good
  <2>1. 0 \in T /\ \A k \in 1 .. top : k - 1 \in T => k \in T
    BY <1>4, <1>5
  <2> HIDE DEF T, top
  <2>2. 0 .. top \subseteq T
    BY <1>1, <2>1, BoundedInduction
  <2>3. top \in T
    BY <1>1, <2>2
  <2> QED
    BY <2>3 DEF T
<1>7. s \in Scenes /\ n \in NodeBlock /\ f[top] = Update(d)
  BY <1>2, SoundCounts, Fields DEF Nested
<1>8. Missing(s) < top
  <2>1. NodeBlock \ Nodes(s) \in SUBSET NodeBlock /\ NodeBlock \ Nodes(s) # NodeBlock
    BY <1>7
  <2>2. Missing(s) <= top /\ Missing(s) # top
    BY <2>1, Kinds, FS_Subset
  <2> HIDE DEF Missing, top
  <2> QED
    BY <1>1, <1>3, <2>2
<1> HIDE DEF top, Missing
<1> QED
  BY <1>6, <1>7, <1>8

-----------------------------------------------------------------------------
(* The lists of the scene: objects that are dropped.                       *)

Entries(s, b) == (IF b \in Nodes(s) THEN 1 ELSE 0) + (IF b \in s.roots THEN 1 ELSE 0)
                 + (IF b \in s.props THEN 1 ELSE 0)

(* Only objects that are deleted lose their lists.                         *)
Drained(s, t) ==
  /\ Sound(t) /\ t.fault = s.fault /\ Objects(t) \subseteq Objects(s)
  /\ \A m \in NodeBlock : t.children[m] \subseteq s.children[m]
  /\ \A m \in NodeBlock \cap Objects(t) :
       /\ t.children[m] = s.children[m] /\ t.properties[m] = s.properties[m]
       /\ \/ t.parent[m] = s.parent[m]
          \/ s.parent[m] \in NodeBlock \ Objects(t) /\ t.parent[m] = Dangling

(* A list of the scene drops the objects of a set.                         *)
LEMMA ListDropped ==
  ASSUME NEW s, Sound(s), NEW u \in Scenes, NEW dropped \in SUBSET Block,
         u.children = s.children, u.properties = s.properties, u.parent = s.parent,
         u.ref = s.ref, u.fault = s.fault, IsInjective(u.nodes),
         \A b \in Block : Entries(s, b) = Entries(u, b) + (IF b \in dropped THEN 1 ELSE 0)
  PROVE  LET t == AllReleased(u, dropped)
         IN Drained(s, t) /\ t.nodes = u.nodes /\ t.props = u.props /\ t.roots = u.roots
<1> DEFINE t == AllReleased(u, dropped)
<1>1. Objects(u) = Objects(s)
  BY DEF Objects
<1>2. WellLinked(u)
  BY <1>1 DEF Sound, WellLinked
<1>3. Counted(u, dropped)
  <2> SUFFICES ASSUME NEW b \in Block PROVE u.ref[b] = Count(u, b) + Cardinality({b} \cap dropped)
    BY DEF Counted
  <2>1. Cardinality({b} \cap dropped) = IF b \in dropped THEN 1 ELSE 0
    BY OneOf
  <2>2. u.ref[b] = Count(s, b)
    BY SoundCounts
  <2>3. Owners(u, b) = Owners(s, b)
    BY DEF Owners
  <2>4. /\ Count(u, b) = Cardinality(Owners(s, b)) + Entries(u, b)
        /\ Count(s, b) = Cardinality(Owners(s, b)) + Entries(s, b)
        /\ Cardinality(Owners(s, b)) \in Nat /\ Entries(u, b) \in Nat /\ Entries(s, b) \in Nat
    BY <2>3, CountFacts DEF Entries
  <2>5. Entries(s, b) = Entries(u, b) + (IF b \in dropped THEN 1 ELSE 0)
    OBVIOUS
  <2> QED
    BY <2>1, <2>2, <2>4, <2>5
<1>4. Sound(t) /\ Drops(u, t)
  BY <1>2, <1>3, ReleasedSound
<1> HIDE DEF t
<1>5. \A m \in NodeBlock : t.children[m] \subseteq s.children[m]
  <2> SUFFICES ASSUME NEW m \in NodeBlock PROVE t.children[m] \subseteq s.children[m]
    OBVIOUS
  <2>1. CASE m \in Objects(t)
    BY <1>4, <2>1 DEF Drops
  <2>2. CASE m \notin Objects(t)
    BY <1>4, <2>2 DEF Sound, WellLinked
  <2> QED
    BY <2>1, <2>2
<1>6. Drained(s, t)
  BY <1>1, <1>4, <1>5 DEF Drops, Drained
<1> QED
  BY <1>4, <1>6 DEF Drops, t

(* One after the other.                                                    *)
LEMMA DrainedTwice ==
  ASSUME NEW s, NEW t, NEW u, Sound(s), Drained(s, t), Drained(t, u)
  PROVE  Drained(s, u)
<1>1. \A m \in NodeBlock \cap Objects(u) :
        \/ u.parent[m] = s.parent[m]
        \/ s.parent[m] \in NodeBlock \ Objects(u) /\ u.parent[m] = Dangling
  BY Kinds DEF Drained
<1> QED
  BY <1>1 DEF Drained

(* The nodes of a tidy scene are not touched by that.                      *)
LEMMA DrainedTidy ==
  ASSUME NEW d, NEW may, NEW s, NEW t, Tidy(may, s), Drained(s, t), Nodes(t) = Nodes(s)
  PROVE  /\ Tidy(may, t)
         /\ \A x \in Nodes(s) : /\ t.properties[x] = s.properties[x] /\ t.children[x] = s.children[x]
                                /\ t.parent[x] = s.parent[x]
                                /\ Attached(d, s, x) => Attached(d, t, x)
<1>1. Nodes(s) \subseteq Objects(t) /\ Nodes(s) \subseteq NodeBlock
  BY ListedObjects, SoundCounts, Fields DEF Drained
<1>2. \A x \in Nodes(s) : /\ t.properties[x] = s.properties[x] /\ t.children[x] = s.children[x]
                          /\ t.parent[x] = s.parent[x]
  <2> SUFFICES ASSUME NEW x \in Nodes(s)
               PROVE  /\ t.properties[x] = s.properties[x] /\ t.children[x] = s.children[x]
                      /\ t.parent[x] = s.parent[x]
    OBVIOUS
  <2>1. s.parent[x] \notin NodeBlock \ Objects(t)
    BY <1>1, Kinds DEF Tidy
  <2> QED
    BY <1>1, <2>1 DEF Drained
<1>3. \A x \in Nodes(s) : Attached(d, s, x) => Attached(d, t, x)
  <2> SUFFICES ASSUME NEW x \in Nodes(s), Attached(d, s, x) PROVE Attached(d, t, x)
    OBVIOUS
  <2>1. s.parent[x] \in Nodes(s)
    BY Kinds DEF Tidy, Attached
  <2> QED
    BY <1>2, <2>1 DEF Attached
<1>4. Tidy(may, t)
  <2>1. \A p \in NodeBlock : t.children[p] \subseteq s.children[p]
    BY DEF Drained
  <2> QED
    BY <1>1, <1>2, <2>1 DEF Tidy, Drained
<1> QED
  BY <1>2, <1>3, <1>4

(* The properties, the nodes or the roots of the scene are replaced.       *)
LEMMA ListSet ==
  ASSUME NEW s \in Scenes
  PROVE  /\ \A props \in SUBSET PropertyBlock :
              LET t == [s EXCEPT !.props = props]
              IN /\ t \in Scenes /\ t.props = props /\ t.nodes = s.nodes /\ t.roots = s.roots
                 /\ t.children = s.children /\ t.properties = s.properties /\ t.parent = s.parent
                 /\ t.ref = s.ref /\ t.fault = s.fault
         /\ \A nodes \in Seq(NodeBlock) :
              LET t == [s EXCEPT !.nodes = nodes]
              IN /\ t \in Scenes /\ t.nodes = nodes /\ t.props = s.props /\ t.roots = s.roots
                 /\ t.children = s.children /\ t.properties = s.properties /\ t.parent = s.parent
                 /\ t.ref = s.ref /\ t.fault = s.fault
         /\ \A roots \in SUBSET NodeBlock :
              LET t == [s EXCEPT !.roots = roots]
              IN /\ t \in Scenes /\ t.roots = roots /\ t.nodes = s.nodes /\ t.props = s.props
                 /\ t.children = s.children /\ t.properties = s.properties /\ t.parent = s.parent
                 /\ t.ref = s.ref /\ t.fault = s.fault
BY DEF Scenes

(* Scene::update and clear: properties are dropped.                        *)
LEMMA PropsDropped ==
  ASSUME NEW s, Sound(s), NEW kept
  PROVE  LET t == AllReleased([s EXCEPT !.props = s.props \cap kept], s.props \ kept)
         IN Drained(s, t) /\ t.nodes = s.nodes /\ t.roots = s.roots /\ t.props = s.props \cap kept
<1> DEFINE props == s.props \cap kept
           dropped == s.props \ kept
           u == [s EXCEPT !.props = props]
<1>1. s \in Scenes /\ s.props \in SUBSET PropertyBlock
  BY SoundCounts, Fields
<1>2. props \in SUBSET PropertyBlock /\ dropped \in SUBSET Block
  BY <1>1, Kinds
<1>3. \A b \in Block : b \in s.props <=> (b \in props \/ b \in dropped)
  OBVIOUS
<1>4. props \cap dropped = {}
  OBVIOUS
<1> HIDE DEF props
<1>5. /\ u \in Scenes /\ u.props = props /\ u.nodes = s.nodes /\ u.roots = s.roots
      /\ u.children = s.children /\ u.properties = s.properties /\ u.parent = s.parent
      /\ u.ref = s.ref /\ u.fault = s.fault
  BY <1>1, <1>2, ListSet
<1> HIDE DEF u, dropped
<1>6. IsInjective(u.nodes)
  BY <1>5 DEF Sound, WellLinked
<1>7. \A b \in Block : Entries(s, b) = Entries(u, b) + (IF b \in dropped THEN 1 ELSE 0)
  BY <1>3, <1>4, <1>5 DEF Entries, Nodes
<1>8. LET t == AllReleased(u, dropped)
      IN Drained(s, t) /\ t.nodes = u.nodes /\ t.props = u.props /\ t.roots = u.roots
  BY <1>2, <1>5, <1>6, <1>7, ListDropped
<1> QED
  BY <1>5, <1>8 DEF u, props, dropped

(* The roots are dropped.                                                  *)
LEMMA RootsDropped ==
  ASSUME NEW s, Sound(s)
  PROVE  LET t == AllReleased([s EXCEPT !.roots = {}], s.roots)
         IN Drained(s, t) /\ t.nodes = s.nodes /\ t.roots = {} /\ t.props = s.props
<1> DEFINE dropped == s.roots
           u == [s EXCEPT !.roots = {}]
<1>1. s \in Scenes /\ s.roots \in SUBSET NodeBlock /\ dropped \in SUBSET Block
  BY SoundCounts, Fields, Kinds
<1>5. /\ u \in Scenes /\ u.roots = {} /\ u.props = s.props /\ u.nodes = s.nodes
      /\ u.children = s.children /\ u.properties = s.properties /\ u.parent = s.parent
      /\ u.ref = s.ref /\ u.fault = s.fault
  BY <1>1, ListSet
<1> HIDE DEF u
<1>6. IsInjective(u.nodes)
  BY <1>5 DEF Sound, WellLinked
<1>7. \A b \in Block : Entries(s, b) = Entries(u, b) + (IF b \in dropped THEN 1 ELSE 0)
  BY <1>5 DEF Entries, Nodes
<1>8. LET t == AllReleased(u, dropped)
      IN Drained(s, t) /\ t.nodes = u.nodes /\ t.props = u.props /\ t.roots = u.roots
  BY <1>1, <1>5, <1>6, <1>7, ListDropped
<1> QED
  BY <1>5, <1>8 DEF u

(* The nodes that are not in a list are dropped.                           *)
LEMMA NodesDropped ==
  ASSUME NEW s, Sound(s), NEW list \in Seq(NodeBlock), IsInjective(list), ToSet(list) \subseteq Nodes(s)
  PROVE  LET t == AllReleased([s EXCEPT !.nodes = list], Nodes(s) \ ToSet(list))
         IN Drained(s, t) /\ t.nodes = list /\ t.roots = s.roots /\ t.props = s.props
<1> DEFINE dropped == Nodes(s) \ ToSet(list)
           u == [s EXCEPT !.nodes = list]
<1>1. s \in Scenes /\ Nodes(s) \in SUBSET NodeBlock /\ dropped \in SUBSET Block
  BY SoundCounts, Fields, Kinds
<1>3. \A b \in Block : b \in Nodes(s) <=> (b \in ToSet(list) \/ b \in dropped)
  OBVIOUS
<1>4. ToSet(list) \cap dropped = {}
  OBVIOUS
<1>5. /\ u \in Scenes /\ u.nodes = list /\ u.roots = s.roots /\ u.props = s.props
      /\ u.children = s.children /\ u.properties = s.properties /\ u.parent = s.parent
      /\ u.ref = s.ref /\ u.fault = s.fault
  BY <1>1, ListSet
<1> HIDE DEF u, dropped
<1>7. \A b \in Block : Entries(s, b) = Entries(u, b) + (IF b \in dropped THEN 1 ELSE 0)
  BY <1>3, <1>4, <1>5 DEF Entries, Nodes
<1>8. LET t == AllReleased(u, dropped)
      IN Drained(s, t) /\ t.nodes = u.nodes /\ t.props = u.props /\ t.roots = u.roots
  BY <1>1, <1>5, <1>7, ListDropped
<1> QED
  BY <1>5, <1>8 DEF u, dropped

(* Scene::update starts with the objects whose blocks are gone.            *)
LEMMA ValidatedSound ==
  ASSUME NEW s, Sound(s), NEW d
  PROVE  LET v == Validated(s, d)
         IN Drained(s, v) /\ Nodes(v) = Nodes(s) \cap d.blocks /\ v.roots = s.roots
<1> DEFINE props == AllReleased([s EXCEPT !.props = s.props \cap d.blocks], s.props \ d.blocks)
           list == Valid(s.nodes, d)
           v == Validated(s, d)
<1>1. s \in Scenes /\ s.nodes \in Seq(NodeBlock) /\ IsInjective(s.nodes)
  BY SoundCounts, Fields DEF Sound, WellLinked
<1>2. /\ list \in Seq(NodeBlock) /\ IsInjective(list)
      /\ ToSet(list) = Nodes(s) \cap d.blocks
  BY <1>1, ValidProperties DEF Nodes
<1>3. /\ Drained(s, props) /\ props.nodes = s.nodes /\ props.roots = s.roots /\ Sound(props)
      /\ Nodes(props) = Nodes(s)
  <2>1. Drained(s, props) /\ props.nodes = s.nodes /\ props.roots = s.roots
    BY PropsDropped, Zenon
  <2> HIDE DEF props
  <2> QED
    BY <2>1 DEF Drained, Nodes
<1>4. v = AllReleased([props EXCEPT !.nodes = list], Nodes(s) \ d.blocks)
  <2>1. s.props \cap d.blocks = s.props \cap d.blocks /\ [s EXCEPT !.props = @ \cap d.blocks]
                                                         = [s EXCEPT !.props = s.props \cap d.blocks]
    BY <1>1 DEF Scenes
  <2>2. [props EXCEPT !.nodes = Valid(@, d)] = [props EXCEPT !.nodes = list]
    <3>1. props \in Scenes
      BY <1>3, SoundCounts
    <3> HIDE DEF props
    <3> QED
      BY <1>3, <3>1 DEF Scenes
  <2> QED
    BY <2>1, <2>2, Zenon DEF Validated, Nodes
<1> HIDE DEF props, list, v
<1>5. Nodes(s) \ d.blocks = Nodes(props) \ ToSet(list) /\ ToSet(list) \subseteq Nodes(props)
  BY <1>2, <1>3
<1>6. v = AllReleased([props EXCEPT !.nodes = list], Nodes(props) \ ToSet(list))
  BY <1>4, <1>5
<1>7. Drained(props, v) /\ v.nodes = list /\ v.roots = s.roots
  BY <1>2, <1>3, <1>5, <1>6, NodesDropped
<1>8. Drained(s, v)
  BY <1>3, <1>7, DrainedTwice
<1>9. Nodes(v) = Nodes(s) \cap d.blocks
  BY <1>2, <1>7 DEF Nodes
<1> QED
  BY <1>7, <1>8, <1>9 DEF v

-----------------------------------------------------------------------------
(* Updates of several nodes.                                               *)

(* No step for an empty list.                                              *)
LEMMA NoSteps ==
  ASSUME NEW list \in Seq(NodeBlock), NEW step \in [NodeBlock -> [Scenes -> Scenes]], NEW s \in Scenes,
         ToSet(list) = {}
  PROVE  Through(list, step, s) = s
<1>1. PICK after : Steps(after, list, step, s)
  BY ThroughSteps
<1>2. Len(list) = 0
  <2>1. Len(list) \in Nat /\ ToSet(list) = {list[i] : i \in 1 .. Len(list)}
    BY DEF ToSet
  <2>2. Len(list) # 0 => 1 \in 1 .. Len(list)
    BY <2>1
  <2> QED
    BY <2>1, <2>2
<1> QED
  BY <1>1, <1>2 DEF Steps

(* The nodes of the scene are updated, one after the other.                *)
LEMMA NodesGrown ==
  ASSUME NEW d, Document(d), NEW may, Allows(may, d), NEW s, Sound(s)
  PROVE  Grown(d, may, Nodes(s), {}, s, Through(s.nodes, Update(d), s))
<1> DEFINE list == s.nodes
           t == Through(list, Update(d), s)
<1>1. s \in Scenes /\ list \in Seq(NodeBlock)
  BY SoundCounts, Fields
<1>2. Len(list) \in Nat /\ Nodes(s) = {list[i] : i \in 1 .. Len(list)}
  BY <1>1 DEF ToSet, Nodes
<1> HIDE DEF list, t
<1>3. PICK after : Steps(after, list, Update(d), s)
  <2>1. Update(d) \in [NodeBlock -> [Scenes -> Scenes]]
    BY UpdateType DEF Updates
  <2> QED
    BY <1>1, <2>1, ThroughSteps
<1> DEFINE done(i) == {list[j] : j \in 1 .. i}
           T == {i \in 0 .. Len(list) : Grown(d, may, done(i), {}, s, after[i])}
<1>4. 0 \in T
  <2>1. done(0) = {} /\ after[0] = s
    BY <1>3 DEF Steps
  <2>2. Grown(d, may, done(0), {}, s, after[0])
    BY <2>1, GrownSame
  <2> HIDE DEF done
  <2> QED
    BY <1>2, <2>2
<1>5. ASSUME NEW i \in 1 .. Len(list), i - 1 \in T PROVE i \in T
  <2> DEFINE b == list[i]
             r == after[i - 1]
  <2>1. Grown(d, may, done(i - 1), {}, s, r)
    BY <1>5
  <2>2. after[i] = Update(d)[b][r]
    BY <1>3 DEF Steps
  <2>3. done(i) = done(i - 1) \cup {b} /\ b \in Nodes(s)
    BY <1>2
  <2> HIDE DEF done, b, r
  <2>4. Sound(r) /\ b \in Nodes(r)
    BY <2>1, <2>3 DEF Grown, Grows
  <2>5. Grown(d, may, {b}, {}, r, after[i])
    BY <2>2, <2>4, UpdateGrown
  <2>6. Grown(d, may, done(i - 1) \cup {b}, {} \cup {}, s, after[i])
    BY <2>1, <2>5, GrownTwice
  <2>7. {} \cup {} = {}
    OBVIOUS
  <2>8. Grown(d, may, done(i), {}, s, after[i])
    BY <2>3, <2>6, <2>7, Zenon
  <2> QED
    BY <1>2, <2>8
<1>6. Grown(d, may, done(Len(list)), {}, s, after[Len(list)])
  <2> HIDE DEF done
  <2>1. 0 \in T /\ \A i \in 1 .. Len(list) : i - 1 \in T => i \in T
    BY <1>4, <1>5
  <2> HIDE DEF T
  <2>2. 0 .. Len(list) \subseteq T
    BY <1>2, <2>1, BoundedInduction
  <2>3. Len(list) \in T
    BY <1>2, <2>2
  <2> QED
    BY <2>3 DEF T
<1>7. done(Len(list)) = Nodes(s) /\ after[Len(list)] = t
  BY <1>2, <1>3 DEF Steps, t
<1> HIDE DEF done
<1> QED
  BY <1>6, <1>7 DEF t, list

(* The list of nodes is as long as they are many.                          *)
LEMMA NumberOfNodes ==
  ASSUME NEW s, Sound(s)
  PROVE  Len(s.nodes) = Cardinality(Nodes(s)) /\ Len(s.nodes) \in Nat
<1> DEFINE list == s.nodes
           n == Len(list)
<1>1. list \in Seq(NodeBlock) /\ IsInjective(list)
  BY SoundCounts, Fields DEF Sound, WellLinked
<1> HIDE DEF list
<1>2. n \in Nat /\ DOMAIN list = 1 .. n /\ list \in [1 .. n -> ToSet(list)]
      /\ \A x \in ToSet(list) : \E i \in 1 .. n : list[i] = x
  BY <1>1 DEF ToSet
<1> HIDE DEF n
<1>3. list \in Bijection(1 .. n, ToSet(list))
  BY <1>1, <1>2 DEF Bijection, Injection, Surjection, IsInjective
<1>4. ExistsBijection(1 .. n, ToSet(list))
  BY <1>3 DEF ExistsBijection
<1>5. Cardinality(ToSet(list)) = n
  BY <1>2, <1>4, FS_CountingElements
<1> QED
  BY <1>2, <1>5 DEF n, list, Nodes

(* But for the fault the scene is the same.                                *)
LEMMA IteratedFields ==
  ASSUME NEW s, Sound(s), NEW t, Sound(t)
  PROVE  LET u == Iterated(s, t)
         IN /\ Sound(u) /\ Objects(u) = Objects(t)
            /\ u.nodes = t.nodes /\ u.props = t.props /\ u.roots = t.roots
            /\ u.children = t.children /\ u.properties = t.properties /\ u.parent = t.parent
            /\ t.fault => u.fault
            /\ Nodes(t) = Nodes(s) => u = t
            /\ Nodes(s) \subseteq Nodes(t) /\ ~ u.fault => u = t /\ Nodes(t) = Nodes(s)
<1> DEFINE u == Iterated(s, t)
           fault == t.fault \/ Len(t.nodes) > Len(s.nodes)
<1>1. t \in Scenes
  BY SoundCounts
<1>2. u = [t EXCEPT !.fault = fault]
  BY <1>1 DEF Iterated, Scenes
<1>3. fault \in BOOLEAN
  BY <1>1, Fields
<1>4. Nodes(t) = Nodes(s) => fault = t.fault
  BY <1>1, NumberOfNodes, Fields
<1>5. t.fault => fault
  BY <1>1, Fields
<1>f. ASSUME Nodes(s) \subseteq Nodes(t), ~ fault PROVE Nodes(t) = Nodes(s)
  <2>1. Nodes(t) \in SUBSET NodeBlock
    BY <1>1, Fields
  <2>2. IsFiniteSet(Nodes(t))
    BY <2>1, Kinds, FS_Subset
  <2>3. Cardinality(Nodes(s)) <= Cardinality(Nodes(t))
        /\ (Cardinality(Nodes(s)) = Cardinality(Nodes(t)) => Nodes(s) = Nodes(t))
    BY <1>f, <2>2, FS_Subset
  <2>4. Len(t.nodes) <= Len(s.nodes)
    BY <1>f, NumberOfNodes
  <2>5. Cardinality(Nodes(s)) \in Nat /\ Cardinality(Nodes(t)) \in Nat
    BY NumberOfNodes
  <2>6. Cardinality(Nodes(t)) <= Cardinality(Nodes(s))
    BY <2>4, NumberOfNodes
  <2> QED
    BY <2>3, <2>5, <2>6
<1> HIDE DEF u, fault
<1>6. /\ u \in Scenes /\ u.fault = fault
      /\ u.nodes = t.nodes /\ u.props = t.props /\ u.roots = t.roots /\ u.ref = t.ref
      /\ u.children = t.children /\ u.properties = t.properties /\ u.parent = t.parent
      /\ fault = t.fault => u = t
  BY <1>1, <1>2, <1>3 DEF Scenes
<1>7. Objects(u) = Objects(t)
  BY <1>6 DEF Objects
<1>8. Sound(u)
  <2>1. WellLinked(u)
    BY <1>6, <1>7 DEF Sound, WellLinked
  <2>2. Counted(u, {})
    <3>1. \A b \in Block : Owners(u, b) = Owners(t, b)
      BY <1>6 DEF Owners
    <3>2. Nodes(u) = Nodes(t)
      BY <1>6 DEF Nodes
    <3>3. \A b \in Block : Count(u, b) = Count(t, b)
      BY <1>6, <3>1, <3>2 DEF Count
    <3> QED
      BY <1>6, <3>3 DEF Sound, Counted
  <2> QED
    BY <2>1, <2>2 DEF Sound
<1> QED
  BY <1>f, <1>4, <1>5, <1>6, <1>7, <1>8 DEF u

(* A block becomes a root.                                                 *)
RootAdded(s, b) == Held([s EXCEPT !.roots = s.roots \cup {b}], b)

(* The fields after that.                                                  *)
LEMMA RootAddedType ==
  ASSUME NEW s \in Scenes, NEW b \in NodeBlock
  PROVE  LET t == RootAdded(s, b)
         IN /\ t \in Scenes /\ t.roots = s.roots \cup {b}
            /\ t.nodes = s.nodes /\ t.props = s.props /\ t.fault = s.fault
            /\ t.children = s.children /\ t.properties = s.properties /\ t.parent = s.parent
            /\ \A c \in Block : t.ref[c] = IF c = b THEN s.ref[c] + 1 ELSE s.ref[c]
<1> DEFINE roots == s.roots \cup {b}
           u == [s EXCEPT !.roots = roots]
           t == RootAdded(s, b)
<1>1. roots \in SUBSET NodeBlock /\ b \in Block
  BY Fields, Kinds
<1>2. t = Held(u, b)
  BY DEF RootAdded
<1> HIDE DEF roots, t
<1>3. /\ u \in Scenes /\ u.roots = roots /\ u.nodes = s.nodes /\ u.props = s.props
      /\ u.children = s.children /\ u.properties = s.properties /\ u.parent = s.parent
      /\ u.ref = s.ref /\ u.fault = s.fault
  BY <1>1, ListSet
<1> HIDE DEF u
<1>4. /\ t \in Scenes
      /\ t.nodes = u.nodes /\ t.props = u.props /\ t.roots = u.roots /\ t.fault = u.fault
      /\ t.children = u.children /\ t.properties = u.properties /\ t.parent = u.parent
      /\ \A c \in Block : t.ref[c] = IF c = b THEN u.ref[c] + 1 ELSE u.ref[c]
  BY <1>1, <1>2, <1>3, HeldFields
<1> QED
  BY <1>3, <1>4 DEF t, roots

(* The node is counted by the roots.                                       *)
LEMMA RootAddedSound ==
  ASSUME NEW s, Sound(s), NEW b \in Nodes(s), b \notin s.roots
  PROVE  LET t == RootAdded(s, b)
         IN /\ Sound(t) /\ Objects(t) = Objects(s) /\ t.roots = s.roots \cup {b}
            /\ t.nodes = s.nodes /\ t.fault = s.fault
            /\ t.children = s.children /\ t.properties = s.properties /\ t.parent = s.parent
<1> DEFINE t == RootAdded(s, b)
<1>1. s \in Scenes /\ b \in NodeBlock /\ b \in Block /\ b \in Objects(s)
  BY SoundCounts, ListedObjects, Fields, Kinds
<1>2. /\ t \in Scenes /\ t.roots = s.roots \cup {b}
      /\ t.nodes = s.nodes /\ t.props = s.props /\ t.fault = s.fault
      /\ t.children = s.children /\ t.properties = s.properties /\ t.parent = s.parent
      /\ \A c \in Block : t.ref[c] = IF c = b THEN s.ref[c] + 1 ELSE s.ref[c]
  BY <1>1, RootAddedType
<1> HIDE DEF t
<1>3. Objects(t) = Objects(s)
  <2>1. s.ref[b] > 0 /\ s.ref[b] \in Int
    BY <1>1, Fields DEF Objects
  <2>2. \A c \in Block : t.ref[c] > 0 <=> s.ref[c] > 0
    BY <1>2, <2>1
  <2> QED
    BY <2>2 DEF Objects
<1>4. WellLinked(t)
  BY <1>2, <1>3 DEF Sound, WellLinked
<1>5. Counted(t, {})
  <2> SUFFICES ASSUME NEW c \in Block PROVE t.ref[c] = Count(t, c) + Cardinality({c} \cap {})
    BY DEF Counted
  <2>1. Cardinality({c} \cap {}) = 0
    BY OneOf
  <2>2. Owners(t, c) = Owners(s, c) /\ Nodes(t) = Nodes(s)
    BY <1>2 DEF Owners, Nodes
  <2>3. Count(t, c) \in Nat /\ Count(t, c) = IF c = b THEN Count(s, c) + 1 ELSE Count(s, c)
    BY <1>2, <2>2, CountFacts
  <2>4. s.ref[c] = Count(s, c)
    BY SoundCounts
  <2> QED
    BY <1>2, <2>1, <2>3, <2>4
<1> QED
  BY <1>2, <1>3, <1>4, <1>5 DEF t, Sound

(* Update does as it should.                                               *)
LEMMA UpdateUpdating ==
  ASSUME NEW d, Document(d), NEW may, Allows(may, d), NEW s
  PROVE  Updating(Update(d), d, may, s)
<1> SUFFICES ASSUME NEW c \in NodeBlock \ Nodes(s), NEW t \in Scenes, Sound(t),
                    Nodes(s) \cup {c} \subseteq Nodes(t)
             PROVE  Grown(d, may, {c}, {}, t, Update(d)[c][t])
  BY DEF Updating
<1> QED
  BY UpdateGrown

(* WithRoot is a scene.                                                    *)
LEMMA WithRootType ==
  ASSUME NEW d, Document(d), NEW s \in Scenes, NEW b \in NodeBlock
  PROVE  /\ WithRoot(s, d, b) \in Scenes
         /\ WithRoot(s, d, b) = RootAdded(MakeParent(GetNode(Update(d), s, b), b, NoNode), b)
<1> DEFINE top == MakeParent(GetNode(Update(d), s, b), b, NoNode)
<1>1. Update(d) \in Updates
  BY UpdateType
<1>2. GetNode(Update(d), s, b) \in Scenes
  BY <1>1, GetNodeType
<1>3. top \in Scenes
  BY <1>2, MakeParentType
<1>4. WithRoot(s, d, b) = Held([top EXCEPT !.roots = @ \cup {b}], b)
  BY DEF WithRoot
<1> HIDE DEF top
<1>5. [top EXCEPT !.roots = @ \cup {b}] = [top EXCEPT !.roots = top.roots \cup {b}]
  BY <1>3 DEF Scenes
<1>6. WithRoot(s, d, b) = RootAdded(top, b)
  BY <1>4, <1>5 DEF RootAdded
<1>7. RootAdded(top, b) \in Scenes
  BY <1>3, RootAddedType
<1> QED
  BY <1>6, <1>7 DEF top

(* A root link gets its node, without a parent.                            *)
LEMMA WithRootGrows ==
  ASSUME NEW d, Document(d), NEW may, Allows(may, d), NEW s, Sound(s),
         NEW b \in RootLinks(d) \cap NodeBlock, b \notin s.roots
  PROVE  LET u == WithRoot(s, d, b)
         IN Grows(d, may, {}, {}, s, u) /\ u.roots = s.roots \cup {b} /\ b \in Nodes(u)
<1> DEFINE g == GetNode(Update(d), s, b)
           top == MakeParent(g, b, NoNode)
           u == WithRoot(s, d, b)
<1>1. s \in Scenes /\ b \in NodeBlock \cap d.blocks
  BY SoundCounts DEF RootLinks
<1>2. Grown(d, may, {}, {}, s, g) /\ b \in Nodes(g)
  <2>1. Updating(Update(d), d, may, s)
    BY UpdateUpdating
  <2> HIDE DEF g
  <2> QED
    BY <1>1, <2>1, GrownGet DEF g
<1>3. u = RootAdded(top, b)
  BY <1>1, WithRootType
<1> HIDE DEF g
<1>4. Sound(g) /\ Nodes(g) \subseteq NodeBlock /\ g.roots = s.roots
  BY <1>2, SoundCounts, Fields DEF Grown, Grows
<1>5. Sound(top) /\ Reparented(g, top, b, NoNode) /\ Objects(top) = Objects(g)
  BY <1>2, <1>4, MakeParentSound
<1> HIDE DEF top, u
<1>6. Nodes(top) = Nodes(g) /\ top.roots = s.roots
  BY <1>4, <1>5 DEF Reparented, Nodes
<1>7. /\ Sound(u) /\ Objects(u) = Objects(top) /\ u.roots = s.roots \cup {b}
      /\ Nodes(u) = Nodes(g) /\ u.fault = top.fault
      /\ u.children = top.children /\ u.properties = top.properties /\ u.parent = top.parent
  BY <1>2, <1>3, <1>5, <1>6, RootAddedSound DEF Nodes
<1>8. \A m \in NodeBlock : /\ u.children[m] \subseteq g.children[m]
                           /\ m # g.parent[b] => u.children[m] = g.children[m]
                           /\ u.children[m] = g.children[m] \/ u.children[m] = g.children[m] \ {b}
  BY <1>5, <1>7, Kinds DEF Reparented
<1>9. \A m \in NodeBlock : u.parent[m] = IF m = b THEN NoNode ELSE g.parent[m]
  <2>1. g.parent \in [NodeBlock -> NodeBlock \cup {NoNode, Dangling}]
    BY <1>4, SoundCounts, Fields
  <2> QED
    BY <1>1, <1>5, <1>7, <2>1 DEF Reparented
<1>10. New(s, u) = New(s, g)
  BY <1>7 DEF New
<1>11. ASSUME Tidy(may, s) PROVE Keeps(d, may, {}, {}, s, u)
  <2>1. Keeps(d, may, {}, {}, s, g)
    BY <1>2, <1>11 DEF Grown, Grows
  <2>2. Tidy(may, g)
    BY <2>1 DEF Keeps
  <2>3. Tidy(may, u)
    <3>1. ASSUME NEW x \in Nodes(u), NEW p \in NodeBlock, x \in u.children[p] PROVE p = u.parent[x]
      <4>1. CASE x = b
        <5>1. p = g.parent[b]
          BY <1>4, <1>7, <1>8, <2>2, <3>1, <4>1 DEF Tidy
        <5>2. u.children[p] = g.children[p] \ {b}
          BY <1>5, <1>7, <5>1, Kinds DEF Reparented
        <5> QED
          BY <3>1, <4>1, <5>2
      <4>2. CASE x # b
        BY <1>4, <1>7, <1>8, <1>9, <2>2, <3>1, <4>2 DEF Tidy
      <4> QED
        BY <4>1, <4>2
    <3>2. ASSUME NEW x \in Nodes(u)
          PROVE  u.parent[x] = NoNode \/ (u.parent[x] \in Nodes(u) /\ x \in may[u.parent[x]])
      BY <1>4, <1>7, <1>9, <2>2 DEF Tidy
    <3> QED
      BY <1>5, <1>7, <2>2, <3>1, <3>2 DEF Tidy
  <2>4. u.fault = g.fault
    <3>1. g.parent[b] # Dangling
      BY <1>2, <1>4, <2>2, Kinds DEF Tidy
    <3>2. g.fault \in BOOLEAN
      BY <1>4, SoundCounts, Fields
    <3> QED
      BY <1>5, <1>7, <3>1, <3>2 DEF Reparented
  <2>5. u.properties = g.properties
    BY <1>5, <1>7 DEF Reparented
  <2>6. ASSUME Rooted(may, d) PROVE Shows(d, {}, {}, s, u)
    <3>1. Shows(d, {}, {}, s, g)
      BY <2>1, <2>6 DEF Keeps
    <3>3. ~ Attached(d, g, b)
      <4> SUFFICES ASSUME Attached(d, g, b) PROVE FALSE
        OBVIOUS
      <4>1. b \in may[g.parent[b]] /\ g.parent[b] \in NodeBlock
        BY <1>2, <2>2, Kinds DEF Tidy, Attached
      <4> QED
        BY <2>6, <4>1 DEF Rooted
    <3>4. ASSUME NEW x \in Nodes(g), Attached(d, g, x) PROVE Attached(d, u, x)
      <4>1. x # b
        BY <3>3, <3>4
      <4>2. x \in NodeBlock /\ u.parent[x] = g.parent[x] /\ g.parent[x] \in NodeBlock
        BY <1>4, <1>9, <3>4, <4>1 DEF Attached
      <4>3. x \in g.children[g.parent[x]] => x \in u.children[g.parent[x]]
        BY <1>8, <4>1, <4>2
      <4> QED
        BY <3>4, <4>2, <4>3 DEF Attached
    <3>5. Nodes(s) \subseteq Nodes(g)
      BY <1>2 DEF Grown, Grows
    <3> QED
      BY <1>7, <1>10, <3>1, <3>4, <3>5 DEF Shows
  <2> QED
    BY <1>10, <2>1, <2>3, <2>4, <2>5, <2>6 DEF Keeps
<1>12. s.fault => u.fault
  BY <1>2, <1>5, <1>7 DEF Grown, Grows, Reparented
<1>13. \A p \in New(s, u) : u.children[p] \subseteq ChildNodes(d, p) \cap Nodes(u)
  <2>1. \A p \in New(s, g) : g.children[p] \subseteq ChildNodes(d, p) \cap Nodes(g) /\ p \in NodeBlock
    BY <1>2, <1>4 DEF Grown, Grows, New
  <2> QED
    BY <1>7, <1>8, <1>10, <2>1
<1>14. \A p \in NodeBlock \ New(s, u) : u.children[p] \subseteq s.children[p]
  BY <1>2, <1>8, <1>10 DEF Grown, Grows
<1>15. Nodes(s) \subseteq Nodes(u) /\ Nodes(u) \subseteq Nodes(s) \cup d.blocks
  BY <1>2, <1>7 DEF Grown, Grows
<1>16. Grows(d, may, {}, {}, s, u)
  BY <1>7, <1>11, <1>12, <1>13, <1>14, <1>15 DEF Grows
<1> QED
  BY <1>2, <1>7, <1>16 DEF u

(* All roots of the document, one after the other.                         *)
TopOf(d) == [b \in NodeBlock |-> [t \in Scenes |-> WithRoot(t, d, b)]]

Tops(d) == SetToSeq(RootLinks(d) \cap NodeBlock)

(* All of them.                                                            *)
LEMMA RootsGrow ==
  ASSUME NEW d, Document(d), NEW may, Allows(may, d), NEW s, Sound(s), s.roots = {}
  PROVE  LET u == Through(Tops(d), TopOf(d), s)
         IN /\ Grows(d, may, {}, {}, s, u)
            /\ u.roots = RootLinks(d) \cap NodeBlock /\ u.roots \subseteq Nodes(u)
<1> DEFINE roots == RootLinks(d) \cap NodeBlock
           list == SetToSeq(roots)
           step == TopOf(d)
           u == Through(list, step, s)
<1>1. s \in Scenes
  BY SoundCounts
<1>2. step \in [NodeBlock -> [Scenes -> Scenes]] /\ \A b \in NodeBlock, t \in Scenes : step[b][t] = WithRoot(t, d, b)
  BY WithRootType DEF TopOf
<1>3. IsFiniteSet(roots)
  <2>1. roots \in SUBSET NodeBlock
    OBVIOUS
  <2> HIDE DEF roots
  <2> QED
    BY <2>1, Kinds, FS_Subset
<1>4. /\ list \in Seq(roots) /\ ToSet(list) = roots
      /\ \A i, j \in 1 .. Len(list) : list[i] = list[j] => i = j
  <2> HIDE DEF roots
  <2> QED
    BY <1>3, SequenceOfSet
<1>5. u = Through(Tops(d), TopOf(d), s)
  BY DEF Tops
<1> HIDE DEF list, step, u
<1>6. Len(list) \in Nat /\ roots = {list[i] : i \in 1 .. Len(list)} /\ list \in Seq(NodeBlock)
  BY <1>4 DEF ToSet
<1>7. PICK after : Steps(after, list, step, s)
  BY <1>1, <1>2, <1>6, ThroughSteps
<1> DEFINE done(i) == {list[j] : j \in 1 .. i}
           Ok(i) == Grows(d, may, {}, {}, s, after[i]) /\ after[i].roots = done(i) /\ done(i) \subseteq Nodes(after[i])
           T == {i \in 0 .. Len(list) : Ok(i)}
<1>8. 0 \in T
  <2>1. done(0) = {} /\ after[0] = s
    BY <1>7 DEF Steps
  <2>2. Ok(0)
    BY <2>1, GrownSame DEF Grown
  <2> HIDE DEF Ok
  <2> QED
    BY <1>6, <2>2
<1>9. ASSUME NEW i \in 1 .. Len(list), i - 1 \in T PROVE i \in T
  <2> DEFINE b == list[i]
             r == after[i - 1]
             t == after[i]
  <2>1. Grows(d, may, {}, {}, s, r) /\ r.roots = done(i - 1) /\ done(i - 1) \subseteq Nodes(r)
    BY <1>9
  <2>2. b \in roots /\ b \notin done(i - 1) /\ done(i) = done(i - 1) \cup {b}
    BY <1>4, <1>6
  <2>3. t = WithRoot(r, d, b)
    <3>1. i - 1 \in 0 .. Len(list)
      BY <1>6
    <3>2. t = step[b][r] /\ r \in Scenes
      BY <1>7, <3>1 DEF Steps
    <3> QED
      BY <1>2, <2>2, <3>2
  <2>r. b \in RootLinks(d) \cap NodeBlock
    BY <2>2
  <2> HIDE DEF done, b, r, t, roots
  <2>4. Sound(r)
    BY <2>1 DEF Grows
  <2>5. Grows(d, may, {}, {}, r, t) /\ t.roots = r.roots \cup {b} /\ b \in Nodes(t)
    BY <2>1, <2>2, <2>3, <2>4, <2>r, WithRootGrows
  <2>6. Grows(d, may, {} \cup {}, {} \cup {}, s, t)
    BY <2>1, <2>5, GrowsTwice
  <2>7. {} \cup {} = {}
    OBVIOUS
  <2>8. Grows(d, may, {}, {}, s, t)
    BY <2>6, <2>7, Zenon
  <2>9. Nodes(r) \subseteq Nodes(t)
    BY <2>5 DEF Grows
  <2>10. Ok(i)
    BY <2>1, <2>2, <2>5, <2>8, <2>9 DEF t
  <2> HIDE DEF Ok
  <2> QED
    BY <1>6, <2>10
<1>10. Ok(Len(list))
  <2> HIDE DEF Ok
  <2>1. 0 \in T /\ \A i \in 1 .. Len(list) : i - 1 \in T => i \in T
    BY <1>8, <1>9
  <2> HIDE DEF T
  <2>2. 0 .. Len(list) \subseteq T
    BY <1>6, <2>1, BoundedInduction
  <2>3. Len(list) \in T
    BY <1>6, <2>2
  <2> QED
    BY <2>3 DEF T
<1>11. done(Len(list)) = roots /\ after[Len(list)] = u
  BY <1>6, <1>7 DEF Steps, u
<1> HIDE DEF done, roots
<1>12. Grows(d, may, {}, {}, s, u) /\ u.roots = roots /\ u.roots \subseteq Nodes(u)
  BY <1>10, <1>11
<1> QED
  BY <1>5, <1>12 DEF roots

-----------------------------------------------------------------------------
(* The update of the whole scene.                                          *)

(* The scenes it goes through: valid, with the nodes and then without the  *)
(* roots.                                                                  *)
Stages(d, may, s, v, a, i, r, t) ==
  /\ Drained(s, v) /\ Nodes(v) = Nodes(s) \cap d.blocks
  /\ Grown(d, may, Nodes(v), {}, v, a)
  /\ Nodes(v) = {} => a = v
  /\ i = Iterated(v, a)
  /\ Drained(i, r) /\ Nodes(r) = Nodes(i) /\ r.roots = {}
  /\ Grows(d, may, {}, {}, r, t)
  /\ t.roots = RootLinks(d) \cap NodeBlock /\ t.roots \subseteq Nodes(t)

(* An update of the whole scene goes through them.                         *)
LEMMA UpdateStages ==
  ASSUME NEW d, Document(d), NEW may, Allows(may, d), NEW s, Sound(s)
  PROVE  \E v, a, i, r : Stages(d, may, s, v, a, i, r, SceneUpdated(s, d))
<1> DEFINE v == Validated(s, d)
           a == Through(v.nodes, Update(d), v)
           i == Iterated(v, a)
           r == AllReleased([i EXCEPT !.roots = {}], i.roots)
           t == SceneUpdated(s, d)
<1>1. t = Through(Tops(d), TopOf(d), r)
  BY DEF SceneUpdated, Tops, TopOf
<1>2. Drained(s, v) /\ Nodes(v) = Nodes(s) \cap d.blocks
  BY ValidatedSound, Zenon
<1> HIDE DEF v, t
<1>3. Sound(v)
  BY <1>2 DEF Drained
<1>4. Grown(d, may, Nodes(v), {}, v, a)
  BY <1>3, NodesGrown
<1>5. Nodes(v) = {} => a = v
  <2>1. v \in Scenes /\ v.nodes \in Seq(NodeBlock) /\ Update(d) \in [NodeBlock -> [Scenes -> Scenes]]
    BY <1>3, SoundCounts, Fields, UpdateType DEF Updates
  <2> QED
    BY <2>1, NoSteps DEF Nodes
<1> HIDE DEF a
<1>6. Sound(a)
  BY <1>4 DEF Grown, Grows
<1>7. Sound(i)
  BY <1>3, <1>6, IteratedFields
<1>i. i = Iterated(v, a)
  OBVIOUS
<1> HIDE DEF i
<1>8. Drained(i, r) /\ r.nodes = i.nodes /\ r.roots = {}
  BY <1>7, RootsDropped, Zenon
<1> HIDE DEF r
<1>9. Sound(r) /\ Nodes(r) = Nodes(i)
  BY <1>8 DEF Drained, Nodes
<1>10. /\ Grows(d, may, {}, {}, r, t)
       /\ t.roots = RootLinks(d) \cap NodeBlock /\ t.roots \subseteq Nodes(t)
  BY <1>1, <1>8, <1>9, RootsGrow
<1>11. Stages(d, may, s, v, a, i, r, t)
  BY <1>2, <1>4, <1>5, <1>i, <1>8, <1>9, <1>10 DEF Stages
<1> QED
  BY <1>11 DEF t

(* Whatever the scene, its nodes now have their children in the document,  *)
(* and what is no node any more has none that it had not.                  *)
LEMMA SceneUpdatedSound ==
  ASSUME NEW d, Document(d), NEW s, Sound(s)
  PROVE  LET t == SceneUpdated(s, d)
         IN /\ Sound(t)
            /\ \A p \in Nodes(t) : t.children[p] \subseteq ChildNodes(d, p) \cap Nodes(t)
            /\ \A p \in NodeBlock \ Nodes(t) : t.children[p] \subseteq s.children[p]
<1> DEFINE t == SceneUpdated(s, d)
           may == [p \in NodeBlock |-> ChildNodes(d, p)]
<1>1. Allows(may, d)
  BY DEF Allows
<1> HIDE DEF may, t
<1>2. PICK v, a, i, r : Stages(d, may, s, v, a, i, r, t)
  BY <1>1, UpdateStages DEF t
<1>3. Grown(d, may, Nodes(v), {}, v, a) /\ Grows(d, may, {}, {}, r, t)
  BY <1>2 DEF Stages
<1>4. Sound(v) /\ Sound(a) /\ Sound(t)
  BY <1>2, <1>3 DEF Stages, Drained, Grown, Grows
<1>5. Nodes(r) = Nodes(a) /\ i.children = a.children
  <2>0. i = Iterated(v, a)
    BY <1>2 DEF Stages
  <2>1. i.nodes = a.nodes /\ i.children = a.children
    BY <1>4, <2>0, IteratedFields
  <2>2. Nodes(i) = Nodes(a)
    BY <2>1 DEF Nodes
  <2> QED
    BY <1>2, <2>1, <2>2 DEF Stages
<1>6. /\ \A m \in NodeBlock : v.children[m] \subseteq s.children[m]
      /\ \A m \in NodeBlock : r.children[m] \subseteq a.children[m]
  BY <1>2, <1>5 DEF Stages, Drained
<1>7. Nodes(v) \subseteq Nodes(a) /\ Nodes(a) \subseteq Nodes(t) /\ Nodes(t) \subseteq NodeBlock
  BY <1>3, <1>4, <1>5, SoundCounts, Fields DEF Grown, Grows
<1>8. ASSUME NEW p \in Nodes(t) PROVE t.children[p] \subseteq ChildNodes(d, p) \cap Nodes(t)
  <2>1. CASE p \in New(r, t)
    BY <1>3, <2>1 DEF Grows
  <2>2. CASE p \notin New(r, t)
    <3>1. p \in Nodes(a) /\ p \in NodeBlock
      BY <1>5, <1>7, <2>2 DEF New
    <3>2. t.children[p] \subseteq r.children[p]
      BY <1>3, <2>2, <3>1 DEF Grows
    <3>3. a.children[p] \subseteq ChildNodes(d, p) \cap Nodes(a)
      <4>1. p \in Nodes(v) \cup New(v, a)
        BY <3>1 DEF New
      <4> QED
        BY <1>3, <4>1 DEF Grown, Grows
    <3> QED
      BY <1>6, <1>7, <3>1, <3>2, <3>3
  <2> QED
    BY <2>1, <2>2
<1>9. ASSUME NEW p \in NodeBlock \ Nodes(t) PROVE t.children[p] \subseteq s.children[p]
  <2>1. p \notin New(r, t) /\ p \notin Nodes(v) \cup New(v, a)
    BY <1>7 DEF New
  <2>2. t.children[p] \subseteq r.children[p]
    BY <1>3, <2>1 DEF Grows
  <2>3. a.children[p] \subseteq v.children[p]
    BY <1>3, <2>1 DEF Grown, Grows
  <2> QED
    BY <1>6, <2>2, <2>3
<1> QED
  BY <1>4, <1>8, <1>9 DEF t

(* A scene that shows what the caches know of the document: its roots and  *)
(* the nodes below them by known links, each with its properties, and with *)
(* the children it links.                                                  *)
MayHave(d) == [p \in NodeBlock |-> d.childLinks[p] \cap NodeBlock]

Painted(d, t) ==
  /\ Tidy(MayHave(d), t) /\ ~ t.fault
  /\ Nodes(t) \subseteq d.blocks
  /\ t.roots = RootLinks(d) \cap NodeBlock /\ t.roots \subseteq Nodes(t)
  /\ \A p \in Nodes(t) : /\ t.properties[p] = d.links[p] \cap PropertyBlock
                         /\ \A c \in ChildNodes(d, p) : c \in Nodes(t) /\ Attached(d, t, c)

(* A document, with caches that know links of its node blocks only.        *)
Cached(d) == Document(d) /\ \A b \in Block \ (NodeBlock \cap d.blocks) : d.childLinks[b] = {}

(* Known links lead to children that may be there, never to a root.        *)
LEMMA MayHaveAllows ==
  ASSUME NEW d, Cached(d)
  PROVE  Allows(MayHave(d), d) /\ Rooted(MayHave(d), d)
<1>1. Allows(MayHave(d), d)
  BY DEF Allows, MayHave, ChildNodes
<1>2. ASSUME NEW p \in NodeBlock, NEW b \in MayHave(d)[p], b \in RootLinks(d) PROVE FALSE
  <2>1. b \in d.childLinks[p]
    BY <1>2 DEF MayHave
  <2>2. p \notin d.blocks
    BY <1>2, <2>1 DEF RootLinks
  <2> QED
    BY <2>1, <2>2, Kinds DEF Cached
<1> QED
  BY <1>1, <1>2 DEF Rooted

(* In a document without cycles each node is below a root.                 *)
LEMMA NodesBelowRoots ==
  ASSUME NEW d, Document(d), d.childLinks = d.links, Acyclic(d.links),
         NEW S \in SUBSET (NodeBlock \cap d.blocks), RootLinks(d) \cap NodeBlock \subseteq S,
         \A p \in S : ChildNodes(d, p) \subseteq S
  PROVE  S = NodeBlock \cap d.blocks
<1> DEFINE rest == (NodeBlock \cap d.blocks) \ S
<1>1. ASSUME NEW b \in rest PROVE \E p \in rest : b \in d.links[p]
  <2>1. PICK p \in d.blocks : b \in d.links[p]
    BY DEF RootLinks
  <2>2. p \in NodeBlock
    BY <2>1 DEF Document
  <2>3. p \notin S
    BY <2>1 DEF ChildNodes
  <2> QED
    BY <2>1, <2>2, <2>3
<1>2. rest \in SUBSET DOMAIN d.links
  BY Kinds DEF Document
<1> HIDE DEF rest
<1>3. rest = {}
  BY <1>1, <1>2 DEF Acyclic
<1> QED
  BY <1>3 DEF rest

(* A scene that shows a document whose caches are up to date has all its   *)
(* nodes.                                                                  *)
LEMMA PaintedNodes ==
  ASSUME NEW d, Document(d), d.childLinks = d.links, Acyclic(d.links), NEW s, Painted(d, s)
  PROVE  Nodes(s) = NodeBlock \cap d.blocks
<1>1. Nodes(s) \in SUBSET (NodeBlock \cap d.blocks)
  BY SoundCounts, Fields DEF Painted, Tidy
<1>2. RootLinks(d) \cap NodeBlock \subseteq Nodes(s)
  BY DEF Painted
<1>3. \A p \in Nodes(s) : ChildNodes(d, p) \subseteq Nodes(s)
  BY DEF Painted
<1> QED
  BY <1>1, <1>2, <1>3, NodesBelowRoots

(* It is painted from no scene, or from one that shows it: there the       *)
(* update faults if it meets a child that has no node.                     *)
LEMMA SceneUpdatedPainted ==
  ASSUME NEW d, Cached(d), NEW s, Tidy(MayHave(d), s), ~ s.fault,
         Nodes(s) = {} \/ Painted(d, s)
  PROVE  LET t == SceneUpdated(s, d)
         IN /\ ~ t.fault => Painted(d, t)
            /\ Nodes(s) = {} \/ Nodes(s) = NodeBlock \cap d.blocks => ~ t.fault
<1> DEFINE t == SceneUpdated(s, d)
           may == MayHave(d)
<1>1. Document(d) /\ Allows(may, d) /\ Rooted(may, d) /\ Tidy(may, s) /\ Sound(s) /\ Nodes(s) \subseteq d.blocks
  BY MayHaveAllows DEF Cached, Tidy, Painted
<1>m. may = MayHave(d)
  OBVIOUS
<1> HIDE DEF may, t
<1>2. PICK v, a, i, r : Stages(d, may, s, v, a, i, r, t)
  BY <1>1, UpdateStages DEF t
<1>3. /\ Drained(s, v) /\ Nodes(v) = Nodes(s)
      /\ Grown(d, may, Nodes(v), {}, v, a) /\ Grows(d, may, {}, {}, r, t)
  BY <1>1, <1>2 DEF Stages
<1>4. Tidy(may, v) /\ v.fault = s.fault
  BY <1>1, <1>3, DrainedTidy DEF Drained
<1>5. Keeps(d, may, Nodes(v), {}, v, a) /\ Sound(v) /\ Sound(a) /\ a.fault = s.fault /\ Nodes(v) \subseteq Nodes(a)
  BY <1>3, <1>4 DEF Grown, Grows, Keeps, Tidy
<1>i. i = Iterated(v, a) /\ i.fault = r.fault /\ (r.fault => t.fault)
  BY <1>2, <1>3 DEF Stages, Drained, Grows
<1>6. ASSUME Nodes(s) = {} \/ Nodes(s) = NodeBlock \cap d.blocks PROVE Nodes(a) = Nodes(v)
  <2>1. CASE Nodes(s) = {}
    BY <1>2, <1>3, <2>1 DEF Stages
  <2>2. CASE Nodes(s) = NodeBlock \cap d.blocks
    <3>1. Nodes(a) \subseteq NodeBlock
      BY <1>5, SoundCounts, Fields
    <3> QED
      BY <1>3, <2>2, <3>1 DEF Grown, Grows
  <2> QED
    BY <1>6, <2>1, <2>2
<1>7. ASSUME ~ t.fault \/ Nodes(a) = Nodes(v) PROVE i = a /\ Nodes(a) = Nodes(v)
  <2>1. ~ i.fault \/ Nodes(a) = Nodes(v)
    BY <1>7, <1>i
  <2> QED
    BY <1>5, <1>i, <2>1, IteratedFields
<1>8. ASSUME i = a, Nodes(a) = Nodes(v) PROVE Painted(d, t)
  <2>1. /\ Tidy(may, a)
        /\ \A p \in Nodes(a) : a.properties[p] = d.links[p] \cap PropertyBlock
        /\ \A p \in Nodes(a) : \A c \in ChildNodes(d, p) : c \in Nodes(a) /\ Attached(d, a, c)
    <3>1. Shows(d, Nodes(v), {}, v, a)
      BY <1>1, <1>5 DEF Keeps
    <3> QED
      BY <1>4, <1>5, <1>8, <3>1 DEF Keeps, Shows
  <2>2. Drained(a, r) /\ Nodes(r) = Nodes(a)
    BY <1>2, <1>8 DEF Stages
  <2>3. /\ Tidy(may, r) /\ r.fault = s.fault
        /\ \A x \in Nodes(a) : r.properties[x] = a.properties[x] /\ (Attached(d, a, x) => Attached(d, r, x))
    BY <1>5, <2>1, <2>2, DrainedTidy DEF Drained
  <2>4. Keeps(d, may, {}, {}, r, t) /\ Shows(d, {}, {}, r, t)
    BY <1>1, <1>3, <2>3 DEF Grows, Keeps
  <2>5. Tidy(may, t) /\ ~ t.fault
    BY <2>3, <2>4 DEF Keeps
  <2>6. ASSUME NEW p \in Nodes(t)
        PROVE  /\ t.properties[p] = d.links[p] \cap PropertyBlock
               /\ \A c \in ChildNodes(d, p) : c \in Nodes(t) /\ Attached(d, t, c)
    <3>1. CASE p \in New(r, t)
      BY <2>4, <3>1 DEF Keeps, Shows
    <3>2. CASE p \notin New(r, t)
      <4>1. p \in Nodes(r) /\ p \in Nodes(a) /\ Nodes(r) \subseteq Nodes(t)
        BY <1>3, <2>2, <3>2 DEF New, Grows
      <4>2. t.properties[p] = r.properties[p]
        BY <2>4, <4>1 DEF Keeps
      <4>3. \A c \in ChildNodes(d, p) : c \in Nodes(r) /\ Attached(d, r, c)
        BY <2>1, <2>2, <2>3, <4>1
      <4>4. \A c \in ChildNodes(d, p) : Attached(d, t, c)
        BY <2>4, <4>3 DEF Shows
      <4> QED
        BY <2>1, <2>3, <4>1, <4>2, <4>3, <4>4
    <3> QED
      BY <3>1, <3>2
  <2>7. t.roots = RootLinks(d) \cap NodeBlock /\ t.roots \subseteq Nodes(t)
    BY <1>2 DEF Stages
  <2>8. Nodes(t) \subseteq d.blocks
    BY <1>1, <1>3, <1>8, <2>2 DEF Grows
  <2> QED
    BY <1>m, <2>5, <2>6, <2>7, <2>8 DEF Painted
<1>9. ~ t.fault => Painted(d, t)
  BY <1>7, <1>8
<1>10. Nodes(s) = {} \/ Nodes(s) = NodeBlock \cap d.blocks => ~ t.fault
  BY <1>6, <1>7, <1>8 DEF Painted
<1> QED
  BY <1>9, <1>10 DEF t

-----------------------------------------------------------------------------
(* The scene is built from nothing.                                        *)

(* The scene before the first paint.                                       *)
LEMMA EmptyScene ==
  /\ Sound(Empty) /\ Nodes(Empty) = {} /\ ~ Empty.fault
  /\ \A may : Tidy(may, Empty)
<1>1. /\ Empty \in Scenes /\ Nodes(Empty) = {} /\ IsInjective(Empty.nodes) /\ ~ Empty.fault
      /\ Empty.roots = {} /\ Empty.props = {}
      /\ \A n \in NodeBlock : Empty.children[n] = {} /\ Empty.properties[n] = {} /\ Empty.parent[n] = NoNode
      /\ \A b \in Block : Empty.ref[b] = 0
  <2>1. Empty \in Scenes
    BY DEF Empty, Scenes
  <2> QED
    BY <2>1 DEF Empty, Nodes, ToSet, IsInjective
<1>2. Objects(Empty) = {} /\ \A b \in Block : Owners(Empty, b) = {}
  BY <1>1 DEF Objects, Owners
<1>3. WellLinked(Empty)
  BY <1>1, <1>2 DEF WellLinked
<1>4. Counted(Empty, {})
  <2> SUFFICES ASSUME NEW b \in Block PROVE Empty.ref[b] = Count(Empty, b) + Cardinality({b} \cap {})
    BY DEF Counted
  <2>1. Count(Empty, b) \in Nat /\ Count(Empty, b) = 0
    BY <1>1, <1>2, CountFacts
  <2>2. Cardinality({b} \cap {}) = 0
    BY OneOf
  <2> QED
    BY <1>1, <2>1, <2>2
<1>5. Sound(Empty)
  BY <1>3, <1>4 DEF Sound
<1> QED
  BY <1>1, <1>2, <1>5 DEF Tidy

(* A sound scene without objects is that one.                              *)
LEMMA NothingLeft ==
  ASSUME NEW t, Sound(t), ~ t.fault, t.nodes = <<>>, t.props = {}, t.roots = {}, Objects(t) = {}
  PROVE  t = Empty
<1>1. t \in Scenes
  BY SoundCounts
<1>2. \A n \in NodeBlock : t.children[n] = {} /\ t.properties[n] = {} /\ t.parent[n] = NoNode
  BY DEF Sound, WellLinked
<1>3. \A b \in Block : t.ref[b] = 0
  <2> SUFFICES ASSUME NEW b \in Block PROVE t.ref[b] = 0
    OBVIOUS
  <2>1. t.ref[b] = Count(t, b) /\ Count(t, b) \in Nat
    BY SoundCounts, CountFacts
  <2>2. ~ (t.ref[b] > 0)
    BY DEF Objects
  <2> QED
    BY <2>1, <2>2
<1>4. /\ t.children = [n \in NodeBlock |-> {}] /\ t.properties = [n \in NodeBlock |-> {}]
      /\ t.parent = [n \in NodeBlock |-> NoNode] /\ t.ref = [b \in Block |-> 0]
  BY <1>1, <1>2, <1>3, Fields
<1>5. t.fault = FALSE
  BY <1>1, Fields
<1> QED
  BY <1>1, <1>4, <1>5 DEF Empty, Scenes

(* Scene::clear drops the nodes, the properties and the roots.             *)
LEMMA SceneClearedSound ==
  ASSUME NEW s, Sound(s)
  PROVE  LET t == SceneCleared(s)
         IN Drained(s, t) /\ t.nodes = <<>> /\ t.props = {} /\ t.roots = {}
<1> DEFINE n == AllReleased([s EXCEPT !.nodes = <<>>], ToSet(s.nodes))
           p == AllReleased([n EXCEPT !.props = {}], s.props)
           t == SceneCleared(s)
<1>1. t = AllReleased([p EXCEPT !.roots = {}], s.roots)
  BY DEF SceneCleared
<1> HIDE DEF t
<1>2. Drained(s, n) /\ n.nodes = <<>> /\ n.roots = s.roots /\ n.props = s.props
  <2> DEFINE none == <<>>
  <2>1. none \in Seq(NodeBlock) /\ IsInjective(none) /\ ToSet(none) = {}
    BY DEF IsInjective, ToSet
  <2>2. ToSet(s.nodes) = Nodes(s) \ ToSet(none)
    BY <2>1 DEF Nodes
  <2>3. n = AllReleased([s EXCEPT !.nodes = none], Nodes(s) \ ToSet(none))
    BY <2>2, Zenon
  <2> HIDE DEF none, n
  <2>4. Drained(s, n) /\ n.nodes = none /\ n.roots = s.roots /\ n.props = s.props
    BY <2>1, <2>3, NodesDropped
  <2> QED
    BY <2>4 DEF none
<1> HIDE DEF n
<1>3. Sound(n)
  BY <1>2 DEF Drained
<1>4. Drained(n, p) /\ p.nodes = n.nodes /\ p.roots = n.roots /\ p.props = {}
  <2>1. n.props \cap {} = {} /\ n.props \ {} = s.props
    BY <1>2
  <2>2. p = AllReleased([n EXCEPT !.props = n.props \cap {}], n.props \ {})
    BY <2>1
  <2> HIDE DEF p
  <2>3. Drained(n, p) /\ p.nodes = n.nodes /\ p.roots = n.roots /\ p.props = n.props \cap {}
    BY <1>3, <2>2, PropsDropped
  <2> QED
    BY <2>1, <2>3
<1> HIDE DEF p
<1>5. Sound(p) /\ Drained(s, p)
  BY <1>2, <1>4, DrainedTwice DEF Drained
<1>6. Drained(p, t) /\ t.nodes = p.nodes /\ t.roots = {} /\ t.props = p.props
  <2>1. t = AllReleased([p EXCEPT !.roots = {}], p.roots)
    BY <1>1, <1>2, <1>4
  <2> QED
    BY <1>5, <2>1, RootsDropped
<1>7. Drained(s, t)
  BY <1>5, <1>6, DrainedTwice
<1> QED
  BY <1>2, <1>4, <1>6, <1>7 DEF t

(* All objects are gone: each one that is left would be owned by another   *)
(* one.                                                                    *)
LEMMA SceneClearedEmpty ==
  ASSUME NEW s, Sound(s), ~ s.fault, Acyclic(s.children)
  PROVE  SceneCleared(s) = Empty
<1> DEFINE t == SceneCleared(s)
<1>1. Drained(s, t) /\ t.nodes = <<>> /\ t.props = {} /\ t.roots = {}
  BY SceneClearedSound, Zenon
<1> HIDE DEF t
<1>2. Sound(t) /\ ~ t.fault /\ Nodes(t) = {}
  BY <1>1 DEF Drained, Nodes, ToSet
<1>3. ASSUME NEW b \in Objects(t)
      PROVE  \E p \in NodeBlock \cap Objects(t) : b \in t.children[p] \cup t.properties[p]
  <2>1. Owners(t, b) # {} /\ b \in Block
    BY <1>1, <1>2, ObjectsListed
  <2>2. PICK p \in NodeBlock : b \in t.children[p] \cup t.properties[p]
    BY <2>1 DEF Owners
  <2>3. p \in Objects(t)
    BY <1>2, <2>2 DEF Sound, WellLinked
  <2> QED
    BY <2>2, <2>3
<1> DEFINE S == NodeBlock \cap Objects(t)
<1>4. S = {}
  <2>1. ASSUME NEW b \in S PROVE \E p \in S : b \in s.children[p]
    <3>1. PICK p \in S : b \in t.children[p] \cup t.properties[p]
      BY <1>3
    <3>2. b \notin t.properties[p]
      BY <1>2, Kinds, ListedObjects
    <3> QED
      BY <1>1, <3>1, <3>2 DEF Drained
  <2>2. S \in SUBSET DOMAIN s.children
    BY SoundCounts, Fields
  <2> HIDE DEF S
  <2> QED
    BY <2>1, <2>2 DEF Acyclic
<1>5. Objects(t) = {}
  BY <1>3, <1>4
<1> QED
  BY <1>1, <1>2, <1>5, NothingLeft DEF t

-----------------------------------------------------------------------------
(* No node is below itself.                                                *)

(* Fewer links make no cycle.                                              *)
LEMMA AcyclicBelow ==
  ASSUME NEW next, NEW below, DOMAIN below \subseteq DOMAIN next, Acyclic(next),
         \A p \in DOMAIN below : below[p] \subseteq next[p]
  PROVE  Acyclic(below)
BY DEF Acyclic

(* A tidy scene is as acyclic as the document is.                          *)
LEMMA TidyAcyclic ==
  ASSUME NEW s, NEW may, Tidy(may, s), NEW links0 \in [Block -> SUBSET Block], Acyclic(links0),
         \A p \in NodeBlock : may[p] \subseteq links0[p]
  PROVE  Acyclic(s.children)
<1>1. s.children \in [NodeBlock -> SUBSET NodeBlock]
  BY SoundCounts, Fields DEF Tidy
<1>2. ASSUME NEW p \in NodeBlock, NEW x \in s.children[p] PROVE x \in links0[p]
  <2>1. x \in Nodes(s)
    BY <1>1, <1>2, ListedObjects DEF Tidy
  <2>2. p = s.parent[x] /\ (s.parent[x] = NoNode \/ x \in may[s.parent[x]])
    BY <2>1, <1>2 DEF Tidy
  <2> QED
    BY <2>2, Kinds
<1> QED
  BY <1>1, <1>2, Kinds, AcyclicBelow

(* An update keeps it so: its nodes have children of the document, and     *)
(* these are nodes, too.                                                   *)
LEMMA UpdatedAcyclic ==
  ASSUME NEW d, Document(d), Acyclic(d.links), NEW s, Sound(s), Acyclic(s.children)
  PROVE  Acyclic(SceneUpdated(s, d).children)
<1> DEFINE t == SceneUpdated(s, d)
<1>1. /\ Sound(t)
      /\ \A p \in Nodes(t) : t.children[p] \subseteq ChildNodes(d, p) \cap Nodes(t)
      /\ \A p \in NodeBlock \ Nodes(t) : t.children[p] \subseteq s.children[p]
  BY SceneUpdatedSound
<1> HIDE DEF t
<1>2. /\ DOMAIN t.children = NodeBlock /\ DOMAIN s.children = NodeBlock /\ DOMAIN d.links = Block
      /\ Nodes(t) \subseteq NodeBlock
  BY <1>1, SoundCounts, Fields DEF Document
<1>3. SUFFICES ASSUME NEW S \in SUBSET NodeBlock, S # {}, \A b \in S : \E p \in S : b \in t.children[p]
               PROVE  FALSE
  BY <1>2 DEF Acyclic, t
<1>4. \A b \in S \ Nodes(t) : \E p \in S \ Nodes(t) : b \in s.children[p]
  BY <1>1, <1>3
<1>5. S \ Nodes(t) = {}
  <2> DEFINE R == S \ Nodes(t)
  <2>1. R \in SUBSET DOMAIN s.children
    BY <1>2
  <2>2. \A b \in R : \E p \in R : b \in s.children[p]
    BY <1>4
  <2> HIDE DEF R
  <2>3. R = {}
    BY <2>1, <2>2 DEF Acyclic
  <2> QED
    BY <2>3 DEF R
<1>6. \A b \in S : \E p \in S : b \in d.links[p]
  BY <1>1, <1>3, <1>5 DEF ChildNodes
<1>7. S \in SUBSET DOMAIN d.links
  BY <1>2, Kinds
<1> QED
  BY <1>3, <1>6, <1>7 DEF Acyclic

-----------------------------------------------------------------------------
(***************************************************************************)
(* The inductive invariant: the document and what the caches know of it    *)
(* have no cycles, the scene is sound, until a fault no node is below      *)
(* itself, and a scene that waits for no paint shows what the caches know. *)
(***************************************************************************)

DocumentOf(b, l, k) == [blocks |-> b, links |-> l, childLinks |-> k]

OneDocument(b, l) ==
  /\ b \in SUBSET Block
  /\ l \in [Block -> SUBSET b]
  /\ \A n \in Block \ (NodeBlock \cap b) : l[n] = {}
  /\ Acyclic(l)

Documents(b, l, k) == OneDocument(b, l) /\ OneDocument(b, k)

Follows(b, l, k, pending, s) ==
  /\ Sound(s)
  /\ ~ s.fault => Acyclic(s.children)
  /\ ~ s.fault /\ ~ pending => Painted(DocumentOf(b, l, k), s)

IInv ==
  /\ Documents(blocks, links, known) /\ doCompile \in BOOLEAN
  /\ Follows(blocks, links, known, doCompile, scene)

(* The document as the scene sees it.                                      *)
LEMMA CurrentDocument ==
  ASSUME NEW b, NEW l, NEW k, Documents(b, l, k)
  PROVE  LET d == DocumentOf(b, l, k)
         IN /\ Cached(d) /\ Document(d) /\ d.blocks = b /\ d.links = l /\ d.childLinks = k
            /\ k \in [Block -> SUBSET Block] /\ Acyclic(d.links) /\ Acyclic(d.childLinks)
BY DEF Documents, OneDocument, DocumentOf, Document, Cached

(* A painted scene is tidy, and as acyclic as what the caches know.        *)
LEMMA PaintedFollows ==
  ASSUME NEW b, NEW l, NEW k, Documents(b, l, k), NEW s, NEW pending, Painted(DocumentOf(b, l, k), s)
  PROVE  Follows(b, l, k, pending, s)
<1> DEFINE d == DocumentOf(b, l, k)
           may == MayHave(d)
<1>1. k \in [Block -> SUBSET Block] /\ Acyclic(k) /\ d.childLinks = k
  BY CurrentDocument
<1>2. \A p \in NodeBlock : may[p] \subseteq k[p]
  BY <1>1 DEF MayHave
<1>3. Tidy(may, s)
  BY DEF Painted
<1>4. Sound(s)
  BY <1>3 DEF Tidy
<1> HIDE DEF may
<1>5. Acyclic(s.children)
  BY <1>1, <1>2, <1>3, TidyAcyclic
<1> QED
  BY <1>4, <1>5 DEF Follows

(* The data of a node changes, links of it as well: its update shows what  *)
(* the caches know of them, unless it meets a child that has no node.      *)
LEMMA BlockKeepsPainted ==
  ASSUME NEW d, Cached(d), NEW e, Cached(e), e.blocks = d.blocks, e.childLinks = d.childLinks,
         NEW n \in Block, \A p \in Block \ {n} : e.links[p] = d.links[p],
         NEW s, Painted(d, s)
  PROVE  LET t == BlockUpdated(s, e, n)
         IN /\ Sound(t) /\ (~ t.fault => Painted(e, t))
            /\ Nodes(s) = NodeBlock \cap d.blocks => ~ t.fault
<1> DEFINE may == MayHave(e)
<1>1. /\ Document(e) /\ Allows(may, e) /\ Rooted(may, e) /\ RootLinks(e) = RootLinks(d) /\ MayHave(d) = MayHave(e)
  BY MayHaveAllows DEF Cached, RootLinks, MayHave
<1>m. may = MayHave(e)
  OBVIOUS
<1> HIDE DEF may
<1>2. Tidy(may, s) /\ Sound(s) /\ Nodes(s) \subseteq NodeBlock /\ ~ s.fault
  BY <1>1, <1>m, SoundCounts, Fields DEF Painted, Tidy
<1>3. \A p \in NodeBlock : p # n => ChildNodes(e, p) = ChildNodes(d, p) /\ e.links[p] = d.links[p]
  BY Kinds DEF ChildNodes
<1>4. ASSUME NEW x \in Nodes(s), Attached(d, s, x) PROVE Attached(e, s, x) \/ x \in ChildNodes(e, n)
  <2>1. s.parent[x] \in NodeBlock
    BY <1>4 DEF Attached
  <2> QED
    BY <1>3, <1>4, <2>1 DEF Attached
<1>5. CASE n \notin Nodes(s)
  <2>1. BlockUpdated(s, e, n) = s
    BY <1>5 DEF BlockUpdated, Nodes
  <2>2. ASSUME NEW p \in Nodes(s), NEW c \in ChildNodes(e, p)
        PROVE  c \in Nodes(s) /\ Attached(e, s, c)
    <3>1. c \in Nodes(s) /\ Attached(d, s, c)
      BY <1>2, <1>3, <1>5, <2>2 DEF Painted
    <3>2. s.parent[c] \in Nodes(s)
      BY <1>2, <3>1, Kinds DEF Tidy, Attached
    <3> QED
      BY <1>2, <1>3, <1>5, <3>1, <3>2 DEF Attached
  <2>3. \A p \in Nodes(s) : s.properties[p] = e.links[p] \cap PropertyBlock
    BY <1>2, <1>3, <1>5 DEF Painted
  <2> QED
    BY <1>1, <1>2, <2>1, <2>2, <2>3 DEF Painted
<1>6. CASE n \in Nodes(s)
  <2> DEFINE u == Update(e)[n][s]
             t == BlockUpdated(s, e, n)
  <2>1. t = Iterated(s, u)
    BY <1>6 DEF BlockUpdated, Nodes
  <2>2. Grown(e, may, {n}, {}, s, u)
    BY <1>1, <1>2, <1>6, UpdateGrown
  <2> HIDE DEF u, t
  <2>3. Sound(u) /\ Nodes(s) \subseteq Nodes(u) /\ Nodes(u) \subseteq NodeBlock /\ u.roots = s.roots
    BY <2>2, SoundCounts, Fields DEF Grown, Grows
  <2>4. Sound(t) /\ (~ t.fault => t = u /\ Nodes(u) = Nodes(s)) /\ (Nodes(u) = Nodes(s) => t = u)
    BY <1>2, <2>1, <2>3, IteratedFields
  <2>5. Keeps(e, may, {n}, {}, s, u) /\ Shows(e, {n}, {}, s, u) /\ ~ u.fault
    BY <1>1, <1>2, <2>2 DEF Grown, Grows, Keeps
  <2>6. ASSUME Nodes(u) = Nodes(s) PROVE Painted(e, u)
    <3>1. \A p \in Nodes(u) : u.properties[p] = e.links[p] \cap PropertyBlock
      BY <1>2, <1>3, <2>5, <2>6 DEF Keeps, Painted
    <3>2. ASSUME NEW p \in Nodes(u), NEW c \in ChildNodes(e, p) PROVE c \in Nodes(u) /\ Attached(e, u, c)
      <4>1. CASE c \in ChildNodes(e, n)
        BY <2>5, <4>1 DEF Shows
      <4>2. CASE c \notin ChildNodes(e, n)
        <5>1. p # n /\ p \in Nodes(s)
          BY <2>6, <3>2, <4>2
        <5>2. c \in Nodes(s) /\ Attached(d, s, c)
          BY <1>2, <1>3, <3>2, <5>1 DEF Painted
        <5>3. Attached(e, s, c)
          BY <1>4, <4>2, <5>2
        <5> QED
          BY <2>5, <2>6, <5>2, <5>3 DEF Shows
      <4> QED
        BY <4>1, <4>2
    <3>3. Tidy(MayHave(e), u)
      BY <1>m, <2>5 DEF Keeps
    <3>4. Nodes(u) \subseteq e.blocks /\ u.roots = RootLinks(e) \cap NodeBlock /\ u.roots \subseteq Nodes(u)
      BY <1>1, <2>3, <2>6 DEF Painted
    <3> QED
      BY <2>5, <3>1, <3>2, <3>3, <3>4 DEF Painted
  <2>7. Nodes(s) = NodeBlock \cap d.blocks => Nodes(u) = Nodes(s)
    BY <2>2, <2>3 DEF Grown, Grows
  <2> QED
    BY <2>4, <2>5, <2>6, <2>7 DEF t
<1> QED
  BY <1>5, <1>6

(* The same of the document: if the caches knew all links, nothing faults. *)
LEMMA BlockKeepsFollowing ==
  ASSUME NEW b, NEW l, NEW k, Documents(b, l, k), NEW s, Painted(DocumentOf(b, l, k), s),
         NEW now, OneDocument(b, now), NEW n \in Block, \A p \in Block \ {n} : now[p] = l[p],
         NEW pending
  PROVE  LET t == BlockUpdated(s, DocumentOf(b, now, k), n)
         IN Follows(b, now, k, pending, t) /\ (k = l => ~ t.fault)
<1> DEFINE d == DocumentOf(b, l, k)
           e == DocumentOf(b, now, k)
           t == BlockUpdated(s, e, n)
<1>1. /\ Documents(b, now, k) /\ Cached(d) /\ Cached(e) /\ e.blocks = d.blocks /\ d.blocks = b /\ e.links = now
      /\ d.links = l /\ e.childLinks = d.childLinks /\ d.childLinks = k /\ Acyclic(d.links) /\ Document(d)
  BY CurrentDocument DEF Documents
<1>e. e = DocumentOf(b, now, k) /\ d = DocumentOf(b, l, k)
  OBVIOUS
<1> HIDE DEF d, e
<1>2. /\ Sound(t) /\ (~ t.fault => Painted(e, t))
      /\ Nodes(s) = NodeBlock \cap d.blocks => ~ t.fault
  BY <1>1, <1>e, BlockKeepsPainted
<1>3. k = l => Nodes(s) = NodeBlock \cap d.blocks
  BY <1>1, <1>e, PaintedNodes
<1> HIDE DEF t
<1>4. CASE t.fault
  <2>1. Follows(b, now, k, pending, t)
    BY <1>2, <1>4 DEF Follows
  <2> QED
    BY <1>2, <1>3, <2>1 DEF t, e
<1>5. CASE ~ t.fault
  <2>1. Follows(b, now, k, pending, t)
    BY <1>1, <1>2, <1>e, <1>5, PaintedFollows
  <2> QED
    BY <1>5, <2>1 DEF t, e
<1> QED
  BY <1>4, <1>5

(* A paint builds it anew.                                                 *)
LEMMA MadePainted ==
  ASSUME NEW b, NEW l, NEW k, Documents(b, l, k), NEW s, Sound(s), ~ s.fault, Acyclic(s.children)
  PROVE  Painted(DocumentOf(b, l, k), Made(s, DocumentOf(b, l, k)))
<1> DEFINE d == DocumentOf(b, l, k)
<1>1. Cached(d)
  BY CurrentDocument
<1> HIDE DEF d
<1>2. Made(s, d) = SceneUpdated(Empty, d)
  BY SceneClearedEmpty DEF Made
<1>3. Painted(d, SceneUpdated(Empty, d))
  BY <1>1, EmptyScene, SceneUpdatedPainted
<1> QED
  BY <1>2, <1>3 DEF d

(* An update keeps a painted scene so; one that waits for a paint, or one  *)
(* with links the caches do not know, may end in a fault.                  *)
LEMMA UpdateKeepsFollowing ==
  ASSUME NEW b, NEW l, NEW k, Documents(b, l, k), NEW s, NEW pending \in BOOLEAN,
         Follows(b, l, k, pending, s), ~ s.fault
  PROVE  LET t == SceneUpdated(s, DocumentOf(b, l, k))
         IN Follows(b, l, k, pending, t) /\ (~ pending /\ k = l => ~ t.fault)
<1> DEFINE d == DocumentOf(b, l, k)
           t == SceneUpdated(s, d)
<1>1. Cached(d) /\ Document(d) /\ Acyclic(d.links) /\ d.blocks = b /\ d.links = l /\ d.childLinks = k
  BY CurrentDocument
<1>d. d = DocumentOf(b, l, k)
  OBVIOUS
<1> HIDE DEF d
<1>2. Sound(t) /\ Acyclic(t.children)
  <2>1. Sound(t)
    BY <1>1, SceneUpdatedSound DEF Follows
  <2>2. Acyclic(t.children)
    BY <1>1, UpdatedAcyclic DEF Follows
  <2> QED
    BY <2>1, <2>2
<1>3. CASE pending
  <2> HIDE DEF t
  <2>1. Follows(b, l, k, pending, t)
    BY <1>2, <1>3 DEF Follows
  <2> QED
    BY <1>3, <2>1 DEF t, d
<1>4. CASE ~ pending
  <2>1. Painted(d, s)
    BY <1>4, <1>d DEF Follows
  <2>2. /\ ~ t.fault => Painted(d, t)
        /\ Nodes(s) = NodeBlock \cap d.blocks => ~ t.fault
    BY <1>1, <2>1, SceneUpdatedPainted DEF Painted
  <2>3. k = l => Nodes(s) = NodeBlock \cap d.blocks
    BY <1>1, <2>1, PaintedNodes
  <2> HIDE DEF t
  <2>4. Follows(b, l, k, pending, t)
    BY <1>2, <1>d, <2>2 DEF Follows
  <2> QED
    BY <2>2, <2>3, <2>4 DEF t, d
<1> QED
  BY <1>3, <1>4

(* Initially the scene is empty and waits for a paint.                     *)
LEMMA InitIInv == Init => IInv
<1> SUFFICES ASSUME Init PROVE IInv
  OBVIOUS
<1>1. OneDocument(blocks, links)
  <2>1. \A b \in Block : links[b] \subseteq blocks
    BY DEF Init
  <2>2. links \in [Block -> SUBSET blocks]
    BY <2>1 DEF Init
  <2> QED
    BY <2>2 DEF Init, OneDocument
<1>2. Acyclic(Empty.children)
  <2>1. \A n \in DOMAIN Empty.children : Empty.children[n] = {}
    BY DEF Empty
  <2> QED
    BY <2>1 DEF Acyclic
<1>3. Follows(blocks, links, known, doCompile, scene)
  BY <1>2, EmptyScene DEF Init, Follows
<1> QED
  BY <1>1, <1>3 DEF Init, IInv, Documents

(* Each step keeps it, and a fault comes from the update of a scene that   *)
(* waits for a paint only, or that shows less than the document links.     *)
LEMMA NextIInv ==
  ASSUME IInv, Next
  PROVE  IInv' /\ (scene'.fault => (doCompile /\ doCompile') \/ known # links)
<1>1. /\ OneDocument(blocks, links) /\ OneDocument(blocks, known) /\ Documents(blocks, links, known)
      /\ doCompile \in BOOLEAN /\ Follows(blocks, links, known, doCompile, scene)
  BY DEF IInv, Documents
<1>2. blocks \in SUBSET Block /\ links \in [Block -> SUBSET blocks] /\ Acyclic(links)
      /\ \A n \in Block \ (NodeBlock \cap blocks) : links[n] = {}
  BY <1>1 DEF OneDocument
<1>4. ASSUME OneDocument(blocks', links'), OneDocument(blocks', known'), scene' = scene, doCompile' = TRUE,
             ~ scene.fault
      PROVE  IInv' /\ ~ scene'.fault
  <2>1. Follows(blocks', links', known', doCompile', scene')
    BY <1>1, <1>4 DEF Follows
  <2> QED
    BY <1>4, <2>1 DEF IInv, Documents
<1>5. ASSUME NEW b \in Block, InsertBlock(b) PROVE IInv' /\ ~ scene'.fault
  <2>1. OneDocument(blocks', links')
    BY <1>2, <1>5 DEF InsertBlock, OneDocument
  <2> QED
    BY <1>4, <1>5, <2>1 DEF InsertBlock, LinksChanged
<1>6. ASSUME NEW b \in Block, RemoveBlock(b) PROVE IInv' /\ ~ scene'.fault
  <2>1. links' \in [Block -> SUBSET blocks'] /\ \A n \in Block : links'[n] = IF n = b THEN {} ELSE links[n] \ {b}
    BY <1>2, <1>6 DEF RemoveBlock
  <2>2. Acyclic(links')
    BY <1>2, <2>1, AcyclicBelow
  <2>3. blocks' = blocks \ {b}
    BY <1>6 DEF RemoveBlock
  <2>4. \A n \in Block \ (NodeBlock \cap blocks') : links'[n] = {}
    BY <1>2, <2>1, <2>3
  <2>5. OneDocument(blocks', links')
    BY <1>2, <2>1, <2>2, <2>3, <2>4 DEF OneDocument
  <2> QED
    BY <1>4, <1>6, <2>5 DEF RemoveBlock, LinksChanged
<1>7. ASSUME NEW n \in Block, NEW b \in Block, SetLink(n, b)
      PROVE  IInv' /\ (scene'.fault => known # links)
  <2>1. /\ blocks' = blocks /\ Acyclic(links') /\ n \in blocks \cap NodeBlock /\ b \in blocks
        /\ links' = [links EXCEPT ![n] = IF b \in links[n] THEN links[n] \ {b} ELSE links[n] \cup {b}]
        /\ doCompile' = TRUE /\ ~ scene.fault /\ known' = links'
    BY <1>7 DEF SetLink, LinksChanged
  <2>2. OneDocument(blocks', links')
    BY <1>2, <2>1 DEF OneDocument
  <2>3. CASE doCompile
    BY <1>4, <1>7, <2>1, <2>2, <2>3 DEF SetLink, LinksChanged
  <2>4. CASE ~ doCompile
    <3>1. scene' = BlockUpdated(scene, DocumentOf(blocks, links', known), n)
      BY <1>7, <2>1, <2>4 DEF SetLink, LinksChanged, DocumentWith, DocumentOf
    <3>2. Painted(DocumentOf(blocks, links, known), scene)
      BY <1>1, <2>1, <2>4 DEF Follows
    <3>3. \A p \in Block \ {n} : links'[p] = links[p]
      BY <1>2, <2>1
    <3>4. Follows(blocks, links', known, TRUE, scene') /\ (known = links => ~ scene'.fault)
      BY <1>1, <2>1, <2>2, <3>1, <3>2, <3>3, BlockKeepsFollowing
    <3>5. Follows(blocks, links', links', TRUE, scene')
      BY <3>4 DEF Follows
    <3> QED
      BY <2>1, <2>2, <3>4, <3>5 DEF IInv, Documents
  <2> QED
    BY <2>3, <2>4
<1>8. ASSUME NEW n \in Block, NEW set \in SUBSET Block, SilentlySet(n, set)
      PROVE  /\ OneDocument(blocks, links') /\ blocks' = blocks /\ known' = known /\ ~ scene.fault
             /\ \A p \in Block \ {n} : links'[p] = links[p]
  <2>1. /\ blocks' = blocks /\ known' = known /\ Acyclic(links') /\ n \in blocks \cap NodeBlock
        /\ set \in SUBSET blocks /\ links' = [links EXCEPT ![n] = set] /\ ~ scene.fault
    BY <1>8 DEF SilentlySet
  <2> QED
    BY <1>2, <2>1 DEF OneDocument
<1>9. ASSUME NEW n \in Block, NEW set \in SUBSET Block, SetLinksSilently(n, set)
      PROVE  IInv' /\ (scene'.fault => known # links)
  <2>1. /\ OneDocument(blocks, links') /\ blocks' = blocks /\ known' = known /\ ~ scene.fault
        /\ \A p \in Block \ {n} : links'[p] = links[p]
        /\ doCompile' = doCompile
    BY <1>8, <1>9 DEF SetLinksSilently
  <2>2. CASE doCompile
    <3>1. scene' = scene
      BY <1>9, <2>2 DEF SetLinksSilently
    <3> QED
      BY <1>1, <1>4, <2>1, <2>2, <3>1
  <2>3. CASE ~ doCompile
    <3>1. scene' = BlockUpdated(scene, DocumentOf(blocks, links', known), n)
      BY <1>9, <2>1, <2>3 DEF SetLinksSilently, DocumentWith, DocumentOf
    <3>2. Painted(DocumentOf(blocks, links, known), scene)
      BY <1>1, <2>1, <2>3 DEF Follows
    <3>3. Follows(blocks, links', known, doCompile, scene') /\ (known = links => ~ scene'.fault)
      BY <1>1, <2>1, <3>1, <3>2, BlockKeepsFollowing
    <3> QED
      BY <1>1, <2>1, <3>3 DEF IInv, Documents
  <2> QED
    BY <2>2, <2>3
<1>10. ASSUME NEW n \in Block, NEW set \in SUBSET Block, SetManySilently(n, set) PROVE IInv' /\ ~ scene'.fault
  <2>1. OneDocument(blocks, links') /\ blocks' = blocks /\ known' = known /\ ~ scene.fault
    BY <1>8, <1>10 DEF SetManySilently
  <2> QED
    BY <1>1, <1>4, <1>10, <2>1 DEF SetManySilently
<1>11. ASSUME NEW b \in Block, SetData(b) PROVE IInv' /\ (scene'.fault => known # links)
  <2>1. /\ blocks' = blocks /\ links' = links /\ known' = known /\ doCompile' = doCompile
        /\ ~ doCompile /\ ~ scene.fault
        /\ scene' = BlockUpdated(scene, DocumentOf(blocks, links, known), b)
    BY <1>11 DEF SetData, document, DocumentWith, DocumentOf
  <2>2. Painted(DocumentOf(blocks, links, known), scene)
    BY <1>1, <2>1 DEF Follows
  <2>3. Follows(blocks, links, known, doCompile, scene') /\ (known = links => ~ scene'.fault)
    BY <1>1, <2>1, <2>2, BlockKeepsFollowing
  <2> QED
    BY <1>1, <2>1, <2>3 DEF IInv
<1>12. ASSUME Reset PROVE IInv' /\ ~ scene'.fault
  BY <1>1, <1>4, <1>12 DEF Reset, LinksChanged
<1>13. ASSUME Recompile PROVE IInv' /\ ~ scene'.fault
  BY <1>1, <1>4, <1>13 DEF Recompile, document
<1>14. ASSUME Paint PROVE IInv' /\ ~ scene'.fault
  <2>1. /\ blocks' = blocks /\ links' = links /\ known' = known /\ doCompile' = FALSE /\ ~ scene.fault
        /\ scene' = Made(scene, DocumentOf(blocks, links, known))
    BY <1>14 DEF Paint, document, DocumentWith, DocumentOf
  <2>2. Painted(DocumentOf(blocks, links, known), scene')
    BY <1>1, <2>1, MadePainted DEF Follows
  <2>3. Follows(blocks, links, known, FALSE, scene') /\ ~ scene'.fault
    BY <1>1, <2>2, PaintedFollows DEF Painted
  <2> QED
    BY <1>1, <2>1, <2>3 DEF IInv
<1>15. ASSUME UpdateScene PROVE IInv' /\ (scene'.fault => (doCompile /\ doCompile') \/ known # links)
  <2>1. /\ blocks' = blocks /\ links' = links /\ known' = known /\ doCompile' = doCompile /\ ~ scene.fault
        /\ scene' = SceneUpdated(scene, DocumentOf(blocks, links, known))
    BY <1>15 DEF UpdateScene, document, DocumentWith, DocumentOf
  <2>2. /\ Follows(blocks, links, known, doCompile, scene')
        /\ ~ doCompile /\ known = links => ~ scene'.fault
    BY <1>1, <2>1, UpdateKeepsFollowing
  <2> QED
    BY <1>1, <2>1, <2>2 DEF IInv
<1> QED
  BY <1>5, <1>6, <1>7, <1>9, <1>10, <1>11, <1>12, <1>13, <1>14, <1>15 DEF Next

-----------------------------------------------------------------------------
(* The properties.                                                         *)

(* The invariant implies the properties.                                   *)
LEMMA IInvTypeOK == IInv => TypeOK
<1> SUFFICES ASSUME IInv PROVE TypeOK
  OBVIOUS
<1>1. Sound(scene)
  BY DEF IInv, Follows
<1>2. scene \in Scenes /\ \A b \in Block : scene.ref[b] \in Nat
  BY <1>1, SoundCounts, CountFacts
<1>3. scene.ref \in [Block -> Nat]
  BY <1>2, Fields
<1>4. /\ Nodes(scene) \cup scene.roots \subseteq NodeBlock \cap Objects(scene)
      /\ scene.props \subseteq PropertyBlock \cap Objects(scene)
      /\ \A n \in NodeBlock : /\ scene.children[n] \subseteq NodeBlock \cap Objects(scene)
                              /\ scene.properties[n] \subseteq PropertyBlock \cap Objects(scene)
  BY <1>1, ListedObjects
<1>5. /\ scene.children \in [NodeBlock -> SUBSET (NodeBlock \cap Objects(scene))]
      /\ scene.properties \in [NodeBlock -> SUBSET (PropertyBlock \cap Objects(scene))]
  BY <1>2, <1>4, Fields
<1>6. scene.parent \in [NodeBlock -> Objects(scene) \cup {NoNode, Dangling}]
  BY <1>1, <1>2, Fields DEF Sound, WellLinked
<1>7. /\ blocks \subseteq Block /\ doCompile \in BOOLEAN
      /\ links \in [Block -> SUBSET blocks] /\ known \in [Block -> SUBSET blocks]
  BY DEF IInv, Documents, OneDocument
<1> QED
  BY <1>3, <1>4, <1>5, <1>6, <1>7 DEF TypeOK, Nodes

(* The counts.                                                             *)
LEMMA IInvRefsMatch == IInv => RefsMatch
<1> SUFFICES ASSUME IInv PROVE RefsMatch
  OBVIOUS
<1>1. \A b \in Block : scene.ref[b] = Count(scene, b)
  BY SoundCounts DEF IInv, Follows
<1> QED
  BY <1>1 DEF RefsMatch, Count, Nodes

(* The scene as it is painted.                                             *)
LEMMA IInvPainted == IInv => PaintedIsDocument
<1> SUFFICES ASSUME IInv, ~ doCompile, ~ scene.fault, known = links PROVE PaintedIsDocument
  BY DEF PaintedIsDocument
<1> DEFINE d == DocumentOf(blocks, links, known)
<1>1. /\ Document(d) /\ d.blocks = blocks /\ d.links = links /\ d.childLinks = links /\ Acyclic(d.links)
      /\ \A p \in Block \ (NodeBlock \cap blocks) : links[p] = {}
  BY CurrentDocument DEF IInv, Documents, OneDocument
<1>2. RootLinks([blocks |-> blocks, childLinks |-> known]) = RootLinks(d)
  BY <1>1 DEF RootLinks
<1>3. Painted(d, scene)
  BY DEF IInv, Follows
<1> HIDE DEF d
<1>n. Nodes(scene) = NodeBlock \cap blocks
  BY <1>1, <1>3, PaintedNodes
<1>6. \A x \in Nodes(scene) :
        /\ scene.parent[x] = NoNode \/ (scene.parent[x] \in Nodes(scene) /\ x \in links[scene.parent[x]])
        /\ \A p \in NodeBlock : x \in scene.children[p] => p = scene.parent[x]
  <2> SUFFICES ASSUME NEW x \in Nodes(scene)
               PROVE  /\ scene.parent[x] = NoNode \/ (scene.parent[x] \in Nodes(scene) /\ x \in links[scene.parent[x]])
                      /\ \A p \in NodeBlock : x \in scene.children[p] => p = scene.parent[x]
    OBVIOUS
  <2>1. /\ scene.parent[x] = NoNode \/ (scene.parent[x] \in Nodes(scene) /\ x \in MayHave(d)[scene.parent[x]])
        /\ \A p \in NodeBlock : x \in scene.children[p] => p = scene.parent[x]
    BY <1>3 DEF Painted, Tidy
  <2>2. \A p \in NodeBlock : MayHave(d)[p] \subseteq links[p]
    BY <1>1 DEF MayHave
  <2> QED
    BY <1>n, <2>1, <2>2
<1>4. /\ Sound(scene) /\ scene.roots = RootLinks(d) \cap NodeBlock
      /\ \A p \in Nodes(scene) : scene.properties[p] = links[p] \cap PropertyBlock
  BY <1>1, <1>3 DEF Painted, Tidy
<1>c. ASSUME NEW p \in Nodes(scene), NEW c \in links[p] \cap NodeBlock
      PROVE  scene.parent[c] \in NodeBlock /\ c \in scene.children[scene.parent[c]]
  <2>1. c \in ChildNodes(d, p)
    BY <1>1, <1>c DEF ChildNodes
  <2>2. c \in Nodes(scene) /\ Attached(d, scene, c)
    BY <1>3, <1>c, <2>1 DEF Painted
  <2>3. scene.parent[c] \in NodeBlock /\ c \in links[scene.parent[c]]
    BY <1>6, <2>2, Kinds DEF Attached
  <2>4. c \in ChildNodes(d, scene.parent[c])
    BY <1>1, <1>c, <2>3 DEF ChildNodes
  <2> QED
    BY <2>2, <2>4 DEF Attached
<1>5. /\ scene.children \in [NodeBlock -> SUBSET NodeBlock]
      /\ scene.properties \in [NodeBlock -> SUBSET PropertyBlock]
      /\ IsInjective(scene.nodes)
  BY <1>4, SoundCounts, Fields DEF Sound, WellLinked
<1>7. ASSUME NEW n \in NodeBlock \cap blocks
      PROVE  /\ IF n \in scene.roots THEN scene.parent[n] = NoNode /\ Owners(scene, n) = {}
                ELSE scene.parent[n] \in Block /\ Owners(scene, n) = {scene.parent[n]}
             /\ n \notin scene.roots => n \in links[scene.parent[n]]
  <2>1. Owners(scene, n) = {p \in NodeBlock : n \in scene.children[p]} /\ n \in Nodes(scene)
    BY <1>n, <1>5, Kinds DEF Owners
  <2>2. CASE n \in scene.roots
    <3>1. \A p \in blocks : n \notin links[p]
      BY <1>1, <1>4, <2>2 DEF RootLinks
    <3>2. scene.parent[n] = NoNode
      BY <1>n, <1>6, <2>1, <3>1
    <3>3. Owners(scene, n) = {}
      BY <1>6, <2>1, <3>2, Kinds
    <3> QED
      BY <2>2, <3>2, <3>3
  <2>3. CASE n \notin scene.roots
    <3>1. PICK p \in blocks : n \in links[p]
      BY <1>1, <1>4, <2>3 DEF RootLinks
    <3>2. p \in Nodes(scene)
      <4>1. p \in Block
        BY DEF IInv, Documents, OneDocument
      <4> QED
        BY <1>1, <1>n, <3>1, <4>1
    <3>3. scene.parent[n] \in NodeBlock /\ n \in scene.children[scene.parent[n]]
      BY <1>c, <3>1, <3>2
    <3>4. Owners(scene, n) = {scene.parent[n]}
      BY <1>6, <2>1, <3>3
    <3>5. n \in links[scene.parent[n]] /\ scene.parent[n] \in Block
      BY <1>6, <2>1, <3>3, Kinds
    <3> QED
      BY <2>3, <3>4, <3>5
  <2> QED
    BY <2>2, <2>3
<1>8. \A n \in NodeBlock \cap blocks : scene.properties[n] = links[n] \cap PropertyBlock
  BY <1>4, <1>n
<1> QED
  BY <1>n, <1>2, <1>4, <1>5, <1>7, <1>8 DEF PaintedIsDocument, Nodes

(* The invariant holds in every state.                                     *)
LEMMA IInvAlways == Spec => []IInv
<1>1. IInv /\ [Next]_vars => IInv'
  <2>1. ASSUME IInv, UNCHANGED vars PROVE IInv'
    BY <2>1 DEF IInv, vars, document
  <2> QED
    BY <2>1, NextIInv
<1> QED
  BY InitIInv, <1>1, PTL DEF Spec

(* Type correctness: what the lists of the scene and of its nodes hold are *)
(* objects, and so is a parent that is not known to be deleted.            *)
THEOREM SceneTypeCorrect == Spec => []TypeOK
BY IInvAlways, IInvTypeOK, PTL

(* No object is deleted while a list of Scene or Node holds it, and none   *)
(* outlives the last of them: ref counts the lists.                        *)
THEOREM RefsAlwaysMatch == Spec => []RefsMatch
BY IInvAlways, IInvRefsMatch, PTL

(* A scene that waits for no paint shows the document if the caches know   *)
(* all its links: Scene::make built it so, and the updates by data and by  *)
(* menus have kept it.                                                     *)
THEOREM PaintShowsDocument == Spec => []PaintedIsDocument
BY IInvAlways, IInvPainted, PTL

(* Freed memory is used by nothing but an update of the scene between a    *)
(* change of links and the paint that would rebuild it, or while links     *)
(* that were set silently are missing from the caches.                     *)
THEOREM FaultsWhilePending == Spec => FaultsOnlyPending
<1>1. IInv /\ [Next]_vars => [scene'.fault => (doCompile /\ doCompile') \/ known # links]_vars
  BY NextIInv
<1> QED
  BY IInvAlways, <1>1, PTL DEF Spec, FaultsOnlyPending
=============================================================================
