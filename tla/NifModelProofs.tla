--------------------------- MODULE NifModelProofs ---------------------------
(***************************************************************************)
(* NifModel for documents of any size, any types and any links.            *)
(*                                                                         *)
(* First the list operations and the link rewriting of Numbering: a        *)
(* rewritten link names, in the new list, the block it named in the old    *)
(* one.  Then the caches of Links: after checkLinks the child links form   *)
(* no cycle, and every link it has dropped did close one.  Last the        *)
(* handlers of NifModel: types, the coherence of the link caches, what the *)
(* caches say of the links, saves, and the refinement of ObjectGraph.      *)
(*                                                                         *)
(* The argument about checkLinks is about sets of blocks, not about paths. *)
(* A set is safe for a path if it has no block of the path, its links stay *)
(* inside, and none of its parts is a cycle.  The visit of a block leaves  *)
(* it with links into a safe set for the path to it; when the visit        *)
(* returns, the block is safe itself for the rest of the path.             *)
(***************************************************************************)
EXTENDS NifModel, FunctionTheorems, FiniteSetTheorems, SequenceTheorems, WellFoundedInduction, TLAPS

-----------------------------------------------------------------------------
(* A list of the same blocks in which the block with number l has number   *)
(* MapLink(l, map).                                                        *)
CarriesOver(s, t, map) ==
  /\ Len(t) = Len(s)
  /\ \A l \in Numbers(Len(s)) : /\ MapLink(l, map) \in Numbers(Len(s))
                                /\ t[MapLink(l, map) + 1] = s[l + 1]
  /\ \A k \in Numbers(Len(s)) : \E l \in Numbers(Len(s)) : MapLink(l, map) = k

LEMMA SequenceFacts ==
  ASSUME NEW S, NEW s \in Seq(S)
  PROVE  /\ Len(s) \in Nat
         /\ DOMAIN s = 1 .. Len(s)
         /\ ToSet(s) = {s[i] : i \in 1 .. Len(s)}
         /\ IsInjective(s) <=> \A i, j \in 1 .. Len(s) : s[i] = s[j] => i = j
<1>1. DOMAIN s = 1 .. Len(s) /\ Len(s) \in Nat
  OBVIOUS
<1>2. QED BY <1>1 DEF ToSet, IsInjective

-----------------------------------------------------------------------------
(* Induction, from the well-founded order of the numbers: sets of numbers  *)
(* stand for the properties of numbers.                                    *)

LEMMA LeastNumber ==
  ASSUME NEW T \in SUBSET Nat, T # {}
  PROVE  \E x \in T : \A y \in T : x <= y
<1>1. IsWellFoundedOn(OpToRel(<, Nat), Nat)
  BY NatLessThanWellFounded
<1>2. PICK x \in T : \A y \in T : ~ (<<y, x>> \in OpToRel(<, Nat))
  BY <1>1, WFMin
<1>3. \A y \in T : ~ (y < x)
  BY <1>2 DEF OpToRel
<1> QED
  BY <1>3

LEMMA SetInduction ==
  ASSUME NEW T, 0 \in T, \A n \in Nat : n \in T => n + 1 \in T
  PROVE  Nat \subseteq T
<1> SUFFICES ASSUME Nat \ T # {} PROVE FALSE
  OBVIOUS
<1>1. PICK x \in Nat \ T : \A y \in Nat \ T : x <= y
  BY LeastNumber
<1>2. x # 0 /\ x - 1 \in Nat /\ x - 1 \in T
  BY <1>1
<1> QED
  BY <1>1, <1>2

LEMMA BoundedInduction ==
  ASSUME NEW n \in Nat, NEW T, 0 \in T, \A i \in 1 .. n : i - 1 \in T => i \in T
  PROVE  0 .. n \subseteq T
<1> DEFINE U == {i \in Nat : i <= n => i \in T}
<1>1. ASSUME NEW i \in Nat, i \in U PROVE i + 1 \in U
  <2> SUFFICES ASSUME i + 1 <= n PROVE i + 1 \in T
    OBVIOUS
  <2>1. i + 1 \in 1 .. n /\ (i + 1) - 1 = i /\ i \in T
    BY <1>1
  <2> QED
    BY <2>1
<1>2. 0 \in U
  OBVIOUS
<1>3. Nat \subseteq U
  <2> HIDE DEF U
  <2> QED
    BY <1>1, <1>2, SetInduction
<1> QED
  BY <1>3

(* There is a function that is defined by recursion over 0 .. n.           *)
Recurses(f, n, s0, step) == f[0] = s0 /\ \A i \in 1 .. n : f[i] = step[i][f[i - 1]]

LEMMA RecursionExists ==
  ASSUME NEW n \in Nat, NEW S, NEW s0 \in S, NEW step \in [1 .. n -> [S -> S]]
  PROVE  \E f \in [0 .. n -> S] : Recurses(f, n, s0, step)
<1> DEFINE Good(m) == \E f \in [0 .. m -> S] :
                         f[0] = s0 /\ \A i \in 1 .. m : f[i] = step[i][f[i - 1]]
           T == {m \in Nat : m <= n => Good(m)}
<1>1. 0 \in T
  <2> DEFINE f == [i \in 0 .. 0 |-> s0]
  <2>1. f \in [0 .. 0 -> S] /\ f[0] = s0 /\ \A i \in 1 .. 0 : f[i] = step[i][f[i - 1]]
    OBVIOUS
  <2>2. Good(0)
    BY <2>1
  <2> QED
    BY <2>2
<1>2. ASSUME NEW m \in Nat, m \in T PROVE m + 1 \in T
  <2> SUFFICES ASSUME m + 1 <= n PROVE Good(m + 1)
    OBVIOUS
  <2>1. PICK f \in [0 .. m -> S] : f[0] = s0 /\ \A i \in 1 .. m : f[i] = step[i][f[i - 1]]
    BY <1>2
  <2> DEFINE g == [i \in 0 .. m + 1 |-> IF i = m + 1 THEN step[m + 1][f[m]] ELSE f[i]]
  <2>2. g \in [0 .. m + 1 -> S]
    BY <2>1
  <2>3. g[0] = s0 /\ \A i \in 1 .. m + 1 : g[i] = step[i][g[i - 1]]
    BY <2>1
  <2> QED
    BY <2>2, <2>3
<1> HIDE DEF T
<1>3. n \in T
  BY <1>1, <1>2, SetInduction
<1> QED
  BY <1>3 DEF T, Recurses

-----------------------------------------------------------------------------
(* Lists.                                                                  *)

LEMMA AppendSet ==
  ASSUME NEW S, NEW s \in Seq(S), NEW e \in S
  PROVE  Append(s, e) \in Seq(S) /\ ToSet(Append(s, e)) = ToSet(s) \cup {e}
<1>1. /\ Append(s, e) \in Seq(S) /\ Len(Append(s, e)) = Len(s) + 1 /\ Len(s) \in Nat
      /\ \A i \in 1 .. Len(s) : Append(s, e)[i] = s[i]
      /\ Append(s, e)[Len(s) + 1] = e
  BY AppendProperties
<1>2. DOMAIN s = 1 .. Len(s) /\ DOMAIN Append(s, e) = 1 .. Len(s) + 1
  BY <1>1
<1> QED
  BY <1>1, <1>2 DEF ToSet

(* The members of a list that are in a set.                                *)
LEMMA SublistProperties ==
  ASSUME NEW S, NEW list \in Seq(S), NEW set
  PROVE  /\ Sublist(list, set) \in Seq(S)
         /\ ToSet(Sublist(list, set)) = ToSet(list) \cap set
<1>1. PICK n \in Nat : n = Len(list)
  OBVIOUS
<1>2. \A i \in 1 .. n : list[i] \in S
  BY <1>1
<1>e. /\ <<>> \in Seq(S)
      /\ \A x \in Seq(S), e \in S : Append(x, e) \in Seq(S)
  OBVIOUS
<1>d. DOMAIN list = 1 .. n
  BY <1>1
<1>a. ToSet(list) = {list[j] : j \in 1 .. n}
  BY <1>d DEF ToSet
<1> DEFINE Rec(f) == f = [i \in 0 .. Len(list) |->
                       IF i = 0 THEN <<>>
                       ELSE IF list[i] \in set THEN Append(f[i - 1], list[i]) ELSE f[i - 1]]
           Q == Seq(S)
           none == <<>>
           step == [i \in 1 .. n |-> [x \in Q |->
                       IF list[i] \in set THEN Append(x, list[i]) ELSE x]]
<1> HIDE DEF Q
<1>3. \A i \in 1 .. n, x \in Q : (IF list[i] \in set THEN Append(x, list[i]) ELSE x) \in Q
  BY <1>2, <1>e DEF Q
<1>4. step \in [1 .. n -> [Q -> Q]]
  BY <1>3
<1>5. PICK f \in [0 .. n -> Q] : Recurses(f, n, none, step)
  <2>1. none \in Q
    BY <1>e DEF Q
  <2> HIDE DEF step, none
  <2> QED
    BY <1>4, <2>1, RecursionExists
<1>6. \A i \in 1 .. n : f[i] = IF list[i] \in set THEN Append(f[i - 1], list[i]) ELSE f[i - 1]
  <2> SUFFICES ASSUME NEW i \in 1 .. n
               PROVE  f[i] = IF list[i] \in set THEN Append(f[i - 1], list[i]) ELSE f[i - 1]
    OBVIOUS
  <2>1. i - 1 \in 0 .. n /\ f[i - 1] \in Q
    OBVIOUS
  <2>2. step[i][f[i - 1]] = IF list[i] \in set THEN Append(f[i - 1], list[i]) ELSE f[i - 1]
    BY <2>1
  <2> QED
    BY <1>5, <2>2 DEF Recurses
<1>7. Rec(f)
  <2>1. \A i \in 0 .. n : f[i] = IF i = 0 THEN <<>>
                                 ELSE IF list[i] \in set THEN Append(f[i - 1], list[i]) ELSE f[i - 1]
    <3> SUFFICES ASSUME NEW i \in 0 .. n, i # 0 PROVE i \in 1 .. n
      BY <1>5, <1>6, Zenon DEF Recurses
    <3> QED
      BY <1>1
  <2>2. f = [i \in 0 .. n |-> f[i]]
    BY <1>5
  <2> QED
    BY <1>1, <2>1, <2>2, Zenon
<1>8. PICK h : Rec(h) /\ Sublist(list, set) = h[Len(list)]
  BY <1>7 DEF Sublist
<1>9. /\ h[0] = <<>>
      /\ \A i \in 1 .. n :
           h[i] = IF list[i] \in set THEN Append(h[i - 1], list[i]) ELSE h[i - 1]
  <2>1. \A i \in 0 .. n : h[i] = IF i = 0 THEN <<>>
                                 ELSE IF list[i] \in set THEN Append(h[i - 1], list[i]) ELSE h[i - 1]
    BY <1>1, <1>8, Zenon
  <2>2. 0 \in 0 .. n /\ \A i \in 1 .. n : i \in 0 .. n /\ i # 0
    OBVIOUS
  <2> QED
    BY <2>1, <2>2, Zenon
<1> HIDE DEF Rec
<1> DEFINE Ok(i) == h[i] \in Seq(S) /\ ToSet(h[i]) = {list[j] : j \in 1 .. i} \cap set
           T == {i \in 0 .. n : Ok(i)}
<1>10. Ok(0)
  <2>1. ToSet(<<>>) = {} /\ {list[j] : j \in 1 .. 0} = {}
    BY DEF ToSet
  <2> QED
    BY <1>9, <2>1, <1>e
<1>11. ASSUME NEW i \in 1 .. n, Ok(i - 1) PROVE Ok(i)
  <2>2. {list[j] : j \in 1 .. i} = {list[j] : j \in 1 .. i - 1} \cup {list[i]}
    BY <1>1
  <2>3. CASE list[i] \in set
    <3>1. h[i] = Append(h[i - 1], list[i])
      BY <1>9, <2>3
    <3>2. h[i] \in Seq(S) /\ ToSet(h[i]) = ToSet(h[i - 1]) \cup {list[i]}
      BY <1>2, <1>11, <3>1, AppendSet
    <3> QED
      BY <1>11, <2>2, <2>3, <3>2
  <2>4. CASE list[i] \notin set
    <3>1. h[i] = h[i - 1]
      BY <1>9, <2>4
    <3> QED
      BY <1>11, <2>2, <2>4, <3>1
  <2> QED
    BY <2>3, <2>4
<1>12. Ok(n)
  <2>1. 0 \in T /\ \A i \in 1 .. n : i - 1 \in T => i \in T
    <3> HIDE DEF Ok
    <3> QED
      BY <1>10, <1>11
  <2> HIDE DEF T
  <2>2. 0 .. n \subseteq T
    BY <2>1, BoundedInduction
  <2>3. n \in T
    BY <2>2
  <2> QED
    BY <2>3, Zenon DEF T
<1> QED
  BY <1>1, <1>8, <1>12, <1>a

(* The distinct members of a list are its members.                         *)
LEMMA DistinctProperties ==
  ASSUME NEW S, NEW list \in Seq(S)
  PROVE  Distinct(list) \in Seq(S) /\ ToSet(Distinct(list)) = ToSet(list)
<1>1. PICK n \in Nat : n = Len(list)
  OBVIOUS
<1>2. \A i \in 1 .. n : list[i] \in S
  BY <1>1
<1>e. /\ <<>> \in Seq(S)
      /\ \A x \in Seq(S), e \in S : Append(x, e) \in Seq(S)
  OBVIOUS
<1>d. DOMAIN list = 1 .. n
  BY <1>1
<1>a. ToSet(list) = {list[j] : j \in 1 .. n}
  BY <1>d DEF ToSet
<1> DEFINE Rec(f) == f = [i \in 0 .. Len(list) |->
                       IF i = 0 THEN <<>>
                       ELSE IF Contains(f[i - 1], list[i]) THEN f[i - 1] ELSE Append(f[i - 1], list[i])]
           Q == Seq(S)
           none == <<>>
           step == [i \in 1 .. n |-> [x \in Q |->
                       IF Contains(x, list[i]) THEN x ELSE Append(x, list[i])]]
<1> HIDE DEF Q
<1>3. \A i \in 1 .. n, x \in Q : (IF Contains(x, list[i]) THEN x ELSE Append(x, list[i])) \in Q
  BY <1>2, <1>e DEF Q
<1>4. step \in [1 .. n -> [Q -> Q]]
  BY <1>3
<1>5. PICK f \in [0 .. n -> Q] : Recurses(f, n, none, step)
  <2>1. none \in Q
    BY <1>e DEF Q
  <2> HIDE DEF step, none
  <2> QED
    BY <1>4, <2>1, RecursionExists
<1>6. \A i \in 1 .. n : f[i] = IF Contains(f[i - 1], list[i]) THEN f[i - 1] ELSE Append(f[i - 1], list[i])
  <2> SUFFICES ASSUME NEW i \in 1 .. n
               PROVE  f[i] = IF Contains(f[i - 1], list[i]) THEN f[i - 1] ELSE Append(f[i - 1], list[i])
    OBVIOUS
  <2>1. i - 1 \in 0 .. n /\ f[i - 1] \in Q
    OBVIOUS
  <2>2. step[i][f[i - 1]] = IF Contains(f[i - 1], list[i]) THEN f[i - 1] ELSE Append(f[i - 1], list[i])
    BY <2>1
  <2> QED
    BY <1>5, <2>2 DEF Recurses
<1>7. Rec(f)
  <2>1. \A i \in 0 .. n : f[i] = IF i = 0 THEN <<>>
                                 ELSE IF Contains(f[i - 1], list[i]) THEN f[i - 1] ELSE Append(f[i - 1], list[i])
    <3> SUFFICES ASSUME NEW i \in 0 .. n, i # 0 PROVE i \in 1 .. n
      BY <1>5, <1>6, Zenon DEF Recurses
    <3> QED
      BY <1>1
  <2>2. f = [i \in 0 .. n |-> f[i]]
    BY <1>5
  <2> QED
    BY <1>1, <2>1, <2>2, Zenon
<1>8. PICK h : Rec(h) /\ Distinct(list) = h[Len(list)]
  BY <1>7 DEF Distinct
<1>9. /\ h[0] = <<>>
      /\ \A i \in 1 .. n :
           h[i] = IF Contains(h[i - 1], list[i]) THEN h[i - 1] ELSE Append(h[i - 1], list[i])
  <2>1. \A i \in 0 .. n : h[i] = IF i = 0 THEN <<>>
                                 ELSE IF Contains(h[i - 1], list[i]) THEN h[i - 1] ELSE Append(h[i - 1], list[i])
    BY <1>1, <1>8, Zenon
  <2>2. 0 \in 0 .. n /\ \A i \in 1 .. n : i \in 0 .. n /\ i # 0
    OBVIOUS
  <2> QED
    BY <2>1, <2>2, Zenon
<1> HIDE DEF Rec
<1> DEFINE Ok(i) == h[i] \in Seq(S) /\ ToSet(h[i]) = {list[j] : j \in 1 .. i}
           T == {i \in 0 .. n : Ok(i)}
<1>10. Ok(0)
  <2>1. ToSet(<<>>) = {} /\ {list[j] : j \in 1 .. 0} = {}
    BY DEF ToSet
  <2> QED
    BY <1>9, <2>1, <1>e
<1>11. ASSUME NEW i \in 1 .. n, Ok(i - 1) PROVE Ok(i)
  <2>2. {list[j] : j \in 1 .. i} = {list[j] : j \in 1 .. i - 1} \cup {list[i]}
    BY <1>1
  <2>3. CASE Contains(h[i - 1], list[i])
    <3>1. h[i] = h[i - 1]
      BY <1>9, <2>3
    <3>2. list[i] \in ToSet(h[i - 1])
      BY <1>11, <2>3 DEF Contains, ToSet
    <3> QED
      BY <1>11, <2>2, <3>1, <3>2
  <2>4. CASE ~Contains(h[i - 1], list[i])
    <3>1. h[i] = Append(h[i - 1], list[i])
      BY <1>9, <2>4
    <3>2. h[i] \in Seq(S) /\ ToSet(h[i]) = ToSet(h[i - 1]) \cup {list[i]}
      BY <1>2, <1>11, <3>1, AppendSet
    <3> QED
      BY <1>11, <2>2, <3>2
  <2> QED
    BY <2>3, <2>4
<1>12. Ok(n)
  <2>1. 0 \in T /\ \A i \in 1 .. n : i - 1 \in T => i \in T
    <3> HIDE DEF Ok
    <3> QED
      BY <1>10, <1>11
  <2> HIDE DEF T
  <2>2. 0 .. n \subseteq T
    BY <2>1, BoundedInduction
  <2>3. n \in T
    BY <2>2
  <2> QED
    BY <2>3, Zenon DEF T
<1> QED
  BY <1>1, <1>8, <1>12, <1>a

-----------------------------------------------------------------------------
(* Insertion and removal, position by position.                            *)

LEMMA InsertAtProperties ==
  ASSUME NEW S, NEW s \in Seq(S), NEW e \in S, NEW i \in 1 .. (Len(s) + 1)
  PROVE  /\ InsertAt(s, i, e) \in Seq(S)
         /\ Len(InsertAt(s, i, e)) = Len(s) + 1
         /\ \A k \in 1 .. (Len(s) + 1) :
              InsertAt(s, i, e)[k] = IF k < i THEN s[k] ELSE IF k = i THEN e ELSE s[k - 1]
<1> DEFINE a == SubSeq(s, 1, i - 1)
           d == a \o <<e>>
           c == SubSeq(s, i, Len(s))
<1>1. a \in Seq(S) /\ Len(a) = i - 1 /\ \A k \in 1 .. (i - 1) : a[k] = s[k]
  BY SubSeqProperties
<1>2. c \in Seq(S) /\ Len(c) = Len(s) - i + 1
      /\ \A k \in 1 .. (Len(s) - i + 1) : c[k] = s[i + k - 1]
  BY SubSeqProperties
<1>3. <<e>> \in Seq(S) /\ Len(<<e>>) = 1 /\ <<e>>[1] = e
  OBVIOUS
<1>4. d \in Seq(S) /\ Len(d) = i /\ \A k \in 1 .. i : d[k] = IF k < i THEN s[k] ELSE e
  <2> HIDE DEF a
  <2>1. QED BY <1>1, <1>3, ConcatProperties
<1>5. InsertAt(s, i, e) = d \o c
  BY DEF InsertAt
<1>6. d \o c \in Seq(S) /\ Len(d \o c) = Len(s) + 1
      /\ \A k \in 1 .. (Len(s) + 1) : (d \o c)[k] = IF k <= i THEN d[k] ELSE c[k - i]
  <2> HIDE DEF a, d, c
  <2>1. Len(d) + Len(c) = Len(s) + 1
    BY <1>2, <1>4
  <2>2. d \o c \in Seq(S) /\ Len(d \o c) = Len(d) + Len(c)
        /\ \A k \in 1 .. (Len(d) + Len(c)) :
             (d \o c)[k] = IF k <= Len(d) THEN d[k] ELSE c[k - Len(d)]
    BY <1>2, <1>4, ConcatProperties
  <2>3. QED BY <1>4, <2>1, <2>2
<1> HIDE DEF d, c
<1>7. QED BY <1>2, <1>4, <1>5, <1>6

LEMMA RemoveAtProperties ==
  ASSUME NEW S, NEW s \in Seq(S), NEW i \in 1 .. Len(s)
  PROVE  /\ RemoveAt(s, i) \in Seq(S)
         /\ Len(RemoveAt(s, i)) = Len(s) - 1
         /\ \A k \in 1 .. (Len(s) - 1) :
              RemoveAt(s, i)[k] = IF k < i THEN s[k] ELSE s[k + 1]
<1> DEFINE a == SubSeq(s, 1, i - 1)
           c == SubSeq(s, i + 1, Len(s))
<1>1. a \in Seq(S) /\ Len(a) = i - 1 /\ \A k \in 1 .. (i - 1) : a[k] = s[k]
  BY SubSeqProperties
<1>2. c \in Seq(S) /\ Len(c) = Len(s) - i /\ \A k \in 1 .. (Len(s) - i) : c[k] = s[i + k]
  BY SubSeqProperties
<1>3. RemoveAt(s, i) = a \o c
  BY DEF RemoveAt
<1>4. a \o c \in Seq(S) /\ Len(a \o c) = Len(s) - 1
      /\ \A k \in 1 .. (Len(s) - 1) : (a \o c)[k] = IF k < i THEN a[k] ELSE c[k - i + 1]
  <2> HIDE DEF a, c
  <2>1. Len(a) + Len(c) = Len(s) - 1
    BY <1>1, <1>2
  <2>2. a \o c \in Seq(S) /\ Len(a \o c) = Len(a) + Len(c)
        /\ \A k \in 1 .. (Len(a) + Len(c)) :
             (a \o c)[k] = IF k <= Len(a) THEN a[k] ELSE c[k - Len(a)]
    BY <1>1, <1>2, ConcatProperties
  <2>3. QED BY <1>1, <2>1, <2>2
<1> HIDE DEF a, c
<1>5. \A k \in 1 .. (Len(s) - 1) : RemoveAt(s, i)[k] = IF k < i THEN s[k] ELSE s[k + 1]
  <2> SUFFICES ASSUME NEW k \in 1 .. (Len(s) - 1)
               PROVE  RemoveAt(s, i)[k] = IF k < i THEN s[k] ELSE s[k + 1]
    OBVIOUS
  <2>1. RemoveAt(s, i)[k] = IF k < i THEN a[k] ELSE c[k - i + 1]
    BY <1>3, <1>4
  <2>2. CASE k < i
    BY <1>1, <2>1, <2>2
  <2>3. CASE ~(k < i)
    <3>1. PICK j \in 1 .. (Len(s) - i) : j = k - i + 1 /\ i + j = k + 1
      BY <2>3
    <3>2. c[j] = s[i + j]
      BY <1>2
    <3>3. QED BY <2>1, <2>3, <3>1, <3>2
  <2>4. QED BY <2>2, <2>3
<1>6. QED BY <1>3, <1>4, <1>5

-----------------------------------------------------------------------------
(* The renumberings are list operations on the same blocks.                *)

LEMMA MovedProperties ==
  ASSUME NEW S, NEW s \in Seq(S),
         NEW src \in Numbers(Len(s)), NEW dst \in Numbers(Len(s))
  PROVE  /\ Moved(s, src, dst) \in Seq(S)
         /\ CarriesOver(s, Moved(s, src, dst), MoveMap(src, dst))
<1> DEFINE r == RemoveAt(s, src + 1)
           b == s[src + 1]
           m == InsertAt(r, dst + 1, b)
<1>1. r \in Seq(S) /\ Len(r) = Len(s) - 1
      /\ \A k \in 1 .. (Len(s) - 1) : r[k] = IF k < src + 1 THEN s[k] ELSE s[k + 1]
  BY RemoveAtProperties DEF Numbers
<1>2. b \in S
  BY DEF Numbers
<1>3. m \in Seq(S) /\ Len(m) = Len(s)
      /\ \A k \in 1 .. Len(s) :
           m[k] = IF k < dst + 1 THEN r[k] ELSE IF k = dst + 1 THEN b ELSE r[k - 1]
  <2> HIDE DEF r, b
  <2>1. dst + 1 \in 1 .. (Len(r) + 1) /\ Len(r) + 1 = Len(s)
    BY <1>1 DEF Numbers
  <2>2. /\ m \in Seq(S) /\ Len(m) = Len(r) + 1
        /\ \A k \in 1 .. (Len(r) + 1) :
             m[k] = IF k < dst + 1 THEN r[k] ELSE IF k = dst + 1 THEN b ELSE r[k - 1]
    BY <1>1, <1>2, <2>1, InsertAtProperties
  <2>3. QED BY <2>1, <2>2
<1>4. m = Moved(s, src, dst)
  BY DEF Moved
<1>5. ASSUME NEW l \in Numbers(Len(s))
      PROVE  /\ MapLink(l, MoveMap(src, dst)) \in Numbers(Len(s))
             /\ m[MapLink(l, MoveMap(src, dst)) + 1] = s[l + 1]
  <2> DEFINE l2 == MapLink(l, MoveMap(src, dst))
  <2>1. l2 = IF l = src THEN dst
             ELSE IF src < l /\ l <= dst THEN l - 1
             ELSE IF dst <= l /\ l < src THEN l + 1
             ELSE l
    BY DEF MapLink, MoveMap, Numbers
  <2>2. l2 \in Numbers(Len(s))
    BY <2>1 DEF Numbers
  <2> HIDE DEF l2, m, r
  <2>3. m[l2 + 1] = s[l + 1]
    BY <1>1, <1>3, <2>1, <2>2 DEF Numbers
  <2>4. QED BY <2>2, <2>3 DEF l2
<1>6. ASSUME NEW k \in Numbers(Len(s))
      PROVE  \E l \in Numbers(Len(s)) : MapLink(l, MoveMap(src, dst)) = k
  <2> DEFINE l == IF k = dst THEN src
                  ELSE IF src <= k /\ k < dst THEN k + 1
                  ELSE IF dst < k /\ k <= src THEN k - 1
                  ELSE k
  <2>1. l \in Numbers(Len(s))
    BY DEF Numbers
  <2>2. MapLink(l, MoveMap(src, dst)) = k
    BY DEF MapLink, MoveMap, Numbers
  <2>3. QED BY <2>1, <2>2
<1> HIDE DEF m
<1>7. QED BY <1>3, <1>4, <1>5, <1>6 DEF CarriesOver

(* A renumbering gives every number to some block.                         *)
LEMMA RenumberingOnto ==
  ASSUME NEW n \in Nat, NEW f, IsRenumbering(f, n)
  PROVE  \A k \in Numbers(n) : \E i \in Numbers(n) : f[i] = k
<1>1. IsFiniteSet(Numbers(n))
  BY FS_Interval DEF Numbers
<1>2. f \in Injection(Numbers(n), Numbers(n))
  BY DEF IsRenumbering, Injection, IsInjective
<1>3. f \in Surjection(Numbers(n), Numbers(n))
  BY <1>1, <1>2, FS_Injection
<1>4. QED BY <1>3 DEF Surjection

LEMMA ReorderedProperties ==
  ASSUME NEW S, NEW s \in Seq(S), NEW f, IsRenumbering(f, Len(s))
  PROVE  /\ Reordered(s, f) \in Seq(S)
         /\ CarriesOver(s, Reordered(s, f), f)
<1> DEFINE N == Numbers(Len(s))
           back(p) == CHOOSE n \in N : f[n] = p - 1
<1>1. \A p \in 1 .. Len(s) : back(p) \in N /\ f[back(p)] = p - 1
  <2>1. \A k \in N : \E n \in N : f[n] = k
    BY RenumberingOnto
  <2>2. \A p \in 1 .. Len(s) : p - 1 \in N
    BY DEF Numbers
  <2>3. QED BY <2>1, <2>2
<1>2. Reordered(s, f) = [p \in 1 .. Len(s) |-> s[1 + back(p)]]
  BY DEF Reordered
<1> HIDE DEF back
<1>3. ASSUME NEW p \in 1 .. Len(s)
      PROVE  s[1 + back(p)] \in S
  <2>1. 1 + back(p) \in 1 .. Len(s)
    BY <1>1 DEF Numbers
  <2>2. QED BY <2>1
<1>4. Reordered(s, f) \in [1 .. Len(s) -> S]
  BY <1>2, <1>3
<1>5. Reordered(s, f) \in Seq(S) /\ Len(Reordered(s, f)) = Len(s)
  BY <1>4
<1>6. ASSUME NEW l \in N
      PROVE  MapLink(l, f) \in N /\ Reordered(s, f)[MapLink(l, f) + 1] = s[l + 1]
  <2>1. l \in DOMAIN f /\ f[l] \in N /\ l >= 0
    BY DEF IsRenumbering, Numbers
  <2>2. MapLink(l, f) = f[l]
    BY <2>1 DEF MapLink
  <2>3. f[l] + 1 \in 1 .. Len(s) /\ (f[l] + 1) - 1 = f[l]
    BY <2>1 DEF Numbers
  <2>4. back(f[l] + 1) \in N /\ f[back(f[l] + 1)] = f[l]
    BY <1>1, <2>3
  <2>5. back(f[l] + 1) = l
    BY <2>4 DEF IsRenumbering
  <2>6. Reordered(s, f)[f[l] + 1] = s[1 + l]
    BY <1>2, <2>3, <2>5
  <2>7. 1 + l = l + 1
    BY DEF Numbers
  <2>8. QED BY <2>1, <2>2, <2>6, <2>7
<1>7. \A k \in N : \E l \in N : MapLink(l, f) = k
  <2>1. \A k \in N : \E l \in N : f[l] = k
    BY RenumberingOnto
  <2>2. \A l \in N : l >= 0 /\ l \in DOMAIN f
    BY DEF IsRenumbering, Numbers
  <2>3. QED BY <2>1, <2>2 DEF MapLink
<1>8. QED BY <1>5, <1>6, <1>7 DEF CarriesOver

(* Renumbering keeps the set of blocks, and keeps them apart.              *)
LEMMA RenumberedBlocks ==
  ASSUME NEW S, NEW s \in Seq(S), NEW t \in Seq(S), NEW map, CarriesOver(s, t, map)
  PROVE  /\ ToSet(t) = ToSet(s)
         /\ IsInjective(s) => IsInjective(t)
<1> DEFINE N == Numbers(Len(s))
           g == [l \in N |-> MapLink(l, map)]
<1>1. /\ Len(t) = Len(s)
      /\ \A l \in N : g[l] \in N /\ t[g[l] + 1] = s[l + 1]
      /\ \A k \in N : \E l \in N : g[l] = k
  BY DEF CarriesOver
<1> HIDE DEF g
<1>2. \A p \in 1 .. Len(s) : \E l \in N : g[l] + 1 = p /\ t[p] = s[l + 1] /\ l + 1 \in 1 .. Len(s)
  <2> TAKE p \in 1 .. Len(s)
  <2>1. p - 1 \in N
    BY DEF Numbers
  <2>2. PICK l \in N : g[l] = p - 1
    BY <1>1, <2>1
  <2>3. g[l] + 1 = p /\ l + 1 \in 1 .. Len(s)
    BY <2>2 DEF Numbers
  <2>4. QED BY <1>1, <2>3
<1>3. \A q \in 1 .. Len(s) : \E p \in 1 .. Len(s) : t[p] = s[q]
  <2> TAKE q \in 1 .. Len(s)
  <2>1. q - 1 \in N /\ (q - 1) + 1 = q
    BY DEF Numbers
  <2>2. g[q - 1] \in N /\ t[g[q - 1] + 1] = s[q]
    BY <1>1, <2>1
  <2>3. g[q - 1] + 1 \in 1 .. Len(s)
    BY <2>2 DEF Numbers
  <2>4. QED BY <2>2, <2>3
<1>4. /\ ToSet(s) = {s[i] : i \in 1 .. Len(s)}
      /\ ToSet(t) = {t[i] : i \in 1 .. Len(s)}
      /\ IsInjective(s) <=> \A i, j \in 1 .. Len(s) : s[i] = s[j] => i = j
      /\ IsInjective(t) <=> \A i, j \in 1 .. Len(s) : t[i] = t[j] => i = j
  BY <1>1, SequenceFacts
<1>5. ToSet(t) = ToSet(s)
  <2>1. \A p \in 1 .. Len(s) : t[p] \in ToSet(s)
    BY <1>2, <1>4
  <2>2. \A q \in 1 .. Len(s) : s[q] \in ToSet(t)
    BY <1>3, <1>4
  <2>3. ToSet(t) \subseteq ToSet(s)
    BY <1>4, <2>1
  <2>4. ToSet(s) \subseteq ToSet(t)
    BY <1>4, <2>2
  <2>5. QED BY <2>3, <2>4
<1>6. ASSUME IsInjective(s), NEW p \in 1 .. Len(s), NEW q \in 1 .. Len(s), t[p] = t[q]
      PROVE  p = q
  <2>1. PICK l \in N : g[l] + 1 = p /\ t[p] = s[l + 1] /\ l + 1 \in 1 .. Len(s)
    BY <1>2
  <2>2. PICK m \in N : g[m] + 1 = q /\ t[q] = s[m + 1] /\ m + 1 \in 1 .. Len(s)
    BY <1>2
  <2>3. s[l + 1] = s[m + 1]
    BY <1>6, <2>1, <2>2
  <2>4. l + 1 = m + 1
    BY <1>4, <1>6, <2>1, <2>2, <2>3
  <2>5. l = m
    BY <2>4 DEF Numbers
  <2>6. QED BY <2>1, <2>2, <2>5
<1>7. QED BY <1>4, <1>5, <1>6

(* The blocks after an insertion, and after a removal.                     *)
LEMMA InsertedBlocks ==
  ASSUME NEW S, NEW s \in Seq(S), NEW b \in S, NEW at \in 0 .. Len(s), IsInjective(s),
         b \notin ToSet(s)
  PROVE  /\ Inserted(s, at, b) \in Seq(S)
         /\ IsInjective(Inserted(s, at, b))
         /\ ToSet(s) \cup {b} \subseteq ToSet(Inserted(s, at, b))
<1> DEFINE t == Inserted(s, at, b)
<1>1. /\ t \in Seq(S) /\ Len(t) = Len(s) + 1
      /\ \A k \in 1 .. (Len(s) + 1) :
           t[k] = IF k < at + 1 THEN s[k] ELSE IF k = at + 1 THEN b ELSE s[k - 1]
  <2>1. at + 1 \in 1 .. (Len(s) + 1)
    OBVIOUS
  <2>2. QED BY <2>1, InsertAtProperties DEF Inserted
<1>2. \A k \in 1 .. Len(s) : s[k] # b
  BY DEF ToSet
<1> HIDE DEF t
<1>3. /\ ToSet(t) = {t[i] : i \in 1 .. Len(t)}
      /\ ToSet(s) = {s[i] : i \in 1 .. Len(s)}
      /\ IsInjective(s) <=> \A i, j \in 1 .. Len(s) : s[i] = s[j] => i = j
      /\ IsInjective(t) <=> \A i, j \in 1 .. Len(t) : t[i] = t[j] => i = j
  BY <1>1, SequenceFacts
<1>4. IsInjective(t)
  <2> SUFFICES ASSUME NEW p \in 1 .. (Len(s) + 1), NEW q \in 1 .. (Len(s) + 1), t[p] = t[q]
               PROVE  p = q
    BY <1>1, <1>3
  <2>1. t[p] = IF p < at + 1 THEN s[p] ELSE IF p = at + 1 THEN b ELSE s[p - 1]
    BY <1>1
  <2>2. t[q] = IF q < at + 1 THEN s[q] ELSE IF q = at + 1 THEN b ELSE s[q - 1]
    BY <1>1
  <2> DEFINE old(k) == IF k < at + 1 THEN k ELSE k - 1
  <2>3. p # at + 1 => old(p) \in 1 .. Len(s) /\ t[p] = s[old(p)]
    BY <2>1
  <2>4. q # at + 1 => old(q) \in 1 .. Len(s) /\ t[q] = s[old(q)]
    BY <2>2
  <2>5. CASE p = at + 1 \/ q = at + 1
    <3>1. p = at + 1 => t[p] = b
      BY <2>1
    <3>2. q = at + 1 => t[q] = b
      BY <2>2
    <3> HIDE DEF old
    <3>3. QED BY <1>2, <2>5, <2>3, <2>4, <3>1, <3>2
  <2>6. CASE p # at + 1 /\ q # at + 1
    <3>1. old(p) = old(q)
      <4> HIDE DEF old
      <4>1. QED BY <1>3, <2>6, <2>3, <2>4
    <3>2. QED BY <2>6, <3>1
  <2>7. QED BY <2>5, <2>6
<1>5. b \in ToSet(t)
  <2>1. at + 1 \in 1 .. Len(t) /\ t[at + 1] = b
    BY <1>1
  <2>2. QED BY <1>3, <2>1
<1>6. ASSUME NEW k \in 1 .. Len(s)
      PROVE  s[k] \in ToSet(t)
  <2>1. CASE k < at + 1
    <3>1. k \in 1 .. Len(t) /\ t[k] = s[k]
      BY <1>1, <2>1
    <3>2. QED BY <1>3, <3>1
  <2>2. CASE k >= at + 1
    <3>1. k + 1 \in 1 .. (Len(s) + 1) /\ ~(k + 1 < at + 1) /\ k + 1 # at + 1 /\ (k + 1) - 1 = k
      BY <1>1, <2>2
    <3>2. k + 1 \in 1 .. Len(t) /\ t[k + 1] = s[(k + 1) - 1]
      BY <1>1, <3>1
    <3>3. QED BY <1>3, <3>1, <3>2
  <2>3. QED BY <2>1, <2>2
<1>7. ToSet(s) \subseteq ToSet(t)
  BY <1>6, <1>3
<1>8. QED BY <1>1, <1>4, <1>5, <1>7 DEF t

LEMMA RemovedBlocks ==
  ASSUME NEW S, NEW s \in Seq(S), NEW n \in Numbers(Len(s)), IsInjective(s)
  PROVE  /\ Removed(s, n) \in Seq(S)
         /\ IsInjective(Removed(s, n))
         /\ ToSet(s) \subseteq ToSet(Removed(s, n)) \cup {s[n + 1]}
<1> DEFINE t == Removed(s, n)
<1>1. n + 1 \in 1 .. Len(s)
  BY DEF Numbers
<1>2. /\ t \in Seq(S) /\ Len(t) = Len(s) - 1
      /\ \A k \in 1 .. (Len(s) - 1) : t[k] = IF k < n + 1 THEN s[k] ELSE s[k + 1]
  BY <1>1, RemoveAtProperties DEF Removed
<1> HIDE DEF t
<1>3. /\ ToSet(t) = {t[i] : i \in 1 .. Len(t)}
      /\ ToSet(s) = {s[i] : i \in 1 .. Len(s)}
      /\ IsInjective(s) <=> \A i, j \in 1 .. Len(s) : s[i] = s[j] => i = j
      /\ IsInjective(t) <=> \A i, j \in 1 .. Len(t) : t[i] = t[j] => i = j
  BY <1>2, SequenceFacts
<1>4. IsInjective(t)
  BY <1>1, <1>2, <1>3
<1>5. ASSUME NEW k \in 1 .. Len(s), k # n + 1
      PROVE  s[k] \in ToSet(t)
  <2>1. CASE k < n + 1
    <3>1. k \in 1 .. Len(t) /\ t[k] = s[k]
      BY <1>1, <1>2, <2>1
    <3>2. QED BY <1>3, <3>1
  <2>2. CASE k > n + 1
    <3>1. k - 1 \in 1 .. Len(t) /\ t[k - 1] = s[k]
      BY <1>1, <1>2, <2>2
    <3>2. QED BY <1>3, <3>1
  <2>3. QED BY <1>1, <1>5, <2>1, <2>2
<1>6. ToSet(s) \subseteq ToSet(t) \cup {s[n + 1]}
  BY <1>1, <1>5, <1>3
<1>7. QED BY <1>2, <1>4, <1>6 DEF t

-----------------------------------------------------------------------------
(* What the rewritten links resolve to.                                    *)

(* An insertion inside the list, or right behind it, with its shift.       *)
LEMMA ResolveInserted ==
  ASSUME NEW S, NEW s \in Seq(S), NEW b \in S, NEW at \in 0 .. Len(s), NEW l \in Int,
         NEW u, NEW d
  PROVE  Resolve(Inserted(s, at, b), AdjustLink(l, at, 1), u, d) = Resolve(s, l, u, d)
<1> DEFINE t == Inserted(s, at, b)
           k == AdjustLink(l, at, 1)
<1> SUFFICES Resolve(t, k, u, d) = Resolve(s, l, u, d)
  OBVIOUS
<1>1. /\ Len(t) = Len(s) + 1
      /\ \A p \in 1 .. (Len(s) + 1) :
           t[p] = IF p < at + 1 THEN s[p] ELSE IF p = at + 1 THEN b ELSE s[p - 1]
  <2>1. at + 1 \in 1 .. (Len(s) + 1)
    OBVIOUS
  <2>2. QED BY <2>1, InsertAtProperties DEF Inserted
<1>2. k = IF l >= 0 /\ l >= at THEN l + 1 ELSE l
  BY DEF AdjustLink
<1> HIDE DEF t, k
<1>3. CASE l < 0
  BY <1>2, <1>3 DEF Resolve
<1>4. CASE l \in 0 .. (Len(s) - 1)
  <2>1. k \in 0 .. Len(s) /\ t[k + 1] = s[l + 1]
    BY <1>1, <1>2, <1>4
  <2>2. QED BY <1>1, <1>4, <2>1 DEF Resolve
<1>5. CASE l >= Len(s)
  BY <1>1, <1>2, <1>5 DEF Resolve
<1>6. QED BY <1>3, <1>4, <1>5

(* A block appended without a shift captures the links to its number.      *)
LEMMA ResolveAppended ==
  ASSUME NEW S, NEW s \in Seq(S), NEW b \in S, NEW l \in Int, NEW u, NEW d
  PROVE  Resolve(Inserted(s, Len(s), b), l, u, d) =
           IF l = Len(s) THEN b ELSE Resolve(s, l, u, d)
<1> DEFINE t == Inserted(s, Len(s), b)
<1> SUFFICES Resolve(t, l, u, d) = IF l = Len(s) THEN b ELSE Resolve(s, l, u, d)
  OBVIOUS
<1>1. /\ Len(t) = Len(s) + 1
      /\ \A p \in 1 .. (Len(s) + 1) : t[p] = IF p = Len(s) + 1 THEN b ELSE s[p]
  <2>1. Len(s) + 1 \in 1 .. (Len(s) + 1)
    OBVIOUS
  <2>2. /\ Len(InsertAt(s, Len(s) + 1, b)) = Len(s) + 1
        /\ \A p \in 1 .. (Len(s) + 1) :
             InsertAt(s, Len(s) + 1, b)[p] =
               IF p < Len(s) + 1 THEN s[p] ELSE IF p = Len(s) + 1 THEN b ELSE s[p - 1]
    BY <2>1, InsertAtProperties
  <2>3. t = InsertAt(s, Len(s) + 1, b)
    BY DEF Inserted
  <2> HIDE DEF t
  <2>4. QED BY <2>2, <2>3
<1> HIDE DEF t
<1>2. CASE l < 0
  BY <1>2 DEF Resolve
<1>3. CASE l \in 0 .. (Len(s) - 1)
  <2>1. t[l + 1] = s[l + 1]
    BY <1>1, <1>3
  <2>2. QED BY <1>1, <1>3, <2>1 DEF Resolve
<1>4. CASE l = Len(s)
  <2>1. t[l + 1] = b
    BY <1>1, <1>4
  <2>2. QED BY <1>1, <1>4, <2>1 DEF Resolve
<1>5. CASE l > Len(s)
  BY <1>1, <1>5 DEF Resolve
<1>6. QED BY <1>2, <1>3, <1>4, <1>5

LEMMA ResolveRemoved ==
  ASSUME NEW S, NEW s \in Seq(S), NEW n \in Numbers(Len(s)), NEW l \in Int,
         NEW u, NEW d
  PROVE  Resolve(Removed(s, n), DropLink(l, n), u, d) =
           IF l = n THEN u ELSE Resolve(s, l, u, d)
<1> DEFINE t == Removed(s, n)
           k == DropLink(l, n)
<1> SUFFICES Resolve(t, k, u, d) = IF l = n THEN u ELSE Resolve(s, l, u, d)
  OBVIOUS
<1>1. /\ Len(t) = Len(s) - 1
      /\ \A p \in 1 .. (Len(s) - 1) : t[p] = IF p < n + 1 THEN s[p] ELSE s[p + 1]
  <2>1. n + 1 \in 1 .. Len(s)
    BY DEF Numbers
  <2>2. QED BY <2>1, RemoveAtProperties DEF Removed
<1>2. n \in Int /\ 0 <= n /\ n < Len(s)
  BY DEF Numbers
<1>3. k = IF l = n THEN NoLink ELSE IF l > n THEN l - 1 ELSE l
  BY <1>2 DEF DropLink, AdjustLink, NoLink
<1> HIDE DEF t, k
<1>4. CASE l < 0 \/ l = n
  BY <1>2, <1>3, <1>4 DEF Resolve, NoLink
<1>5. CASE l \in 0 .. (Len(s) - 1) /\ l # n
  <2>1. k \in 0 .. (Len(s) - 2) /\ t[k + 1] = s[l + 1]
    BY <1>1, <1>2, <1>3, <1>5
  <2>2. QED BY <1>1, <1>5, <2>1 DEF Resolve
<1>6. CASE l >= Len(s)
  BY <1>1, <1>2, <1>3, <1>6 DEF Resolve
<1>7. QED BY <1>4, <1>5, <1>6

(* A link carried over with its block.                                     *)
LEMMA ResolveCarried ==
  ASSUME NEW S, NEW s \in Seq(S), NEW t \in Seq(S), NEW map, CarriesOver(s, t, map),
         DOMAIN map \subseteq Numbers(Len(s)), NEW l \in Int, NEW u, NEW d
  PROVE  Resolve(t, MapLink(l, map), u, d) = Resolve(s, l, u, d)
<1>1. Len(t) = Len(s)
  BY DEF CarriesOver
<1>2. CASE l \in Numbers(Len(s))
  <2>1. MapLink(l, map) \in Numbers(Len(s)) /\ t[MapLink(l, map) + 1] = s[l + 1]
    BY <1>2 DEF CarriesOver
  <2>2. QED BY <1>1, <1>2, <2>1 DEF Resolve, Numbers
<1>3. CASE l \notin Numbers(Len(s))
  <2>1. MapLink(l, map) = l
    BY <1>3 DEF MapLink
  <2>2. QED BY <1>1, <1>3, <2>1 DEF Resolve, Numbers
<1>4. QED BY <1>2, <1>3

-----------------------------------------------------------------------------
(* Links as a relation between blocks.                                     *)

Succ(x, n) == ToSet(x[n]) \cap DOMAIN x

(* x has no link that y has not.                                           *)
Below(x, y) == \A n \in DOMAIN y : ToSet(x[n]) \subseteq ToSet(y[n])

Acyclic(x, R) == \A T \in (SUBSET R) \ {{}} : \E n \in T : Succ(x, n) \cap T = {}

Closed(x, R) == \A n \in R : Succ(x, n) \subseteq R

IsSafe(x, R, path) == R \cap path = {} /\ Closed(x, R) /\ Acyclic(x, R)

Safe(x, path) == UNION {R \in SUBSET DOMAIN x : IsSafe(x, R, path)}

(* Whoever follows the links from m comes to n.                            *)
Leads(x, m, n) == \A T \in SUBSET DOMAIN x : m \in T /\ Closed(x, T) => n \in T

-----------------------------------------------------------------------------
(* Safe sets.                                                              *)

LEMMA SafeIsSafe ==
  ASSUME NEW x, NEW path
  PROVE  Safe(x, path) \subseteq DOMAIN x /\ IsSafe(x, Safe(x, path), path)
<1>1. Safe(x, path) \subseteq DOMAIN x /\ Safe(x, path) \cap path = {}
  BY DEF Safe, IsSafe
<1>2. Closed(x, Safe(x, path))
  BY DEF Safe, IsSafe, Closed
<1>3. ASSUME NEW T \in SUBSET Safe(x, path), T # {}
      PROVE  \E n \in T : Succ(x, n) \cap T = {}
  <2>1. PICK m \in T : TRUE
    BY <1>3
  <2>2. PICK R \in SUBSET DOMAIN x : IsSafe(x, R, path) /\ m \in R
    BY <2>1 DEF Safe
  <2>3. PICK n \in T \cap R : Succ(x, n) \cap (T \cap R) = {}
    <3>1. T \cap R # {} /\ T \cap R \in SUBSET R
      BY <2>1, <2>2
    <3> QED
      BY <2>2, <3>1 DEF IsSafe, Acyclic
  <2>4. Succ(x, n) \subseteq R
    BY <2>2, <2>3 DEF IsSafe, Closed
  <2> QED
    BY <2>3, <2>4
<1> QED
  BY <1>1, <1>2, <1>3 DEF IsSafe, Acyclic

LEMMA SafeContains ==
  ASSUME NEW x, NEW path, NEW R \in SUBSET DOMAIN x, IsSafe(x, R, path)
  PROVE  R \subseteq Safe(x, path)
BY DEF Safe

(* Less links, more that is safe.                                          *)
LEMMA SafeBelow ==
  ASSUME NEW x, NEW y, NEW path, DOMAIN x = DOMAIN y, Below(x, y)
  PROVE  Safe(y, path) \subseteq Safe(x, path)
<1>1. Safe(y, path) \subseteq DOMAIN y /\ IsSafe(y, Safe(y, path), path)
  BY SafeIsSafe
<1> DEFINE R == Safe(y, path)
<1> HIDE DEF R
<1>2. \A n \in R : Succ(x, n) \subseteq Succ(y, n)
  BY <1>1 DEF Below, Succ, R
<1>3. R \cap path = {} /\ Closed(x, R)
  BY <1>1, <1>2 DEF IsSafe, Closed, R
<1>4. Acyclic(x, R)
  <2> SUFFICES ASSUME NEW T \in SUBSET R, T # {} PROVE \E n \in T : Succ(x, n) \cap T = {}
    BY DEF Acyclic
  <2>1. PICK n \in T : Succ(y, n) \cap T = {}
    BY <1>1 DEF IsSafe, Acyclic, R
  <2> QED
    BY <1>2, <2>1
<1>5. R \subseteq Safe(x, path)
  BY <1>1, <1>3, <1>4, SafeContains DEF IsSafe, R
<1> QED
  BY <1>5 DEF R

(* A block whose links lead into what is safe behind it is safe itself.    *)
LEMMA SafeParent ==
  ASSUME NEW x, NEW path, NEW k \in DOMAIN x, k \notin path,
         Succ(x, k) \subseteq Safe(x, path \cup {k})
  PROVE  k \in Safe(x, path)
<1> DEFINE R == Safe(x, path \cup {k})
<1>1. R \subseteq DOMAIN x /\ IsSafe(x, R, path \cup {k})
  BY SafeIsSafe
<1>2. Succ(x, k) \subseteq R /\ k \notin R
  BY <1>1 DEF IsSafe
<1> HIDE DEF R
<1>3. (R \cup {k}) \cap path = {} /\ Closed(x, R \cup {k})
  BY <1>1, <1>2 DEF IsSafe, Closed
<1>4. Acyclic(x, R \cup {k})
  <2> SUFFICES ASSUME NEW T \in SUBSET (R \cup {k}), T # {} PROVE \E n \in T : Succ(x, n) \cap T = {}
    BY DEF Acyclic
  <2>1. CASE T \cap R = {}
    <3>1. T = {k}
      BY <2>1
    <3> QED
      BY <1>2, <3>1
  <2>2. CASE T \cap R # {}
    <3>1. PICK n \in T \cap R : Succ(x, n) \cap (T \cap R) = {}
      BY <1>1, <2>2 DEF IsSafe, Acyclic
    <3>2. Succ(x, n) \subseteq R
      BY <1>1, <3>1 DEF IsSafe, Closed
    <3> QED
      BY <3>1, <3>2
  <2> QED
    BY <2>1, <2>2
<1>5. R \cup {k} \subseteq Safe(x, path)
  BY <1>1, <1>3, <1>4, SafeContains DEF IsSafe
<1> QED
  BY <1>5

LEMMA BelowFacts ==
  ASSUME NEW x, NEW y, NEW z, DOMAIN x = DOMAIN y, DOMAIN y = DOMAIN z
  PROVE  /\ Below(x, x)
         /\ Below(x, y) /\ Below(y, z) => Below(x, z)
         /\ Below(x, y) => \A n \in DOMAIN x : Succ(x, n) \subseteq Succ(y, n)
BY DEF Below, Succ

LEMMA LeadsFacts ==
  ASSUME NEW x, NEW m \in DOMAIN x
  PROVE  /\ Leads(x, m, m)
         /\ \A n \in DOMAIN x : Leads(x, m, n) => \A k \in Succ(x, n) : Leads(x, m, k)
BY DEF Leads, Closed

-----------------------------------------------------------------------------
(* The recursion of checkLinks.                                            *)

Caches(N) == [N -> Seq(Int)]

Visits(N) == [SUBSET N -> [N -> [Caches(N) -> Caches(N)]]]

LEMMA FollowedLinkType ==
  ASSUME NEW N, NEW visit \in Visits(N), NEW b \in N, NEW path \in SUBSET N,
         NEW k \in Int, NEW x \in Caches(N)
  PROVE  FollowedLink(visit, b, path, k, x) \in Caches(N)
<1> DOMAIN x = N
  BY DEF Caches
<1>1. CASE k \in path
  <2>1. FollowedLink(visit, b, path, k, x) = [x EXCEPT ![b] = Sublist(x[b], Int \ {k})]
    BY <1>1 DEF FollowedLink, Caches
  <2>2. Sublist(x[b], Int \ {k}) \in Seq(Int)
    BY SublistProperties DEF Caches
  <2> QED
    BY <2>1, <2>2 DEF Caches
<1>2. CASE k \in N \ path
  <2>1. FollowedLink(visit, b, path, k, x) = visit[path \cup {k}][k][x]
    BY <1>2 DEF FollowedLink
  <2>2. path \cup {k} \in SUBSET N /\ k \in N
    BY <1>2
  <2>3. visit[path \cup {k}] \in [N -> [Caches(N) -> Caches(N)]]
    BY <2>2 DEF Visits
  <2> QED
    BY <2>1, <2>2, <2>3
<1>3. CASE k \notin N \cup path
  BY <1>3 DEF FollowedLink
<1> QED
  BY <1>1, <1>2, <1>3

(* after[i] are the caches when the first i links have been followed.      *)
Follows(after, n, visit, b, path, x) ==
  /\ after[0] = x
  /\ \A i \in 1 .. n : after[i] = FollowedLink(visit, b, path, x[b][i], after[i - 1])
  /\ Followed(visit, b, path, x) = after[n]

LEMMA FollowedRecursion ==
  ASSUME NEW N, NEW visit \in Visits(N), NEW b \in N, NEW path \in SUBSET N,
         NEW x \in Caches(N), NEW n \in Nat, n = Len(x[b])
  PROVE  \E after \in [0 .. n -> Caches(N)] : Follows(after, n, visit, b, path, x)
<1> DEFINE Rec(f) == f = [i \in 0 .. Len(x[b]) |->
                       IF i = 0 THEN x
                       ELSE FollowedLink(visit, b, path, x[b][i], f[i - 1])]
           Q == Caches(N)
           step == [i \in 1 .. n |-> [y \in Q |-> FollowedLink(visit, b, path, x[b][i], y)]]
<1>1. \A i \in 1 .. n : x[b][i] \in Int
  BY DEF Caches
<1>2. \A i \in 1 .. n, y \in Q : FollowedLink(visit, b, path, x[b][i], y) \in Q
  BY <1>1, FollowedLinkType
<1>3. x \in Q
  OBVIOUS
<1> HIDE DEF Q
<1>4. step \in [1 .. n -> [Q -> Q]]
  BY <1>2
<1>5. PICK f \in [0 .. n -> Q] : Recurses(f, n, x, step)
  <2> HIDE DEF step
  <2> QED
    BY <1>3, <1>4, RecursionExists
<1>6. \A i \in 1 .. n : f[i] = FollowedLink(visit, b, path, x[b][i], f[i - 1])
  <2> SUFFICES ASSUME NEW i \in 1 .. n
               PROVE  f[i] = FollowedLink(visit, b, path, x[b][i], f[i - 1])
    OBVIOUS
  <2>1. i - 1 \in 0 .. n /\ f[i - 1] \in Q
    OBVIOUS
  <2>2. step[i][f[i - 1]] = FollowedLink(visit, b, path, x[b][i], f[i - 1])
    BY <2>1
  <2> QED
    BY <1>5, <2>2 DEF Recurses
<1>7. Rec(f)
  <2>1. \A i \in 0 .. n : f[i] = IF i = 0 THEN x
                                 ELSE FollowedLink(visit, b, path, x[b][i], f[i - 1])
    <3> SUFFICES ASSUME NEW i \in 0 .. n, i # 0 PROVE i \in 1 .. n
      BY <1>5, <1>6, Zenon DEF Recurses
    <3> QED
      OBVIOUS
  <2>2. f = [i \in 0 .. n |-> f[i]]
    BY <1>5
  <2> QED
    BY <2>1, <2>2, Zenon
<1>8. PICK h : Rec(h) /\ Followed(visit, b, path, x) = h[Len(x[b])]
  BY <1>7, Zenon DEF Followed
<1>9. /\ h[0] = x
      /\ \A i \in 1 .. n : h[i] = FollowedLink(visit, b, path, x[b][i], h[i - 1])
  <2>1. \A i \in 0 .. n : h[i] = IF i = 0 THEN x
                                 ELSE FollowedLink(visit, b, path, x[b][i], h[i - 1])
    BY <1>8, Zenon
  <2>2. 0 \in 0 .. n /\ \A i \in 1 .. n : i \in 0 .. n /\ i # 0
    OBVIOUS
  <2> QED
    BY <2>1, <2>2, Zenon
<1>10. h \in [0 .. n -> Q]
  <2>1. h = [i \in 0 .. n |-> IF i = 0 THEN x ELSE FollowedLink(visit, b, path, x[b][i], h[i - 1])]
    BY <1>8, Zenon
  <2> HIDE DEF Rec
  <2> DEFINE T == {i \in 0 .. n : h[i] \in Q}
  <2>2. 0 \in T
    BY <1>3, <1>9
  <2>3. ASSUME NEW i \in 1 .. n, i - 1 \in T PROVE i \in T
    <3>1. h[i - 1] \in Q
      BY <2>3
    <3>2. h[i] \in Q
      BY <1>2, <1>9, <3>1
    <3> QED
      BY <3>2
  <2>4. 0 .. n \subseteq T
    <3> HIDE DEF T
    <3> QED
      BY <2>2, <2>3, BoundedInduction
  <2>5. \A i \in 0 .. n : h[i] \in Q
    BY <2>4
  <2> QED
    BY <2>1, <2>5
<1> QED
  BY <1>8, <1>9, <1>10 DEF Q, Follows

-----------------------------------------------------------------------------
(* What a visit promises, for links y out of x, all of them out of g.      *)

(* A link that y has no more leads back to its block.                      *)
Explained(g, x, y) ==
  \A n \in DOMAIN g : \A m \in ToSet(x[n]) \ ToSet(y[n]) : m \in DOMAIN g /\ Leads(g, m, n)

(* Block b is visited at the end of path.                                  *)
Entered(g, x, b, path) == Below(x, g) /\ b \in path /\ \A p \in path : Leads(g, p, b)

Left(g, x, y, b, path) ==
  y \in Caches(DOMAIN g) /\ Below(y, x) /\ Explained(g, x, y) /\ Succ(y, b) \subseteq Safe(y, path)

Sound(g, visit, d) ==
  \A path \in SUBSET DOMAIN g, b \in DOMAIN g, x \in Caches(DOMAIN g) :
    Cardinality(DOMAIN g \ path) < d /\ Entered(g, x, b, path)
      => Left(g, x, visit[path][b][x], b, path)

LEMMA ExplainedFacts ==
  ASSUME NEW g, NEW x, NEW y, NEW z
  PROVE  /\ Explained(g, x, x)
         /\ Explained(g, x, y) /\ Explained(g, y, z) => Explained(g, x, z)
BY DEF Explained

(* One link of block b, which is k.                                        *)
LEMMA LinkSound ==
  ASSUME NEW N, IsFiniteSet(N), NEW g \in Caches(N), NEW visit \in Visits(N), NEW d \in Nat,
         Sound(g, visit, d),
         NEW path \in SUBSET N, NEW b \in N, NEW x \in Caches(N), Entered(g, x, b, path),
         Cardinality(N \ path) < d + 1,
         NEW k \in ToSet(x[b]), NEW y \in Caches(N), Below(y, x),
         NEW z, z = FollowedLink(visit, b, path, k, y)
  PROVE  /\ z \in Caches(N) /\ Below(z, y) /\ Explained(g, y, z)
         /\ k \in Succ(z, b) => k \in Safe(z, path)
<1>1. DOMAIN g = N /\ DOMAIN x = N /\ DOMAIN y = N
  BY DEF Caches
<1>2. k \in Int
  <2>1. x[b] \in Seq(Int)
    BY DEF Caches
  <2> QED
    BY <2>1 DEF ToSet
<1>3. z \in Caches(N)
  BY <1>2, FollowedLinkType
<1>4. DOMAIN z = N
  BY <1>3 DEF Caches
<1>5. CASE k \in path
  <2>1. z = [y EXCEPT ![b] = Sublist(y[b], Int \ {k})]
    BY <1>1, <1>5 DEF FollowedLink
  <2>2. y[b] \in Seq(Int)
    BY DEF Caches
  <2>3. ToSet(z[b]) = ToSet(y[b]) \cap (Int \ {k})
    BY <1>1, <2>1, <2>2, SublistProperties
  <2>4. \A n \in N : n # b => z[n] = y[n]
    BY <1>1, <2>1
  <2>5. ToSet(y[b]) \subseteq Int
    BY <2>2 DEF ToSet
  <2>6. \A n \in N : ToSet(z[n]) \subseteq ToSet(y[n]) /\ ToSet(y[n]) \ ToSet(z[n]) \subseteq {k}
    BY <2>3, <2>4, <2>5
  <2>7. \A n \in N : ToSet(y[n]) \ ToSet(z[n]) # {} => n = b
    BY <2>4
  <2>8. Leads(g, k, b) /\ k \in N
    BY <1>5 DEF Entered
  <2>9. Below(z, y)
    BY <1>1, <2>6 DEF Below
  <2>10. Explained(g, y, z)
    BY <1>1, <2>6, <2>7, <2>8 DEF Explained
  <2>11. k \notin Succ(z, b)
    BY <2>3 DEF Succ
  <2> QED
    BY <1>3, <2>9, <2>10, <2>11
<1>6. CASE k \in N \ path
  <2> DEFINE next == path \cup {k}
  <2>1. z = visit[next][k][y]
    BY <1>1, <1>6 DEF FollowedLink
  <2>2. Cardinality(N \ next) < d
    <3>1. PICK M : M = N \ path
      OBVIOUS
    <3>2. N \ next = M \ {k} /\ k \in M
      BY <1>6, <3>1
    <3>3. IsFiniteSet(M)
      BY <3>1, FS_Difference
    <3>4. Cardinality(M \ {k}) = Cardinality(M) - 1
      BY <3>2, <3>3, FS_RemoveElement
    <3>5. Cardinality(M) \in Nat /\ Cardinality(M) < d + 1
      BY <3>1, <3>3, FS_CardinalityType
    <3>6. Cardinality(M) - 1 < d
      BY <3>5
    <3> QED
      BY <3>2, <3>4, <3>6, Zenon
  <2>3. k \in Succ(g, b)
    BY <1>1, <1>6 DEF Entered, Below, Succ
  <2>4. Entered(g, y, k, next)
    <3>1. Below(y, g)
      BY <1>1, BelowFacts DEF Entered
    <3>2. \A p \in path : Leads(g, p, k)
      BY <1>1, <2>3, LeadsFacts DEF Entered
    <3>3. Leads(g, k, k)
      BY <1>1, <1>6, LeadsFacts
    <3> QED
      BY <3>1, <3>2, <3>3 DEF Entered
  <2>5. next \in SUBSET N
    BY <1>6
  <2> HIDE DEF next
  <2>6. Left(g, y, z, k, next)
    BY <1>1, <1>6, <2>1, <2>2, <2>4, <2>5 DEF Sound
  <2>7. k \in Safe(z, path)
    BY <1>4, <1>6, <2>6, SafeParent DEF Left, next
  <2> QED
    BY <1>3, <2>6, <2>7 DEF Left
<1>7. CASE k \notin N \cup path
  <2>1. z = y
    BY <1>1, <1>7 DEF FollowedLink
  <2> QED
    BY <1>1, <1>3, <1>7, <2>1, BelowFacts, ExplainedFacts DEF Succ
<1> QED
  BY <1>5, <1>6, <1>7

(* All links of block b.                                                   *)
LEMMA FollowedSound ==
  ASSUME NEW N, IsFiniteSet(N), NEW g \in Caches(N), NEW visit \in Visits(N), NEW d \in Nat,
         Sound(g, visit, d),
         NEW path \in SUBSET N, NEW b \in N, NEW x \in Caches(N), Entered(g, x, b, path),
         Cardinality(N \ path) < d + 1
  PROVE  Left(g, x, Followed(visit, b, path, x), b, path)
<1>1. DOMAIN g = N /\ DOMAIN x = N /\ x[b] \in Seq(Int)
  BY DEF Caches
<1>2. PICK n \in Nat : n = Len(x[b])
  BY <1>1
<1>3a. PICK after \in [0 .. n -> Caches(N)] : Follows(after, n, visit, b, path, x)
  BY <1>2, FollowedRecursion
<1>3. /\ after[0] = x
      /\ \A i \in 1 .. n : after[i] = FollowedLink(visit, b, path, x[b][i], after[i - 1])
      /\ Followed(visit, b, path, x) = after[n]
  BY <1>3a DEF Follows
<1>4. ToSet(x[b]) = {x[b][j] : j \in 1 .. n}
  <2>1. DOMAIN x[b] = 1 .. n
    BY <1>1, <1>2
  <2> QED
    BY <2>1 DEF ToSet
<1> DEFINE Ok(i) == /\ Below(after[i], x) /\ Explained(g, x, after[i])
                    /\ \A j \in 1 .. i :
                         x[b][j] \in Succ(after[i], b) => x[b][j] \in Safe(after[i], path)
           T == {i \in 0 .. n : Ok(i)}
<1>5. Ok(0)
  BY <1>1, <1>3, BelowFacts, ExplainedFacts
<1>6. ASSUME NEW i \in 1 .. n, Ok(i - 1) PROVE Ok(i)
  <2>1. PICK y \in Caches(N) : y = after[i - 1]
    <3>1. i - 1 \in 0 .. n
      OBVIOUS
    <3> QED
      BY <3>1
  <2>2. PICK z \in Caches(N) : z = after[i]
    OBVIOUS
  <2>3. DOMAIN y = N /\ DOMAIN z = N
    BY DEF Caches
  <2>4. PICK k \in ToSet(x[b]) : k = x[b][i]
    BY <1>4
  <2>5. z = FollowedLink(visit, b, path, k, y)
    BY <1>3, <2>1, <2>2, <2>4
  <2>6. Below(y, x) /\ Explained(g, x, y)
    BY <1>6, <2>1
  <2>7. /\ Below(z, y) /\ Explained(g, y, z)
        /\ k \in Succ(z, b) => k \in Safe(z, path)
    BY <2>5, <2>6, LinkSound
  <2>8. Below(z, x) /\ Explained(g, x, z)
    BY <1>1, <2>3, <2>6, <2>7, BelowFacts, ExplainedFacts
  <2>9. \A j \in 1 .. i : x[b][j] \in Succ(z, b) => x[b][j] \in Safe(z, path)
    <3> SUFFICES ASSUME NEW j \in 1 .. i, x[b][j] \in Succ(z, b) PROVE x[b][j] \in Safe(z, path)
      OBVIOUS
    <3>1. CASE j = i
      BY <2>4, <2>7, <3>1
    <3>2. CASE j # i
      <4>1. j \in 1 .. i - 1
        BY <3>2
      <4>2. x[b][j] \in Succ(y, b)
        BY <2>3, <2>7, BelowFacts
      <4>3. x[b][j] \in Safe(y, path)
        BY <1>6, <2>1, <4>1, <4>2
      <4> QED
        BY <2>3, <2>7, <4>3, SafeBelow
    <3> QED
      BY <3>1, <3>2
  <2> QED
    BY <2>2, <2>8, <2>9
<1>7. Ok(n)
  <2>1. 0 \in T /\ \A i \in 1 .. n : i - 1 \in T => i \in T
    <3> HIDE DEF Ok
    <3> QED
      BY <1>5, <1>6
  <2> HIDE DEF T
  <2>2. 0 .. n \subseteq T
    BY <2>1, BoundedInduction
  <2>3. n \in T
    BY <2>2
  <2> QED
    BY <2>3, Zenon DEF T
<1>8. PICK y \in Caches(N) : y = after[n]
  OBVIOUS
<1>9. Succ(y, b) \subseteq Safe(y, path)
  <2> SUFFICES ASSUME NEW m \in Succ(y, b) PROVE m \in Safe(y, path)
    OBVIOUS
  <2>1. m \in ToSet(x[b])
    BY <1>1, <1>7, <1>8 DEF Below, Succ
  <2>2. PICK j \in 1 .. n : m = x[b][j]
    BY <1>4, <2>1
  <2> QED
    BY <1>7, <1>8, <2>2
<1> QED
  BY <1>1, <1>3, <1>7, <1>8, <1>9 DEF Left

-----------------------------------------------------------------------------
(* checkLinks from one block.                                              *)

LEMMA VisitType ==
  ASSUME NEW N, NEW visit \in Visits(N)
  PROVE  Visit(visit, N) \in Visits(N)
<1>1. \A path \in SUBSET N, b \in N, x \in Caches(N) : Followed(visit, b, path, x) \in Caches(N)
  <2> SUFFICES ASSUME NEW path \in SUBSET N, NEW b \in N, NEW x \in Caches(N)
               PROVE  Followed(visit, b, path, x) \in Caches(N)
    OBVIOUS
  <2>1. PICK n \in Nat : n = Len(x[b])
    <3>1. x[b] \in Seq(Int)
      BY DEF Caches
    <3> QED
      BY <3>1
  <2>2. PICK after \in [0 .. n -> Caches(N)] : Follows(after, n, visit, b, path, x)
    BY <2>1, FollowedRecursion
  <2>3. after[n] \in Caches(N)
    OBVIOUS
  <2> QED
    BY <2>2, <2>3 DEF Follows
<1> DEFINE Q == Caches(N)
<1>2. Visit(visit, N) = [path \in SUBSET N |-> [b \in N |-> [x \in Q |-> Followed(visit, b, path, x)]]]
  BY DEF Visit, Caches
<1>3. Visits(N) = [SUBSET N -> [N -> [Q -> Q]]]
  BY DEF Visits
<1>4. \A path \in SUBSET N, b \in N, x \in Q : Followed(visit, b, path, x) \in Q
  BY <1>1
<1> HIDE DEF Q
<1>5. ASSUME NEW path \in SUBSET N, NEW b \in N
      PROVE  [x \in Q |-> Followed(visit, b, path, x)] \in [Q -> Q]
  BY <1>4
<1>6. ASSUME NEW path \in SUBSET N
      PROVE  [b \in N |-> [x \in Q |-> Followed(visit, b, path, x)]] \in [N -> [Q -> Q]]
  BY <1>5
<1>7. [path \in SUBSET N |-> [b \in N |-> [x \in Q |-> Followed(visit, b, path, x)]]]
        \in [SUBSET N -> [N -> [Q -> Q]]]
  BY <1>6
<1> QED
  BY <1>2, <1>3, <1>7

LEMMA VisitSound ==
  ASSUME NEW N, IsFiniteSet(N), NEW g \in Caches(N), NEW visit \in Visits(N), NEW d \in Nat,
         Sound(g, visit, d)
  PROVE  Sound(g, Visit(visit, N), d + 1)
<1>1. DOMAIN g = N
  BY DEF Caches
<1>2. \A path \in SUBSET N, b \in N, x \in Caches(N) :
        Visit(visit, N)[path][b][x] = Followed(visit, b, path, x)
  BY DEF Visit, Caches
<1> SUFFICES ASSUME NEW path \in SUBSET N, NEW b \in N, NEW x \in Caches(N),
                    Cardinality(N \ path) < d + 1, Entered(g, x, b, path)
             PROVE  Left(g, x, Visit(visit, N)[path][b][x], b, path)
  BY <1>1, Zenon DEF Sound
<1>3. Left(g, x, Followed(visit, b, path, x), b, path)
  BY FollowedSound
<1> QED
  BY <1>2, <1>3

LEMMA CheckLinksSound ==
  ASSUME NEW g, NEW x, IsFiniteSet(DOMAIN x), x \in Caches(DOMAIN x), g \in Caches(DOMAIN x),
         Below(x, g), NEW c \in DOMAIN x
  PROVE  Left(g, x, CheckLinks(x, c), c, {c})
<1> DEFINE N == DOMAIN x
           V == Visits(N)
           none == NoVisit(N)
<1>1. DOMAIN g = N /\ g \in Caches(N) /\ x \in Caches(N) /\ IsFiniteSet(N) /\ c \in N
  BY DEF Caches
<1>2. PICK n \in Nat : n = Cardinality(N)
  BY FS_CardinalityType
<1> DEFINE step == [i \in 1 .. n |-> [visit \in V |-> Visit(visit, N)]]
           Rec(f) == f = [d \in 0 .. Cardinality(DOMAIN x) |->
                        IF d = 0 THEN NoVisit(DOMAIN x) ELSE Visit(f[d - 1], DOMAIN x)]
<1>3. none \in V
  <2> HIDE DEF N
  <2>1. \A path \in SUBSET N, b \in N : [y \in [N -> Seq(Int)] |-> y] \in [Caches(N) -> Caches(N)]
    BY DEF Caches
  <2>2. \A path \in SUBSET N : [b \in N |-> [y \in [N -> Seq(Int)] |-> y]] \in [N -> [Caches(N) -> Caches(N)]]
    BY <2>1
  <2> QED
    BY <2>2 DEF Visits, NoVisit
<1>4. \A visit \in V : Visit(visit, N) \in V
  BY VisitType
<1> HIDE DEF V, none, N
<1>5. step \in [1 .. n -> [V -> V]]
  BY <1>4
<1>6. PICK f \in [0 .. n -> V] : Recurses(f, n, none, step)
  <2> HIDE DEF step
  <2> QED
    BY <1>3, <1>5, RecursionExists
<1>7. \A i \in 1 .. n : f[i] = Visit(f[i - 1], N)
  <2> SUFFICES ASSUME NEW i \in 1 .. n
               PROVE  f[i] = Visit(f[i - 1], N)
    OBVIOUS
  <2>1. i - 1 \in 0 .. n /\ f[i - 1] \in V
    OBVIOUS
  <2>2. step[i][f[i - 1]] = Visit(f[i - 1], N)
    BY <2>1
  <2> QED
    BY <1>6, <2>2 DEF Recurses
<1>8. Rec(f)
  <2>1. \A i \in 0 .. n : f[i] = IF i = 0 THEN none ELSE Visit(f[i - 1], N)
    <3> SUFFICES ASSUME NEW i \in 0 .. n, i # 0 PROVE i \in 1 .. n
      BY <1>6, <1>7, Zenon DEF Recurses
    <3> QED
      OBVIOUS
  <2>2. f = [i \in 0 .. n |-> f[i]]
    BY <1>6
  <2> QED
    BY <1>2, <2>1, <2>2, Zenon DEF N, none
<1>9. PICK h : Rec(h) /\ CheckLinks(x, c) = h[Cardinality(DOMAIN x)][{c}][c][x]
  BY <1>8, Zenon DEF CheckLinks
<1>10. h[0] = none /\ \A i \in 1 .. n : h[i] = Visit(h[i - 1], N)
  <2>1. \A i \in 0 .. n : h[i] = IF i = 0 THEN none ELSE Visit(h[i - 1], N)
    BY <1>2, <1>9, Zenon DEF N, none
  <2>2. 0 \in 0 .. n /\ \A i \in 1 .. n : i \in 0 .. n /\ i # 0
    OBVIOUS
  <2> QED
    BY <2>1, <2>2, Zenon
<1>11. CheckLinks(x, c) = h[n][{c}][c][x]
  BY <1>2, <1>9 DEF N
<1> HIDE DEF Rec
<1> DEFINE T == {i \in 0 .. n : h[i] \in Visits(N) /\ Sound(g, h[i], i)}
<1>12. 0 \in T
  <2>1. Sound(g, h[0], 0)
    <3>1. \A path \in SUBSET N : Cardinality(N \ path) \in Nat
      <4> SUFFICES ASSUME NEW path \in SUBSET N PROVE Cardinality(N \ path) \in Nat
        OBVIOUS
      <4> IsFiniteSet(N \ path)
        BY <1>1, FS_Difference
      <4> QED
        BY FS_CardinalityType
    <3>2. \A m \in Nat : ~(m < 0)
      OBVIOUS
    <3> QED
      BY <1>1, <3>1, <3>2, Zenon DEF Sound
  <2> QED
    BY <1>3, <1>10, <2>1 DEF V
<1>13. ASSUME NEW i \in 1 .. n, i - 1 \in T PROVE i \in T
  <2>1. PICK d \in Nat : d = i - 1
    OBVIOUS
  <2>2. h[d] \in Visits(N) /\ Sound(g, h[d], d)
    BY <1>13, <2>1
  <2>3. h[i] = Visit(h[d], N) /\ d + 1 = i
    BY <1>10, <2>1
  <2>4. h[i] \in Visits(N) /\ Sound(g, h[i], d + 1)
    BY <1>1, <2>2, <2>3, VisitType, VisitSound
  <2> QED
    BY <2>3, <2>4
<1>14. Sound(g, h[n], n)
  <2> HIDE DEF T
  <2>1. 0 .. n \subseteq T
    BY <1>12, <1>13, BoundedInduction
  <2>2. n \in T
    BY <2>1
  <2> QED
    BY <2>2, Zenon DEF T
<1>15. Cardinality(N \ {c}) < n
  <2>1. Cardinality(N \ {c}) = n - 1
    BY <1>1, <1>2, FS_RemoveElement
  <2>2. n - 1 < n
    OBVIOUS
  <2> QED
    BY <2>1, <2>2, Zenon
<1>16. Entered(g, x, c, {c})
  BY <1>1, LeadsFacts DEF Entered
<1>17. {c} \in SUBSET N
  BY <1>1
<1> QED
  BY <1>1, <1>11, <1>14, <1>15, <1>16, <1>17, Zenon DEF Sound

-----------------------------------------------------------------------------
(* checkLinks from every block, one after the other.                       *)

LEMMA BreakCyclesSound ==
  ASSUME NEW n \in Nat, NEW kids \in Caches(Numbers(n))
  PROVE  /\ BreakCycles(kids) \in Caches(Numbers(n))
         /\ Below(BreakCycles(kids), kids)
         /\ Explained(kids, kids, BreakCycles(kids))
         /\ Acyclic(BreakCycles(kids), Numbers(n))
<1> DEFINE N == Numbers(n)
           Q == Caches(N)
           Rec(f) == f = [i \in 0 .. Cardinality(DOMAIN kids) |->
                        IF i = 0 THEN kids ELSE CheckLinks(f[i - 1], i - 1)]
           step == [i \in 1 .. n |-> [x \in Q |-> IF Below(x, kids) THEN CheckLinks(x, i - 1) ELSE x]]
<1>1. DOMAIN kids = N /\ IsFiniteSet(N) /\ Cardinality(N) = n
  <2>1. IsFiniteSet(0 .. n - 1) /\ Cardinality(0 .. n - 1) = n
    <3>1. PICK m \in Int : m = n - 1
      OBVIOUS
    <3>2. IsFiniteSet(0 .. m) /\ Cardinality(0 .. m) = IF 0 > m THEN 0 ELSE m - 0 + 1
      BY FS_Interval
    <3> QED
      BY <3>1, <3>2
  <2> QED
    BY <2>1 DEF Caches, Numbers
<1>2. \A i \in 1 .. n : i - 1 \in N
  BY DEF Numbers
<1>3. ASSUME NEW i \in 1 .. n, NEW x \in Q, Below(x, kids)
      PROVE  Left(kids, x, CheckLinks(x, i - 1), i - 1, {i - 1})
  <2>1. DOMAIN x = N /\ kids \in Caches(N) /\ x \in Caches(N)
    BY DEF Caches
  <2> HIDE DEF N, Q
  <2>2. PICK c \in N : c = i - 1
    BY <1>2
  <2>3. Left(kids, x, CheckLinks(x, c), c, {c})
    BY <1>1, <1>3, <2>1, CheckLinksSound
  <2> QED
    BY <2>2, <2>3
<1>4. \A i \in 1 .. n, x \in Q : (IF Below(x, kids) THEN CheckLinks(x, i - 1) ELSE x) \in Q
  BY <1>1, <1>3 DEF Left
<1>5. kids \in Q /\ Below(kids, kids)
  BY <1>1, BelowFacts
<1> HIDE DEF Q, N
<1>6. step \in [1 .. n -> [Q -> Q]]
  BY <1>4
<1>7. PICK f \in [0 .. n -> Q] : Recurses(f, n, kids, step)
  <2> HIDE DEF step
  <2> QED
    BY <1>5, <1>6, RecursionExists
<1>8. \A i \in 1 .. n : f[i] = IF Below(f[i - 1], kids) THEN CheckLinks(f[i - 1], i - 1) ELSE f[i - 1]
  <2> SUFFICES ASSUME NEW i \in 1 .. n
               PROVE  f[i] = IF Below(f[i - 1], kids) THEN CheckLinks(f[i - 1], i - 1) ELSE f[i - 1]
    OBVIOUS
  <2>1. i - 1 \in 0 .. n /\ f[i - 1] \in Q
    OBVIOUS
  <2>2. step[i][f[i - 1]] = IF Below(f[i - 1], kids) THEN CheckLinks(f[i - 1], i - 1) ELSE f[i - 1]
    BY <2>1
  <2> QED
    BY <1>7, <2>2 DEF Recurses
<1> DEFINE Fine(x, i) ==
             /\ x \in Q /\ Below(x, kids) /\ Explained(kids, kids, x)
             /\ \A m \in N : m < i => m \in Safe(x, {})
<1>9. Fine(kids, 0)
  <2>1. \A m \in N : ~(m < 0)
    BY DEF N, Numbers
  <2> QED
    BY <1>5, <2>1, ExplainedFacts
<1>10. ASSUME NEW i \in 1 .. n, NEW x, Fine(x, i - 1)
       PROVE  Fine(CheckLinks(x, i - 1), i)
  <2>1. PICK y : y = CheckLinks(x, i - 1)
    OBVIOUS
  <2>2. Left(kids, x, y, i - 1, {i - 1})
    BY <1>3, <1>10, <2>1
  <2>3. DOMAIN x = N /\ y \in Q /\ DOMAIN y = N
    BY <1>1, <1>10, <2>2 DEF Left, Caches, Q
  <2>4. Below(y, kids) /\ Explained(kids, kids, y)
    BY <1>1, <1>10, <2>2, <2>3, BelowFacts, ExplainedFacts DEF Left
  <2>5. i - 1 \in Safe(y, {})
    <3>1. Succ(y, i - 1) \subseteq Safe(y, {} \cup {i - 1})
      <4>1. {} \cup {i - 1} = {i - 1}
        OBVIOUS
      <4> QED
        BY <2>2, <4>1 DEF Left
    <3>2. i - 1 \in DOMAIN y /\ i - 1 \notin {}
      BY <1>2, <2>3
    <3> QED
      BY <3>1, <3>2, SafeParent
  <2>6. \A m \in N : m < i - 1 => m \in Safe(y, {})
    BY <1>10, <2>2, <2>3, SafeBelow DEF Left
  <2>7. \A m \in N : m < i => m < i - 1 \/ m = i - 1
    BY DEF N, Numbers
  <2> QED
    BY <2>1, <2>3, <2>4, <2>5, <2>6, <2>7
<1>11. \A i \in 1 .. n : Below(f[i - 1], kids) => f[i] = CheckLinks(f[i - 1], i - 1)
  BY <1>8
<1> DEFINE T == {i \in 0 .. n : Fine(f[i], i)}
<1>12. 0 \in T
  BY <1>7, <1>9 DEF Recurses
<1>13. ASSUME NEW i \in 1 .. n, i - 1 \in T PROVE i \in T
  <2>1. Fine(f[i - 1], i - 1)
    BY <1>13
  <2>2. f[i] = CheckLinks(f[i - 1], i - 1)
    BY <1>11, <2>1
  <2>3. Fine(f[i], i)
    <3> HIDE DEF Fine
    <3> QED
      BY <1>10, <2>1, <2>2
  <2> QED
    BY <2>3
<1>14. 0 .. n \subseteq T
  <2> HIDE DEF T
  <2> QED
    BY <1>12, <1>13, BoundedInduction
<1>15. Rec(f)
  <2>1. \A i \in 1 .. n : Below(f[i - 1], kids)
    <3> SUFFICES ASSUME NEW i \in 1 .. n PROVE Below(f[i - 1], kids)
      OBVIOUS
    <3>1. i - 1 \in 0 .. n
      OBVIOUS
    <3> QED
      BY <1>14, <3>1
  <2>2. \A i \in 0 .. n : f[i] = IF i = 0 THEN kids ELSE CheckLinks(f[i - 1], i - 1)
    <3> SUFFICES ASSUME NEW i \in 0 .. n, i # 0 PROVE i \in 1 .. n
      BY <1>7, <1>11, <2>1, Zenon DEF Recurses
    <3> QED
      OBVIOUS
  <2>3. f = [i \in 0 .. n |-> f[i]]
    BY <1>7
  <2> QED
    BY <1>1, <2>2, <2>3, Zenon
<1>16. PICK h : Rec(h) /\ BreakCycles(kids) = h[Cardinality(DOMAIN kids)]
  BY <1>15, Zenon DEF BreakCycles
<1>17. h[0] = kids /\ \A i \in 1 .. n : h[i] = CheckLinks(h[i - 1], i - 1)
  <2>1. \A i \in 0 .. n : h[i] = IF i = 0 THEN kids ELSE CheckLinks(h[i - 1], i - 1)
    BY <1>1, <1>16, Zenon
  <2>2. 0 \in 0 .. n /\ \A i \in 1 .. n : i \in 0 .. n /\ i # 0
    OBVIOUS
  <2> QED
    BY <2>1, <2>2, Zenon
<1>18. BreakCycles(kids) = h[n]
  BY <1>1, <1>16
<1> HIDE DEF Rec
<1> DEFINE U == {i \in 0 .. n : Fine(h[i], i)}
<1>19. 0 \in U
  BY <1>9, <1>17
<1>20. ASSUME NEW i \in 1 .. n, i - 1 \in U PROVE i \in U
  <2>1. Fine(h[i - 1], i - 1)
    BY <1>20
  <2>2. Fine(h[i], i)
    <3> HIDE DEF Fine
    <3> QED
      BY <1>10, <1>17, <2>1
  <2> QED
    BY <2>2
<1>21. Fine(h[n], n)
  <2> HIDE DEF U
  <2>1. 0 .. n \subseteq U
    BY <1>19, <1>20, BoundedInduction
  <2>2. n \in U
    BY <2>1
  <2> QED
    BY <2>2, Zenon DEF U
<1>22. PICK y \in Q : y = BreakCycles(kids)
  BY <1>18, <1>21
<1>23. N \subseteq Safe(y, {})
  <2>1. \A m \in N : m < n
    BY DEF N, Numbers
  <2> QED
    BY <1>18, <1>21, <1>22, <2>1
<1>24. Safe(y, {}) \subseteq N /\ Acyclic(y, Safe(y, {}))
  <2>1. DOMAIN y = N
    BY DEF Q, Caches
  <2> QED
    BY <2>1, SafeIsSafe DEF IsSafe
<1>25. Acyclic(y, N)
  <2>1. Safe(y, {}) = N
    BY <1>23, <1>24
  <2> QED
    BY <1>24, <2>1, Zenon
<1> QED
  BY <1>18, <1>21, <1>22, <1>25 DEF N, Q

-----------------------------------------------------------------------------
(* The caches.                                                             *)

(* Some block of a finite set without cycles is linked to by none of them. *)
LEMMA SourceExists ==
  ASSUME NEW x, NEW R, IsFiniteSet(R), R # {}, Acyclic(x, R)
  PROVE  \E n \in R : \A p \in R : n \notin Succ(x, p)
<1> DEFINE Has(T) == \E n \in T : \A p \in T : n \notin Succ(x, p)
           U == {i \in Nat : \A T \in SUBSET R : Cardinality(T) = i /\ T # {} => Has(T)}
<1>1. 0 \in U
  <2>1. \A T \in SUBSET R : Cardinality(T) = 0 => T = {}
    BY FS_Subset, FS_EmptySet
  <2> QED
    BY <2>1
<1>2. ASSUME NEW i \in Nat, i \in U PROVE i + 1 \in U
  <2> SUFFICES ASSUME NEW T \in SUBSET R, Cardinality(T) = i + 1, T # {} PROVE Has(T)
    OBVIOUS
  <2>1. PICK s \in T : Succ(x, s) \cap T = {}
    BY DEF Acyclic
  <2>2. PICK V : V = T \ {s}
    OBVIOUS
  <2>3. CASE V = {}
    BY <2>1, <2>2, <2>3
  <2>4. CASE V # {}
    <3>1. IsFiniteSet(T)
      BY FS_Subset
    <3>2. Cardinality(V) = Cardinality(T) - 1
      BY <2>2, <3>1, FS_RemoveElement
    <3>3. Cardinality(T) - 1 = i
      OBVIOUS
    <3>4. V \in SUBSET R /\ Cardinality(V) = i
      BY <2>2, <3>2, <3>3, Zenon
    <3>5. Has(V)
      <4> HIDE DEF Has
      <4> QED
        BY <1>2, <2>4, <3>4
    <3> QED
      BY <2>1, <2>2, <3>5
  <2> QED
    BY <2>3, <2>4
<1>3. Nat \subseteq U
  <2> HIDE DEF U
  <2> QED
    BY <1>1, <1>2, SetInduction
<1>4. Cardinality(R) \in U
  BY <1>3, FS_CardinalityType
<1> QED
  BY <1>4

LEMMA LinkListProperties ==
  ASSUME NEW fields \in [Slot -> Int], NEW slots \in SUBSET Slot
  PROVE  /\ LinkList(fields, slots) \in Seq(Int)
         /\ ToSet(LinkList(fields, slots)) = {fields[s] : s \in slots} \cap Nat
<1>1. PICK n \in Nat : n = NumRefs + NumPtrs
  BY SlotAssumption
<1>2. Slot = 1 .. n
  BY <1>1 DEF Slot
<1> DEFINE values == [s \in Slot |-> IF s \in slots THEN fields[s] ELSE NoLink]
<1>3. values \in Seq(Int) /\ DOMAIN values = Slot
  <2>1. values \in [1 .. n -> Int]
    BY <1>2 DEF NoLink
  <2> QED
    BY <2>1, <1>2
<1>4. NoLink \notin Nat
  BY DEF NoLink
<1>5. ToSet(values) \cap Nat = {fields[s] : s \in slots} \cap Nat
  BY <1>3, <1>4 DEF ToSet
<1>6. LinkList(fields, slots) = Distinct(Sublist(values, Nat))
  BY DEF LinkList
<1> HIDE DEF values
<1>7. Sublist(values, Nat) \in Seq(Int) /\ ToSet(Sublist(values, Nat)) = ToSet(values) \cap Nat
  BY <1>3, SublistProperties
<1> QED
  BY <1>5, <1>6, <1>7, DistinctProperties

(* The blocks a block refers to by child links.                            *)
Refs(blocks, lk) ==
  [n \in Numbers(Len(blocks)) |->
     {m \in Numbers(Len(blocks)) : \E s \in RefSlot : lk[blocks[n + 1]][s] = m}]

(* The blocks and links of a document in which a texture set has no child  *)
(* links.                                                                  *)
IsDocument(blocks, ty, lk) ==
  /\ \A n \in Numbers(Len(blocks)) : lk[blocks[n + 1]] \in [Slot -> Int]
  /\ \A n \in Numbers(Len(blocks)), s \in RefSlot :
       ty[blocks[n + 1]] = TextureSet => lk[blocks[n + 1]][s] = NoLink

(* k are the child links without cycles, loose the texture sets that are   *)
(* no roots.                                                               *)
Derived(c, k, loose, blocks, ty, lk) ==
  LET N == Numbers(Len(blocks))
      refs == Refs(blocks, lk)
  IN /\ k \in Caches(N) /\ Acyclic(k, N) /\ \A n \in N : ToSet(k[n]) \subseteq Nat
     /\ \A n \in N : Succ(k, n) \subseteq refs[n]
     /\ \A n \in N : \A m \in refs[n] \ ToSet(k[n]) :
          \A T \in SUBSET N : m \in T /\ (\A p \in T : refs[p] \subseteq T) => n \in T
     /\ loose = {n \in N : (\A p \in N : n \notin Succ(k, p)) /\ BS151 /\ ty[blocks[n + 1]] = TextureSet}
     /\ \A n \in loose : Succ(k, n) = {} /\ refs[n] = {}
     /\ c.child \in Caches(N)
     /\ \A n \in N : ToSet(c.child[n]) = ToSet(k[n]) \cup
          (IF n + 1 \in loose /\ ty[blocks[n + 1]] = LightingShader THEN {n + 1} ELSE {})
     /\ c.parent \in Caches(N) /\ \A n \in N : ToSet(c.parent[n]) \subseteq Nat
     /\ ToSet(c.root) = {n \in N : \A p \in N : n \notin Succ(k, p)} \ loose

LEMMA LinkCachesDerived ==
  ASSUME NEW S, NEW blocks \in Seq(S), NEW ty, NEW lk, IsDocument(blocks, ty, lk)
  PROVE  \E k, loose : Derived(LinkCaches(blocks, ty, lk), k, loose, blocks, ty, lk)
<1>1. PICK len \in Nat : len = Len(blocks)
  OBVIOUS
<1> DEFINE N == Numbers(Len(blocks))
           g == [n \in N |-> LinkList(lk[blocks[n + 1]], RefSlot)]
           refs == Refs(blocks, lk)
           k == BreakCycles(g)
           referenced == UNION {ToSet(k[n]) : n \in N}
           loose == {n \in N \ referenced : BS151 /\ ty[blocks[n + 1]] = TextureSet}
           child == [n \in N |-> IF n + 1 \in loose /\ ty[blocks[n + 1]] = LightingShader
                                 THEN Append(k[n], n + 1)
                                 ELSE k[n]]
           rows == [i \in 1 .. Len(blocks) |-> i - 1]
           c == LinkCaches(blocks, ty, lk)
<1>2. RefSlot \in SUBSET Slot /\ PtrSlot \in SUBSET Slot
  BY SlotAssumption DEF RefSlot, PtrSlot, Slot
<1>3. \A n \in N : /\ LinkList(lk[blocks[n + 1]], RefSlot) \in Seq(Int)
                   /\ ToSet(LinkList(lk[blocks[n + 1]], RefSlot)) = {lk[blocks[n + 1]][s] : s \in RefSlot} \cap Nat
  BY <1>2, LinkListProperties DEF IsDocument
<1>4. g \in Caches(N) /\ \A n \in N : ToSet(g[n]) = {lk[blocks[n + 1]][s] : s \in RefSlot} \cap Nat
  BY <1>3 DEF Caches
<1>p. c.parent \in Caches(N) /\ \A n \in N : ToSet(c.parent[n]) \subseteq Nat
  <2>1. c.parent = [n \in N |-> LinkList(lk[blocks[n + 1]], PtrSlot)]
    BY DEF LinkCaches, CachesOf
  <2>2. \A n \in N : /\ LinkList(lk[blocks[n + 1]], PtrSlot) \in Seq(Int)
                     /\ ToSet(LinkList(lk[blocks[n + 1]], PtrSlot)) \subseteq Nat
    BY <1>2, LinkListProperties DEF IsDocument
  <2> QED
    BY <2>1, <2>2 DEF Caches
<1>5. N = 0 .. len - 1 /\ N \subseteq Nat
  BY <1>1 DEF Numbers
<1>6. refs = [n \in N |-> {m \in N : \E s \in RefSlot : lk[blocks[n + 1]][s] = m}]
  BY DEF Refs
<1>7. c.child = child /\ c.root = Sublist(rows, (N \ referenced) \ loose)
  BY DEF LinkCaches, CachesOf
<1>8. rows \in Seq(Int) /\ ToSet(rows) = N
  <2>1. rows \in Seq(Int) /\ DOMAIN rows = 1 .. len
    BY <1>1
  <2>2. \A n \in N : n + 1 \in 1 .. len /\ n = (n + 1) - 1
    BY <1>5
  <2>3. \A i \in 1 .. len : i - 1 \in N /\ rows[i] = i - 1
    BY <1>1, <1>5
  <2> QED
    BY <1>1, <2>1, <2>2, <2>3 DEF ToSet
<1>9. N = Numbers(len) /\ g \in Caches(Numbers(len))
  BY <1>1, <1>4
<1>10. /\ k \in Caches(N) /\ Below(k, g) /\ Explained(g, g, k) /\ Acyclic(k, N)
  <2> HIDE DEF g
  <2> QED
    BY <1>1, <1>9, BreakCyclesSound
<1> HIDE DEF N, g, k, refs, rows, c, referenced, loose
<1>11. \A n \in N : Succ(g, n) = refs[n]
  BY <1>4, <1>5, <1>6 DEF Succ, Caches
<1>12. DOMAIN g = N /\ DOMAIN k = N
  BY <1>4, <1>10 DEF Caches
<1>13. \A n \in N : Succ(k, n) \subseteq refs[n]
  BY <1>10, <1>11, <1>12, BelowFacts
<1>14. \A n \in N : \A m \in refs[n] \ ToSet(k[n]) :
          \A T \in SUBSET N : m \in T /\ (\A p \in T : refs[p] \subseteq T) => n \in T
  <2> SUFFICES ASSUME NEW n \in N, NEW m \in refs[n] \ ToSet(k[n]), NEW T \in SUBSET N,
                      m \in T, \A p \in T : refs[p] \subseteq T
               PROVE  n \in T
    OBVIOUS
  <2>1. m \in ToSet(g[n]) \ ToSet(k[n])
    BY <1>11 DEF Succ
  <2>2. Leads(g, m, n)
    BY <1>10, <1>12, <2>1 DEF Explained
  <2>3. Closed(g, T)
    BY <1>11 DEF Closed
  <2> QED
    BY <1>12, <2>2, <2>3 DEF Leads
<1>15. N \ referenced = {n \in N : \A p \in N : n \notin Succ(k, p)}
  BY <1>12 DEF referenced, Succ
<1>16. loose = {n \in N : (\A p \in N : n \notin Succ(k, p)) /\ BS151 /\ ty[blocks[n + 1]] = TextureSet}
  BY <1>15 DEF loose
<1>17. \A n \in loose : Succ(k, n) = {} /\ refs[n] = {}
  <2> SUFFICES ASSUME NEW n \in loose PROVE Succ(k, n) = {} /\ refs[n] = {}
    OBVIOUS
  <2>1. n \in N /\ ty[blocks[n + 1]] = TextureSet
    BY <1>16
  <2>2. \A s \in RefSlot : lk[blocks[n + 1]][s] = NoLink
    BY <2>1 DEF IsDocument, N
  <2>3. refs[n] = {}
    BY <1>5, <1>6, <2>1, <2>2 DEF NoLink
  <2> QED
    BY <1>13, <2>1, <2>3
<1>18. \A n \in N : k[n] \in Seq(Int)
  BY <1>10 DEF Caches
<1>19. /\ child \in [N -> Seq(Int)]
       /\ \A n \in N : ToSet(child[n]) = ToSet(k[n]) \cup
          (IF n + 1 \in loose /\ ty[blocks[n + 1]] = LightingShader THEN {n + 1} ELSE {})
  <2>1. \A n \in N : /\ Append(k[n], n + 1) \in Seq(Int)
                     /\ ToSet(Append(k[n], n + 1)) = ToSet(k[n]) \cup {n + 1}
    <3> SUFFICES ASSUME NEW n \in N
                 PROVE  /\ Append(k[n], n + 1) \in Seq(Int)
                        /\ ToSet(Append(k[n], n + 1)) = ToSet(k[n]) \cup {n + 1}
      OBVIOUS
    <3>1. n + 1 \in Int /\ k[n] \in Seq(Int)
      BY <1>5, <1>18
    <3> QED
      BY <3>1, AppendSet
  <2> QED
    BY <1>18, <2>1
<1> HIDE DEF child
<1>20. ToSet(c.root) = (N \ referenced) \ loose
  <2>1. ToSet(Sublist(rows, (N \ referenced) \ loose)) = ToSet(rows) \cap ((N \ referenced) \ loose)
    BY <1>8, SublistProperties
  <2> QED
    BY <1>7, <1>8, <2>1
<1>21. Derived(c, k, loose, blocks, ty, lk)
  <2>1. \A n \in N : ToSet(c.child[n]) = ToSet(k[n]) \cup
          (IF n + 1 \in loose /\ ty[blocks[n + 1]] = LightingShader THEN {n + 1} ELSE {})
    BY <1>7, <1>19
  <2>2. c.child \in Caches(N)
    BY <1>7, <1>19 DEF Caches
  <2>3. ToSet(c.root) = {n \in N : \A p \in N : n \notin Succ(k, p)} \ loose
    BY <1>15, <1>20
  <2>4. \A n \in N : ToSet(k[n]) \subseteq Nat
    BY <1>4, <1>10, <1>12 DEF Below
  <2> QED
    BY <1>p, <1>10, <1>13, <1>14, <1>16, <1>17, <2>1, <2>2, <2>3, <2>4, Zenon DEF Derived, N, refs
<1> QED
  BY <1>21, Zenon DEF c

(* The child links of the caches form no cycle.                            *)
LEMMA DerivedAcyclic ==
  ASSUME NEW S, NEW blocks \in Seq(S), NEW ty, NEW lk, NEW c, NEW k, NEW loose,
         Derived(c, k, loose, blocks, ty, lk)
  PROVE  Acyclic(c.child, Numbers(Len(blocks)))
<1> DEFINE N == Numbers(Len(blocks))
<1>1. /\ k \in Caches(N) /\ Acyclic(k, N)
      /\ loose = {n \in N : (\A p \in N : n \notin Succ(k, p)) /\ BS151 /\ ty[blocks[n + 1]] = TextureSet}
      /\ \A n \in loose : Succ(k, n) = {}
      /\ c.child \in Caches(N)
      /\ \A n \in N : ToSet(c.child[n]) = ToSet(k[n]) \cup
           (IF n + 1 \in loose /\ ty[blocks[n + 1]] = LightingShader THEN {n + 1} ELSE {})
  BY DEF Derived
<1> HIDE DEF N
<1>2. DOMAIN k = N /\ DOMAIN c.child = N
  BY <1>1 DEF Caches
<1>3. \A n \in N : Succ(c.child, n) \subseteq Succ(k, n) \cup loose
  BY <1>1, <1>2 DEF Succ
<1>4. \A n \in loose : Succ(c.child, n) = {}
  <2>1. \A n \in loose : ty[blocks[n + 1]] # LightingShader /\ n \in N
    BY <1>1 DEF TextureSet, LightingShader
  <2> QED
    BY <1>1, <1>2, <2>1 DEF Succ
<1>5. ASSUME NEW T \in SUBSET N, T # {} PROVE \E n \in T : Succ(c.child, n) \cap T = {}
  <2>1. CASE T \cap loose = {}
    <3>1. PICK n \in T : Succ(k, n) \cap T = {}
      BY <1>1, <1>5 DEF Acyclic
    <3> QED
      BY <1>3, <2>1, <3>1
  <2>2. CASE T \cap loose # {}
    BY <1>4, <2>2
  <2> QED
    BY <2>1, <2>2
<1> QED
  BY <1>5 DEF Acyclic, N

(* Whoever follows the links from the roots comes to every block that is   *)
(* not a loose texture set.                                                *)
LEMMA DerivedCovers ==
  ASSUME NEW S, NEW blocks \in Seq(S), NEW ty, NEW lk, NEW c, NEW k, NEW loose,
         Derived(c, k, loose, blocks, ty, lk),
         NEW C, ToSet(c.root) \subseteq C, \A n \in C \cap Numbers(Len(blocks)) : Succ(k, n) \subseteq C
  PROVE  Numbers(Len(blocks)) \ C \subseteq loose
<1> DEFINE N == Numbers(Len(blocks))
           R == N \ (C \cup loose)
<1>1. /\ k \in Caches(N) /\ Acyclic(k, N)
      /\ \A n \in loose : Succ(k, n) = {}
      /\ ToSet(c.root) = {n \in N : \A p \in N : n \notin Succ(k, p)} \ loose
  BY DEF Derived
<1> SUFFICES ASSUME R # {} PROVE FALSE
  OBVIOUS
<1>2. IsFiniteSet(R)
  <2>1. PICK len \in Nat : len = Len(blocks)
    OBVIOUS
  <2>2. PICK m \in Int : m = len - 1
    OBVIOUS
  <2>3. IsFiniteSet(0 .. m)
    BY FS_Interval
  <2>4. N = 0 .. m
    BY <2>1, <2>2 DEF Numbers
  <2> HIDE DEF N
  <2>5. R \subseteq 0 .. m
    BY <2>4
  <2> HIDE DEF R
  <2> QED
    BY <2>3, <2>5, FS_Subset
<1>3. Acyclic(k, R)
  <2>1. R \subseteq N
    OBVIOUS
  <2> QED
    BY <1>1, <2>1 DEF Acyclic
<1>4. PICK n \in R : \A p \in R : n \notin Succ(k, p)
  <2> HIDE DEF R
  <2> QED
    BY <1>2, <1>3, SourceExists
<1>5. PICK p \in N : n \in Succ(k, p)
  BY <1>1, <1>4
<1>6. p \notin C /\ p \notin loose
  BY <1>1, <1>4, <1>5
<1> QED
  BY <1>4, <1>5, <1>6

-----------------------------------------------------------------------------
(* Reachability.                                                           *)

LEMMA ReachProperties ==
  ASSUME NEW next, NEW from \in SUBSET DOMAIN next, \A n \in DOMAIN next : next[n] \subseteq DOMAIN next
  PROVE  /\ from \subseteq Reach(from, next) /\ Reach(from, next) \subseteq DOMAIN next
         /\ \A n \in Reach(from, next) : next[n] \subseteq Reach(from, next)
         /\ \A T \in SUBSET DOMAIN next :
              from \subseteq T /\ (\A n \in T : next[n] \subseteq T) => Reach(from, next) \subseteq T
<1> DEFINE Shut(T) == from \subseteq T /\ \A n \in T : next[n] \subseteq T
           least == {n \in DOMAIN next : \A T \in SUBSET DOMAIN next : Shut(T) => n \in T}
<1>1. least \in SUBSET DOMAIN next /\ Shut(least)
  OBVIOUS
<1>2. \A T \in SUBSET least : Shut(T) => T = least
  OBVIOUS
<1>3. PICK R \in SUBSET DOMAIN next :
        /\ R = Reach(from, next) /\ Shut(R) /\ \A T \in SUBSET R : Shut(T) => T = R
  <2> HIDE DEF least
  <2> QED
    BY <1>1, <1>2 DEF Reach
<1>4. ASSUME NEW T \in SUBSET DOMAIN next, Shut(T) PROVE R \subseteq T
  <2>1. Shut(T \cap R)
    BY <1>3, <1>4
  <2>2. T \cap R = R
    <3> HIDE DEF Shut
    <3> QED
      BY <1>3, <2>1
  <2> QED
    BY <2>2
<1> QED
  BY <1>3, <1>4

-----------------------------------------------------------------------------
(* Rewritten links are links, and an empty link stays empty.               *)

LEMMA AdjustLinkType ==
  ASSUME NEW l \in Int, NEW at \in Nat
  PROVE  /\ AdjustLink(l, at, 1) \in Int
         /\ AdjustLink(NoLink, at, 1) = NoLink
BY DEF AdjustLink, NoLink

LEMMA DropLinkType ==
  ASSUME NEW l \in Int, NEW n \in Nat
  PROVE  /\ DropLink(l, n) \in Int
         /\ DropLink(NoLink, n) = NoLink
BY DEF DropLink, AdjustLink, NoLink

LEMMA MapLinkType ==
  ASSUME NEW l \in Int, NEW map, \A k \in DOMAIN map : map[k] \in Int
  PROVE  /\ MapLink(l, map) \in Int
         /\ MapLink(NoLink, map) = NoLink
BY DEF MapLink, NoLink

LEMMA MoveMapType ==
  ASSUME NEW src \in Int, NEW dst \in Int
  PROVE  \A k \in DOMAIN MoveMap(src, dst) : MoveMap(src, dst)[k] \in Int
BY DEF MoveMap

(* The values a document's links can have; what is not a link is empty.    *)
LinksOK(blocks, ty, lk) ==
  /\ lk \in [Block -> [Slot -> Int]]
  /\ \A b \in Block, s \in Slot :
       (b \notin ToSet(blocks) \/ s \notin Fields[ty[b]]) => lk[b][s] = NoLink

(* Links rewritten one by one, in a list that holds the same blocks and    *)
(* perhaps one more.                                                       *)
LEMMA RewrittenLinks ==
  ASSUME NEW blocks, NEW ty, NEW lk, LinksOK(blocks, ty, lk),
         NEW f(_), \A l \in Int : f(l) \in Int, f(NoLink) = NoLink,
         NEW after, ToSet(blocks) \subseteq ToSet(after)
  PROVE  LinksOK(after, ty, [b \in Block |-> [s \in Slot |-> f(lk[b][s])]])
<1> DEFINE new == [b \in Block |-> [s \in Slot |-> f(lk[b][s])]]
<1>1. new \in [Block -> [Slot -> Int]]
  BY DEF LinksOK
<1>2. ASSUME NEW b \in Block, NEW s \in Slot,
             b \notin ToSet(after) \/ s \notin Fields[ty[b]]
      PROVE  new[b][s] = NoLink
  <2>1. lk[b][s] = NoLink
    BY <1>2 DEF LinksOK
  <2>2. QED BY <2>1
<1>3. QED BY <1>1, <1>2 DEF LinksOK

LEMMA UpdateLock ==
  ASSUME NEW what \in SUBSET AllUpdates, NEW f, LockOK, Called, Update(what, f)
  PROVE  LockOK'
<1>1. /\ held' \in Nat /\ (held' > 0 => held > 0)
      /\ written' = FALSE
  BY DEF LockOK, Called
<1>2. /\ lockUpdates' = lockUpdates
      /\ needUpdates' = IF lockUpdates THEN needUpdates \cup what ELSE needUpdates
  BY DEF Update, lock
<1>3. needUpdates' \subseteq AllUpdates
  BY <1>2 DEF LockOK
<1>4. (held' > 0 => lockUpdates') /\ (needUpdates' # {} => lockUpdates') /\ lockUpdates' \in BOOLEAN
  BY <1>1, <1>2 DEF LockOK
<1>5. QED BY <1>1, <1>3, <1>4 DEF LockOK

LEMMA UpdateCaches ==
  ASSUME NEW what, NEW f, CachesCurrent, Update(what, f),
         \/ "links" \in what /\ known' = link'
         \/ "links" \notin what /\ UNCHANGED <<document, known>>
  PROVE  CachesCurrent'
<1>1. CASE lockUpdates
  <2>1. needUpdates' = needUpdates \cup what /\ UNCHANGED caches
    BY <1>1 DEF Update
  <2>2. CASE "links" \in what
    BY <2>1, <2>2 DEF CachesCurrent
  <2>3. CASE UNCHANGED <<document, known>>
    BY <2>1, <2>3 DEF CachesCurrent, document, caches
  <2>4. QED BY <2>2, <2>3
<1>2. CASE ~lockUpdates
  <2>1. Refresh(what, f) /\ needUpdates' = needUpdates
    BY <1>2 DEF Update, lock
  <2>2. CASE "links" \in what /\ known' = link'
    <3>1. PICK c : /\ c = LinkCaches(order', type', known')
                   /\ childLinks' = c.child /\ parentLinks' = c.parent /\ rootLinks' = c.root
      BY <2>1, <2>2 DEF Refresh
    <3>2. QED BY <3>1 DEF CachesCurrent
  <2>3. CASE "links" \notin what /\ UNCHANGED <<document, known>>
    <3>1. UNCHANGED document /\ UNCHANGED caches
      BY <2>1, <2>3 DEF Refresh
    <3>2. QED BY <2>1, <2>3, <3>1 DEF CachesCurrent, document, caches
  <2>4. QED BY <2>2, <2>3
<1>3. QED BY <1>1, <1>2

-----------------------------------------------------------------------------
(* The documents each handler makes.                                       *)

LEMMA DocumentParts ==
  DocumentOK <=> /\ order \in Seq(Block) /\ IsInjective(order)
                 /\ type \in [Block -> Type]
                 /\ LinksOK(order, type, link)
BY DEF DocumentOK, LinksOK

LEMMA InsertKeepsDocument ==
  ASSUME DocumentOK, NEW b \in Block, NEW at \in Int, InsertNiBlock(b, at)
  PROVE  DocumentOK'
<1> DEFINE inside == at \in 0 .. Count
           shift(l) == IF inside THEN AdjustLink(l, at, 1) ELSE l
           pos == IF inside THEN at ELSE Count
           moved == [x \in Block |-> [s \in Slot |-> shift(link[x][s])]]
<1>1. /\ b \notin ToSet(order) /\ order' = Inserted(order, pos, b)
      /\ link' = [moved EXCEPT ![b] = NoFields] /\ type' = type
  BY DEF InsertNiBlock, LinksBy
<1>2. order \in Seq(Block) /\ IsInjective(order) /\ pos \in 0 .. Len(order)
  BY DEF DocumentOK, Count
<1>3. /\ order' \in Seq(Block) /\ IsInjective(order')
      /\ ToSet(order) \cup {b} \subseteq ToSet(order')
  BY <1>1, <1>2, InsertedBlocks
<1>4. \A l \in Int : shift(l) \in Int
  BY AdjustLinkType
<1>5. shift(NoLink) = NoLink
  BY AdjustLinkType DEF NoLink
<1>6. LinksOK(order', type, moved)
  <2> HIDE DEF shift
  <2>1. QED BY <1>3, <1>4, <1>5, RewrittenLinks DEF DocumentOK, LinksOK
<1> HIDE DEF moved
<1>7. LinksOK(order', type', link')
  BY <1>1, <1>6 DEF LinksOK, NoFields, NoLink
<1>8. QED BY <1>1, <1>3, <1>7 DEF DocumentOK, LinksOK

LEMMA RemoveKeepsDocument ==
  ASSUME DocumentOK, NEW n \in Numbers(Count), RemoveNiBlock(n)
  PROVE  DocumentOK'
<1> DEFINE drop(l) == DropLink(l, n)
           moved == [x \in Block |-> [s \in Slot |-> drop(link[x][s])]]
           gone == order[n + 1]
<1>1. /\ order' = Removed(order, n)
      /\ link' = [moved EXCEPT ![gone] = NoFields] /\ type' = type
  BY DEF RemoveNiBlock, LinksBy
<1>2. order \in Seq(Block) /\ IsInjective(order) /\ n \in Numbers(Len(order)) /\ n \in Nat
  BY DEF DocumentOK, Count, Numbers
<1>3. /\ order' \in Seq(Block) /\ IsInjective(order')
      /\ ToSet(order) \subseteq ToSet(order') \cup {gone}
  BY <1>1, <1>2, RemovedBlocks
<1>4. \A l \in Int : drop(l) \in Int
  BY <1>2, DropLinkType
<1>5. drop(NoLink) = NoLink
  BY <1>2, DropLinkType DEF NoLink
<1>6. LinksOK(order, type, moved)
  <2> HIDE DEF drop
  <2>1. QED BY <1>4, <1>5, RewrittenLinks DEF DocumentOK, LinksOK
<1> HIDE DEF moved, gone
<1>7. LinksOK(order', type', link')
  <2>1. moved \in [Block -> [Slot -> Int]] /\ NoFields \in [Slot -> Int]
    BY <1>6 DEF LinksOK, NoFields, NoLink
  <2>2. link' \in [Block -> [Slot -> Int]]
    BY <1>1, <2>1
  <2>3. \A x \in Block : link'[x] = IF x = gone THEN NoFields ELSE moved[x]
    BY <1>1, <2>1
  <2>4. \A x \in Block \ {gone} : x \notin ToSet(order') => x \notin ToSet(order)
    BY <1>3
  <2>5. ASSUME NEW x \in Block, NEW s \in Slot, x \notin ToSet(order') \/ s \notin Fields[type[x]]
        PROVE  link'[x][s] = NoLink
    BY <1>6, <2>3, <2>4, <2>5 DEF LinksOK, NoFields
  <2>6. QED BY <1>1, <2>2, <2>5 DEF LinksOK
<1>8. QED BY <1>1, <1>3, <1>7 DEF DocumentOK, LinksOK

(* A map of block numbers applied to every link, of a list that holds the  *)
(* same blocks.                                                            *)
LEMMA MappingKeepsDocument ==
  ASSUME DocumentOK, NEW map, \A k \in DOMAIN map : map[k] \in Int,
         order' \in Seq(Block), IsInjective(order'), ToSet(order') = ToSet(order),
         type' = type,
         link' = [b \in Block |-> [s \in Slot |-> MapLink(link[b][s], map)]]
  PROVE  DocumentOK'
<1>1. \A l \in Int : MapLink(l, map) \in Int
  BY MapLinkType
<1>2. MapLink(NoLink, map) = NoLink
  BY MapLinkType DEF NoLink
<1>3. LinksOK(order', type, link')
  BY <1>1, <1>2, RewrittenLinks DEF DocumentOK, LinksOK
<1>4. QED BY <1>3 DEF DocumentOK, LinksOK

(* The new order is the old one renumbered by the map of the links.        *)
LEMMA MoveCarries ==
  ASSUME DocumentOK, NEW src \in Numbers(Count), NEW dst \in Numbers(Count),
         MoveNiBlock(src, dst)
  PROVE  /\ order' \in Seq(Block) /\ CarriesOver(order, order', MoveMap(src, dst))
         /\ ToSet(order') = ToSet(order) /\ IsInjective(order')
<1>1. order' = Moved(order, src, dst) /\ order \in Seq(Block) /\ IsInjective(order)
  BY DEF MoveNiBlock, DocumentOK
<1>2. src \in Numbers(Len(order)) /\ dst \in Numbers(Len(order))
  BY DEF Count
<1>3. order' \in Seq(Block) /\ CarriesOver(order, order', MoveMap(src, dst))
  BY <1>1, <1>2, MovedProperties
<1>4. QED BY <1>1, <1>3, RenumberedBlocks

LEMMA ReorderCarries ==
  ASSUME DocumentOK, NEW newNumber, ReorderBlocks(newNumber)
  PROVE  /\ order' \in Seq(Block) /\ CarriesOver(order, order', newNumber)
         /\ ToSet(order') = ToSet(order) /\ IsInjective(order')
<1>1. /\ order' = Reordered(order, newNumber) /\ order \in Seq(Block) /\ IsInjective(order)
      /\ IsRenumbering(newNumber, Len(order))
  BY DEF ReorderBlocks, DocumentOK, Count
<1>2. order' \in Seq(Block) /\ CarriesOver(order, order', newNumber)
  BY <1>1, ReorderedProperties
<1>3. QED BY <1>1, <1>2, RenumberedBlocks

LEMMA MoveKeepsDocument ==
  ASSUME DocumentOK, NEW src \in Numbers(Count), NEW dst \in Numbers(Count),
         MoveNiBlock(src, dst)
  PROVE  DocumentOK'
<1>1. \A k \in DOMAIN MoveMap(src, dst) : MoveMap(src, dst)[k] \in Int
  BY MoveMapType DEF Numbers
<1>2. /\ link' = [b \in Block |-> [s \in Slot |-> MapLink(link[b][s], MoveMap(src, dst))]]
      /\ type' = type
  BY DEF MoveNiBlock, LinksBy
<1>3. QED BY <1>1, <1>2, MoveCarries, MappingKeepsDocument

LEMMA ReorderKeepsDocument ==
  ASSUME DocumentOK, NEW newNumber, ReorderBlocks(newNumber)
  PROVE  DocumentOK'
<1>1. \A k \in DOMAIN newNumber : newNumber[k] \in Int
  BY DEF ReorderBlocks, IsRenumbering, Numbers
<1>2. /\ link' = [b \in Block |-> [s \in Slot |-> MapLink(link[b][s], newNumber)]]
      /\ type' = type
  BY DEF ReorderBlocks, LinksBy
<1>3. QED BY <1>1, <1>2, ReorderCarries, MappingKeepsDocument

LEMMA MapsAreTyped ==
  ASSUME NEW map \in Maps
  PROVE  /\ DOMAIN map \subseteq Numbers(Count)
         /\ \A k \in DOMAIN map : map[k] \in Numbers(Count)
BY DEF Maps

LEMMA MapAllKeepsDocument ==
  ASSUME DocumentOK, NEW map \in Maps, MapAllLinks(map)
  PROVE  DocumentOK'
<1>1. \A k \in DOMAIN map : map[k] \in Int
  BY MapsAreTyped DEF Numbers
<1>2. /\ link' = [b \in Block |-> [s \in Slot |-> MapLink(link[b][s], map)]]
      /\ type' = type /\ order' = order
  BY DEF MapAllLinks, LinksBy
<1>3. QED BY <1>1, <1>2, MappingKeepsDocument DEF DocumentOK

(* The fields of one block of the list are given values its type allows.   *)
LEMMA EditKeepsDocument ==
  ASSUME DocumentOK, NEW n \in Numbers(Count),
         order' = order, type' \in [Block -> Type],
         \A x \in Block : x # order[n + 1] => type'[x] = type[x],
         NEW values \in [Slot -> Int], link' = [link EXCEPT ![order[n + 1]] = values],
         \A s \in Slot : s \notin Fields[type'[order[n + 1]]] => values[s] = NoLink
  PROVE  DocumentOK'
<1>1. order[n + 1] \in ToSet(order) /\ order[n + 1] \in Block
  BY SequenceFacts DEF DocumentOK, Numbers, Count
<1>2. link' \in [Block -> [Slot -> Int]]
  BY DEF DocumentOK
<1>3. ASSUME NEW b \in Block, NEW s \in Slot,
             b \notin ToSet(order') \/ s \notin Fields[type'[b]]
      PROVE  link'[b][s] = NoLink
  <2>1. CASE b = order[n + 1]
    BY <1>1, <1>3, <2>1 DEF DocumentOK
  <2>2. CASE b # order[n + 1]
    BY <1>3, <2>2 DEF DocumentOK
  <2>3. QED BY <2>1, <2>2
<1>4. QED BY <1>2, <1>3 DEF DocumentOK

LEMMA FieldsOfBlock ==
  ASSUME DocumentOK, NEW n \in Numbers(Count)
  PROVE  /\ order[n + 1] \in Block /\ order[n + 1] \in ToSet(order)
         /\ type[order[n + 1]] \in Type
         /\ link[order[n + 1]] \in [Slot -> Int]
         /\ \A s \in Slot : s \notin Fields[type[order[n + 1]]] => link[order[n + 1]][s] = NoLink
<1>1. order[n + 1] \in Block /\ order[n + 1] \in ToSet(order)
  BY SequenceFacts DEF DocumentOK, Numbers, Count
<1>2. QED BY <1>1 DEF DocumentOK

LEMMA SetLinkKeepsDocument ==
  ASSUME DocumentOK, NEW n \in Numbers(Count), NEW s \in Slot, NEW l \in LinkInputs,
         SetLink(n, s, l)
  PROVE  DocumentOK'
<1> DEFINE b == order[n + 1]
           values == [link[b] EXCEPT ![s] = l]
<1>1. /\ order' = order /\ type' = type /\ s \in Fields[type[b]]
      /\ link' = [link EXCEPT ![b] = values]
  BY DEF SetLink
<1>2. l \in Int
  BY InputAssumption
<1>3. values \in [Slot -> Int]
  BY <1>2, FieldsOfBlock
<1>4. \A x \in Slot : x \notin Fields[type[b]] => values[x] = NoLink
  BY <1>1, FieldsOfBlock
<1>5. type' \in [Block -> Type]
  BY <1>1 DEF DocumentOK
<1> HIDE DEF values
<1>6. QED BY <1>1, <1>3, <1>4, <1>5, EditKeepsDocument

LEMMA LoadKeepsDocument ==
  ASSUME DocumentOK, NEW n \in Numbers(Count), NEW values \in [Slot -> Int],
         LoadIndex(n, values)
  PROVE  DocumentOK'
<1>1. /\ order' = order /\ type' = type /\ link' = [link EXCEPT ![order[n + 1]] = values]
      /\ \A s \in Slot : s \notin Fields[type[order[n + 1]]] => values[s] = NoLink
  BY DEF LoadIndex, HasOnly
<1>2. type' \in [Block -> Type]
  BY <1>1 DEF DocumentOK
<1>3. QED BY <1>1, <1>2, EditKeepsDocument

LEMMA SilentKeepsDocument ==
  ASSUME DocumentOK, NEW n \in Numbers(Count), NEW values \in [Slot -> LinkInputs],
         SetLinksSilently(n, values)
  PROVE  DocumentOK'
<1>1. /\ order' = order /\ type' = type /\ link' = [link EXCEPT ![order[n + 1]] = values]
      /\ \A s \in Slot : s \notin Fields[type[order[n + 1]]] => values[s] = NoLink
  BY DEF SetLinksSilently, HasOnly
<1>2. type' \in [Block -> Type] /\ values \in [Slot -> Int]
  BY <1>1, InputAssumption DEF DocumentOK
<1>3. QED BY <1>1, <1>2, EditKeepsDocument

LEMMA DropKeepsDocument ==
  ASSUME DocumentOK, NEW n \in Numbers(Count), NEW gone \in SUBSET Slot,
         DropFields(n, gone)
  PROVE  DocumentOK'
<1> DEFINE b == order[n + 1]
           values == [s \in Slot |-> IF s \in gone THEN NoLink ELSE link[b][s]]
<1>1. /\ order' = order /\ type' = type
      /\ link' = [link EXCEPT ![b] = values]
  BY DEF DropFields
<1>2. values \in [Slot -> Int]
  BY FieldsOfBlock DEF NoLink
<1>3. \A x \in Slot : x \notin Fields[type[b]] => values[x] = NoLink
  BY FieldsOfBlock
<1>4. type' \in [Block -> Type]
  BY <1>1 DEF DocumentOK
<1> HIDE DEF values
<1>5. QED BY <1>1, <1>2, <1>3, <1>4, EditKeepsDocument

LEMMA ConvertKeepsDocument ==
  ASSUME DocumentOK, NEW n \in Numbers(Count), NEW t \in Type, ConvertNiBlock(n, t)
  PROVE  DocumentOK'
<1> DEFINE b == order[n + 1]
           values == [s \in Slot |-> IF s \in Fields[t] THEN link[b][s] ELSE NoLink]
<1>1. /\ order' = order /\ type' = [type EXCEPT ![b] = t]
      /\ link' = [link EXCEPT ![b] = values]
  BY DEF ConvertNiBlock
<1>2. values \in [Slot -> Int]
  BY FieldsOfBlock DEF NoLink
<1>3. /\ type' \in [Block -> Type] /\ type'[b] = t
      /\ \A x \in Block : x # b => type'[x] = type[x]
  BY <1>1, FieldsOfBlock DEF DocumentOK
<1>4. \A x \in Slot : x \notin Fields[type'[b]] => values[x] = NoLink
  BY <1>3
<1> HIDE DEF values
<1>5. QED BY <1>1, <1>2, <1>3, <1>4, EditKeepsDocument

-----------------------------------------------------------------------------
(* The invariant: documents and lock are well formed, and the caches are   *)
(* those of the known links unless a link update waits for the lock.       *)
(* Neither part is inductive alone with respect to EndHold, which releases *)
(* the lock and the updates that waited for it together.                   *)
IInv == DocumentOK /\ KnownOK /\ LockOK /\ CachesCurrent

LEMMA InitInvariant == Init => IInv
<1> SUFFICES ASSUME Init PROVE IInv
  OBVIOUS
<1>1. order \in Seq(Block)
  BY DEF Init, Lists
<1>2. link \in [Block -> [Slot -> Int]]
  BY InputAssumption DEF Init
<1>3. ASSUME NEW b \in Block, NEW s \in Slot, b \notin ToSet(order) \/ s \notin Fields[type[b]]
      PROVE  link[b][s] = NoLink
  BY <1>3 DEF Init, HasOnly, NoFields
<1>4. DocumentOK
  BY <1>1, <1>2, <1>3 DEF DocumentOK, Init
<1>5. LockOK
  <2>1. held = 0 /\ needUpdates = {} /\ lockUpdates = FALSE /\ written = FALSE
    BY DEF Init
  <2>2. held \in Nat /\ ~(held > 0) /\ needUpdates \subseteq AllUpdates
    BY <2>1
  <2>3. lockUpdates \in BOOLEAN /\ written \in BOOLEAN
    BY <2>1
  <2>4. QED BY <2>1, <2>2, <2>3 DEF LockOK
<1>6. CachesCurrent
  BY DEF CachesCurrent, Init
<1>7. KnownOK
  BY <1>2, <1>3 DEF KnownOK, Init
<1>8. QED BY <1>4, <1>5, <1>6, <1>7 DEF IInv

(* Known links where nothing has changed them, and those of a new document.*)
LEMMA SameKnown ==
  ASSUME KnownOK, UNCHANGED <<order, type, known>>
  PROVE  KnownOK'
BY DEF KnownOK

LEMMA NewKnown ==
  ASSUME DocumentOK', known' = link'
  PROVE  KnownOK'
BY DEF KnownOK, DocumentOK

(* What every handler that ends in a link update does to the invariant,    *)
(* once its document is known to be well formed.                           *)
LEMMA HandlerInvariant ==
  ASSUME IInv, DocumentOK', Called, NEW f,
         UpdateKnown(AllUpdates, f) \/ UpdateKnown(LinkUpdates, f)
  PROVE  IInv'
<1>1. LinkUpdates \in SUBSET AllUpdates /\ AllUpdates \in SUBSET AllUpdates
  BY DEF LinkUpdates, AllUpdates
<1>2. known' = link' /\ (Update(AllUpdates, f) \/ Update(LinkUpdates, f))
  BY DEF UpdateKnown
<1>3. LockOK'
  BY <1>1, <1>2, UpdateLock DEF IInv
<1>4. "links" \in LinkUpdates /\ "links" \in AllUpdates
  BY DEF LinkUpdates, AllUpdates
<1>5. CachesCurrent'
  BY <1>2, <1>4, UpdateCaches DEF IInv
<1>6. KnownOK'
  BY <1>2, NewKnown
<1>7. QED BY <1>3, <1>5, <1>6 DEF IInv

LEMMA StepInvariant == IInv /\ [Next]_vars => IInv'
<1> SUFFICES ASSUME IInv, [Next]_vars PROVE IInv'
  OBVIOUS
<1> USE DEF IInv
<1>1. ASSUME NEW b \in Block, NEW at \in -1 .. Count, InsertNiBlock(b, at)
      PROVE  IInv'
  <2>1. DocumentOK'
    BY <1>1, InsertKeepsDocument
  <2>2. Called /\ \E f : UpdateKnown(AllUpdates, f)
    BY <1>1 DEF InsertNiBlock
  <2>3. QED BY <2>1, <2>2, HandlerInvariant
<1>2. ASSUME NEW n \in Numbers(Count), RemoveNiBlock(n)
      PROVE  IInv'
  <2>1. DocumentOK'
    BY <1>2, RemoveKeepsDocument
  <2>2. Called /\ \E f : UpdateKnown(LinkUpdates, f)
    BY <1>2 DEF RemoveNiBlock
  <2>3. QED BY <2>1, <2>2, HandlerInvariant
<1>3. ASSUME NEW src \in Numbers(Count), NEW dst \in Numbers(Count), MoveNiBlock(src, dst)
      PROVE  IInv'
  <2>1. DocumentOK'
    BY <1>3, MoveKeepsDocument
  <2>2. Called /\ \E f : UpdateKnown(AllUpdates, f)
    BY <1>3 DEF MoveNiBlock
  <2>3. QED BY <2>1, <2>2, HandlerInvariant
<1>4. ASSUME NEW newNumber \in Renumberings, ReorderBlocks(newNumber)
      PROVE  IInv'
  <2>1. DocumentOK'
    BY <1>4, ReorderKeepsDocument
  <2>2. Called /\ \E f : UpdateKnown(AllUpdates, f)
    BY <1>4 DEF ReorderBlocks
  <2>3. QED BY <2>1, <2>2, HandlerInvariant
<1>5. ASSUME NEW map \in Maps, MapAllLinks(map)
      PROVE  IInv'
  <2>1. DocumentOK'
    BY <1>5, MapAllKeepsDocument
  <2>2. Called /\ \E f : UpdateKnown(AllUpdates, f)
    BY <1>5 DEF MapAllLinks
  <2>3. QED BY <2>1, <2>2, HandlerInvariant
<1>6. ASSUME NEW n \in Numbers(Count), NEW s \in Slot, NEW l \in LinkInputs, SetLink(n, s, l)
      PROVE  IInv'
  <2>1. DocumentOK'
    BY <1>6, SetLinkKeepsDocument
  <2>2. Called /\ \E f : UpdateKnown(LinkUpdates, f)
    BY <1>6 DEF SetLink
  <2>3. QED BY <2>1, <2>2, HandlerInvariant
<1>7. ASSUME NEW n \in Numbers(Count), NEW values \in [Slot -> Int], LoadIndex(n, values)
      PROVE  IInv'
  <2>1. DocumentOK'
    BY <1>7, LoadKeepsDocument
  <2>2. Called /\ \E f : UpdateKnown(LinkUpdates, f)
    BY <1>7 DEF LoadIndex
  <2>3. QED BY <2>1, <2>2, HandlerInvariant
<1>8. ASSUME NEW n \in Numbers(Count), NEW gone \in SUBSET Slot, DropFields(n, gone)
      PROVE  IInv'
  <2>1. DocumentOK'
    BY <1>8, DropKeepsDocument
  <2>2. Called /\ \E f : UpdateKnown(LinkUpdates, f)
    BY <1>8 DEF DropFields
  <2>3. QED BY <2>1, <2>2, HandlerInvariant
<1>9. ASSUME NEW n \in Numbers(Count), NEW t \in Type, ConvertNiBlock(n, t)
      PROVE  IInv'
  <2>1. DocumentOK'
    BY <1>9, ConvertKeepsDocument
  <2>2. Called /\ \E f : UpdateKnown(AllUpdates, f)
    BY <1>9 DEF ConvertNiBlock
  <2>3. QED BY <2>1, <2>2, HandlerInvariant
<1>10. ASSUME NEW i, NEW l, SetFooterLink(i, l)
       PROVE  IInv'
  <2>1. UNCHANGED <<document, caches, lock, known>> /\ Called
    BY <1>10 DEF SetFooterLink
  <2>2. DocumentOK' /\ KnownOK' /\ CachesCurrent'
    BY <2>1, SameKnown DEF DocumentOK, CachesCurrent, document, caches, lock
  <2>3. held' \in Nat /\ (held' > 0 => held > 0) /\ written' = FALSE
    BY <2>1 DEF Called, LockOK
  <2>4. lockUpdates' = lockUpdates /\ needUpdates' = needUpdates
    BY <2>1 DEF lock
  <2>5. LockOK'
    BY <2>3, <2>4 DEF LockOK
  <2>6. QED BY <2>2, <2>5
<1>11. CASE BeginHold
  BY <1>11, SameKnown DEF BeginHold, DocumentOK, LockOK, CachesCurrent, document, caches
<1>12. CASE EndHold
  <2>1. /\ needUpdates' = {} /\ lockUpdates' = FALSE /\ held' = 0
        /\ UNCHANGED document /\ written' = written /\ Refresh(needUpdates, footer)
        /\ known' = IF "links" \in needUpdates THEN link ELSE known
    BY <1>12 DEF EndHold
  <2>2. DocumentOK' /\ KnownOK'
    <3>1. DocumentOK'
      BY <2>1 DEF DocumentOK, document
    <3>2. known' = link' \/ UNCHANGED <<order, type, known>>
      BY <2>1 DEF document
    <3>3. QED BY <3>1, <3>2, SameKnown, NewKnown
  <2>3. LockOK'
    <3>1. held' \in Nat /\ ~(held' > 0) /\ needUpdates' \subseteq AllUpdates
      BY <2>1
    <3>2. lockUpdates' \in BOOLEAN /\ written' \in BOOLEAN
      BY <2>1 DEF LockOK
    <3>3. QED BY <2>1, <3>1, <3>2 DEF LockOK
  <2>4. CASE "links" \in needUpdates
    <3>1. known' = link'
      BY <2>1, <2>4 DEF document
    <3>2. PICK c : /\ c = LinkCaches(order', type', known')
                   /\ childLinks' = c.child /\ parentLinks' = c.parent /\ rootLinks' = c.root
      BY <2>1, <2>4, <3>1 DEF Refresh
    <3>3. CachesCurrent'
      BY <3>2 DEF CachesCurrent
    <3>4. QED BY <2>2, <2>3, <3>3
  <2>5. CASE "links" \notin needUpdates
    BY <2>1, <2>2, <2>3, <2>5 DEF Refresh, CachesCurrent, document, caches
  <2>6. QED BY <2>4, <2>5
<1>13. CASE FailHold
  BY <1>13, SameKnown DEF FailHold, DocumentOK, LockOK, CachesCurrent, document, caches, lock
<1>14. CASE Save
  <2>1. /\ held' = 0 /\ written' = TRUE /\ UNCHANGED <<document, known>>
        /\ Update({"header", "footer"}, footer)
    BY <1>14 DEF Save
  <2>2. DocumentOK' /\ KnownOK'
    BY <2>1, SameKnown DEF DocumentOK, document
  <2>3. /\ lockUpdates' = lockUpdates
        /\ needUpdates' = IF lockUpdates THEN needUpdates \cup {"header", "footer"}
                          ELSE needUpdates
    BY <2>1 DEF Update, lock
  <2>4. needUpdates' \subseteq AllUpdates
    BY <2>3 DEF LockOK, AllUpdates
  <2>5. LockOK'
    BY <2>1, <2>3, <2>4 DEF LockOK
  <2>6. QED BY <2>1, <2>2, <2>5, UpdateCaches
<1>15. CASE UNCHANGED vars
  BY <1>15, SameKnown DEF vars, DocumentOK, LockOK, CachesCurrent, document, caches, lock
<1>16. ASSUME NEW n \in Numbers(Count), NEW values \in [Slot -> LinkInputs], LoadIndex(n, values)
       PROVE  IInv'
  <2>1. values \in [Slot -> Int]
    BY InputAssumption
  <2>2. QED BY <1>7, <1>16, <2>1
<1>17. ASSUME NEW n \in Numbers(Count), NEW values \in [Slot -> LinkInputs], NEW map \in Maps,
              LoadAndMapLinks(n, values, map)
       PROVE  IInv'
  <2> DEFINE mapped == [s \in Slot |-> MapLink(values[s], map)]
  <2>1. \A k \in DOMAIN map : map[k] \in Int
    BY MapsAreTyped DEF Numbers
  <2>2. \A s \in Slot : values[s] \in Int
    BY InputAssumption
  <2>3. mapped \in [Slot -> Int]
    BY <2>1, <2>2, MapLinkType
  <2>4. LoadIndex(n, mapped)
    BY <1>17 DEF LoadAndMapLinks
  <2> HIDE DEF mapped
  <2>5. QED BY <1>7, <2>3, <2>4
<1>18. ASSUME NEW n \in Numbers(Count), NEW values \in [Slot -> LinkInputs],
              SetLinksSilently(n, values)
       PROVE  IInv'
  <2>1. UNCHANGED <<order, type, caches, lock, held, known>> /\ written' = FALSE
    BY <1>18 DEF SetLinksSilently
  <2>2. DocumentOK'
    BY <1>18, SilentKeepsDocument
  <2>3. KnownOK' /\ CachesCurrent' /\ LockOK'
    BY <2>1, SameKnown DEF CachesCurrent, LockOK, caches, lock
  <2>4. QED BY <2>2, <2>3
<1>19. QED
  BY <1>1, <1>2, <1>3, <1>4, <1>5, <1>6, <1>8, <1>9, <1>10, <1>11, <1>12, <1>13, <1>14,
     <1>15, <1>16, <1>17, <1>18 DEF Next, DocumentNext

-----------------------------------------------------------------------------
(* The document stays well formed: no handler duplicates a block or leaves *)
(* a link in a field that does not exist, and no update waits for a lock   *)
(* that nobody holds.                                                      *)
THEOREM TypeCorrect == Spec => []TypeOK
<1>1. IInv => TypeOK
  BY DEF IInv, TypeOK
<1>2. QED BY InitInvariant, StepInvariant, <1>1, PTL DEF Spec

(* No update is lost: every handler of NifModel that changes the list, the *)
(* types or the links either refreshes the link caches (updateLinks) or    *)
(* leaves the request with the lock; only links set in the Processing      *)
(* state wait for the next such handler.                                   *)
THEOREM CachesStayCurrent == Spec => []CachesCurrent
<1>1. IInv => CachesCurrent
  BY DEF IInv
<1>2. QED BY InitInvariant, StepInvariant, <1>1, PTL DEF Spec

-----------------------------------------------------------------------------
(* What the caches say of the known links, whenever they are current.      *)

CurrentCaches == [child |-> childLinks, parent |-> parentLinks, root |-> rootLinks]

LEMMA DocumentDerived ==
  ASSUME DocumentOK, NEW lk, LinksOK(order, type, lk)
  PROVE  \E k, loose : Derived(LinkCaches(order, type, lk), k, loose, order, type, lk)
<1>1. /\ order \in Seq(Block) /\ type \in [Block -> Type] /\ lk \in [Block -> [Slot -> Int]]
      /\ \A b \in Block, s \in Slot : s \notin Fields[type[b]] => lk[b][s] = NoLink
  BY DEF DocumentOK, LinksOK
<1>2. \A n \in Numbers(Len(order)) : order[n + 1] \in Block
  <2>1. PICK len \in Nat : len = Len(order)
    BY <1>1
  <2>2. \A n \in Numbers(len) : n + 1 \in 1 .. len
    BY DEF Numbers
  <2> QED
    BY <1>1, <2>1, <2>2
<1>3. RefSlot \subseteq Slot
  BY SlotAssumption DEF RefSlot, Slot
<1>4. IsDocument(order, type, lk)
  <2>1. \A n \in Numbers(Len(order)) : lk[order[n + 1]] \in [Slot -> Int]
    BY <1>1, <1>2
  <2>2. ASSUME NEW n \in Numbers(Len(order)), NEW s \in RefSlot, type[order[n + 1]] = TextureSet
        PROVE  lk[order[n + 1]][s] = NoLink
    <3>1. TextureSet \in Type /\ s \notin Fields[TextureSet]
      BY <1>1, <1>2, <2>2, TextureSetAssumption
    <3> QED
      BY <1>1, <1>2, <1>3, <2>2, <3>1
  <2> QED
    BY <2>1, <2>2 DEF IsDocument
<1> QED
  BY <1>1, <1>4, LinkCachesDerived

LEMMA CurrentDerived ==
  ASSUME IInv, ~lockUpdates
  PROVE  \E k, loose : Derived(CurrentCaches, k, loose, order, type, known)
<1>1. PICK k, loose : Derived(LinkCaches(order, type, known), k, loose, order, type, known)
  BY DocumentDerived DEF IInv, KnownOK, LinksOK
<1>2. /\ CurrentCaches.child = LinkCaches(order, type, known).child
      /\ CurrentCaches.parent = LinkCaches(order, type, known).parent
      /\ CurrentCaches.root = LinkCaches(order, type, known).root
  <2>1. "links" \notin needUpdates
    BY DEF IInv, LockOK
  <2> QED
    BY <2>1 DEF IInv, CachesCurrent, CurrentCaches
<1>3. Derived(CurrentCaches, k, loose, order, type, known)
  BY <1>1, <1>2 DEF Derived
<1> QED
  BY <1>3

(* Kids and Refers in terms of the caches and the links they come from.    *)
LEMMA KidsAndRefers ==
  ASSUME NEW k, NEW loose, Derived(CurrentCaches, k, loose, order, type, known)
  PROVE  /\ DOMAIN Kids = Numbers(Count) /\ DOMAIN Refers = Numbers(Count)
         /\ \A n \in Numbers(Count) :
              /\ Kids[n] \subseteq Numbers(Count) /\ Refers[n] \subseteq Numbers(Count)
              /\ Kids[n] = Succ(childLinks, n)
              /\ Refers[n] = Refs(order, known)[n]
              /\ Succ(k, n) \subseteq Kids[n] /\ Succ(k, n) \subseteq Refers[n]
              /\ Kids[n] \subseteq Succ(k, n) \cup {n + 1}
              /\ n + 1 \in loose /\ type[order[n + 1]] = LightingShader => n + 1 \in Kids[n]
              /\ Kids[n] \subseteq Succ(k, n) \cup loose
<1> DEFINE N == Numbers(Count)
<1>1. /\ k \in Caches(N) /\ childLinks \in Caches(N)
      /\ \A n \in N : Succ(k, n) \subseteq Refs(order, known)[n]
      /\ \A n \in N : ToSet(childLinks[n]) = ToSet(k[n]) \cup
           (IF n + 1 \in loose /\ type[order[n + 1]] = LightingShader THEN {n + 1} ELSE {})
      /\ loose \subseteq N
  BY DEF Derived, CurrentCaches, Count
<1>2. DOMAIN k = N /\ DOMAIN childLinks = N
  BY <1>1 DEF Caches
<1>3. /\ Refers = Refs(order, known)
      /\ Kids = [n \in N |-> ToSet(childLinks[n]) \cap N]
      /\ DOMAIN Refers = N /\ \A n \in N : Refers[n] \subseteq N
  BY DEF Refers, Refs, Kids, Count
<1> HIDE DEF N
<1>4. \A n \in N : Kids[n] = Succ(childLinks, n) /\ Kids[n] = ToSet(childLinks[n]) \cap N
  BY <1>2, <1>3 DEF Succ
<1>5. \A n \in N : /\ Succ(k, n) = ToSet(k[n]) \cap N
  BY <1>2 DEF Succ
<1>6. \A n \in N : /\ Succ(k, n) \subseteq Kids[n]
                   /\ Kids[n] \subseteq Succ(k, n) \cup {n + 1}
                   /\ Kids[n] \subseteq Succ(k, n) \cup loose
                   /\ n + 1 \in loose /\ type[order[n + 1]] = LightingShader => n + 1 \in Kids[n]
  BY <1>1, <1>4, <1>5
<1> QED
  BY <1>1, <1>3, <1>4, <1>6 DEF N

(* The child links form no cycle.                                          *)
LEMMA CurrentAcyclic == IInv => CachesAcyclic
<1> SUFFICES ASSUME IInv, ~lockUpdates, NEW R \in (SUBSET Numbers(Count)) \ {{}}
             PROVE  \E n \in R : Kids[n] \cap R = {}
  BY DEF CachesAcyclic
<1>1. PICK k, loose : Derived(CurrentCaches, k, loose, order, type, known)
  BY CurrentDerived
<1>2. Acyclic(childLinks, Numbers(Count))
  <2>1. order \in Seq(Block)
    BY DEF IInv, DocumentOK
  <2> QED
    BY <1>1, <2>1, DerivedAcyclic DEF CurrentCaches, Count
<1>3. PICK n \in R : Succ(childLinks, n) \cap R = {}
  BY <1>2 DEF Acyclic
<1> QED
  BY <1>1, <1>3, KidsAndRefers

(* A known that the caches do not have leads back to its block.             *)
LEMMA DroppedLeadsBack ==
  ASSUME NEW k, NEW loose, Derived(CurrentCaches, k, loose, order, type, known),
         NEW n \in Numbers(Count), NEW m \in Refers[n], m \notin Succ(k, n)
  PROVE  n \in Reach({m}, Refers)
<1>1. /\ DOMAIN Refers = Numbers(Count)
      /\ \A p \in Numbers(Count) : Refers[p] \subseteq Numbers(Count) /\ Refers[p] = Refs(order, known)[p]
  BY KidsAndRefers
<1>2. {m} \in SUBSET DOMAIN Refers
  BY <1>1
<1>3. PICK T \in SUBSET Numbers(Count) :
        T = Reach({m}, Refers) /\ m \in T /\ \A p \in T : Refers[p] \subseteq T
  BY <1>1, <1>2, ReachProperties
<1>4. m \notin ToSet(k[n]) /\ m \in Refs(order, known)[n]
  <2>1. DOMAIN k = Numbers(Count)
    BY DEF Derived, Caches, Count
  <2>2. m \in Numbers(Count)
    BY <1>1
  <2> QED
    BY <1>1, <2>1, <2>2 DEF Succ
<1>5. \A p \in T : Refs(order, known)[p] \subseteq T
  BY <1>1, <1>3
<1>6. n \in T
  BY <1>3, <1>4, <1>5, Zenon DEF Derived, Count
<1> QED
  BY <1>3, <1>6

LEMMA CurrentDropped == IInv => OnlyCyclesDropped
<1> SUFFICES ASSUME IInv, ~lockUpdates, NEW n \in Numbers(Count), NEW m \in Refers[n] \ Kids[n]
             PROVE  n \in Reach({m}, Refers)
  BY DEF OnlyCyclesDropped
<1>1. PICK k, loose : Derived(CurrentCaches, k, loose, order, type, known)
  BY CurrentDerived
<1>2. m \notin Succ(k, n)
  BY <1>1, KidsAndRefers
<1> QED
  BY <1>1, <1>2, DroppedLeadsBack

(* Every block but a loose texture set is reached from the roots, whether  *)
(* one follows the caches or the links.                                    *)
LEMMA CurrentCovers ==
  ASSUME order \in Seq(Block),
         NEW k, NEW loose, Derived(CurrentCaches, k, loose, order, type, known),
         NEW next, next = Kids \/ next = Refers
  PROVE  /\ ToSet(rootLinks) \subseteq Numbers(Count)
         /\ Numbers(Count) \ Reach(ToSet(rootLinks), next) \subseteq loose
         /\ \A n \in Reach(ToSet(rootLinks), next) : next[n] \subseteq Reach(ToSet(rootLinks), next)
<1>1. ToSet(rootLinks) \subseteq Numbers(Count)
  BY DEF Derived, CurrentCaches, Count
<1>2. /\ DOMAIN next = Numbers(Count)
      /\ \A n \in Numbers(Count) : next[n] \subseteq Numbers(Count) /\ Succ(k, n) \subseteq next[n]
  BY KidsAndRefers
<1>3. PICK C \in SUBSET Numbers(Count) :
        /\ C = Reach(ToSet(rootLinks), next)
        /\ ToSet(rootLinks) \subseteq C /\ \A n \in C : next[n] \subseteq C
  BY <1>1, <1>2, ReachProperties
<1>4. \A n \in C \cap Numbers(Count) : Succ(k, n) \subseteq C
  BY <1>2, <1>3
<1>5. Numbers(Count) \ C \subseteq loose
  BY <1>3, <1>4, DerivedCovers DEF CurrentCaches, Count
<1> QED
  BY <1>1, <1>3, <1>5

LEMMA CurrentRoots == IInv => RootsCover
<1> SUFFICES ASSUME IInv, ~lockUpdates,
                    NEW n \in Numbers(Count) \ Reach(ToSet(rootLinks), Kids)
             PROVE  Unfiled(n) /\ (n = 0 \/ type[order[n]] # LightingShader)
  BY DEF RootsCover
<1>1. PICK k, loose : Derived(CurrentCaches, k, loose, order, type, known)
  BY CurrentDerived
<1>2. order \in Seq(Block)
  BY DEF IInv, DocumentOK
<1>3. /\ \A p \in loose : Unfiled(p)
  BY <1>1 DEF Derived, Unfiled
<1>4. /\ n \in loose
      /\ \A p \in Numbers(Count) : p \notin loose => n \notin Kids[p]
  <2>1. PICK C : C = Reach(ToSet(rootLinks), Kids)
    OBVIOUS
  <2>2. Numbers(Count) \ C \subseteq loose /\ \A p \in C : Kids[p] \subseteq C
    BY <1>1, <1>2, <2>1, CurrentCovers
  <2> QED
    BY <2>1, <2>2
<1>5. ASSUME n # 0, type[order[n]] = LightingShader PROVE FALSE
  <2>1. PICK len \in Nat : len = Count
    BY <1>2 DEF Count
  <2>2. n - 1 \in Numbers(Count) /\ (n - 1) + 1 = n
    BY <1>5, <2>1 DEF Numbers
  <2>3. n \in Kids[n - 1]
    BY <1>1, <1>4, <1>5, <2>2, KidsAndRefers
  <2>4. n - 1 \notin loose
    BY <1>3, <1>5, <2>2 DEF Unfiled, TextureSet, LightingShader
  <2> QED
    BY <1>4, <2>2, <2>3, <2>4
<1> QED
  BY <1>3, <1>4, <1>5

-----------------------------------------------------------------------------
(* A save.  As long as every spell that takes the lock releases it, a save *)
(* finds it free, so that header and footer are those of the document.     *)

LEMMA HeaderProperties ==
  ASSUME NEW blocks \in Seq(Block), NEW ty \in [Block -> Type]
  PROVE  /\ HeaderOf(blocks, ty).num = Len(blocks)
         /\ \A i \in 1 .. Len(blocks) :
              HeaderOf(blocks, ty).types[HeaderOf(blocks, ty).index[i]] = ty[blocks[i]]
<1> DEFINE list == [i \in 1 .. Len(blocks) |-> ty[blocks[i]]]
           h == HeaderOf(blocks, ty)
<1>1. PICK n \in Nat : n = Len(blocks)
  OBVIOUS
<1>2. \A i \in 1 .. n : blocks[i] \in Block
  BY <1>1
<1>3. list \in Seq(Type)
  <2>1. list \in [1 .. n -> Type]
    BY <1>1, <1>2
  <2> QED
    BY <2>1
<1>4. ToSet(list) = {ty[blocks[i]] : i \in 1 .. n}
  BY <1>1 DEF ToSet
<1>5. /\ h.num = Len(blocks) /\ h.types = Distinct(list)
      /\ h.index = [i \in 1 .. Len(blocks) |->
                      CHOOSE j \in DOMAIN Distinct(list) : Distinct(list)[j] = ty[blocks[i]]]
  BY DEF HeaderOf
<1> HIDE DEF list, h
<1>6. ToSet(Distinct(list)) = {ty[blocks[i]] : i \in 1 .. n}
  BY <1>3, <1>4, DistinctProperties
<1>7. ASSUME NEW i \in 1 .. n PROVE h.types[h.index[i]] = ty[blocks[i]]
  <2>1. PICK names, t : names = Distinct(list) /\ t = ty[blocks[i]]
    OBVIOUS
  <2>2. t \in ToSet(names)
    BY <1>6, <2>1
  <2>3. \E j \in DOMAIN names : names[j] = t
    BY <2>2 DEF ToSet
  <2>4. h.index[i] = CHOOSE j \in DOMAIN names : names[j] = t
    BY <1>1, <1>5, <2>1
  <2>5. names[h.index[i]] = t
    BY <2>3, <2>4
  <2> QED
    BY <1>5, <2>1, <2>5
<1> QED
  BY <1>1, <1>5, <1>7 DEF h

Saved == written => held = 0 /\ header = HeaderOf(order, type) /\ footer = rootLinks

Released == lockUpdates => held > 0

LEMMA InitSaved == Init => Saved /\ Released
BY DEF Init, Saved, Released

LEMMA StepSaved ==
  ASSUME PasteCanFail = FALSE, LockOK, Saved, Released, [Next]_vars
  PROVE  Saved' /\ Released'
<1>1. /\ held \in Nat /\ lockUpdates \in BOOLEAN /\ written \in BOOLEAN
      /\ written => held = 0 /\ header = HeaderOf(order, type) /\ footer = rootLinks
      /\ lockUpdates => held > 0
  BY DEF LockOK, Saved, Released
<1>2. ASSUME Called, lockUpdates' = lockUpdates PROVE Saved' /\ Released'
  BY <1>1, <1>2 DEF Called, Saved, Released
<1>3. \A what, f : UpdateKnown(what, f) => lockUpdates' = lockUpdates
  BY DEF UpdateKnown, Update, lock
<1>4. ASSUME NEW b \in Block, NEW at \in -1 .. Count, InsertNiBlock(b, at) PROVE Saved' /\ Released'
  BY <1>2, <1>3, <1>4 DEF InsertNiBlock
<1>5. ASSUME NEW n \in Numbers(Count), RemoveNiBlock(n) PROVE Saved' /\ Released'
  BY <1>2, <1>3, <1>5 DEF RemoveNiBlock
<1>6. ASSUME NEW src \in Numbers(Count), NEW dst \in Numbers(Count), MoveNiBlock(src, dst)
      PROVE  Saved' /\ Released'
  BY <1>2, <1>3, <1>6 DEF MoveNiBlock
<1>7. ASSUME NEW newNumber \in Renumberings, ReorderBlocks(newNumber) PROVE Saved' /\ Released'
  BY <1>2, <1>3, <1>7 DEF ReorderBlocks
<1>8. ASSUME NEW map \in Maps, MapAllLinks(map) PROVE Saved' /\ Released'
  BY <1>2, <1>3, <1>8 DEF MapAllLinks
<1>9. ASSUME NEW n \in Numbers(Count), NEW s \in Slot, NEW l \in LinkInputs, SetLink(n, s, l)
      PROVE  Saved' /\ Released'
  BY <1>2, <1>3, <1>9 DEF SetLink
<1>10. ASSUME NEW n, NEW values, LoadIndex(n, values) PROVE Saved' /\ Released'
  BY <1>2, <1>3, <1>10 DEF LoadIndex
<1>11. ASSUME NEW n, NEW values, NEW map, LoadAndMapLinks(n, values, map) PROVE Saved' /\ Released'
  BY <1>10, <1>11 DEF LoadAndMapLinks
<1>12. ASSUME NEW n \in Numbers(Count), NEW gone \in SUBSET Slot, DropFields(n, gone)
       PROVE  Saved' /\ Released'
  BY <1>2, <1>3, <1>12 DEF DropFields
<1>13. ASSUME NEW n \in Numbers(Count), NEW t \in Type, ConvertNiBlock(n, t) PROVE Saved' /\ Released'
  BY <1>2, <1>3, <1>13 DEF ConvertNiBlock
<1>14. ASSUME NEW i \in DOMAIN footer, NEW l \in FooterInputs, SetFooterLink(i, l)
       PROVE  Saved' /\ Released'
  BY <1>2, <1>14 DEF SetFooterLink, lock
<1>15. CASE BeginHold
  BY <1>15 DEF BeginHold, Saved, Released
<1>16. CASE EndHold
  BY <1>1, <1>16 DEF EndHold, Saved, Released
<1>17. CASE FailHold
  BY <1>17 DEF FailHold
<1>18. CASE Save
  <2>1. held = 0 /\ held' = 0 /\ UNCHANGED <<document, known>> /\ Update({"header", "footer"}, footer)
    BY <1>18 DEF Save
  <2>2. ~lockUpdates
    BY <1>1, <2>1
  <2>3. Refresh({"header", "footer"}, footer) /\ UNCHANGED lock
    BY <2>1, <2>2 DEF Update
  <2>4. header' = HeaderOf(order', type') /\ footer' = rootLinks'
    BY <2>3 DEF Refresh
  <2> QED
    BY <2>1, <2>2, <2>3, <2>4 DEF lock, Saved, Released
<1>19. CASE UNCHANGED vars
  BY <1>19 DEF vars, document, caches, lock, Saved, Released
<1>20. ASSUME NEW n \in Numbers(Count), NEW values, SetLinksSilently(n, values)
       PROVE  Saved' /\ Released'
  BY <1>1, <1>20 DEF SetLinksSilently, Saved, Released, lock
<1> QED
  BY <1>4, <1>5, <1>6, <1>7, <1>8, <1>9, <1>10, <1>11, <1>12, <1>13, <1>14, <1>15, <1>16,
     <1>17, <1>18, <1>19, <1>20 DEF Next, DocumentNext

LEMMA SavedIsConsistent == IInv /\ Saved /\ Released => SavedConsistent
<1> SUFFICES ASSUME IInv, Saved, Released, written
             PROVE  /\ header.num = Count
                    /\ \A i \in 1 .. Count : header.types[header.index[i]] = type[order[i]]
                    /\ ToSet(footer) \subseteq Numbers(Count)
                    /\ \A n \in Numbers(Count) \ Reach(ToSet(footer), Refers) : Unfiled(n)
                    /\ \A n \in ToSet(footer), m \in Numbers(Count) :
                         n \in Refers[m] => m \in Reach({n}, Refers)
  BY DEF SavedConsistent
<1>1. ~lockUpdates /\ header = HeaderOf(order, type) /\ footer = rootLinks
  BY DEF Saved, Released
<1>2. order \in Seq(Block) /\ type \in [Block -> Type]
  BY DEF IInv, DocumentOK
<1>3. /\ header.num = Count
      /\ \A i \in 1 .. Count : header.types[header.index[i]] = type[order[i]]
  BY <1>1, <1>2, HeaderProperties DEF Count
<1>4. PICK k, loose : Derived(CurrentCaches, k, loose, order, type, known)
  BY <1>1, CurrentDerived
<1>5. /\ ToSet(rootLinks) \subseteq Numbers(Count)
      /\ Numbers(Count) \ Reach(ToSet(rootLinks), Refers) \subseteq loose
  BY <1>2, <1>4, CurrentCovers
<1>6. \A p \in loose : Unfiled(p)
  BY <1>4 DEF Derived, Unfiled
<1>7. ASSUME NEW n \in ToSet(rootLinks), NEW m \in Numbers(Count), n \in Refers[m]
      PROVE  m \in Reach({n}, Refers)
  <2>1. n \notin Succ(k, m)
    BY <1>4 DEF Derived, CurrentCaches, Count
  <2> QED
    BY <1>4, <1>7, <2>1, DroppedLeadsBack
<1> QED
  BY <1>1, <1>3, <1>5, <1>6, <1>7

-----------------------------------------------------------------------------
(* The child links of the caches form no cycle, whatever links a file has: *)
(* checkLinks finds them all.                                              *)
THEOREM CachesStayAcyclic == Spec => []CachesAcyclic
<1> QED BY InitInvariant, StepInvariant, CurrentAcyclic, PTL DEF Spec

(* checkLinks drops nothing but links that close a cycle, of those that    *)
(* the last link update found.                                             *)
THEOREM DroppedLinksCloseCycles == Spec => []OnlyCyclesDropped
<1> QED BY InitInvariant, StepInvariant, CurrentDropped, PTL DEF Spec

(* The root links that updateLinks finds lead to every block.              *)
THEOREM RootsLeadEverywhere == Spec => []RootsCover
<1> QED BY InitInvariant, StepInvariant, CurrentRoots, PTL DEF Spec

(* What a save writes describes itself: header, footer and blocks agree,   *)
(* where a link set in the Processing state counts as it was before.       *)
(* If a paste can fail between taking the lock and releasing it, they need *)
(* not.                                                                    *)
THEOREM SavesAreConsistent ==
  ASSUME PasteCanFail = FALSE
  PROVE  Spec => []SavedConsistent
<1>1. Init => IInv /\ Saved /\ Released
  BY InitInvariant, InitSaved
<1>2. IInv /\ Saved /\ Released /\ [Next]_vars => (IInv /\ Saved /\ Released)'
  BY StepInvariant, StepSaved DEF IInv
<1> QED
  BY <1>1, <1>2, SavedIsConsistent, PTL DEF Spec

-----------------------------------------------------------------------------
(* The refinement of ObjectGraph.  Each handler is one step of the graph,  *)
(* or none.                                                                *)

Points == [b \in Block |-> [s \in Slot |-> Resolve(order, link[b][s], Null, Dangling)]]

(* The graph's sequence operators are those of NifModel.                   *)
LEMMA GraphOperators ==
  /\ \A s : Graph!ToSet(s) = ToSet(s)
  /\ \A s : Graph!IsInjective(s) = IsInjective(s)
  /\ \A s, i, e : Graph!InsertAt(s, i, e) = InsertAt(s, i, e)
  /\ \A s, i : Graph!RemoveAt(s, i) = RemoveAt(s, i)
BY DEF Graph!ToSet, ToSet, Graph!IsInjective, IsInjective, Graph!InsertAt, InsertAt,
       Graph!RemoveAt, RemoveAt

-----------------------------------------------------------------------------
(* What a number points at.                                                *)

LEMMA ResolveType ==
  ASSUME NEW blocks \in Seq(Block), NEW l \in Int
  PROVE  Resolve(blocks, l, Null, Dangling) \in Block \cup {Null, Dangling}
<1>1. CASE l \in 0 .. (Len(blocks) - 1)
  <2>1. blocks[l + 1] \in Block
    BY <1>1
  <2>2. QED BY <1>1, <2>1 DEF Resolve
<1>2. CASE l \notin 0 .. (Len(blocks) - 1)
  BY <1>2 DEF Resolve
<1>3. QED BY <1>1, <1>2

LEMMA PointsType ==
  ASSUME NEW blocks \in Seq(Block), NEW lk \in [Block -> [Slot -> Int]]
  PROVE  [b \in Block |-> [s \in Slot |-> Resolve(blocks, lk[b][s], Null, Dangling)]]
           \in [Block -> [Slot -> Block \cup {Null, Dangling}]]
<1>1. ASSUME NEW b \in Block, NEW s \in Slot
      PROVE  Resolve(blocks, lk[b][s], Null, Dangling) \in Block \cup {Null, Dangling}
  BY ResolveType
<1>2. QED BY <1>1

(* No two numbers point at one block.                                      *)
LEMMA OneNumberPerBlock ==
  ASSUME DocumentOK, NEW n \in Numbers(Count), NEW l \in Int
  PROVE  Resolve(order, l, Null, Dangling) = order[n + 1] <=> l = n
<1>1. /\ order[n + 1] \in Block /\ order \in Seq(Block)
      /\ \A i, j \in 1 .. Len(order) : order[i] = order[j] => i = j
  BY FieldsOfBlock, SequenceFacts DEF DocumentOK
<1>2. n \in Int /\ 0 <= n /\ n < Len(order) /\ n + 1 \in 1 .. Len(order)
  BY DEF Numbers, Count
<1>3. CASE l \in 0 .. (Len(order) - 1)
  <2>1. Resolve(order, l, Null, Dangling) = order[l + 1] /\ l + 1 \in 1 .. Len(order)
    BY <1>3 DEF Resolve
  <2>2. order[l + 1] = order[n + 1] => l + 1 = n + 1
    BY <1>1, <1>2, <2>1
  <2>3. l + 1 = n + 1 => l = n
    BY <1>2
  <2>4. QED BY <2>1, <2>2, <2>3
<1>4. CASE l \notin 0 .. (Len(order) - 1)
  <2>1. Resolve(order, l, Null, Dangling) \in {Null, Dangling}
    BY <1>4 DEF Resolve
  <2>2. QED BY <1>1, <1>2, <1>4, <2>1, NullAssumption
<1>5. QED BY <1>3, <1>4

LEMMA LinkType ==
  ASSUME DocumentOK, NEW b \in Block, NEW s \in Slot
  PROVE  link[b][s] \in Int
BY DEF DocumentOK

-----------------------------------------------------------------------------
(* One step of the graph for each handler.                                 *)

LEMMA InsertRefines ==
  ASSUME DocumentOK, NEW b \in Block, NEW at \in 0 .. Count, InsertNiBlock(b, at)
  PROVE  \E p \in 1 .. Len(order) + 1 : Graph!InsertBlock(b, p)
<1>1. /\ b \notin ToSet(order) /\ order' = Inserted(order, at, b)
      /\ link' = [[x \in Block |-> [s \in Slot |-> AdjustLink(link[x][s], at, 1)]]
                    EXCEPT ![b] = NoFields]
  BY DEF InsertNiBlock, LinksBy
<1>2. order \in Seq(Block) /\ at \in 0 .. Len(order)
  BY DEF DocumentOK, Count
<1>3. ASSUME NEW x \in Block, NEW s \in Slot, x # b
      PROVE  Resolve(order', link'[x][s], Null, Dangling) = Points[x][s]
  <2>1. link'[x][s] = AdjustLink(link[x][s], at, 1)
    BY <1>1, <1>3
  <2>2. link[x][s] \in Int
    BY LinkType
  <2>3. QED BY <1>1, <1>2, <2>1, <2>2, ResolveInserted DEF Points
<1>4. ASSUME NEW s \in Slot
      PROVE  Resolve(order', link'[b][s], Null, Dangling) = Null
  BY <1>1 DEF Resolve, NoFields, NoLink
<1>5. Points' = [Points EXCEPT ![b] = Graph!Empty]
  <2>1. Points' = [x \in Block |-> [s \in Slot |-> Resolve(order', link'[x][s], Null, Dangling)]]
    BY DEF Points
  <2>2. Points = [x \in Block |-> [s \in Slot |-> Points[x][s]]]
    BY DEF Points
  <2>3. QED BY <1>3, <1>4, <2>1, <2>2 DEF Graph!Empty
<1>6. Graph!InsertBlock(b, at + 1)
  BY <1>1, <1>5, GraphOperators DEF Graph!InsertBlock, Points, Inserted
<1>7. at + 1 \in 1 .. Len(order) + 1
  BY <1>2
<1>8. QED BY <1>6, <1>7

LEMMA AppendRefines ==
  ASSUME DocumentOK, NEW b \in Block, NEW at \in Int \ (0 .. Count), InsertNiBlock(b, at)
  PROVE  Graph!AppendBlock(b)
<1>1. /\ b \notin ToSet(order) /\ order' = Inserted(order, Len(order), b)
      /\ link' = [[x \in Block |-> [s \in Slot |-> link[x][s]]] EXCEPT ![b] = NoFields]
  BY DEF InsertNiBlock, LinksBy, Count
<1>2. order \in Seq(Block) /\ Len(order) \in Nat
  BY DEF DocumentOK
<1>3. ASSUME NEW x \in Block, NEW s \in Slot, x # b
      PROVE  Points'[x][s] = IF link[x][s] = Len(order) THEN b ELSE Points[x][s]
  <2>1. link'[x][s] = link[x][s] /\ link[x][s] \in Int
    BY <1>1, <1>3, LinkType
  <2>2. Points'[x][s] = Resolve(order', link'[x][s], Null, Dangling)
    BY DEF Points
  <2>3. Points[x][s] = Resolve(order, link[x][s], Null, Dangling)
    BY DEF Points
  <2>4. QED BY <1>1, <1>2, <2>1, <2>2, <2>3, ResolveAppended
<1>4. ASSUME NEW x \in Block, NEW s \in Slot, link[x][s] = Len(order)
      PROVE  Points[x][s] = Dangling
  BY <1>2, <1>4 DEF Points, Resolve
<1>5. ASSUME NEW s \in Slot
      PROVE  Points'[b][s] = Null
  BY <1>1 DEF Points, Resolve, NoFields, NoLink
<1>6. Points' \in [Block -> [Slot -> Block \cup {Null, Dangling}]]
  <2>1. order' \in Seq(Block) /\ link' \in [Block -> [Slot -> Int]]
    BY InsertKeepsDocument DEF DocumentOK
  <2>2. QED BY <2>1, PointsType DEF Points
<1>7. Points'[b] = Graph!Empty
  BY <1>5, <1>6 DEF Graph!Empty
<1>8. \A x \in Block \ {b}, s \in Slot :
        Points'[x][s] # Points[x][s] => Points[x][s] = Dangling /\ Points'[x][s] = b
  BY <1>3, <1>4
<1>9. order' = InsertAt(order, Len(order) + 1, b)
  BY <1>1 DEF Inserted
<1>10. QED
  BY <1>1, <1>6, <1>7, <1>8, <1>9, GraphOperators DEF Graph!AppendBlock, Graph!Target, Points

LEMMA RemoveRefines ==
  ASSUME DocumentOK, NEW n \in Numbers(Count), RemoveNiBlock(n)
  PROVE  \E p \in 1 .. Len(order) : Graph!RemoveBlock(p)
<1> DEFINE gone == order[n + 1]
<1>1. /\ order' = Removed(order, n)
      /\ link' = [[x \in Block |-> [s \in Slot |-> DropLink(link[x][s], n)]]
                    EXCEPT ![gone] = NoFields]
  BY DEF RemoveNiBlock, LinksBy
<1>2. order \in Seq(Block) /\ n \in Numbers(Len(order))
  BY DEF DocumentOK, Count
<1>3. ASSUME NEW x \in Block, NEW s \in Slot, x # gone
      PROVE  Resolve(order', link'[x][s], Null, Dangling) =
               IF Points[x][s] = gone THEN Null ELSE Points[x][s]
  <2>1. link'[x][s] = DropLink(link[x][s], n)
    BY <1>1, <1>3
  <2>2. link[x][s] \in Int
    BY LinkType
  <2>3. Points[x][s] = Resolve(order, link[x][s], Null, Dangling)
    BY DEF Points
  <2>4. Points[x][s] = gone <=> link[x][s] = n
    BY <2>2, <2>3, OneNumberPerBlock
  <2>5. Resolve(order', link'[x][s], Null, Dangling) =
          IF link[x][s] = n THEN Null ELSE Points[x][s]
    BY <1>1, <1>2, <2>1, <2>2, <2>3, ResolveRemoved
  <2>6. QED BY <2>4, <2>5
<1>4. ASSUME NEW s \in Slot
      PROVE  Resolve(order', link'[gone][s], Null, Dangling) = Null
  <2>1. link'[gone] = NoFields
    BY <1>1, FieldsOfBlock
  <2>2. QED BY <2>1 DEF Resolve, NoFields, NoLink
<1> HIDE DEF gone
<1>5. Points' = [x \in Block |->
                   IF x = gone THEN Graph!Empty
                   ELSE [s \in Slot |-> IF Points[x][s] = gone THEN Null ELSE Points[x][s]]]
  <2>1. Points' = [x \in Block |-> [s \in Slot |-> Resolve(order', link'[x][s], Null, Dangling)]]
    BY DEF Points
  <2>2. QED BY <1>3, <1>4, <2>1 DEF Graph!Empty
<1>6. Graph!RemoveBlock(n + 1)
  <2>1. order' = RemoveAt(order, n + 1)
    BY <1>1 DEF Removed
  <2>2. QED BY <1>5, <2>1, GraphOperators DEF Graph!RemoveBlock, Points, gone
<1>7. n + 1 \in 1 .. Len(order)
  BY DEF Numbers, Count
<1>8. QED BY <1>6, <1>7

(* Moving and reordering.                                                  *)
LEMMA ShuffleRefines ==
  ASSUME DocumentOK, NEW map, DOMAIN map \subseteq Numbers(Count),
         order' \in Seq(Block), CarriesOver(order, order', map),
         ToSet(order') = ToSet(order),
         link' = [b \in Block |-> [s \in Slot |-> MapLink(link[b][s], map)]]
  PROVE  Graph!ShuffleBlocks
<1>1. order \in Seq(Block) /\ DOMAIN map \subseteq Numbers(Len(order))
  BY DEF DocumentOK, Count
<1>2. ASSUME NEW b \in Block, NEW s \in Slot
      PROVE  Resolve(order', link'[b][s], Null, Dangling) = Points[b][s]
  <2>1. link'[b][s] = MapLink(link[b][s], map) /\ link[b][s] \in Int
    BY LinkType
  <2>2. Points[b][s] = Resolve(order, link[b][s], Null, Dangling)
    BY DEF Points
  <2>3. QED BY <1>1, <2>1, <2>2, ResolveCarried
<1>3. Points' = Points
  <2>1. Points' = [b \in Block |-> [s \in Slot |-> Resolve(order', link'[b][s], Null, Dangling)]]
    BY DEF Points
  <2>2. Points = [b \in Block |-> [s \in Slot |-> Points[b][s]]]
    BY DEF Points
  <2>3. QED BY <1>2, <2>1, <2>2
<1>4. order' \in [1 .. Len(order) -> Block]
  BY DEF CarriesOver
<1>5. QED BY <1>3, <1>4, GraphOperators DEF Graph!ShuffleBlocks, Points

(* A map of block numbers substitutes the blocks that have these numbers.  *)
LEMMA MapAllRefines ==
  ASSUME DocumentOK, NEW map \in Maps, MapAllLinks(map)
  PROVE  \E from \in SUBSET Graph!ToSet(order) :
           \E m \in [from -> Graph!ToSet(order)] : Graph!SubstituteBlocks(m)
<1> DEFINE named(k) == order[k + 1]
           from == {named(k) : k \in DOMAIN map}
           num(x) == CHOOSE k \in DOMAIN map : named(k) = x
           m == [x \in from |-> named(map[num(x)])]
<1>1. /\ order' = order
      /\ link' = [b \in Block |-> [s \in Slot |-> MapLink(link[b][s], map)]]
  BY DEF MapAllLinks, LinksBy
<1>2. /\ DOMAIN map \subseteq Numbers(Count)
      /\ \A k \in DOMAIN map : map[k] \in Numbers(Count)
  BY MapsAreTyped
<1>3. \A k \in Numbers(Count) : /\ named(k) \in ToSet(order) /\ k \in Int /\ k >= 0
                                /\ Resolve(order, k, Null, Dangling) = named(k)
  <2>1. ASSUME NEW k \in Numbers(Count)
        PROVE  named(k) \in ToSet(order) /\ k \in Int /\ k >= 0
               /\ Resolve(order, k, Null, Dangling) = named(k)
    <3>1. k \in Int /\ k >= 0
      BY DEF Numbers
    <3>2. named(k) \in ToSet(order)
      BY FieldsOfBlock
    <3>3. Resolve(order, k, Null, Dangling) = named(k)
      BY <3>1, OneNumberPerBlock
    <3>4. QED BY <3>1, <3>2, <3>3
  <2>2. QED BY <2>1
<1>4. from \in SUBSET ToSet(order)
  BY <1>2, <1>3
<1>5. \A x \in from : num(x) \in DOMAIN map /\ named(num(x)) = x
  BY DEF from
<1> HIDE DEF num
<1>6. m \in [from -> ToSet(order)]
  BY <1>2, <1>3, <1>5
<1>7. \A k, l \in Numbers(Count) : named(k) = named(l) => k = l
  BY <1>3, OneNumberPerBlock
<1>8. \A k \in DOMAIN map : m[named(k)] = named(map[k])
  <2> TAKE k \in DOMAIN map
  <2>1. named(k) \in from
    OBVIOUS
  <2>2. num(named(k)) = k
    BY <1>2, <1>5, <1>7, <2>1
  <2>3. QED BY <2>1, <2>2
<1>9. DOMAIN m = from
  OBVIOUS
<1> HIDE DEF m
<1>10. ASSUME NEW b \in Block, NEW s \in Slot
       PROVE  Resolve(order', link'[b][s], Null, Dangling) =
                IF Points[b][s] \in DOMAIN m THEN m[Points[b][s]] ELSE Points[b][s]
  <2> DEFINE l == link[b][s]
  <2>1. l \in Int /\ Points[b][s] = Resolve(order, l, Null, Dangling)
    BY LinkType DEF Points
  <2>2. Resolve(order', link'[b][s], Null, Dangling) = Resolve(order, MapLink(l, map), Null, Dangling)
    BY <1>1
  <2> HIDE DEF l
  <2>3. CASE l \in DOMAIN map
    <3>1. MapLink(l, map) = map[l]
      BY <1>2, <1>3, <2>3 DEF MapLink
    <3>2. Points[b][s] = named(l) /\ named(l) \in from
      BY <1>2, <1>3, <2>1, <2>3
    <3>3. Resolve(order, map[l], Null, Dangling) = named(map[l])
      BY <1>2, <1>3, <2>3
    <3>4. QED BY <1>8, <1>9, <2>2, <2>3, <3>1, <3>2, <3>3
  <2>4. CASE l \notin DOMAIN map
    <3>1. MapLink(l, map) = l
      BY <2>4 DEF MapLink
    <3>2. ASSUME NEW k \in DOMAIN map
          PROVE  Points[b][s] # named(k)
      <4>1. k \in Numbers(Count) /\ l # k
        BY <1>2, <2>4
      <4>2. QED BY <2>1, <4>1, OneNumberPerBlock
    <3>3. Points[b][s] \notin from
      BY <3>2
    <3>4. QED BY <1>9, <2>1, <2>2, <3>1, <3>3
  <2>5. QED BY <2>3, <2>4
<1> HIDE DEF from
<1>11. Points' = [b \in Block |-> [s \in Slot |->
                    IF Points[b][s] \in DOMAIN m THEN m[Points[b][s]] ELSE Points[b][s]]]
  <2>1. Points' = [b \in Block |-> [s \in Slot |-> Resolve(order', link'[b][s], Null, Dangling)]]
    BY DEF Points
  <2>2. QED BY <1>10, <2>1
<1>12. Graph!SubstituteBlocks(m)
  BY <1>1, <1>11 DEF Graph!SubstituteBlocks, Points
<1>13. QED BY <1>4, <1>6, <1>12, GraphOperators

(* A handler that changes the links of one block only.                     *)
LEMMA EditRefines ==
  ASSUME DocumentOK, DocumentOK', NEW n \in Numbers(Count), order' = order,
         NEW values, link' = [link EXCEPT ![order[n + 1]] = values]
  PROVE  \E b \in Graph!ToSet(order) : Graph!EditLinks(b)
<1> DEFINE b == order[n + 1]
<1>1. b \in ToSet(order)
  BY FieldsOfBlock
<1>2. Points' \in [Block -> [Slot -> Block \cup {Null, Dangling}]]
  <2>1. order' \in Seq(Block) /\ link' \in [Block -> [Slot -> Int]]
    BY DEF DocumentOK
  <2>2. QED BY <2>1, PointsType DEF Points
<1>3. \A x \in Block \ {b} : link'[x] = link[x]
  BY DEF DocumentOK
<1>4. \A x \in Block \ {b} : Points'[x] = Points[x]
  BY <1>3 DEF Points
<1>5. Graph!EditLinks(b)
  BY <1>2, <1>4 DEF Graph!EditLinks, Graph!Target, Points
<1>6. QED BY <1>1, <1>5, GraphOperators

(* A handler that changes no link and no block.                            *)
LEMMA StutterRefines ==
  ASSUME order' = order, link' = link
  PROVE  UNCHANGED Graph!vars
BY DEF Graph!vars

-----------------------------------------------------------------------------
(* The initial document is a graph, and every step is one of its steps.    *)

LEMMA InitRefines == IInv => Graph!Init
<1> SUFFICES ASSUME DocumentOK PROVE Graph!Init
  BY DEF IInv
<1>1. Points \in [Block -> [Slot -> Block \cup {Null, Dangling}]]
  BY PointsType DEF DocumentOK, Points
<1>2. QED BY <1>1, GraphOperators DEF Graph!Init, Graph!Target, Points, DocumentOK

LEMMA StepRefines == IInv /\ IInv' /\ [Next]_vars => [Graph!Next]_(Graph!vars)
<1> SUFFICES ASSUME DocumentOK, DocumentOK', [Next]_vars
             PROVE  Graph!Next \/ UNCHANGED Graph!vars
  BY DEF IInv
<1>1. ASSUME NEW b \in Block, NEW at \in -1 .. Count, InsertNiBlock(b, at)
      PROVE  Graph!Next
  <2>1. CASE at \in 0 .. Count
    BY <1>1, <2>1, InsertRefines DEF Graph!Next
  <2>2. CASE at \notin 0 .. Count
    <3>1. at \in Int \ (0 .. Count)
      BY <2>2 DEF Count
    <3>2. QED BY <1>1, <3>1, AppendRefines DEF Graph!Next
  <2>3. QED BY <2>1, <2>2
<1>2. ASSUME NEW n \in Numbers(Count), RemoveNiBlock(n)
      PROVE  Graph!Next
  BY <1>2, RemoveRefines DEF Graph!Next
<1>3. ASSUME NEW src \in Numbers(Count), NEW dst \in Numbers(Count), MoveNiBlock(src, dst)
      PROVE  Graph!Next
  <2>1. DOMAIN MoveMap(src, dst) \subseteq Numbers(Count)
    <3>1. DOMAIN MoveMap(src, dst) = (src .. dst) \cup (dst .. src)
      BY DEF MoveMap
    <3>2. src \in Int /\ dst \in Int /\ Count \in Int
      BY DEF Numbers, Count, DocumentOK
    <3>3. ASSUME NEW l \in (src .. dst) \cup (dst .. src) PROVE l \in Numbers(Count)
      BY <3>2 DEF Numbers
    <3>4. QED BY <3>1, <3>3
  <2>2. link' = [b \in Block |-> [s \in Slot |-> MapLink(link[b][s], MoveMap(src, dst))]]
    BY <1>3 DEF MoveNiBlock, LinksBy
  <2>3. Graph!ShuffleBlocks
    BY <1>3, <2>1, <2>2, MoveCarries, ShuffleRefines
  <2>4. QED BY <2>3 DEF Graph!Next
<1>4. ASSUME NEW newNumber \in Renumberings, ReorderBlocks(newNumber)
      PROVE  Graph!Next
  <2>1. DOMAIN newNumber \subseteq Numbers(Count)
    BY DEF Renumberings
  <2>2. link' = [b \in Block |-> [s \in Slot |-> MapLink(link[b][s], newNumber)]]
    BY <1>4 DEF ReorderBlocks, LinksBy
  <2>3. Graph!ShuffleBlocks
    BY <1>4, <2>1, <2>2, ReorderCarries, ShuffleRefines
  <2>4. QED BY <2>3 DEF Graph!Next
<1>5. ASSUME NEW map \in Maps, MapAllLinks(map)
      PROVE  Graph!Next
  BY <1>5, MapAllRefines DEF Graph!Next
<1>6. ASSUME NEW n \in Numbers(Count), order' = order,
             NEW values, link' = [link EXCEPT ![order[n + 1]] = values]
      PROVE  Graph!Next
  BY <1>6, EditRefines DEF Graph!Next
<1>7. ASSUME NEW n \in Numbers(Count), NEW s, NEW l, SetLink(n, s, l)
      PROVE  Graph!Next
  BY <1>6, <1>7 DEF SetLink
<1>8. ASSUME NEW n \in Numbers(Count), NEW values, LoadIndex(n, values)
      PROVE  Graph!Next
  BY <1>6, <1>8 DEF LoadIndex
<1>9. ASSUME NEW n \in Numbers(Count), NEW values, NEW map, LoadAndMapLinks(n, values, map)
      PROVE  Graph!Next
  BY <1>8, <1>9 DEF LoadAndMapLinks
<1>10. ASSUME NEW n \in Numbers(Count), NEW gone, DropFields(n, gone)
       PROVE  Graph!Next
  BY <1>6, <1>10 DEF DropFields
<1>11. ASSUME NEW n \in Numbers(Count), NEW t, ConvertNiBlock(n, t)
       PROVE  Graph!Next
  BY <1>6, <1>11 DEF ConvertNiBlock
<1>12. ASSUME NEW i, NEW l, SetFooterLink(i, l)
       PROVE  UNCHANGED Graph!vars
  BY <1>12, StutterRefines DEF SetFooterLink, document
<1>13. CASE BeginHold \/ EndHold \/ FailHold \/ Save \/ UNCHANGED vars
  BY <1>13, StutterRefines DEF BeginHold, EndHold, FailHold, Save, vars, document
<1>14. ASSUME NEW n \in Numbers(Count), NEW values, SetLinksSilently(n, values)
       PROVE  Graph!Next
  BY <1>6, <1>14 DEF SetLinksSilently
<1>15. QED
  BY <1>1, <1>2, <1>3, <1>4, <1>5, <1>7, <1>8, <1>9, <1>10, <1>11, <1>12, <1>13, <1>14 DEF Next, DocumentNext

(* No handler makes a link point at another block unless it is meant to:   *)
(* with the numbers read as references, NifModel is an ObjectGraph.        *)
THEOREM LinksKeep == Spec => LinksKeepTheirBlock
<1>1. Init => IInv
  BY InitInvariant
<1>2. IInv /\ [Next]_vars => IInv'
  BY StepInvariant
<1>3. IInv => Graph!Init
  BY InitRefines
<1>4. IInv /\ IInv' /\ [Next]_vars => [Graph!Next]_(Graph!vars)
  BY StepRefines
<1>5. QED BY <1>1, <1>2, <1>3, <1>4, PTL DEF Spec, LinksKeepTheirBlock, Graph!Spec
=============================================================================
