-------------------------- MODULE BlockListProofs --------------------------
(***************************************************************************)
(* The tree of the block list, for documents of any size: it is a tree, it *)
(* is what a rebuild from the caches would give but for what parent links  *)
(* keep, and it lists every block.                                         *)
(***************************************************************************)
EXTENDS BlockList, NifModelProofs

-----------------------------------------------------------------------------
(* Paths.                                                                  *)

LEMMA LongerPath ==
  ASSUME NEW p \in Seq(Nat), NEW k \in Nat
  PROVE  LET q == Append(p, k)
         IN /\ q \in Seq(Nat) /\ Len(q) = Len(p) + 1 /\ Last(q) = k /\ Front(q) = p
            /\ \A i \in 1 .. Len(p) : q[i] = p[i]
<1> DEFINE q == Append(p, k)
<1>1. PICK n \in Nat : n = Len(p)
  OBVIOUS
<1>2. q \in Seq(Nat) /\ Len(q) = n + 1 /\ (\A i \in 1 .. n : q[i] = p[i]) /\ q[n + 1] = k
  BY <1>1, AppendProperties
<1> HIDE DEF q
<1>3. /\ Front(q) \in Seq(Nat) /\ Len(Front(q)) = n
      /\ \A i \in 1 .. n : Front(q)[i] = q[i]
  <2>1. Len(q) - 1 \in 0 .. Len(q)
    BY <1>2
  <2>2. /\ SubSeq(q, 1, n) \in Seq(Nat) /\ Len(SubSeq(q, 1, n)) = IF 1 <= n THEN n - 1 + 1 ELSE 0
        /\ \A i \in 1 .. n - 1 + 1 : SubSeq(q, 1, n)[i] = q[1 + i - 1]
    BY <1>2, SubSeqProperties
  <2> QED
    BY <1>2, <2>2 DEF Front
<1>4. Front(q) = p
  BY <1>1, <1>2, <1>3, SeqEqual
<1> QED
  BY <1>1, <1>2, <1>4 DEF Last, q

LEMMA ShorterPath ==
  ASSUME NEW p \in Seq(Nat), Len(p) > 0
  PROVE  /\ Front(p) \in Seq(Nat) /\ Len(Front(p)) = Len(p) - 1 /\ Last(p) \in Nat
         /\ \A i \in 1 .. Len(p) - 1 : Front(p)[i] = p[i]
         /\ p = Append(Front(p), Last(p))
<1>1. PICK n \in Nat : n = Len(p) /\ n > 0
  OBVIOUS
<1>2. Last(p) \in Nat
  BY <1>1 DEF Last
<1>3. /\ SubSeq(p, 1, n - 1) \in Seq(Nat) /\ Len(SubSeq(p, 1, n - 1)) = n - 1
      /\ \A i \in 1 .. n - 1 : SubSeq(p, 1, n - 1)[i] = p[i]
  BY <1>1, SubSeqProperties
<1>4. /\ Front(p) \in Seq(Nat) /\ Len(Front(p)) = n - 1
      /\ \A i \in 1 .. n - 1 : Front(p)[i] = p[i]
  BY <1>1, <1>3 DEF Front
<1> DEFINE q == Append(Front(p), Last(p))
<1>5. q \in Seq(Nat) /\ Len(q) = n /\ (\A i \in 1 .. n - 1 : q[i] = Front(p)[i]) /\ q[n] = Last(p)
  BY <1>1, <1>2, <1>4, AppendProperties
<1> HIDE DEF q
<1>6. \A i \in 1 .. n : q[i] = p[i]
  <2>1. Last(p) = p[n]
    BY <1>1 DEF Last
  <2>2. \A i \in 1 .. n : i \in 1 .. n - 1 \/ i = n
    BY <1>1
  <2> QED
    BY <1>4, <1>5, <2>1, <2>2
<1>7. q = p
  BY <1>1, <1>5, <1>6, SeqEqual
<1> QED
  BY <1>1, <1>2, <1>4, <1>7 DEF q

LEMMA PathPrefix ==
  ASSUME NEW p \in Seq(Nat), NEW n \in Nat, n <= Len(p)
  PROVE  /\ SubSeq(p, 1, n) \in Seq(Nat) /\ Len(SubSeq(p, 1, n)) = n
         /\ \A i \in 1 .. n : SubSeq(p, 1, n)[i] = p[i]
<1>1. PICK m \in Nat : m = Len(p) /\ n <= m
  OBVIOUS
<1>2. \A i \in 1 .. n : p[i] \in Nat
  <2>1. \A i \in 1 .. n : i \in 1 .. m
    BY <1>1
  <2> QED
    BY <1>1, <2>1
<1>3. /\ SubSeq(p, 1, n) \in Seq(Nat)
      /\ Len(SubSeq(p, 1, n)) = IF 1 <= n THEN n - 1 + 1 ELSE 0
      /\ \A i \in 1 .. n - 1 + 1 : SubSeq(p, 1, n)[i] = p[1 + i - 1]
  BY <1>2, SubSeqProperties
<1> QED
  BY <1>3

-----------------------------------------------------------------------------
(* The items that an update visits.                                        *)

(* Caches of child links, perhaps out of date, but without cycles.         *)
Linking(kids) ==
  /\ kids \in Caches(DOMAIN kids) /\ IsFiniteSet(DOMAIN kids) /\ Acyclic(kids, DOMAIN kids)
  /\ \A n \in DOMAIN kids : ToSet(kids[n]) \subseteq Nat

IsChain(kids, p) == \A i \in 1 .. Len(p) - 1 : p[i + 1] \in LinksOf(kids, p[i])

Chains(kids, roots) ==
  {p \in Seq(Nat) : Len(p) > 0 /\ p[1] \in ToSet(roots) /\ IsChain(kids, p)}

LEMMA LinkedProperties ==
  ASSUME NEW kids, Linking(kids)
  PROVE  /\ IsFiniteSet(Linked(kids))
         /\ \A n : LinksOf(kids, n) \subseteq Linked(kids) \cap Nat
<1>1. \A n : LinksOf(kids, n) \subseteq Linked(kids) \cap Nat
  BY DEF LinksOf, Linked, Linking
<1>2. ASSUME NEW s \in Seq(Int) PROVE IsFiniteSet(ToSet(s))
  <2>1. PICK n \in Nat : n = Len(s) /\ DOMAIN s = 1 .. n
    OBVIOUS
  <2>2. IsFiniteSet(1 .. n)
    BY FS_Interval
  <2>3. s \in Surjection(1 .. n, ToSet(s))
    BY <2>1 DEF Surjection, ToSet
  <2> QED
    BY <2>2, <2>3, FS_Surjection
<1>3. IsFiniteSet({ToSet(kids[n]) : n \in DOMAIN kids})
  <2> DEFINE f == [n \in DOMAIN kids |-> ToSet(kids[n])]
             R == {ToSet(kids[n]) : n \in DOMAIN kids}
  <2>1. f \in Surjection(DOMAIN kids, R)
    BY DEF Surjection
  <2>2. IsFiniteSet(DOMAIN kids)
    BY DEF Linking
  <2> HIDE DEF f, R
  <2>3. IsFiniteSet(R)
    BY <2>1, <2>2, FS_Surjection
  <2> QED
    BY <2>3 DEF R
<1>4. \A T \in {ToSet(kids[n]) : n \in DOMAIN kids} : IsFiniteSet(T)
  <2>1. \A n \in DOMAIN kids : kids[n] \in Seq(Int)
    BY DEF Linking, Caches
  <2> QED
    BY <1>2, <2>1
<1>5. IsFiniteSet(Linked(kids))
  <2> DEFINE R == {ToSet(kids[n]) : n \in DOMAIN kids}
  <2> HIDE DEF R
  <2>1. IsFiniteSet(UNION R)
    BY <1>3, <1>4, FS_UNION DEF R
  <2> QED
    BY <2>1 DEF Linked, R
<1> QED
  BY <1>1, <1>5

(* A chain has no block twice.                                             *)
LEMMA ChainIsPath ==
  ASSUME NEW kids, Linking(kids), NEW p \in Seq(Nat), IsChain(kids, p),
         NEW i \in 1 .. Len(p), NEW j \in 1 .. Len(p), i < j
  PROVE  p[i] # p[j]
<1> SUFFICES ASSUME p[i] = p[j] PROVE FALSE
  OBVIOUS
<1>1. PICK n \in Nat : n = Len(p)
  OBVIOUS
<1> DEFINE T == {p[m] : m \in i .. j - 1}
<1>2. \A m \in i .. j - 1 : p[m + 1] \in LinksOf(kids, p[m])
  BY <1>1 DEF IsChain
<1>3. \A m \in i .. j - 1 : p[m + 1] \in T
  <2> SUFFICES ASSUME NEW m \in i .. j - 1 PROVE p[m + 1] \in T
    OBVIOUS
  <2>1. CASE m = j - 1
    <3>1. p[m + 1] = p[i] /\ i \in i .. j - 1
      BY <2>1
    <3> QED
      BY <3>1
  <2>2. CASE m # j - 1
    <3>1. m + 1 \in i .. j - 1
      BY <2>2
    <3> QED
      BY <3>1
  <2> QED
    BY <2>1, <2>2
<1>4. \A m \in i .. j - 1 : p[m] \in DOMAIN kids /\ p[m + 1] \in ToSet(kids[p[m]])
  BY <1>2 DEF LinksOf
<1>5. T \subseteq DOMAIN kids /\ \A x \in T : Succ(kids, x) \cap T # {}
  <2>1. T \subseteq DOMAIN kids
    BY <1>4
  <2>2. ASSUME NEW m \in i .. j - 1 PROVE p[m + 1] \in Succ(kids, p[m]) \cap T
    BY <1>3, <1>4, <2>1 DEF Succ
  <2> QED
    BY <2>1, <2>2
<1>6. T # {}
  <2>1. i \in i .. j - 1
    OBVIOUS
  <2> QED
    BY <2>1
<1> HIDE DEF T
<1> QED
  BY <1>5, <1>6 DEF Linking, Acyclic

(* A longer chain ends with a block it has not had before.                 *)
LEMMA ChainGrows ==
  ASSUME NEW kids, Linking(kids), NEW p \in Seq(Nat), Len(p) > 0, IsChain(kids, p),
         NEW k \in LinksOf(kids, Last(p))
  PROVE  /\ k \in Nat /\ IsChain(kids, Append(p, k)) /\ k \notin ToSet(p)
         /\ Len(p) <= Cardinality(Linked(kids))
<1>1. PICK n \in Nat : n = Len(p) /\ n > 0
  OBVIOUS
<1>2. k \in Nat
  BY LinkedProperties
<1>3. PICK q \in Seq(Nat) : q = Append(p, k) /\ Len(q) = n + 1 /\ q[n + 1] = k /\ \A i \in 1 .. n : q[i] = p[i]
  <2>1. Append(p, k) \in Seq(Nat)
    BY <1>2
  <2>2. /\ Len(Append(p, k)) = n + 1 /\ Append(p, k)[n + 1] = k
        /\ \A i \in 1 .. n : Append(p, k)[i] = p[i]
    BY <1>1, <1>2, AppendProperties
  <2> QED
    BY <2>1, <2>2
<1>4. Last(p) = p[n]
  BY <1>1 DEF Last
<1>5. IsChain(kids, q)
  <2> SUFFICES ASSUME NEW i \in 1 .. n PROVE q[i + 1] \in LinksOf(kids, q[i])
    BY <1>3 DEF IsChain
  <2>1. CASE i = n
    BY <1>3, <1>4, <2>1
  <2>2. CASE i # n
    <3>1. i \in 1 .. n - 1 /\ i + 1 \in 1 .. n
      BY <2>2
    <3>2. p[i + 1] \in LinksOf(kids, p[i])
      BY <1>1, <3>1 DEF IsChain
    <3> QED
      BY <1>3, <3>1, <3>2
  <2> QED
    BY <2>1, <2>2
<1>6. \A i, j \in 1 .. n + 1 : i < j => q[i] # q[j]
  <2> SUFFICES ASSUME NEW i \in 1 .. Len(q), NEW j \in 1 .. Len(q), i < j PROVE q[i] # q[j]
    BY <1>3
  <2> QED
    BY <1>5, ChainIsPath
<1>7. k \notin ToSet(p)
  <2>1. \A i \in 1 .. n : i < n + 1 /\ i \in 1 .. n + 1 /\ n + 1 \in 1 .. n + 1
    OBVIOUS
  <2>2. \A i \in 1 .. n : p[i] # k
    BY <1>3, <1>6, <2>1
  <2>3. DOMAIN p = 1 .. n
    BY <1>1
  <2> QED
    BY <2>2, <2>3 DEF ToSet
<1>8. n <= Cardinality(Linked(kids))
  <2> DEFINE f == [i \in 1 .. n |-> q[i + 1]]
  <2>1. \A i \in 1 .. n : q[i + 1] \in Linked(kids)
    <3>1. \A i \in 1 .. n : q[i + 1] \in LinksOf(kids, q[i])
      BY <1>3, <1>5 DEF IsChain
    <3> QED
      BY <3>1, LinkedProperties
  <2>2. f \in [1 .. n -> Linked(kids)]
    BY <2>1
  <2>3. \A i, j \in 1 .. n : f[i] = f[j] => i = j
    <3> SUFFICES ASSUME NEW i \in 1 .. n, NEW j \in 1 .. n, q[i + 1] = q[j + 1] PROVE i = j
      OBVIOUS
    <3>1. i + 1 \in 1 .. Len(q) /\ j + 1 \in 1 .. Len(q)
      BY <1>3
    <3>2. CASE i < j
      <4>1. i + 1 < j + 1
        BY <3>2
      <4>2. q[i + 1] # q[j + 1]
        BY <1>5, <3>1, <4>1, ChainIsPath, Zenon
      <4> QED
        BY <4>2
    <3>3. CASE j < i
      <4>1. j + 1 < i + 1
        BY <3>3
      <4>2. q[j + 1] # q[i + 1]
        BY <1>5, <3>1, <4>1, ChainIsPath, Zenon
      <4> QED
        BY <4>2
    <3> QED
      BY <3>2, <3>3
  <2>4. f \in Injection(1 .. n, Linked(kids))
    BY <2>2, <2>3 DEF Injection, IsInjective
  <2>5. IsFiniteSet(1 .. n) /\ Cardinality(1 .. n) = n
    <3>1. 1 \in Int /\ n \in Int /\ ~(1 > n)
      BY <1>1
    <3>2. IsFiniteSet(1 .. n) /\ Cardinality(1 .. n) = n - 1 + 1
      BY <3>1, FS_Interval
    <3> QED
      BY <3>2
  <2> HIDE DEF f
  <2>6. Cardinality(1 .. n) <= Cardinality(Linked(kids))
    BY <2>4, LinkedProperties, FS_Injection
  <2> QED
    BY <2>5, <2>6
<1> QED
  BY <1>1, <1>2, <1>3, <1>5, <1>7, <1>8

ChainsTo(kids, roots, d) == {p \in Chains(kids, roots) : Len(p) = d + 1}

(* An update visits the ends of the chains of child links from the roots.  *)
LEMMA LevelsAreChains ==
  ASSUME NEW kids, Linking(kids), NEW roots, ToSet(roots) \subseteq Nat, NEW d \in Nat
  PROVE  /\ {<<r>> : r \in ToSet(roots)} = ChainsTo(kids, roots, 0)
         /\ ItemsBelow(kids, ChainsTo(kids, roots, d)) = ChainsTo(kids, roots, d + 1)
<1>1. ASSUME NEW r \in ToSet(roots)
      PROVE  <<r>> \in Chains(kids, roots) /\ Len(<<r>>) = 1
  BY DEF Chains, IsChain
<1>2. ASSUME NEW p \in Chains(kids, roots), Len(p) = 1
      PROVE  p \in {<<r>> : r \in ToSet(roots)}
  <2>1. p \in Seq(Nat) /\ p[1] \in ToSet(roots)
    BY DEF Chains
  <2>2. PICK r \in Nat : r = p[1]
    BY <2>1
  <2>3. p = <<r>>
    <3>1. <<r>> \in Seq(Nat) /\ Len(<<r>>) = 1 /\ <<r>>[1] = r
      OBVIOUS
    <3>2. \A i \in 1 .. 1 : i = 1
      OBVIOUS
    <3>3. \A i \in 1 .. Len(p) : p[i] = <<r>>[i]
      BY <1>2, <2>2, <3>1, <3>2
    <3> QED
      BY <1>2, <2>1, <3>1, <3>3, SeqEqual
  <2> QED
    BY <2>1, <2>2, <2>3
<1>3. ASSUME NEW p \in Chains(kids, roots), Len(p) = d + 1, NEW k \in LinksOf(kids, Last(p)) \ Parents(p)
      PROVE  Append(p, k) \in Chains(kids, roots) /\ Len(Append(p, k)) = d + 2
  <2>1. p \in Seq(Nat) /\ Len(p) > 0 /\ p[1] \in ToSet(roots) /\ IsChain(kids, p)
    BY DEF Chains
  <2>2. k \in Nat /\ IsChain(kids, Append(p, k))
    BY <2>1, ChainGrows
  <2>3. Append(p, k) \in Seq(Nat) /\ Len(Append(p, k)) = Len(p) + 1 /\ Append(p, k)[1] = p[1]
    BY <2>1, <2>2, AppendProperties
  <2> DEFINE q == Append(p, k)
  <2>4. q \in Seq(Nat) /\ Len(q) = d + 2 /\ q[1] \in ToSet(roots) /\ IsChain(kids, q)
    BY <1>3, <2>1, <2>2, <2>3
  <2> HIDE DEF q
  <2>5. q \in Chains(kids, roots) /\ Len(q) = d + 2
    BY <2>4 DEF Chains
  <2> QED
    BY <2>5 DEF q
<1>4. ASSUME NEW q \in Chains(kids, roots), Len(q) = d + 2
      PROVE  \E p \in {p \in Chains(kids, roots) : Len(p) = d + 1} :
               \E k \in LinksOf(kids, Last(p)) \ Parents(p) : q = Append(p, k)
  <2>1. q \in Seq(Nat) /\ Len(q) > 0 /\ q[1] \in ToSet(roots) /\ IsChain(kids, q)
    BY DEF Chains
  <2>2. PICK p \in Seq(Nat), k \in Nat :
          /\ Len(p) = d + 1 /\ k = q[d + 2] /\ q = Append(p, k)
          /\ \A i \in 1 .. d + 1 : p[i] = q[i]
    <3>1. /\ Front(q) \in Seq(Nat) /\ Len(Front(q)) = Len(q) - 1 /\ Last(q) \in Nat
          /\ \A i \in 1 .. Len(q) - 1 : Front(q)[i] = q[i]
          /\ q = Append(Front(q), Last(q))
      BY <2>1, ShorterPath
    <3>2. Last(q) = q[d + 2]
      BY <1>4 DEF Last
    <3>3. Len(q) - 1 = d + 1
      BY <1>4
    <3> QED
      BY <3>1, <3>2, <3>3
  <2>p. PICK e \in Nat : e = d + 1
    OBVIOUS
  <2>q. Len(p) = e /\ Len(q) = e + 1 /\ e > 0
    BY <1>4, <2>2, <2>p
  <2>c. \A i \in 1 .. e : q[i + 1] \in LinksOf(kids, q[i])
    BY <2>1, <2>q DEF IsChain
  <2>e. \A i \in 1 .. e : p[i] = q[i]
    BY <2>2, <2>p
  <2>3. IsChain(kids, p)
    <3> SUFFICES ASSUME NEW i \in 1 .. e - 1 PROVE p[i + 1] \in LinksOf(kids, p[i])
      BY <2>q DEF IsChain
    <3>1. PICK j \in 1 .. e : j = i + 1
      OBVIOUS
    <3>2. i \in 1 .. e
      OBVIOUS
    <3>3. p[i] = q[i] /\ p[j] = q[j] /\ q[i + 1] \in LinksOf(kids, q[i])
      BY <2>c, <2>e, <3>1, <3>2
    <3> QED
      BY <3>1, <3>3
  <2>4. p \in Chains(kids, roots)
    <3>1. p[1] = q[1]
      BY <2>e, <2>q
    <3> QED
      BY <2>1, <2>3, <2>q, <3>1 DEF Chains
  <2>5. k \in LinksOf(kids, Last(p))
    <3>1. Last(p) = q[e]
      BY <2>e, <2>q DEF Last
    <3>2. e \in 1 .. e
      BY <2>q
    <3>3. q[e + 1] \in LinksOf(kids, q[e])
      BY <2>c, <3>2
    <3>4. e + 1 = d + 2
      BY <2>p
    <3> QED
      BY <2>2, <3>1, <3>3, <3>4
  <2>6. k \notin ToSet(p)
    BY <2>3, <2>5, <2>q, ChainGrows
  <2>7. k \notin Parents(p)
    <3>1. /\ Front(p) \in Seq(Nat) /\ Len(Front(p)) = e - 1
          /\ \A i \in 1 .. e - 1 : Front(p)[i] = p[i]
      BY <2>q, ShorterPath
    <3>2. DOMAIN Front(p) = 1 .. e - 1 /\ DOMAIN p = 1 .. e
      BY <2>q, <3>1
    <3>3. \A i \in 1 .. e - 1 : i \in 1 .. e
      OBVIOUS
    <3> QED
      BY <2>6, <3>1, <3>2, <3>3 DEF Parents, ToSet
  <2> QED
    BY <2>2, <2>4, <2>5, <2>7, <2>p, <2>q
<1> DEFINE L == {p \in Chains(kids, roots) : Len(p) = d + 1}
           M == {p \in Chains(kids, roots) : Len(p) = d + 2}
<1>5. ItemsBelow(kids, L) \subseteq M
  <2>1. ASSUME NEW p \in L PROVE \A k \in LinksOf(kids, Last(p)) \ Parents(p) : Append(p, k) \in M
    BY <1>3
  <2> SUFFICES ASSUME NEW q \in ItemsBelow(kids, L) PROVE q \in M
    OBVIOUS
  <2> HIDE DEF L, M
  <2>2. PICK p \in L : q \in {Append(p, k) : k \in LinksOf(kids, Last(p)) \ Parents(p)}
    BY Zenon DEF ItemsBelow
  <2> QED
    BY <2>1, <2>2
<1>6. M \subseteq ItemsBelow(kids, L)
  <2> SUFFICES ASSUME NEW q \in M PROVE q \in ItemsBelow(kids, L)
    OBVIOUS
  <2>1. PICK p \in L : \E k \in LinksOf(kids, Last(p)) \ Parents(p) : q = Append(p, k)
    BY <1>4
  <2> HIDE DEF L, M
  <2> QED
    BY <2>1 DEF ItemsBelow
<1>7. {<<r>> : r \in ToSet(roots)} = ChainsTo(kids, roots, 0)
  <2>1. \A p \in Chains(kids, roots) : p \in ChainsTo(kids, roots, 0) <=> Len(p) = 1
    BY DEF ChainsTo
  <2>2. ChainsTo(kids, roots, 0) \subseteq Chains(kids, roots)
    BY DEF ChainsTo
  <2> QED
    BY <1>1, <1>2, <2>1, <2>2
<1>8. L = ChainsTo(kids, roots, d) /\ M = ChainsTo(kids, roots, d + 1)
  <2>1. (d + 1) + 1 = d + 2
    OBVIOUS
  <2> QED
    BY <2>1 DEF ChainsTo
<1> QED
  BY <1>5, <1>6, <1>7, <1>8

LEMMA UpdatedAreChains ==
  ASSUME NEW kids, Linking(kids), NEW roots, ToSet(roots) \subseteq Nat
  PROVE  UpdatedItems(kids, roots) = Chains(kids, roots)
<1>1. PICK c \in Nat : c = Cardinality(Linked(kids))
  BY LinkedProperties, FS_CardinalityType
<1> DEFINE first == {<<r>> : r \in ToSet(roots)}
           Rec(f) == f = [d \in 0 .. Cardinality(Linked(kids)) |->
                            IF d = 0 THEN {<<r>> : r \in ToSet(roots)} ELSE ItemsBelow(kids, f[d - 1])]
           Level(d) == ChainsTo(kids, roots, d)
           g == [d \in 0 .. c |-> Level(d)]
<1>2. \A d \in Nat : /\ first = Level(0)
                      /\ ItemsBelow(kids, Level(d)) = Level(d + 1)
  BY LevelsAreChains
<1> HIDE DEF Level, first
<1>3. \A d \in 0 .. c : g[d] = IF d = 0 THEN first ELSE ItemsBelow(kids, g[d - 1])
  <2> SUFFICES ASSUME NEW d \in 0 .. c PROVE g[d] = IF d = 0 THEN first ELSE ItemsBelow(kids, g[d - 1])
    OBVIOUS
  <2>1. CASE d = 0
    BY <1>2, <2>1
  <2>2. CASE d # 0
    <3>1. PICK e \in Nat : e = d - 1 /\ e \in 0 .. c /\ e + 1 = d
      BY <2>2
    <3>2. g[d] = Level(d) /\ g[e] = Level(e)
      BY <3>1
    <3>3. Level(e + 1) = ItemsBelow(kids, Level(e))
      BY <1>2
    <3> QED
      BY <2>2, <3>1, <3>2, <3>3
  <2> QED
    BY <2>1, <2>2
<1>4. Rec(g)
  <2>1. g = [d \in 0 .. c |-> g[d]]
    OBVIOUS
  <2> HIDE DEF g
  <2>2. g = [d \in 0 .. c |-> IF d = 0 THEN first ELSE ItemsBelow(kids, g[d - 1])]
    BY <1>3, <2>1, Zenon
  <2> QED
    BY <1>1, <2>2, Zenon DEF first
<1> HIDE DEF g
<1>5. PICK h : Rec(h) /\ UpdatedItems(kids, roots) = UNION {h[d] : d \in 0 .. Cardinality(Linked(kids))}
  BY <1>4, Zenon DEF UpdatedItems
<1>6. \A d \in 0 .. c : h[d] = IF d = 0 THEN first ELSE ItemsBelow(kids, h[d - 1])
  BY <1>1, <1>5, Zenon DEF first
<1> HIDE DEF Rec
<1>7. \A d \in 0 .. c : h[d] = Level(d)
  <2> DEFINE T == {d \in 0 .. c : h[d] = Level(d)}
  <2>1. 0 \in T
    BY <1>2, <1>6
  <2>2. \A d \in 1 .. c : d - 1 \in T => d \in T
    <3> SUFFICES ASSUME NEW d \in 1 .. c, d - 1 \in T PROVE d \in T
      OBVIOUS
    <3>1. PICK e \in Nat : e = d - 1 /\ e \in 0 .. c /\ e + 1 = d
      OBVIOUS
    <3>2. h[e] = Level(e) /\ h[d] = ItemsBelow(kids, h[e])
      BY <1>6, <3>1
    <3>3. Level(e + 1) = ItemsBelow(kids, Level(e))
      BY <1>2
    <3> QED
      BY <3>1, <3>2, <3>3
  <2> HIDE DEF T
  <2>3. 0 .. c \subseteq T
    BY <2>1, <2>2, BoundedInduction
  <2> QED
    BY <2>3 DEF T
<1>8. ASSUME NEW p \in Chains(kids, roots) PROVE Len(p) \in 1 .. c + 1
  <2>1. p \in Seq(Nat) /\ Len(p) > 0 /\ IsChain(kids, p)
    BY DEF Chains
  <2>2. PICK n \in Nat : n = Len(p)
    BY <2>1
  <2>3. CASE n = 1
    BY <2>2, <2>3
  <2>4. CASE n # 1
    <3>1. PICK m \in Nat : m = n - 1 /\ m > 0
      BY <2>1, <2>2, <2>4
    <3>2. /\ Front(p) \in Seq(Nat) /\ Len(Front(p)) = m
          /\ \A i \in 1 .. m : Front(p)[i] = p[i]
      BY <2>1, <2>2, <3>1, ShorterPath
    <3>3. \A i \in 1 .. m : p[i + 1] \in LinksOf(kids, p[i])
      BY <2>1, <2>2, <3>1 DEF IsChain
    <3>4. IsChain(kids, Front(p))
      <4> SUFFICES ASSUME NEW i \in 1 .. m - 1 PROVE Front(p)[i + 1] \in LinksOf(kids, Front(p)[i])
        BY <3>2 DEF IsChain
      <4>1. PICK j \in 1 .. m : j = i + 1
        OBVIOUS
      <4>2. i \in 1 .. m /\ Front(p)[j] = p[j] /\ Front(p)[i] = p[i]
        BY <3>2
      <4> QED
        BY <3>3, <4>1, <4>2
    <3>5. Last(Front(p)) = p[m]
      BY <3>1, <3>2 DEF Last
    <3>6. p[m + 1] \in LinksOf(kids, Last(Front(p)))
      <4>1. m \in 1 .. m
        BY <3>1
      <4> QED
        BY <3>3, <3>5, <4>1
    <3>7. Len(Front(p)) <= Cardinality(Linked(kids))
      BY <3>1, <3>2, <3>4, <3>6, ChainGrows
    <3> QED
      BY <1>1, <2>2, <3>1, <3>2, <3>7
  <2> QED
    BY <2>3, <2>4
<1>9. UNION {h[d] : d \in 0 .. c} = Chains(kids, roots)
  <2>1. ASSUME NEW p \in Chains(kids, roots) PROVE p \in UNION {h[d] : d \in 0 .. c}
    <3>1. PICK d \in 0 .. c : Len(p) = d + 1
      <4>1. PICK n \in 1 .. c + 1 : n = Len(p)
        BY <1>8
      <4>2. n - 1 \in 0 .. c /\ n = (n - 1) + 1
        OBVIOUS
      <4> QED
        BY <4>1, <4>2
    <3>2. p \in h[d]
      BY <1>7, <3>1 DEF Level, ChainsTo
    <3> QED
      BY <3>2
  <2>2. ASSUME NEW d \in 0 .. c PROVE h[d] \subseteq Chains(kids, roots)
    BY <1>7 DEF Level, ChainsTo
  <2> QED
    BY <2>1, <2>2
<1> QED
  BY <1>1, <1>5, <1>9

-----------------------------------------------------------------------------
(* The items of a tree built from nothing.                                 *)

IsTree(paths) == paths \subseteq Seq(Nat) /\ \A p \in paths : Len(p) > 1 => Front(p) \in paths

(* Caches of a document, perhaps of an earlier one.                       *)
Followable(kids, ptrs, roots) ==
  /\ Linking(kids)
  /\ \A n : LinksOf(ptrs, n) \subseteq Nat
  /\ ToSet(roots) \subseteq Nat

(* An item is updated, or it is a parent link of an updated one.           *)
LEMMA BuiltItemsProperties ==
  ASSUME NEW kids, NEW ptrs, NEW roots, Followable(kids, ptrs, roots)
  PROVE  LET items == BuiltItems(kids, ptrs, roots)
             updated == UpdatedItems(kids, roots)
         IN /\ IsTree(items) /\ IsTree(updated) /\ updated \subseteq items
            /\ \A r \in ToSet(roots) : <<r>> \in updated
            /\ \A p \in updated : Len(p) > 0 /\ \A k \in LinksOf(kids, Last(p)) : Append(p, k) \in updated
            /\ \A p \in items \ updated :
                 \E q \in updated : \E k \in LinksOf(ptrs, Last(q)) \ LinksOf(kids, Last(q)) : p = Append(q, k)
<1> DEFINE updated == UpdatedItems(kids, roots)
           items == BuiltItems(kids, ptrs, roots)
           below(p) == {Append(p, k) : k \in LinksOf(kids, Last(p)) \cup LinksOf(ptrs, Last(p))}
<1>1. updated = Chains(kids, roots)
  BY UpdatedAreChains DEF Followable
<1>2. \A p \in updated : p \in Seq(Nat) /\ Len(p) > 0 /\ p[1] \in ToSet(roots) /\ IsChain(kids, p)
  BY <1>1 DEF Chains
<1>3. \A r \in ToSet(roots) : <<r>> \in updated
  <2> SUFFICES ASSUME NEW r \in ToSet(roots) PROVE <<r>> \in Chains(kids, roots)
    BY <1>1
  <2>1. r \in Nat
    BY DEF Followable
  <2> QED
    BY <2>1 DEF Chains, IsChain
<1>4. ASSUME NEW p \in updated, NEW k \in LinksOf(kids, Last(p)) PROVE Append(p, k) \in updated
  <2>1. p \in Seq(Nat) /\ Len(p) > 0 /\ p[1] \in ToSet(roots) /\ IsChain(kids, p)
    BY <1>2
  <2>2. k \in Nat /\ IsChain(kids, Append(p, k))
    BY <2>1, ChainGrows DEF Followable
  <2>3. Append(p, k) \in Seq(Nat) /\ Len(Append(p, k)) = Len(p) + 1 /\ Append(p, k)[1] = p[1]
    BY <2>1, <2>2, AppendProperties
  <2> DEFINE q == Append(p, k)
  <2>4. q \in Seq(Nat) /\ Len(q) > 0 /\ q[1] \in ToSet(roots) /\ IsChain(kids, q)
    BY <2>1, <2>2, <2>3
  <2> HIDE DEF q
  <2>5. q \in Chains(kids, roots)
    BY <2>4 DEF Chains
  <2> QED
    BY <1>1, <2>5 DEF q
<1>5. ASSUME NEW p \in updated, Len(p) > 1 PROVE Front(p) \in updated
  <2>1. p \in Seq(Nat) /\ p[1] \in ToSet(roots) /\ IsChain(kids, p)
    BY <1>2
  <2>2. PICK m \in Nat : m = Len(p) - 1 /\ m > 0 /\ Len(p) = m + 1
    BY <1>5, <2>1
  <2>3. PICK q \in Seq(Nat) : q = Front(p) /\ Len(q) = m /\ \A i \in 1 .. m : q[i] = p[i]
    BY <2>1, <2>2, ShorterPath
  <2>4. \A i \in 1 .. m : p[i + 1] \in LinksOf(kids, p[i])
    BY <2>1, <2>2 DEF IsChain
  <2>5. IsChain(kids, q)
    <3> SUFFICES ASSUME NEW i \in 1 .. m - 1 PROVE q[i + 1] \in LinksOf(kids, q[i])
      BY <2>3 DEF IsChain
    <3>1. PICK j \in 1 .. m : j = i + 1
      OBVIOUS
    <3>2. i \in 1 .. m /\ q[j] = p[j] /\ q[i] = p[i]
      BY <2>3
    <3> QED
      BY <2>4, <3>1, <3>2
  <2>6. q[1] = p[1]
    BY <2>2, <2>3
  <2>7. q \in Chains(kids, roots)
    BY <2>1, <2>2, <2>3, <2>5, <2>6 DEF Chains
  <2> QED
    BY <1>1, <2>3, <2>7
<1>6. IsTree(updated)
  BY <1>2, <1>5 DEF IsTree
<1>7. items = updated \cup UNION {below(p) : p \in updated}
  BY DEF BuiltItems
<1> HIDE DEF updated, items, below
<1>8. ASSUME NEW q \in items
      PROVE  \/ q \in updated
             \/ \E p \in updated : \E k \in LinksOf(ptrs, Last(p)) \ LinksOf(kids, Last(p)) : q = Append(p, k)
  <2> SUFFICES ASSUME q \notin updated
               PROVE  \E p \in updated : \E k \in LinksOf(ptrs, Last(p)) \ LinksOf(kids, Last(p)) : q = Append(p, k)
    OBVIOUS
  <2>1. PICK p \in updated : q \in below(p)
    BY <1>7
  <2>2. PICK k \in LinksOf(kids, Last(p)) \cup LinksOf(ptrs, Last(p)) : q = Append(p, k)
    BY <2>1 DEF below
  <2>3. k \notin LinksOf(kids, Last(p))
    BY <1>4, <2>2
  <2> QED
    BY <2>2, <2>3
<1>9. ASSUME NEW q \in items PROVE q \in Seq(Nat) /\ (Len(q) > 1 => Front(q) \in items)
  <2>1. CASE q \in updated
    BY <1>2, <1>5, <1>7, <2>1
  <2>2. ASSUME NEW p \in updated, NEW k \in LinksOf(ptrs, Last(p)), q = Append(p, k)
        PROVE  q \in Seq(Nat) /\ Front(q) \in items
    <3>1. p \in Seq(Nat) /\ k \in Nat
      BY <1>2 DEF Followable
    <3>2. q \in Seq(Nat) /\ Front(q) = p
      BY <2>2, <3>1, LongerPath
    <3> QED
      BY <1>7, <3>2
  <2> QED
    BY <1>8, <2>1, <2>2
<1>10. IsTree(items)
  BY <1>9 DEF IsTree
<1>11. updated \subseteq items
  BY <1>7
<1>12. \A p \in updated : Len(p) > 0
  BY <1>2
<1> QED
  BY <1>3, <1>4, <1>6, <1>8, <1>10, <1>11, <1>12 DEF updated, items

-----------------------------------------------------------------------------
(* The update of a tree.                                                   *)

(* Below a parent link that is no child link.                              *)
Stays(p, built, kids, ptrs) ==
  \E n \in 1 .. Len(p) - 1 :
    /\ SubSeq(p, 1, n) \in built
    /\ n > 1 /\ p[n] \in LinksOf(ptrs, p[n - 1]) \ LinksOf(kids, p[n - 1])

LEMMA UpdateRootProperties ==
  ASSUME NEW kids, NEW ptrs, NEW roots, Followable(kids, ptrs, roots), NEW count,
         NEW old, IsTree(old)
  PROVE  LET built == UpdateRoot({}, kids, ptrs, roots, count)
             new == UpdateRoot(old, kids, ptrs, roots, count)
         IN /\ IsTree(new) /\ built \subseteq new
            /\ \A p \in new \ built : Stays(p, built, kids, ptrs)
            /\ count # 0 => UpdatedItems(kids, roots) \subseteq built
<1> DEFINE built == UpdateRoot({}, kids, ptrs, roots, count)
           new == UpdateRoot(old, kids, ptrs, roots, count)
           items == BuiltItems(kids, ptrs, roots)
           updated == UpdatedItems(kids, roots)
           keeps == {p \in old : \E n \in 1 .. Len(p) - 1 : SubSeq(p, 1, n) \in items \ updated}
<1>1. CASE count = 0
  BY <1>1 DEF UpdateRoot, IsTree
<1>2. CASE count # 0
  <2>1. built = items /\ new = items \cup keeps
    BY <1>2 DEF UpdateRoot, Kept
  <2>2. /\ IsTree(items) /\ IsTree(updated) /\ updated \subseteq items
        /\ \A p \in updated : Len(p) > 0
        /\ \A p \in items \ updated :
             \E q \in updated : \E k \in LinksOf(ptrs, Last(q)) \ LinksOf(kids, Last(q)) : p = Append(q, k)
    BY BuiltItemsProperties
  <2> HIDE DEF built, new, items, updated
  <2>3. ASSUME NEW p \in keeps
        PROVE  p \in Seq(Nat) /\ (Len(p) > 1 => Front(p) \in items \cup keeps) /\ Stays(p, items, kids, ptrs)
    <3>1. p \in old /\ p \in Seq(Nat)
      BY DEF IsTree
    <3>2. PICK m \in Nat : m = Len(p)
      BY <3>1
    <3>3. PICK n \in 1 .. m - 1 : SubSeq(p, 1, n) \in items \ updated
      BY <3>2
    <3>4. PICK q \in Seq(Nat) : q = SubSeq(p, 1, n) /\ Len(q) = n /\ \A i \in 1 .. n : q[i] = p[i]
      <4>1. n \in Nat /\ n <= Len(p)
        BY <3>2
      <4> QED
        BY <3>1, <4>1, PathPrefix
    <3>5. Stays(p, items, kids, ptrs)
      <4>1. PICK u \in updated : \E k \in LinksOf(ptrs, Last(u)) \ LinksOf(kids, Last(u)) : q = Append(u, k)
        BY <2>2, <3>3, <3>4
      <4>2. PICK k \in LinksOf(ptrs, Last(u)) \ LinksOf(kids, Last(u)) : q = Append(u, k)
        BY <4>1
      <4>3. u \in Seq(Nat) /\ Len(u) > 0 /\ k \in Nat
        BY <2>2, <4>1, <4>2 DEF IsTree, Followable
      <4>4. Len(q) = Len(u) + 1 /\ q[Len(u) + 1] = k /\ \A i \in 1 .. Len(u) : q[i] = u[i]
        BY <4>2, <4>3, AppendProperties
      <4>5. PICK l \in Nat : l = Len(u) /\ l > 0 /\ n = l + 1
        BY <3>4, <4>3, <4>4
      <4>6. Last(u) = q[l] /\ k = q[n]
        BY <4>4, <4>5 DEF Last
      <4>7. l \in 1 .. n /\ n \in 1 .. n /\ n > 1 /\ l = n - 1
        BY <4>5
      <4>8. k = p[n] /\ Last(u) = p[n - 1]
        BY <3>4, <4>6, <4>7
      <4>9. p[n] \in LinksOf(ptrs, p[n - 1]) \ LinksOf(kids, p[n - 1])
        BY <4>2, <4>8
      <4> QED
        BY <3>2, <3>3, <4>7, <4>9 DEF Stays
    <3>6. Front(p) \in items \cup keeps
      <4>1. m > 1 /\ Front(p) = SubSeq(p, 1, m - 1)
        BY <3>2, <3>3 DEF Front
      <4>2. CASE n = m - 1
        BY <3>3, <4>1, <4>2
      <4>3. CASE n # m - 1
        <5>1. n \in 1 .. (m - 1) - 1
          BY <4>3
        <5>2. Front(p) \in old
          BY <3>1, <3>2, <4>1 DEF IsTree
        <5>3. PICK f \in Seq(Nat) : f = Front(p) /\ Len(f) = m - 1 /\ \A i \in 1 .. m - 1 : f[i] = p[i]
          <6>1. Len(p) > 0
            BY <3>2, <4>1
          <6>2. /\ Front(p) \in Seq(Nat) /\ Len(Front(p)) = Len(p) - 1
                /\ \A i \in 1 .. Len(p) - 1 : Front(p)[i] = p[i]
            BY <3>1, <6>1, ShorterPath
          <6> QED
            BY <3>2, <6>2
        <5>4. PICK g \in Seq(Nat) : g = SubSeq(f, 1, n) /\ Len(g) = n /\ \A i \in 1 .. n : g[i] = f[i]
          <6>1. n \in Nat /\ n <= Len(f)
            BY <5>1, <5>3
          <6> QED
            BY <6>1, PathPrefix
        <5>5. \A i \in 1 .. n : g[i] = q[i]
          <6>1. \A i \in 1 .. n : i \in 1 .. m - 1
            BY <5>1
          <6> QED
            BY <3>4, <5>3, <5>4, <6>1
        <5>6. g = q
          BY <3>4, <5>4, <5>5, SeqEqual
        <5>7. SubSeq(Front(p), 1, n) \in items \ updated
          BY <3>3, <3>4, <5>3, <5>4, <5>6
        <5>8. n \in 1 .. Len(Front(p)) - 1
          BY <5>1, <5>3
        <5> QED
          BY <5>2, <5>7, <5>8
      <4> QED
        BY <4>2, <4>3
    <3> QED
      BY <3>1, <3>5, <3>6
  <2>4. IsTree(items \cup keeps)
    <3> HIDE DEF keeps
    <3> QED
      BY <2>2, <2>3 DEF IsTree
  <2>5. \A p \in new \ built : Stays(p, built, kids, ptrs)
    BY <2>1, <2>3
  <2>6. IsTree(new) /\ built \subseteq new /\ updated \subseteq built
    BY <2>1, <2>2, <2>4
  <2> QED
    BY <2>5, <2>6 DEF built, new, updated
<1> QED
  BY <1>1, <1>2

-----------------------------------------------------------------------------
(* The caches, also those that are out of date, are ones of a document.    *)

Fresh ==
  /\ childLinks = LinkCaches(order, type, link).child
  /\ parentLinks = LinkCaches(order, type, link).parent
  /\ rootLinks = LinkCaches(order, type, link).root

CachesFollowable == Followable(childLinks, parentLinks, rootLinks)

LEMMA FreshIsFollowable == DocumentOK /\ Fresh => CachesFollowable
<1> SUFFICES ASSUME DocumentOK, Fresh PROVE CachesFollowable
  OBVIOUS
<1> DEFINE c == LinkCaches(order, type, link)
           N == Numbers(Len(order))
<1>1. PICK k, loose : Derived(c, k, loose, order, type, link)
  BY DocumentDerived, DocumentParts
<1>2. order \in Seq(Block)
  BY DEF DocumentOK
<1> HIDE DEF c
<1>3. Acyclic(c.child, N)
  BY <1>1, <1>2, DerivedAcyclic
<1>4. /\ c.child \in Caches(N) /\ c.parent \in Caches(N)
      /\ loose \subseteq N
      /\ ToSet(c.root) \subseteq N
      /\ \A n \in N : /\ ToSet(k[n]) \subseteq Nat /\ ToSet(c.parent[n]) \subseteq Nat
                       /\ ToSet(c.child[n]) \subseteq ToSet(k[n]) \cup loose
  <2>1. /\ c.child \in Caches(N) /\ c.parent \in Caches(N)
        /\ loose = {n \in N : (\A p \in N : n \notin Succ(k, p)) /\ BS151
                              /\ type[order[n + 1]] = TextureSet}
        /\ ToSet(c.root) = {n \in N : \A p \in N : n \notin Succ(k, p)} \ loose
        /\ \A n \in N : ToSet(k[n]) \subseteq Nat
        /\ \A n \in N : ToSet(c.parent[n]) \subseteq Nat
        /\ \A n \in N : ToSet(c.child[n]) = ToSet(k[n]) \cup
             (IF n + 1 \in loose /\ type[order[n + 1]] = LightingShader THEN {n + 1} ELSE {})
    BY <1>1 DEF Derived
  <2> HIDE DEF N
  <2>2. loose \subseteq N /\ ToSet(c.root) \subseteq N
    BY <2>1
  <2>3. \A n \in N : ToSet(c.child[n]) \subseteq ToSet(k[n]) \cup loose
    BY <2>1
  <2> QED
    BY <2>1, <2>2, <2>3
<1>5. IsFiniteSet(N) /\ N \subseteq Nat
  <2>0. PICK len \in Nat : len = Len(order)
    BY <1>2
  <2>1. PICK m \in Int : m = Len(order) - 1
    <3>1. len - 1 \in Int
      OBVIOUS
    <3> QED
      BY <2>0, <3>1
  <2>2. N = 0 .. m
    BY <2>1 DEF Numbers
  <2>3. IsFiniteSet(0 .. m)
    BY FS_Interval
  <2> HIDE DEF N
  <2>4. 0 .. m \subseteq Nat
    OBVIOUS
  <2> QED
    BY <2>2, <2>3, <2>4
<1> HIDE DEF N
<1>6. DOMAIN c.child = N /\ DOMAIN c.parent = N
  BY <1>4 DEF Caches
<1>7. Linking(c.child)
  BY <1>3, <1>4, <1>5, <1>6 DEF Linking
<1>8. \A n : LinksOf(c.parent, n) \subseteq Nat
  BY <1>4, <1>6 DEF LinksOf
<1>9. childLinks = c.child /\ parentLinks = c.parent /\ rootLinks = c.root
  BY DEF Fresh, c
<1> QED
  BY <1>4, <1>5, <1>7, <1>8, <1>9 DEF CachesFollowable, Followable

LEMMA UpdateChangesCaches ==
  ASSUME NEW what, NEW f, Update(what, f) \/ Refresh(what, f)
  PROVE  UNCHANGED caches \/ Fresh'
BY DEF Update, Refresh, Fresh

LEMMA StepChangesCaches == [Next]_vars => UNCHANGED caches \/ Fresh'
<1> SUFFICES ASSUME [Next]_vars PROVE UNCHANGED caches \/ Fresh'
  OBVIOUS
<1>1. CASE \E what, f : Update(what, f) \/ Refresh(what, f)
  BY <1>1, UpdateChangesCaches
<1>2. CASE UNCHANGED caches
  BY <1>2
<1>3. ASSUME NEW n, NEW values, LoadIndex(n, values)
      PROVE  \E what, f : Update(what, f) \/ Refresh(what, f)
  BY <1>3 DEF LoadIndex, UpdateKnown
<1>4. (\E what, f : Update(what, f) \/ Refresh(what, f)) \/ UNCHANGED caches
  <2>1. ASSUME NEW b, NEW at, InsertNiBlock(b, at) PROVE \E what, f : Update(what, f)
    BY <2>1 DEF InsertNiBlock, UpdateKnown
  <2>2. ASSUME NEW n, RemoveNiBlock(n) PROVE \E what, f : Update(what, f)
    BY <2>2 DEF RemoveNiBlock, UpdateKnown
  <2>3. ASSUME NEW src, NEW dst, MoveNiBlock(src, dst) PROVE \E what, f : Update(what, f)
    BY <2>3 DEF MoveNiBlock, UpdateKnown
  <2>4. ASSUME NEW newNumber, ReorderBlocks(newNumber) PROVE \E what, f : Update(what, f)
    BY <2>4 DEF ReorderBlocks, UpdateKnown
  <2>5. ASSUME NEW map, MapAllLinks(map) PROVE \E what, f : Update(what, f)
    BY <2>5 DEF MapAllLinks, UpdateKnown
  <2>6. ASSUME NEW n, NEW s, NEW l, SetLink(n, s, l) PROVE \E what, f : Update(what, f)
    BY <2>6 DEF SetLink, UpdateKnown
  <2>7. ASSUME NEW n, NEW gone, DropFields(n, gone) PROVE \E what, f : Update(what, f)
    BY <2>7 DEF DropFields, UpdateKnown
  <2>8. ASSUME NEW n, NEW t, ConvertNiBlock(n, t) PROVE \E what, f : Update(what, f)
    BY <2>8 DEF ConvertNiBlock, UpdateKnown
  <2>9. ASSUME NEW n, NEW values, NEW map, LoadAndMapLinks(n, values, map)
        PROVE  \E what, f : Update(what, f) \/ Refresh(what, f)
    <3> DEFINE mapped == [s \in Slot |-> MapLink(values[s], map)]
    <3>1. LoadIndex(n, mapped)
      BY <2>9 DEF LoadAndMapLinks
    <3> HIDE DEF mapped
    <3> QED
      BY <1>3, <3>1
  <2>10. ASSUME NEW i, NEW l, SetFooterLink(i, l) PROVE UNCHANGED caches
    BY <2>10 DEF SetFooterLink
  <2>11. BeginHold \/ FailHold \/ UNCHANGED vars => UNCHANGED caches
    BY DEF BeginHold, FailHold, vars
  <2>12. EndHold => \E what, f : Refresh(what, f)
    BY DEF EndHold
  <2>13. Save => \E what, f : Update(what, f)
    BY DEF Save
  <2>14. ASSUME NEW n, NEW values, SetLinksSilently(n, values) PROVE UNCHANGED caches
    BY <2>14 DEF SetLinksSilently
  <2> QED
    BY <1>3, <2>1, <2>2, <2>3, <2>4, <2>5, <2>6, <2>7, <2>8, <2>9, <2>10, <2>11, <2>12, <2>13, <2>14
       DEF Next, DocumentNext
<1> QED
  BY <1>1, <1>2, <1>4

LEMMA InitCaches == Init => CachesFollowable
<1> SUFFICES ASSUME Init PROVE CachesFollowable
  OBVIOUS
<1>1. DocumentOK
  BY InitInvariant DEF IInv
<1>2. Fresh
  BY DEF Init, Fresh
<1> QED
  BY <1>1, <1>2, FreshIsFollowable

LEMMA StepCaches ==
  IInv' /\ CachesFollowable /\ [Next]_vars => CachesFollowable'
<1>1. DocumentOK' /\ Fresh' => CachesFollowable'
  BY FreshIsFollowable, PTL
<1>2. CachesFollowable /\ UNCHANGED caches => CachesFollowable'
  BY DEF CachesFollowable, caches
<1> QED
  BY <1>1, <1>2, StepChangesCaches DEF IInv

-----------------------------------------------------------------------------
(* The invariant.                                                          *)

TreeInv == CachesFollowable /\ IsTree(tree) /\ TreeIsRebuilt

LEMMA InitTree == ListInit => IInv /\ TreeInv
<1> SUFFICES ASSUME ListInit PROVE IInv /\ TreeInv
  OBVIOUS
<1>1. IInv /\ CachesFollowable
  BY InitInvariant, InitCaches DEF ListInit
<1>2. IsTree({})
  BY DEF IsTree
<1>3. tree = Rebuilt /\ IsTree(tree)
  BY <1>1, <1>2, UpdateRootProperties DEF ListInit, Rebuilt, CachesFollowable
<1> QED
  BY <1>1, <1>3 DEF TreeInv, TreeIsRebuilt

LEMMA LinksChangedTree ==
  ASSUME NEW old, IsTree(old), CachesFollowable', LinksChanged(old)
  PROVE  IsTree(tree') /\ TreeIsRebuilt'
<1>1. /\ tree' = UpdateRoot(old, childLinks', parentLinks', rootLinks', Len(order'))
      /\ Rebuilt' = UpdateRoot({}, childLinks', parentLinks', rootLinks', Len(order'))
  BY DEF LinksChanged, Rebuilt, Count
<1>2. Followable(childLinks', parentLinks', rootLinks')
  BY DEF CachesFollowable
<1>3. /\ IsTree(tree') /\ Rebuilt' \subseteq tree'
      /\ \A p \in tree' \ Rebuilt' : Stays(p, Rebuilt', childLinks', parentLinks')
  BY <1>1, <1>2, UpdateRootProperties
<1> QED
  BY <1>3 DEF TreeIsRebuilt, Stays

LEMMA WithoutBlockTree ==
  ASSUME IsTree(tree), NEW n
  PROVE  IsTree(WithoutBlock(n))
<1> SUFFICES ASSUME NEW p \in tree, n \notin ToSet(p), Len(p) > 1
             PROVE  n \notin ToSet(Front(p)) /\ Front(p) \in tree
  BY DEF IsTree, WithoutBlock
<1>1. p \in Seq(Nat) /\ Front(p) \in tree
  BY DEF IsTree
<1>2. PICK m \in Nat : m = Len(p) /\ m > 1
  BY <1>1
<1>3. /\ Front(p) \in Seq(Nat) /\ Len(Front(p)) = m - 1
      /\ \A i \in 1 .. m - 1 : Front(p)[i] = p[i]
  BY <1>1, <1>2, ShorterPath
<1>4. DOMAIN p = 1 .. m /\ DOMAIN Front(p) = 1 .. m - 1 /\ \A i \in 1 .. m - 1 : i \in 1 .. m
  BY <1>1, <1>2, <1>3
<1> QED
  BY <1>1, <1>3, <1>4 DEF ToSet

LEMMA ListStep == ListNext => Next
BY DEF ListNext, ListInsert, ListRemove, ListMove, ListReorder, ListEdit, ListEndHold, ListSilent, Next, DocumentNext

(* What leaves the tree alone leaves the caches alone.                     *)
LEMMA SilentStep ==
  ASSUME ListSilent \/ (ListEndHold /\ "links" \notin needUpdates)
  PROVE  UNCHANGED <<tree, order, caches>>
<1>1. ASSUME NEW i, NEW l, SetFooterLink(i, l) PROVE UNCHANGED <<order, caches>>
  BY <1>1 DEF SetFooterLink, document
<1>2. BeginHold \/ FailHold => UNCHANGED <<order, caches>>
  BY DEF BeginHold, FailHold, document
<1>3. Save => UNCHANGED <<order, caches>>
  BY DEF Save, Update, Refresh, document
<1>4. EndHold /\ "links" \notin needUpdates => UNCHANGED <<order, caches>>
  BY DEF EndHold, Refresh, document
<1>5. ASSUME NEW n, NEW values, SetLinksSilently(n, values) PROVE UNCHANGED <<order, caches>>
  BY <1>5 DEF SetLinksSilently
<1> QED
  BY <1>1, <1>2, <1>3, <1>4, <1>5 DEF ListSilent, ListEndHold

LEMMA StepTree == IInv' /\ TreeInv /\ [ListNext]_listVars => TreeInv'
<1> SUFFICES ASSUME IInv', TreeInv, [ListNext]_listVars PROVE TreeInv'
  OBVIOUS
<1>1. [Next]_vars
  BY ListStep DEF listVars
<1>2. CachesFollowable'
  BY <1>1, StepCaches DEF TreeInv
<1>3. IsTree(tree) /\ IsTree({})
  BY DEF TreeInv, IsTree
<1>4. ASSUME NEW old, IsTree(old), LinksChanged(old) PROVE TreeInv'
  BY <1>2, <1>4, LinksChangedTree DEF TreeInv
<1>5. ASSUME UNCHANGED <<tree, order, caches>> PROVE TreeInv'
  BY <1>2, <1>5 DEF TreeInv, TreeIsRebuilt, Rebuilt, Count, caches, IsTree
<1>6. CASE ListInsert
  BY <1>3, <1>4, <1>6 DEF ListInsert
<1>7. CASE ListRemove
  BY <1>3, <1>4, <1>7, WithoutBlockTree DEF ListRemove
<1>8. CASE ListMove
  BY <1>3, <1>4, <1>8, WithoutBlockTree DEF ListMove
<1>9. CASE ListReorder
  BY <1>3, <1>4, <1>9 DEF ListReorder
<1>10. CASE ListEdit
  BY <1>3, <1>4, <1>10 DEF ListEdit
<1>11. CASE ListEndHold
  <2>1. CASE "links" \in needUpdates
    BY <1>3, <1>4, <1>11, <2>1 DEF ListEndHold
  <2>2. CASE "links" \notin needUpdates
    BY <1>5, <1>11, <2>2, SilentStep
  <2> QED
    BY <2>1, <2>2
<1>12. CASE ListSilent
  BY <1>5, <1>12, SilentStep
<1>13. CASE UNCHANGED listVars
  BY <1>5, <1>13 DEF listVars, vars, document
<1> QED
  BY <1>6, <1>7, <1>8, <1>9, <1>10, <1>11, <1>12, <1>13 DEF ListNext

(* Whoever follows the child links from the roots passes through items.    *)
LEMMA ListedBlocks == IInv /\ TreeInv => EveryBlockListed
<1> SUFFICES ASSUME IInv, TreeInv, ~lockUpdates, NEW n \in Numbers(Count), ~Unfiled(n)
             PROVE  \E p \in tree : Last(p) = n
  BY DEF EveryBlockListed
<1> DEFINE updated == UpdatedItems(childLinks, rootLinks)
           C == {m \in Numbers(Count) : \E p \in updated : Last(p) = m}
           R == Reach(ToSet(rootLinks), Kids)
<1>1. PICK k, loose : Derived(CurrentCaches, k, loose, order, type, known)
  BY CurrentDerived
<1>2. order \in Seq(Block)
  BY DEF IInv, DocumentOK
<1>3. /\ ToSet(rootLinks) \subseteq Numbers(Count)
      /\ Numbers(Count) \ R \subseteq loose
  <2>1. Kids = Kids \/ Kids = Refers
    OBVIOUS
  <2> HIDE DEF R
  <2> QED
    BY <1>1, <1>2, <2>1, CurrentCovers DEF R
<1>4. n \in R
  <2>1. \A p \in loose : Unfiled(p)
    BY <1>1 DEF Derived, Unfiled
  <2> QED
    BY <1>3, <2>1
<1>5. /\ DOMAIN Kids = Numbers(Count)
      /\ \A m \in Numbers(Count) : /\ Kids[m] \subseteq Numbers(Count)
                                   /\ Kids[m] \subseteq LinksOf(childLinks, m)
  <2>1. DOMAIN childLinks = Numbers(Count)
    BY <1>1 DEF Derived, CurrentCaches, Count, Caches
  <2> QED
    BY <2>1 DEF Kids, LinksOf
<1>6. /\ \A r \in ToSet(rootLinks) : <<r>> \in updated
      /\ \A p \in updated : \A m \in LinksOf(childLinks, Last(p)) : Append(p, m) \in updated
      /\ \A p \in updated : p \in Seq(Nat)
  BY BuiltItemsProperties DEF TreeInv, CachesFollowable, IsTree
<1> HIDE DEF updated
<1>7. ToSet(rootLinks) \subseteq C
  <2> SUFFICES ASSUME NEW r \in ToSet(rootLinks) PROVE r \in C
    OBVIOUS
  <2>1. r \in Numbers(Count) /\ <<r>> \in updated /\ Last(<<r>>) = r
    BY <1>3, <1>6 DEF Last
  <2> QED
    BY <2>1
<1>8. \A m \in C : Kids[m] \subseteq C
  <2> SUFFICES ASSUME NEW m \in C, NEW c \in Kids[m] PROVE c \in C
    OBVIOUS
  <2>1. PICK p \in updated : Last(p) = m
    OBVIOUS
  <2>2. c \in Numbers(Count) /\ Append(p, c) \in updated
    BY <1>5, <1>6, <2>1
  <2>3. Last(Append(p, c)) = c
    <3>1. c \in Nat
      BY <2>2 DEF Numbers
    <3> QED
      BY <1>6, <3>1, LongerPath
  <2> QED
    BY <2>2, <2>3
<1>9. R \subseteq C
  <2> HIDE DEF C
  <2>1. C \in SUBSET DOMAIN Kids
    BY <1>5 DEF C
  <2>2. ToSet(rootLinks) \in SUBSET DOMAIN Kids
    BY <1>3, <1>5
  <2>3. \A m \in DOMAIN Kids : Kids[m] \subseteq DOMAIN Kids
    BY <1>5
  <2> QED
    BY <1>7, <1>8, <2>1, <2>2, <2>3, ReachProperties
<1>10. PICK p \in updated : Last(p) = n
  BY <1>4, <1>9
<1>11. updated \subseteq Rebuilt
  <2>1. Count # 0
    BY <1>2 DEF Count, Numbers
  <2>2. IsTree({})
    BY DEF IsTree
  <2> QED
    BY <2>1, <2>2, UpdateRootProperties DEF TreeInv, CachesFollowable, Rebuilt, updated
<1> QED
  BY <1>10, <1>11 DEF TreeInv, TreeIsRebuilt

-----------------------------------------------------------------------------
(* What holds in every behaviour.                                          *)

LEMMA ListInvariant == ListSpec => [](IInv /\ TreeInv)
<1>1. IInv /\ TreeInv /\ [ListNext]_listVars => IInv' /\ TreeInv'
  <2>1. [ListNext]_listVars => [Next]_vars
    BY ListStep DEF listVars
  <2> QED
    BY <2>1, StepInvariant, StepTree
<1> QED
  BY <1>1, InitTree, PTL DEF ListSpec

(* The items of the block list form a tree of block numbers, also while    *)
(* the caches it is updated from are out of date.                          *)
THEOREM TreeIsTree == ListSpec => []TreeOK
<1>1. IInv /\ TreeInv => TreeOK
  BY DEF TreeInv, TreeOK, IsTree, IInv, TypeOK
<1> QED
  BY <1>1, ListInvariant, PTL

(* The tree that updateRoot and updateItem update item by item is the one  *)
(* they would build from nothing, but for items below a parent link that   *)
(* was a child link before.                                                *)
THEOREM TreeStaysRebuilt == ListSpec => []TreeIsRebuilt
<1>1. TreeInv => TreeIsRebuilt
  BY DEF TreeInv
<1> QED
  BY <1>1, ListInvariant, PTL

(* Whenever the updates are not held, every block but a texture set nobody *)
(* refers to can be selected in the list.                                  *)
THEOREM BlocksStayListed == ListSpec => []EveryBlockListed
BY ListedBlocks, ListInvariant, PTL
=============================================================================
