------------------------------- MODULE Links -------------------------------
(***************************************************************************)
(* The link caches of NifModel (model/nifmodel.cpp): which blocks a block  *)
(* refers to, by child and by parent links, and which ones are roots.  The *)
(* handlers of NifModel keep them, and block list and spells use them.     *)
(***************************************************************************)
EXTENDS Numbering, FiniteSets

CONSTANTS
  NumRefs,        \* fields 1 .. NumRefs hold child links (Ref in nif.xml)
  NumPtrs,        \* the fields after them hold parent links (Ptr)
  BS151           \* bsVersion >= 151 (Fallout 76 and later)

ASSUME SlotAssumption == NumRefs \in Nat /\ NumPtrs \in Nat

RefSlot == 1 .. NumRefs
PtrSlot == (NumRefs + 1) .. (NumRefs + NumPtrs)
Slot    == 1 .. (NumRefs + NumPtrs)

TextureSet == "BSShaderTextureSet"
LightingShader == "BSLightingShaderProperty"

-----------------------------------------------------------------------------
(* The link caches: updateLinks and checkLinks.                            *)

(* The non-negative links of a block in field order, each number once.     *)
LinkListPositive(fields, slots) ==   \* mutant: takes block 0 for no block
  Distinct(Sublist([s \in Slot |-> IF s \in slots THEN fields[s] ELSE NoLink], Nat \ {0}))

LinkList(fields, slots) ==
  Distinct(Sublist([s \in Slot |-> IF s \in slots THEN fields[s] ELSE NoLink], Nat))

(* Child link k of block b: a link back to a block on the current path is  *)
(* dropped from the caches as soon as it is met, any other one is visited. *)
FollowedLink(visit, b, path, k, caches) ==
  CASE k \in path -> [caches EXCEPT ![b] = Sublist(@, Int \ {k})]
    [] k \in DOMAIN caches \ path -> visit[path \cup {k}][k][caches]
    [] k \notin DOMAIN caches \cup path -> caches

(* The child links b has had at first, one after the other.                *)
Followed(visit, b, path, caches) ==
  LET after[i \in 0 .. Len(caches[b])] ==
        IF i = 0 THEN caches
        ELSE FollowedLink(visit, b, path, caches[b][i], after[i - 1])
  IN after[Len(caches[b])]

(* A visit of the last block of a path that changes nothing, and one that  *)
(* follows its links with the given visit.                                 *)
NoVisit(N) == [path \in SUBSET N |-> [b \in N |-> [caches \in [N -> Seq(Int)] |-> caches]]]

Visit(visit, N) ==
  [path \in SUBSET N |-> [b \in N |-> [caches \in [N -> Seq(Int)] |->
     Followed(visit, b, path, caches)]]]

(* Depth first from block c.  No path is longer than there are blocks.     *)
CheckLinks(kids, c) ==
  LET visit[d \in 0 .. Cardinality(DOMAIN kids)] ==
        IF d = 0 THEN NoVisit(DOMAIN kids) ELSE Visit(visit[d - 1], DOMAIN kids)
  IN visit[Cardinality(DOMAIN kids)][{c}][c][kids]

BreakCyclesOfFirst(kids) ==   \* mutant: checks the first block only
  IF 0 \in DOMAIN kids THEN CheckLinks(kids, 0) ELSE kids

BreakCycles(kids) ==
  LET broken[n \in 0 .. Cardinality(DOMAIN kids)] ==
        IF n = 0 THEN kids ELSE CheckLinks(broken[n - 1], n - 1)
  IN broken[Cardinality(DOMAIN kids)]

(* Every cache for a list of blocks, their types and links.  A texture set *)
(* nobody refers to is not a root from bsVersion 151 on; right behind a    *)
(* lighting shader property it is filed as a child of that.                *)
LinkCachesUnbroken(blocks, ty, lk) ==   \* mutant: roots before cycles are broken
  LET N == Numbers(Len(blocks))
      kids == [n \in N |-> LinkList(lk[blocks[n + 1]], RefSlot)]
      referenced == UNION {ToSet(kids[n]) : n \in N}
  IN [child  |-> BreakCycles(kids),
      parent |-> [n \in N |-> LinkList(lk[blocks[n + 1]], PtrSlot)],
      root   |-> Sublist([i \in 1 .. Len(blocks) |-> i - 1], N \ referenced)]

(* The caches once the child links have no cycles left.                  *)
CachesOf(kids, blocks, ty, lk) ==
  LET N == Numbers(Len(blocks))
      referenced == UNION {ToSet(kids[n]) : n \in N}
      loose == {n \in N \ referenced : BS151 /\ ty[blocks[n + 1]] = TextureSet}
  IN [child  |-> [n \in N |-> IF n + 1 \in loose /\ ty[blocks[n + 1]] = LightingShader
                              THEN Append(kids[n], n + 1)
                              ELSE kids[n]],
      parent |-> [n \in N |-> LinkList(lk[blocks[n + 1]], PtrSlot)],
      root   |-> Sublist([i \in 1 .. Len(blocks) |-> i - 1], (N \ referenced) \ loose)]

LinkCaches(blocks, ty, lk) ==
  LET links == [n \in Numbers(Len(blocks)) |-> LinkList(lk[blocks[n + 1]], RefSlot)]
  IN CachesOf(BreakCycles(links), blocks, ty, lk)

(* The blocks that next leads to from those of a set.                      *)
Reach(from, next) ==
  CHOOSE S \in SUBSET DOMAIN next :
    /\ from \subseteq S /\ \A n \in S : next[n] \subseteq S
    /\ \A T \in SUBSET S : (from \subseteq T /\ \A n \in T : next[n] \subseteq T) => T = S

(* getParent: the first block that has the block among its children.       *)
GetParent(kids, b) ==
  LET parents == {p \in DOMAIN kids : Contains(kids[p], b)}
  IN IF parents = {} THEN NoLink ELSE Min(parents)
=============================================================================
