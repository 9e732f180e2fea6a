----------------------------- MODULE Conditions -----------------------------
(***************************************************************************)
(* Which fields of a block exist.  A field of nif.xml may have a condition *)
(* on other fields; an item whose condition fails is hidden, not found by  *)
(* name, not written by a save and not read by a load.  BaseModel caches   *)
(* the result in the item, and NifModel resets the caches of the items     *)
(* that may depend on a value when it changes (model/basemodel.cpp,        *)
(* model/nifmodel.cpp, data/nifitem.h).                                    *)
(*                                                                         *)
(* The values are abstracted to 0 and 1, and nif.xml to the constants      *)
(* below; names in a condition are resolved, "ARG" to what it stands for.  *)
(* Version conditions are taken as true, and a condition on a string of    *)
(* the header ("$Name") is left out.                                       *)
(***************************************************************************)
EXTENDS Expressions

CONSTANTS
  Fields,         \* the items of a block, and what nif.xml says of each:
                  \*   parent, an item or Top; position in the file; whether
                  \*   it is an array; cond, an expression or <<>>; mentions,
                  \*   the items whose names occur in its cond or arg; first,
                  \*   the same field of the first structure in an array of
                  \*   fixed structures, or None
  Top,            \* the parent of the fields of a block
  Numeral,        \* the value of each numeral
  Sample,         \* bound: further expressions that are tried
  MaxUndone,      \* bound: how many values one undo command holds
  Breaks,         \* bound: the items at which the stream of a load may end
  Unknown, None   \* not cached; nothing read or written

Item     == DOMAIN Fields
Parent   == [i \in Item |-> Fields[i].parent]
Position == [i \in Item |-> Fields[i].position]
Cond     == [i \in Item |-> Fields[i].cond]
Mentions == [i \in Item |-> Fields[i].mentions]

(* The item whose condition counts for an item.                            *)
Reference == [i \in Item |-> IF Fields[i].first = None THEN i ELSE Fields[i].first]

(* An item and its ancestors.                                              *)
Above == LET above[i \in Item] ==
               {i} \cup IF Parent[i] = Top THEN {} ELSE above[Parent[i]]
         IN above

Leaf     == {i \in Item : \A c \in Item : Parent[c] # i}
Array    == {i \in Item : Fields[i].array}
Compound == Item \ (Leaf \cup Array)

(* The items the condition of an item reads, and those any condition reads.*)
Reads   == [i \in Item |-> ToSet(Cond[i]) \cap Item]
Control == UNION {Reads[i] : i \in Item}

(* The items that follow an item in its structure.                         *)
Later(i) == {c \in Item : Parent[c] = Parent[i] /\ Position[c] > Position[i]}

ASSUME TreeAssumption ==
  /\ IsFiniteSet(Item)
  /\ \A i \in Item : Position[i] \in 1 .. Cardinality(Item)
  /\ \A i \in Item : Parent[i] # Top => Parent[i] \in Item /\ Position[Parent[i]] < Position[i]
ASSUME SchemaAssumption ==
  /\ Control \subseteq Leaf /\ Breaks \subseteq Leaf /\ MaxUndone \in Nat
  /\ \A i \in Item : Mentions[i] \subseteq Item /\ Reference[i] \in Item
  /\ Unknown \notin BOOLEAN
(* A name in a condition is looked up among the siblings of the item, and  *)
(* "ARG" among those of the item above it whose arg it stands for; nif.xml *)
(* names no later sibling.                                                 *)
ASSUME ScopeAssumption ==
  \A i \in Item : \A j \in Reads[i] :
    /\ Parent[j] # Top => Parent[j] \notin Array
    /\ \E b \in Above[i] : b \in Later(j) /\ j \in Mentions[b]
(* The first structure of an array precedes the others, has the same       *)
(* fields as they, and like them no condition of its own.                  *)
ASSUME FirstAssumption ==
  \A i \in Item :
    LET first == Reference[i]
    IN first # i => /\ Position[first] < Position[i] /\ Cond[first] = Cond[i]
                    /\ Parent[first] # Top /\ Parent[i] # Top
                    /\ Parent[Parent[first]] = Parent[Parent[i]]
                    /\ Reads[Parent[first]] = {} /\ Reads[Parent[i]] = {}

VARIABLES
  value,          \* the value of each control item
  condition,      \* the cached condition of each item, or Unknown
  silent,         \* the items that changed without any cache being reset
  moved           \* what the last handler has read or written, or None

vars == <<value, condition, silent, moved>>

-----------------------------------------------------------------------------
(* The values of the items it reads with which the condition of an item   *)
(* holds, where a field that does not exist has the value 0.               *)
Satisfying ==
  UNION {{<<i, read>> : read \in {r \in [Reads[i] -> 0 .. 1] :
                                  Cond[i] = <<>> \/ Evaluate(Cond[i], r @@ Numeral) # 0}} :
         i \in Item}

ConditionHolds(i, read) == <<i, read>> \in Satisfying

(* The condition of an item, when these items exist and have these values. *)
ItemHolds(i, exists, val) ==
  ConditionHolds(i, [j \in Reads[i] |-> IF exists[j] THEN val[j] ELSE 0])

(* Whether an item exists, for given values and with no cache.             *)
Fresh(val) ==
  LET holds[i \in Item] ==
        /\ Parent[i] # Top => holds[Parent[i]]
        /\ IF Reference[i] # i THEN holds[Reference[i]]
           ELSE ItemHolds(i, holds, val)
  IN holds

(* evalCondition: the parent first, then the item, from the caches as far  *)
(* as they go.                                                             *)
Eval ==
  LET eval[i \in Item] ==
        IF condition[i] # Unknown THEN condition[i]
        ELSE /\ Parent[i] # Top => eval[Parent[i]]
             /\ IF Reference[i] # i THEN eval[Reference[i]]
                ELSE ItemHolds(i, eval, value)
  IN eval

(* The caches after these items have been evaluated, and along with them   *)
(* what that takes.                                                        *)
Evaluated(items) ==
  LET eval == Eval
      touched[i \in Item] ==
        IF condition[i] # Unknown THEN {}
        ELSE {i} \cup (IF Parent[i] = Top THEN {} ELSE touched[Parent[i]])
                 \cup (IF Parent[i] # Top /\ ~eval[Parent[i]] THEN {}
                       ELSE IF Reference[i] # i THEN touched[Reference[i]]
                       ELSE UNION {touched[j] : j \in Reads[i]})
      all == UNION {touched[i] : i \in items}
  IN [i \in Item |-> IF i \in all THEN eval[i] ELSE condition[i]]

(* invalidateCondition: the item and what is below it, down to the first   *)
(* items that are not cached.                                              *)
CascadeSelf(c, cache) == {c}   \* mutant: forgets the children

Cascade(c, cache) ==
  {d \in Item : c \in Above[d] /\ \A x \in Above[d] : c \in Above[x] => cache[x] # Unknown}

Invalidated(cache, items) ==
  LET all == UNION {Cascade(c, cache) : c \in items}
  IN [i \in Item |-> IF i \in all THEN Unknown ELSE cache[i]]

(* invalidateDependentConditions: the later siblings that mention the item *)
(* in cond or arg, and those that have children.                           *)
DependentFields(i) ==   \* mutant: plain fields only
  IF Parent[i] # Top /\ Parent[i] \in Array THEN {}
  ELSE {c \in Later(i) \cap Leaf : i \in Mentions[c]}

Dependent(i) ==
  IF Parent[i] # Top /\ Parent[i] \in Array THEN {}
  ELSE {c \in Later(i) : i \in Mentions[c] \/ c \in Compound}

-----------------------------------------------------------------------------
(* A block whose conditions nobody has asked for yet.                      *)
Init ==
  /\ value \in [Control -> 0 .. 1]
  /\ condition = [i \in Item |-> Unknown]
  /\ silent = {} /\ moved = None

(* A view or a spell asks whether an item exists.                          *)
Look(i) ==
  /\ condition' = Evaluated({i})
  /\ moved' = None
  /\ UNCHANGED <<value, silent>>

(* One value changed in a view or by a spell: the item exists.             *)
SetData(i, v) ==
  /\ Eval[i]
  /\ value' = [value EXCEPT ![i] = v]
  /\ condition' = Invalidated(Evaluated({i}), Dependent(i))
  /\ moved' = None
  /\ UNCHANGED silent

(* A command that holds several values is undone or redone (NifUndo has    *)
(* which values these are) while the model is Processing: a change then    *)
(* has no consequence but one dataChanged in the end.                      *)
UndoMany(items, values) ==
  /\ Cardinality(items) \in 2 .. MaxUndone
  /\ value' = [i \in Control |-> IF i \in items THEN values[i] ELSE value[i]]
  /\ silent' = silent \cup items
  /\ moved' = None
  /\ UNCHANGED condition

(* loadItem, as far as an item where the stream ends, or None: children in *)
(* order, each condition reset and evaluated before the child is read.     *)
Before(i, stop) == stop = None \/ Position[i] < Position[stop]

Input(values, stop) ==
  LET load[i \in Item] ==
        LET present ==
              /\ Parent[i] # Top => load[Parent[i]].present
              /\ IF Reference[i] # i THEN load[Reference[i]].present
                 ELSE ConditionHolds(i, [j \in Reads[i] |-> IF load[j].present THEN load[j].value
                                                             ELSE 0])
        IN [present |-> present,
            value   |-> IF i \notin Control THEN 0
                        ELSE IF present /\ Before(i, stop) THEN values[i]
                        ELSE value[i]]
  IN load

Visited(load, stop) ==
  {i \in Item : /\ Before(i, stop) \/ i = stop
                /\ Parent[i] # Top => load[Parent[i]].present}

LoadKeepingCaches(values, stop) ==   \* mutant: keeps the conditions it has cached
  LET load    == Input(values, stop)
      visited == Visited(load, stop)
  IN /\ stop # None => load[stop].present
     /\ value' = [i \in Control |-> load[i].value]
     /\ condition' = [i \in Item |-> IF i \in visited /\ condition[i] = Unknown
                                     THEN load[i].present ELSE condition[i]]
     /\ silent' = IF stop = None THEN {} ELSE silent \cup {i \in Control : Before(i, stop)}
     /\ moved' = IF stop # None THEN None
                 ELSE [did |-> "load", items |-> {i \in Leaf : load[i].present}]

Load(values, stop) ==
  LET load    == Input(values, stop)
      visited == Visited(load, stop)
      reset   == Invalidated(condition, visited)
  IN /\ stop # None => load[stop].present
     /\ value' = [i \in Control |-> load[i].value]
     /\ condition' = [i \in Item |-> IF i \in visited THEN load[i].present ELSE reset[i]]
     /\ silent' = IF stop = None THEN {} ELSE silent \cup {i \in Control : Before(i, stop)}
     /\ moved' = IF stop # None THEN None
                 ELSE [did |-> "load", items |-> {i \in Leaf : load[i].present}]

(* saveItem writes the items that exist as far as the caches know.         *)
SaveParents ==   \* mutant: writes a value for compounds and arrays as well
  /\ LET eval == Eval
     IN /\ condition' = Evaluated({i \in Item : Parent[i] = Top \/ eval[Parent[i]]})
        /\ moved' = [did |-> "save", items |-> {i \in Item : eval[i]}]
  /\ UNCHANGED <<value, silent>>

Save ==
  /\ LET eval == Eval
     IN /\ condition' = Evaluated({i \in Item : Parent[i] = Top \/ eval[Parent[i]]})
        /\ moved' = [did |-> "save", items |-> {i \in Leaf : eval[i]}]
  /\ UNCHANGED <<value, silent>>

Next ==
  \/ \E i \in Item : Look(i)
  \/ \E i \in Control, v \in 0 .. 1 : SetData(i, v)
  \/ \E items \in SUBSET Control : \E values \in [items -> 0 .. 1] : UndoMany(items, values)
  \/ \E values \in [Control -> 0 .. 1], stop \in {None} \cup Breaks : Load(values, stop)
  \/ Save

Spec == Init /\ [][Next]_vars

-----------------------------------------------------------------------------
(* Properties.                                                             *)

(* Type correctness.  Below an item that is not cached nothing is:         *)
(* invalidateCondition relies on it when it stops at such an item.         *)
TypeOK ==
  /\ value \in [Control -> 0 .. 1]
  /\ condition \in [Item -> BOOLEAN \cup {Unknown}]
  /\ \A i \in Item : condition[i] # Unknown => \A a \in Above[i] : condition[a] # Unknown
  /\ silent \subseteq Control
  /\ moved = None \/ moved \in [did : {"load", "save"}, items : SUBSET Leaf]

(* Whatever the values, a field exists if its condition holds as nif.xml   *)
(* writes it, by the usual precedence of operators, and any expression is  *)
(* read like that, if its operators are in order.                          *)
Orderly == {i \in Item : InOrder(Cond[Reference[i]])}
Misread ==
  LET misread(val) == \E e \in Sample : /\ InOrder(e)
                                        /\ LET env == val @@ Numeral
                                           IN Evaluate(e, env) # Meaning(e, env)
  IN UNION {IF misread(val) THEN {val} ELSE {} : val \in [Control -> 0 .. 1]}

ConditionsAsWritten ==
  LET exists == Fresh(value)
      env == [i \in Control |-> IF exists[i] THEN value[i] ELSE 0] @@ Numeral
      written(cond) == cond # <<>> => Meaning(cond, env) # 0
  IN /\ \A i \in Orderly :
          exists[i] = ((Parent[i] # Top => exists[Parent[i]]) /\ written(Cond[Reference[i]]))
     /\ value \notin Misread

Stale == LET fresh == Fresh(value)
         IN {i \in Item : condition[i] # Unknown /\ condition[i] # fresh[i]}

ReadsAny(items) == UNION {Reads[a] : a \in items}

(* What the condition of an item reads exists wherever the item may: a     *)
(* field it reads depends on nothing that those above the item do not.     *)
Plain ==
  LET plain[i \in Item] ==
        /\ Parent[i] # Top => plain[Parent[i]]
        /\ \A j \in Reads[i] : plain[j] /\ ReadsAny(Above[j]) \subseteq ReadsAny(Above[i] \ {i})
  IN plain

(* A cached condition is wrong only if it, or one above it, reads a field  *)
(* that changed without notice (undo of several values, a load that broke  *)
(* off) or one that may itself not exist where the condition is asked.  So *)
(* no other change of a value is forgotten: it reaches the conditions of   *)
(* later siblings, of what is below them, and of the structures in arrays  *)
(* that get the value as their argument.  And only where one is wrong does *)
(* a save write other fields than the next load will read.                 *)
StaleOnlyThrough ==
  /\ \A i \in Stale : ~Plain[i] \/ ReadsAny(Above[i]) \cap silent # {}
  /\ moved # None /\ moved.did = "save" =>
       LET fresh == Fresh(value)
       IN \A i \in Leaf : (i \in moved.items) = fresh[i] \/ Above[i] \cap Stale # {}

(* A load asks each condition when what it reads has been loaded: it takes *)
(* from the file the fields that exist once it is done, and all that is    *)
(* cached is right.                                                        *)
LoadIsConsistent ==
  (moved # None /\ moved.did = "load") =>
    /\ LET fresh == Fresh(value) IN moved.items = {i \in Leaf : fresh[i]}
    /\ Stale = {}
=============================================================================
