---------------------------- MODULE Expressions ----------------------------
(***************************************************************************)
(* The expressions of nif.xml (xml/nifexpr.cpp, xml/nifexpr.h): how an     *)
(* expression is taken apart and evaluated.  An expression is a sequence   *)
(* of tokens, with the blank after each operator that the code skips; an   *)
(* operand is a name or a number, and env gives its value.  Values are     *)
(* numbers; TRUE is 1.                                                     *)
(***************************************************************************)
EXTENDS Integers, SequencesExt

CONSTANT Word     \* how many numbers an unsigned int has: 2^32

ASSUME WordAssumption == Word \in Nat \ {0}

Rank == [t \in {"*", "/"} |-> 9] @@ [t \in {"+", "-"} |-> 8] @@ [t \in {"<<", ">>"} |-> 7]
        @@ [t \in {"<", ">", "<=", ">="} |-> 6] @@ [t \in {"==", "!="} |-> 5]
        @@ [t \in {"&"} |-> 4] @@ [t \in {"|"} |-> 3] @@ [t \in {"&&"} |-> 2]
        @@ [t \in {"||"} |-> 1]

Operator == DOMAIN Rank

Number(b) == IF b THEN 1 ELSE 0

(* The bits two numbers have in common.                                    *)
BitAnd(l, r) ==
  LET and[x \in Nat, y \in Nat] ==
        IF x = 0 \/ y = 0 THEN 0 ELSE (x % 2) * (y % 2) + 2 * and[x \div 2, y \div 2]
  IN and[l, r]

(* evaluateValue, as to the operator: most take unsigned ints, == and !=   *)
(* whatever there is, and a shift to the left gives more.                  *)
ApplyUInt(op, l, r) ==
  CASE op = ">=" -> Number(l >= r)
    [] op = "<=" -> Number(l <= r)
    [] op = ">"  -> Number(l > r)
    [] op = "<"  -> Number(l < r)
    [] op = "&"  -> BitAnd(l, r)
    [] op = "|"  -> l + r - BitAnd(l, r)
    [] op = "+"  -> (l + r) % Word
    [] op = "-"  -> (l - r) % Word
    [] op = "*"  -> (l * r) % Word
    [] op = "/"  -> l \div r

Apply(op, l, r) ==
  CASE op = "==" -> Number(l = r)
    [] op = "!=" -> Number(l # r)
    [] op = "&&" -> Number(l # 0 /\ r # 0)
    [] op = "||" -> Number(l # 0 \/ r # 0)
    [] op = "<<" -> (l * 2 ^ (r % Word)) % (Word * Word)
    [] op = ">>" -> l \div 2 ^ (r % Word)
    [] OTHER     -> ApplyUInt(op, l % Word, r % Word)

(* How many brackets are open behind position k, counted from position i.  *)
Depth(expr, i, k) ==
  Cardinality({m \in i .. k : expr[m] = "("}) - Cardinality({m \in i .. k : expr[m] = ")"})

(* matchGroup, for the bracket that is opened at i.                        *)
Closing(expr, i, j) == Min({k \in i .. j : Depth(expr, i, k) = 0})

EvaluateUngrouped(expr, env) ==   \* mutant: looks for operators in a group
  LET val[i \in 1 .. Len(expr) + 1, j \in 0 .. Len(expr)] ==
        LET ops == {k \in i .. j : expr[k] \in Operator}
            op  == Min(ops)
        IN CASE j < i -> 0
             [] expr[i] = "!" -> Number(val[i + 1, j] = 0)
             [] expr[i] = "(" /\ ops = {} -> val[i + 1, j]
             [] OTHER -> IF ops # {} THEN Apply(expr[op], val[i, op - 1], val[op + 1, j])
                         ELSE env[expr[i]]
  IN val[1, Len(expr)]

(* partition, and the value of what it makes of an expression: a group or  *)
(* what is before the first operator, that, and all the rest.  A "!" takes *)
(* the rest as it is.                                                      *)
Evaluate(expr, env) ==
  LET val[i \in 1 .. Len(expr) + 1, j \in 0 .. Len(expr)] ==
        LET grouped == expr[i] = "("
            last    == IF grouped THEN Closing(expr, i, j) ELSE i - 1
            ops     == {k \in last + 1 .. j : expr[k] \in Operator}
            op      == Min(ops)
            group   == val[i + 1, last - 1]
        IN CASE j < i -> 0
             [] expr[i] = "!" -> Number(val[i + 1, j] = 0)
             [] OTHER -> IF ops # {} THEN Apply(expr[op], IF grouped THEN group ELSE val[i, op - 1],
                                                val[op + 1, j])
                         ELSE IF grouped THEN group ELSE env[expr[i]]
  IN val[1, Len(expr)]

-----------------------------------------------------------------------------
(* What an expression says, by the usual rules: the operators of nif.xml   *)
(* are those of C, the loosest one that is outside of brackets is applied  *)
(* last, the last one of several, and "!" to the next operand only.        *)
Meaning(expr, env) ==
  LET val[i \in 1 .. Len(expr) + 1, j \in 0 .. Len(expr)] ==
        LET ops == {k \in i .. j : expr[k] \in Operator /\ Depth(expr, i, k) = 0}
            loosest == {k \in ops : \A m \in ops : Rank[expr[k]] <= Rank[expr[m]]}
            op == Max(loosest)
        IN CASE j < i -> 0
             [] ops # {} -> Apply(expr[op], val[i, op - 1], val[op + 1, j])
             [] expr[i] = "!" -> Number(val[i + 1, j] = 0)
             [] expr[i] = "(" -> val[i + 1, j - 1]
             [] OTHER -> env[expr[i]]
  IN val[1, Len(expr)]

(* The code reads an expression like that if, between the same brackets,   *)
(* no looser operator comes after a tighter one, none of the same rank but *)
(* an associative one again, and no operator after a "!".                  *)
Associative == {"*", "+", "&", "|", "&&", "||"}

SameLevel(expr, k, m) ==
  /\ Depth(expr, 1, k) = Depth(expr, 1, m)
  /\ \A i \in k .. m : Depth(expr, 1, i) >= Depth(expr, 1, k)

InOrder(expr) ==
  \A k, m \in DOMAIN expr :
    k < m /\ expr[m] \in Operator /\ SameLevel(expr, k, m) =>
      CASE expr[k] = "!" -> FALSE
        [] expr[k] \notin Operator -> TRUE
        [] expr[k] = expr[m] -> expr[k] \in Associative
        [] OTHER -> Rank[expr[k]] < Rank[expr[m]]
=============================================================================
