---------------------------- MODULE MCConditions ----------------------------
(***************************************************************************)
(* Blocks with what nif.xml has.  As in NiTexturingProperty, a count       *)
(* decides on "Has Bump Map Texture", and that one on a compound and a     *)
(* plain field.  As in BSTriShape, a field is the argument of an array of  *)
(* structures.                                                             *)
(***************************************************************************)
EXTENDS Conditions

(* A field: parent, position, condition, the fields it mentions.           *)
Row(p, n, cond, m) == [parent |-> p, position |-> n, cond |-> cond, mentions |-> m,
                       array |-> FALSE, first |-> None]

NotClamped == <<"!", "(", "clamp", "==", "1", ")">>
BumpAgain  == <<"(", "(", "has", "&", "1", ")", "!=", "0", ")", "&&", "(", "count", ">", "0", ")">>
NoBits     == <<"(", "count", "&", "1", ")", "==", "0">>

Texturing ==
  [count  |-> Row("top", 1, <<>>, {}),
   has    |-> Row("top", 2, <<"count", ">", "0">>, {"count"}),
   bump   |-> Row("top", 3, <<"has">>, {"has"}),
   clamp  |-> Row("bump", 4, <<>>, {}),
   matrix |-> Row("bump", 5, NotClamped, {"clamp"}),
   luma   |-> Row("top", 6, BumpAgain, {"has", "count"}),
   data   |-> [Row("top", 7, <<>>, {"count"}) EXCEPT !.array = TRUE],
   v1     |-> Row("data", 8, <<>>, {}),
   uv1    |-> Row("v1", 9, NoBits, {}),
   v2     |-> Row("data", 10, <<>>, {}),
   uv2    |-> [Row("v2", 11, NoBits, {}) EXCEPT !.first = "uv1"]]

(* Three or four operands, with brackets around two of them or with "!".   *)
Some == {"==", "&&", "||", "&", "+", ">"}
Expressions3 ==
  UNION {{<<"count", o, "has", p, "1">>, <<"(", "count", o, "has", ")", p, "1">>,
          <<"count", o, "(", "has", p, "1", ")">>, <<"count", o, "!", "has", p, "1">>,
          <<"!", "(", "count", o, "has", ")", p, "1">>} : o, p \in Some}
Expressions4 ==
  UNION {{<<"count", o, "has", p, "clamp", q, "1">>,
          <<"count", o, "(", "has", p, "clamp", ")", q, "1">>} : o, p, q \in Some}
Samples == Expressions3 \cup Expressions4

Numerals == [n \in {"0"} |-> 0] @@ [n \in {"1"} |-> 1]
=============================================================================
