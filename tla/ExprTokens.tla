----------------------------- MODULE ExprTokens -----------------------------
(***************************************************************************)
(* The tokens of a text of the evaluator (src/inc/expr.h), which reads     *)
(* them, and of the rule engine (src/src/dev.c), which writes them.        *)
(***************************************************************************)

Num(n) == [kind |-> "number", is |-> n]
Var(x) == [kind |-> "word", is |-> x]
Op(o)  == [kind |-> IF o = "(" THEN "open" ELSE IF o = ")" THEN "close" ELSE "operator",
           is |-> o]
=============================================================================
