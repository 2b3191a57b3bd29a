---------------------------- MODULE MCRuleEngine ----------------------------
(* The rule of check_rule_engine, and rules that use the other operators.   *)
EXTENDS TLC, ExprTokens, RuleEngine, Expression

A == Var(1)   B == Var(2)   C == Var(3)
Sum == <<Op("("), B, Op("+"), A, Op("+"), C, Op(")"), Op(">"), Num(1)>>

MCRules == {
  Sum,
  <<A, Op("-"), B, Op("-"), C, Op(">="), Op("-"), Num(1)>>,
  <<A, Op("="), B, Op("*"), Num(2), Op("+"), A, Op(","), A, Op(">"), Num(3), Op("||"),
    Op("!"), B, Op("&&"), C, Op("=="), Num(1)>>,
  <<Op("-"), Op("("), A, Op("-"), Op("("), B, Op("-"), Num(1), Op(")"), Op(")"),
    Op("*"), C, Op("<"), B, Op("-"), A, Op("-"), Num(1)>>,
  <<C, Op("="), A, Op("="), B, Op("+"), Num(1), Op(","), Op("!"), Op("-"), C, Op("||"),
    C, Op("<="), A, Op("*"), A, Op("&&"), A, Op("!="), Num(1)>>
}

MCSatisfied(r, values) == Meaning(r, values)[1] # 0

\* One byte and two are numbers, three are none.
MCSlices == {<<0>>, <<1>>, <<0, 1>>, <<1, 0>>, <<1, 0, 1>>}

\* The first attribute comes in two formats, as a number and as what is none.
MCFormats == {1 :> 2, 1 :> 3, 2 :> 1 @@ 3 :> 1}
MCOrders == {<<1, 2, 3>>, <<3, 1, 2>>}
MCRegistrations == {{1, 2, 3}, {2, 3}}
=============================================================================
