----------------------------- MODULE Expression -----------------------------
(***************************************************************************)
(* The expression evaluator of the rule engine (src/inc/expr.h): operands  *)
(* and operators are read one after the other, operators wait on a stack   *)
(* until one that binds less tightly comes, and the tree that results is   *)
(* evaluated.                                                              *)
(*                                                                         *)
(* A text is a sequence of tokens.  The rule engine registers no function  *)
(* and its rules define no macro, so a word before a parenthesis is an     *)
(* error.  Values are integers here; of the operators those are left out   *)
(* that need floating point or bits.                                       *)
(***************************************************************************)
EXTENDS Integers, Sequences, SequencesExt, ExprTokens

\* The unary operators "-u" and "!u", then the binary ones.
Unary  == {"-u", "!u"}
Binary == {"*", "+", "-", "<", "<=", ">", ">=", "==", "!=", "&&", "||", "=", ","}
Prec(o) == CASE o \in Unary -> 1        [] o = "*" -> 2
             [] o \in {"+", "-"} -> 3   [] o = "&&" -> 9
             [] o = "||" -> 10          [] o = "=" -> 11
             [] o = "," -> 12           [] OTHER -> 5

\* Mutant: of two operators that bind alike the later is bound first.
YieldsRight(o, p) == Prec(o) > Prec(p)

\* expr_prec: the operator o, read after p, lets p take its operands first.
Yields(o, p) ==
  \/ o \in Binary \ {"=", ","} /\ Prec(o) >= Prec(p)
  \/ Prec(o) > Prec(p)

Start == [at |-> "operand", os |-> << >>, es |-> << >>, ok |-> TRUE]
Fail(st) == [st EXCEPT !.ok = FALSE]
Operand(st, e) == [st EXCEPT !.es = Append(@, e)]

\* expr_bind: an operator takes its operands; only a variable is assigned to.
Bind(st, o) ==
  LET n == Len(st.es)
  IN  IF o \in Unary /\ n >= 1
      THEN [st EXCEPT !.es = Append(SubSeq(@, 1, n - 1), [is |-> o, a |-> st.es[n]])]
      ELSE IF o \in Binary /\ n >= 2 /\ (o = "=" => st.es[n - 1].is = "var")
      THEN [st EXCEPT !.es = Append(SubSeq(@, 1, n - 2),
                                    [is |-> o, a |-> st.es[n - 1], b |-> st.es[n]])]
      ELSE Fail(st)
BindLast(st) == [Bind(st, Last(st.os)) EXCEPT !.os = Front(@)]

\* The operators that wait are bound while the new one yields to them.
RECURSIVE Push(_, _)
Push(st, o) ==
  IF st.os # << >> /\ Last(st.os) # "(" /\ Yields(o, Last(st.os)) /\ st.ok
  THEN Push(BindLast(st), o)
  ELSE [st EXCEPT !.os = Append(@, o)]

\* A closing parenthesis binds what waits since the opening one.
RECURSIVE Close(_)
Close(st) ==
  IF st.os = << >> \/ ~ st.ok THEN Fail(st)
  ELSE IF Last(st.os) = "(" THEN [st EXCEPT !.os = Front(@)]
  ELSE Close(BindLast(st))

\* expr_next_token and one turn of expr_create.  What may come next depends
\* on what came last (the flags): an operand is missing, a parenthesis was
\* opened, a word was read, or an operand is complete.
ReadToken(st, t) ==
  LET missing == st.at \in {"operand", "open"}
  IN  IF ~ st.ok THEN st
      ELSE CASE t.kind = "number" /\ missing ->
                  [Operand(st, [is |-> "const", v |-> t.is]) EXCEPT !.at = "complete"]
             [] t.kind = "word" /\ missing ->
                  [Operand(st, [is |-> "var", v |-> t.is]) EXCEPT !.at = "word"]
             [] t.kind = "open" /\ missing ->
                  [st EXCEPT !.os = Append(@, "("), !.at = "open"]
             [] t.kind = "close" /\ st.at # "operand" -> [Close(st) EXCEPT !.at = "complete"]
             [] t.kind = "operator" /\ missing /\ t.is \in {"-", "!"} ->
                  [Push(st, IF t.is = "-" THEN "-u" ELSE "!u") EXCEPT !.at = "operand"]
             [] t.kind = "operator" /\ ~ missing /\ t.is \in Binary ->
                  [Push(st, t.is) EXCEPT !.at = "operand"]
             [] OTHER -> Fail(st)

\* The end of the text binds everything; an open parenthesis is an error.
RECURSIVE Finish(_)
Finish(st) ==
  IF ~ st.ok \/ st.os = << >> THEN st
  ELSE IF Last(st.os) = "(" THEN Fail(st)
  ELSE Finish(BindLast(st))

\* The loop of expr_create.
RECURSIVE Read(_, _)
Read(st, text) ==
  IF text = << >> THEN st ELSE Read(ReadToken(st, Head(text)), Tail(text))

\* expr_create: ok, and the tree; a text without operands is the constant 0.
Create(text) ==
  LET st == Finish(Read(Start, text))
  IN  [ok |-> st.ok,
       tree |-> IF st.es = << >> THEN [is |-> "const", v |-> 0] ELSE Last(st.es)]

Truth(b) == IF b THEN 1 ELSE 0
Binary2(o, x, y) ==
  CASE o = "*" -> x * y             [] o = "+" -> x + y
    [] o = "-" -> x - y             [] o = "<" -> Truth(x < y)
    [] o = "<=" -> Truth(x <= y)    [] o = ">" -> Truth(x > y)
    [] o = ">=" -> Truth(x >= y)    [] o = "==" -> Truth(x = y)
    [] OTHER -> Truth(x # y)

\* expr_eval: the value of the tree, and the variables after it.
RECURSIVE Eval(_, _)
Eval(e, env) ==
  IF e.is = "const" THEN <<e.v, env>>
  ELSE IF e.is = "var" THEN <<env[e.v], env>>
  ELSE IF e.is = "=" THEN LET r == Eval(e.b, env)
                          IN  <<r[1], [r[2] EXCEPT ![e.a.v] = r[1]]>>
  ELSE LET l == Eval(e.a, env)
       IN  CASE e.is = "-u" -> <<- l[1], l[2]>>
             [] e.is = "!u" -> <<Truth(l[1] = 0), l[2]>>
             [] e.is = "," -> Eval(e.b, l[2])
             [] e.is = "&&" -> IF l[1] = 0 THEN <<0, l[2]>> ELSE Eval(e.b, l[2])
             [] e.is = "||" -> IF l[1] # 0 THEN l ELSE Eval(e.b, l[2])
             [] OTHER -> LET r == Eval(e.b, l[2])
                         IN  <<Binary2(e.is, l[1], r[1]), r[2]>>

\* What becomes of a text: is there a tree, and its value, every variable of
\* the text being 0 at first.
Result(text) ==
  LET e    == Create(text)
      zero == [x \in {t.is : t \in {u \in Range(text) : u.kind = "word"}} |-> 0]
  IN  [ok |-> e.ok, value |-> IF e.ok THEN Eval(e.tree, zero)[1] ELSE 0]
-----------------------------------------------------------------------------
(* What a text means, said without stacks: it is split at the operator     *)
(* that binds loosest, of equal ones at the last, except that assignments  *)
(* and commas group to the right.                                          *)

Depth(ts, i) == Len(SelectSeq(SubSeq(ts, 1, i), LAMBDA t : t.kind = "open"))
              - Len(SelectSeq(SubSeq(ts, 1, i), LAMBDA t : t.kind = "close"))
Splits(ts) == {i \in 2 .. Len(ts) - 1 :
                 /\ ts[i].kind = "operator" /\ Depth(ts, i) = 0
                 /\ ts[i - 1].kind \in {"number", "word", "close"}}

RECURSIVE Meaning(_, _)
Meaning(ts, env) ==
  LET loosest == {i \in Splits(ts) : \A j \in Splits(ts) : Prec(ts[j].is) <= Prec(ts[i].is)}
      toRight == \A i \in loosest : ts[i].is \in {"=", ","}
      at      == CHOOSE i \in loosest :
                   \A j \in loosest : IF toRight THEN i <= j ELSE i >= j
      Before  == SubSeq(ts, 1, at - 1)
      After   == SubSeq(ts, at + 1, Len(ts))
      l       == Meaning(Before, env)
      r       == Meaning(After, l[2])
  IN  IF loosest = {}
      THEN CASE ts[1].kind = "number" -> <<ts[1].is, env>>
             [] ts[1].kind = "word" -> <<env[ts[1].is], env>>
             [] ts[1].kind = "open" -> Meaning(SubSeq(ts, 2, Len(ts) - 1), env)
             [] ts[1].is = "-" -> LET v == Meaning(Tail(ts), env) IN <<- v[1], v[2]>>
             [] OTHER -> LET v == Meaning(Tail(ts), env) IN <<Truth(v[1] = 0), v[2]>>
      ELSE CASE ts[at].is = "=" -> LET v == Meaning(After, env)
                                   IN  <<v[1], [v[2] EXCEPT ![Before[1].is] = v[1]]>>
             [] ts[at].is = "&&" -> IF l[1] = 0 THEN <<0, l[2]>> ELSE r
             [] ts[at].is = "||" -> IF l[1] # 0 THEN l ELSE r
             [] ts[at].is = "," -> r
             [] OTHER -> <<Binary2(ts[at].is, l[1], r[1]), r[2]>>
=============================================================================
