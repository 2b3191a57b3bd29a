---------------------------- MODULE TokenLayout ----------------------------
(***************************************************************************)
(* The token list of a packet format (src/src/g1_fmt.c): which slice of a  *)
(* payload carries which attribute.  The list is kept in payload order and *)
(* a new token goes into the first gap that holds it.  Only operators are  *)
(* here; Format.tla runs them on one format, Catalog.tla on all of them.   *)
(*                                                                         *)
(* A token list is a sequence of tokens; the C pointer `ptr' to the link   *)
(* being looked at is the position 1 .. Len(tokens) + 1 of that link.      *)
(***************************************************************************)
EXTENDS Integers, Sequences, SequencesExt

CONSTANTS
  Topics,   \* attribute topics, all different from 0
  Sizes,    \* payload sizes a format may be created with
  Wire,     \* number of values of an unsigned int message field (2^32)
  ULong     \* number of values of an unsigned long (2^64 on the LP64 build)

ASSUME SizesAssumption == Sizes \subseteq Nat

\* Offsets and lengths arrive in 32-bit fields and are added in 64 bits.
ASSUME WidthAssumption ==
  /\ Wire \in Nat \ {0}
  /\ ULong \in Nat
  /\ ULong >= 2 * Wire

\* A token as it arrives: add_g1_token refuses a length of 0.
Token == [topic : Topics, offset : 0 .. Wire - 1, len : 1 .. Wire - 1]

\* Unsigned addition, as `offset + len' is computed.
UAdd(a, b) == (a + b) % ULong

\* End of the token before link i (offset1 + len1, both 0 at the first link).
PrevEnd(tokens, i) ==
  IF i = 1 THEN 0 ELSE UAdd(tokens[i - 1].offset, tokens[i - 1].len)

\* Start of the token at link i, or the end of the payload at the last link.
NextStart(tokens, size, i) ==
  IF i = Len(tokens) + 1 THEN size ELSE tokens[i].offset

\* Mutant: the start is compared with the gap, the end is not.
FitsStartOnly(tokens, size, tk, i) ==
  /\ tk.offset >= PrevEnd(tokens, i)
  /\ tk.offset <= NextStart(tokens, size, i)

\* The gap at link i holds the token tk.
Fits(tokens, size, tk, i) ==
  /\ tk.offset >= PrevEnd(tokens, i)
  /\ UAdd(tk.offset, tk.len) <= NextStart(tokens, size, i)

\* Mutant: the topic of the token after the gap is not looked at.
InsertionPointLate(tokens, size, tk) ==
  {i \in 1 .. Len(tokens) + 1 :
     /\ Fits(tokens, size, tk, i)
     /\ \A j \in 1 .. i - 1 : ~ Fits(tokens, size, tk, j)
     /\ \A j \in 1 .. i - 1 : tokens[j].topic # tk.topic}

\* The link where the walk stops with a result: the first gap that holds tk,
\* provided no token looked at on the way, the one after the gap included,
\* has the topic of tk.  Empty when the walk fails, else a single position.
InsertionPoint(tokens, size, tk) ==
  {i \in 1 .. Len(tokens) + 1 :
     /\ Fits(tokens, size, tk, i)
     /\ \A j \in 1 .. i - 1 : ~ Fits(tokens, size, tk, j)
     /\ \A j \in 1 .. i : j <= Len(tokens) => tokens[j].topic # tk.topic}

Accepts(tokens, size, tk) == InsertionPoint(tokens, size, tk) # {}

\* add_g1_token_internal: the list with tk in its gap, or the list as it was.
AddTokenInternal(tokens, size, tk) ==
  IF Accepts(tokens, size, tk)
  THEN InsertAt(tokens, CHOOSE i \in InsertionPoint(tokens, size, tk) : TRUE, tk)
  ELSE tokens

\* del_g1_token_internal unlinks the first token of that topic, if any.
DelTokenInternal(tokens, topic) ==
  RemoveFirstMatch(tokens, LAMBDA tk : tk.topic = topic)

\* How many tokens of a list have a topic.
TokensOf(tokens, topic) ==
  Cardinality({i \in 1 .. Len(tokens) : tokens[i].topic = topic})

\* What a token list must be: in payload order, without overlap, and inside
\* the declared size, in plain arithmetic.
Layout(tokens, size) ==
  /\ \A i \in 1 .. Len(tokens) : tokens[i].offset + tokens[i].len <= size
  /\ \A i, j \in 1 .. Len(tokens) :
       i < j => tokens[i].offset + tokens[i].len <= tokens[j].offset
=============================================================================
