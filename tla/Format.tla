------------------------------- MODULE Format -------------------------------
(***************************************************************************)
(* One packet format (struct g1_fmt): its declared payload size and its    *)
(* token list, under any sequence of token additions and deletions.        *)
(***************************************************************************)
EXTENDS TokenLayout

VARIABLES size, tokens

format_vars == <<size, tokens>>

FormatInit == size \in Sizes /\ tokens = << >>

Add(tk) ==
  /\ tokens' = AddTokenInternal(tokens, size, tk)
  /\ UNCHANGED size

Del(topic) ==
  /\ tokens' = DelTokenInternal(tokens, topic)
  /\ UNCHANGED size

FormatNext == \/ \E tk \in Token : Add(tk)
              \/ \E topic \in Topics : Del(topic)

FormatSpec == FormatInit /\ [][FormatNext]_format_vars
-----------------------------------------------------------------------------
\* The size is a declared one and the list holds tokens.
TokensTyped == size \in Sizes /\ tokens \in Seq(Token)

\* No sequence of additions and deletions (g1_fmt.c:8-74) makes two tokens
\* share a payload byte, puts them out of payload order, or lets one reach
\* past the declared size: what parse_msg reads through a format is one
\* slice per token (g1.c:65-73).
LayoutOK == Layout(tokens, size)

Disjoint(a, b) == a.offset + a.len <= b.offset \/ b.offset + b.len <= a.offset

\* The list may hold a topic twice only behind the gap: the walk has passed
\* every token before the gap and looks at the one after it.
Shadowed(tk) ==
  \E i \in 1 .. Len(tokens) :
    /\ tokens[i].topic = tk.topic
    /\ \/ tokens[i].offset < tk.offset
       \/ \A j \in 1 .. Len(tokens) :
            tokens[j].offset > tk.offset => tokens[j].offset >= tokens[i].offset

\* First fit refuses nothing it could place: the walk of g1_fmt.c:25-43
\* accepts a token exactly when it ends within the size, overlaps no token
\* of the list, and no token it walks past carries its topic.
AcceptsExactly ==
  \A tk \in Token :
    Accepts(tokens, size, tk) <=>
      /\ tk.offset + tk.len <= size
      /\ \A i \in 1 .. Len(tokens) : Disjoint(tk, tokens[i])
      /\ ~ Shadowed(tk)

=============================================================================
