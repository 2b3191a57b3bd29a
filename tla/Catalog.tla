------------------------------ MODULE Catalog -------------------------------
(***************************************************************************)
(* The catalogue of an edge gateway: products (src/src/pdt.c), the packet  *)
(* formats of each product and their tokens (src/src/g1_fmt.c), and the    *)
(* attributes shared by all products (src/src/attr.c).  Every operation is *)
(* one message handled by mgt_rcv_msg under the write lock, so a whole     *)
(* handler is one step.                                                    *)
(*                                                                         *)
(* An attribute is registered as long as somebody refers to it.  Two       *)
(* counters keep track: each product counts its tokens per topic           *)
(* (pdt_attr.ref) and the global table counts them over all products       *)
(* (edge_attr.ref).  An entry of either table exists exactly while its     *)
(* counter is not 0, so a counter of 0 stands for "no entry".              *)
(***************************************************************************)
EXTENDS TokenLayout

CONSTANTS
  Pdts,     \* product topics a message may name
  Zero,     \* the product topic 0, which add_g1_token and del_g1_token refuse
  Keys,     \* format keys
  NoFmt,    \* the value of a key without a format
  MaxRef    \* bound of the model: references to one attribute

\* Topics and keys are numbers of a fixed width.
ASSUME CatalogAssumption ==
  /\ IsFiniteSet(Pdts) /\ IsFiniteSet(Keys)
  /\ MaxRef \in Nat
  /\ NoFmt \notin [size : Sizes, tokens : Seq(Token)]

VARIABLES
  pdts,     \* keys of g_pdt_map
  fmt,      \* fmt[p][k]: pdt->fmt_map
  pref,     \* pref[p][t]: pdt_attr.ref in pdt->attr_map
  attr,     \* g_attr_map
  \* What the C program does not record:
  orphan,   \* orphan[p][t]: tokens of formats of p that lost their map entry
  strayed,  \* pairs (p, t) for which a token was deleted that was not there
  stranded  \* stranded[t]: references left behind by deleted products

catalogVars == <<pdts, fmt, pref, attr>>
vars == <<pdts, fmt, pref, attr, orphan, strayed, stranded>>

\* EDGE_ATTR_NUM, EDGE_ATTR_STR; "BUTT" stands for every value a message may
\* carry in the type field that is no attribute type.
AttrTypes == {"NUM", "STR"}

NoAttr  == [ref |-> 0, type |-> "none"]
NoFmts  == [k \in Keys |-> NoFmt]
NoRefs  == [t \in Topics |-> 0]
Formats == [size : Sizes, tokens : Seq(Token)]

Registered(t) == attr[t].ref > 0

\* Mutant: the last definition of an attribute gives its type.
AddAttrRetyped(a, type) == [ref |-> a.ref + 1, type |-> type]

\* Tokens of one format, and of all formats of a product, per topic.
FmtTokens(f) == [t \in Topics |-> IF f = NoFmt THEN 0 ELSE TokensOf(f.tokens, t)]
PdtTokens(p) ==
  [t \in Topics |-> SumFunction([k \in Keys |-> FmtTokens(fmt[p][k])[t]])]
-----------------------------------------------------------------------------
\* add_attr: the first reference fixes the type, later ones only count.
AddAttr(a, type) ==
  IF a.ref = 0 THEN [ref |-> 1, type |-> type] ELSE [a EXCEPT !.ref = @ + 1]

\* del_attr_ref: the entry goes with its last reference.
DelAttrRef(a, n) == IF a.ref > n THEN [a EXCEPT !.ref = @ - n] ELSE NoAttr

\* Mutant: the global table is told of calls the product ignored.
DelPdtAttrUnchecked(p, count) ==
  /\ pref' = [pref EXCEPT ![p] = [t \in Topics |->
                IF count[t] <= @[t] THEN @[t] - count[t] ELSE 0]]
  /\ attr' = [t \in Topics |-> DelAttrRef(attr[t], count[t])]

\* del_pdt_attr, called count[t] times for each topic t: a call for a topic
\* the product does not count returns before it reaches the global table.
DelPdtAttr(p, count) ==
  LET released == [t \in Topics |-> IF count[t] <= pref[p][t] THEN count[t]
                                                               ELSE pref[p][t]]
  IN  /\ pref' = [pref EXCEPT ![p] = [t \in Topics |-> @[t] - released[t]]]
      /\ attr' = [t \in Topics |-> DelAttrRef(attr[t], released[t])]

\* add_pdt_attr when it succeeds: both counters go up by one.
AddPdtAttr(p, t, type) ==
  /\ pref' = [pref EXCEPT ![p][t] = @ + 1]
  /\ attr' = [attr EXCEPT ![t] = AddAttr(@, type)]
-----------------------------------------------------------------------------
Init ==
  /\ pdts = {}
  /\ fmt  = [p \in Pdts |-> NoFmts]
  /\ pref = [p \in Pdts |-> NoRefs]
  /\ attr = [t \in Topics |-> NoAttr]
  /\ orphan = [p \in Pdts |-> NoRefs]
  /\ strayed = {}
  /\ stranded = NoRefs

\* add_pdt: a topic that is already a product is refused.
AddPdt(p) ==
  /\ p \notin pdts
  /\ pdts' = pdts \cup {p}
  /\ UNCHANGED <<fmt, pref, attr, orphan, strayed, stranded>>

\* Mutant: what the product counted is left for a product of the same name.
DelPdtRefsKept(p) ==
  /\ p \in pdts
  /\ pdts' = pdts \ {p}
  /\ fmt' = [fmt EXCEPT ![p] = NoFmts]
  /\ orphan' = [orphan EXCEPT ![p] = NoRefs]
  /\ strayed' = {s \in strayed : s[1] # p}
  /\ UNCHANGED <<pref, attr, stranded>>

\* del_pdt: the formats in the map go, each releasing its tokens; what the
\* product's own attribute table still counts is forgotten with it.
DelPdt(p) ==
  /\ p \in pdts
  /\ pdts' = pdts \ {p}
  /\ fmt' = [fmt EXCEPT ![p] = NoFmts]
  /\ LET count    == PdtTokens(p)
         released == [t \in Topics |-> IF count[t] <= pref[p][t] THEN count[t]
                                                                  ELSE pref[p][t]]
     IN  /\ attr' = [t \in Topics |-> DelAttrRef(attr[t], released[t])]
         /\ stranded' = [t \in Topics |-> stranded[t] + pref[p][t] - released[t]]
  /\ pref' = [pref EXCEPT ![p] = NoRefs]
  /\ orphan' = [orphan EXCEPT ![p] = NoRefs]
  /\ strayed' = {s \in strayed : s[1] # p}

\* add_g1_fmt: no look at what the key holds; hash_map_put replaces the
\* value, and a format that was there is reachable no more.
AddFmt(p, k, size) ==
  /\ p \in pdts
  /\ fmt' = [fmt EXCEPT ![p][k] = [size |-> size, tokens |-> << >>]]
  /\ orphan' = [orphan EXCEPT ![p] = [t \in Topics |->
       IF <<p, t>> \in strayed THEN 0 ELSE @[t] + FmtTokens(fmt[p][k])[t]]]
  /\ UNCHANGED <<pdts, pref, attr, strayed, stranded>>

\* Mutant: each topic of the format is released once, however many tokens have it.
DelFmtOncePerTopic(p, k) ==
  /\ p \in pdts /\ fmt[p][k] # NoFmt
  /\ DelPdtAttr(p, [t \in Topics |-> IF FmtTokens(fmt[p][k])[t] = 0 THEN 0 ELSE 1])
  /\ fmt' = [fmt EXCEPT ![p][k] = NoFmt]
  /\ UNCHANGED <<pdts, orphan, strayed, stranded>>

\* del_g1_fmt: every token is released, then the format leaves the map.
DelFmt(p, k) ==
  /\ p \in pdts /\ fmt[p][k] # NoFmt
  /\ DelPdtAttr(p, FmtTokens(fmt[p][k]))
  /\ fmt' = [fmt EXCEPT ![p][k] = NoFmt]
  /\ UNCHANGED <<pdts, orphan, strayed, stranded>>

\* What add_g1_token asks for before it registers the attribute: the format
\* exists and the token finds a gap.
TokenPlaced(p, k, tk) ==
  /\ p # Zero /\ p \in pdts /\ fmt[p][k] # NoFmt
  /\ Accepts(fmt[p][k].tokens, fmt[p][k].size, tk)

\* add_g1_token, registered.
AddToken(p, k, tk, type) ==
  /\ TokenPlaced(p, k, tk)
  /\ type \in AttrTypes
  /\ attr[tk.topic].ref < MaxRef
  /\ fmt' = [fmt EXCEPT ![p][k].tokens =
               AddTokenInternal(@, fmt[p][k].size, tk)]
  /\ AddPdtAttr(p, tk.topic, type)
  /\ UNCHANGED <<pdts, orphan, strayed, stranded>>

\* add_g1_token, not registered: the type is no attribute type, or memory
\* runs out for an entry that has to be created.  The product's counter is
\* taken back by add_pdt_attr and the token is unlinked by its topic.
AddTokenUndone(p, k, tk, type) ==
  /\ TokenPlaced(p, k, tk)
  /\ \/ type \notin AttrTypes
     \/ pref[p][tk.topic] = 0
     \/ ~ Registered(tk.topic)
  /\ fmt' = [fmt EXCEPT ![p][k].tokens =
               DelTokenInternal(AddTokenInternal(@, fmt[p][k].size, tk), tk.topic)]
  /\ UNCHANGED <<pdts, pref, attr, orphan, strayed, stranded>>

\* del_g1_token: the product releases a reference before anybody looks
\* whether the format has such a token.
DelToken(p, k, t) ==
  /\ p # Zero /\ p \in pdts /\ fmt[p][k] # NoFmt
  /\ DelPdtAttr(p, [u \in Topics |-> IF u = t THEN 1 ELSE 0])
  /\ fmt' = [fmt EXCEPT ![p][k].tokens = DelTokenInternal(@, t)]
  /\ IF FmtTokens(fmt[p][k])[t] = 0
     THEN /\ strayed' = strayed \cup {<<p, t>>}
          /\ orphan' = [orphan EXCEPT ![p][t] = 0]
     ELSE UNCHANGED <<strayed, orphan>>
  /\ UNCHANGED <<pdts, stranded>>

Next ==
  \E p \in Pdts :
    \/ AddPdt(p)
    \/ DelPdt(p)
    \/ \E k \in Keys :
         \/ \E size \in Sizes : AddFmt(p, k, size)
         \/ DelFmt(p, k)
         \/ \E tk \in Token, type \in AttrTypes : AddToken(p, k, tk, type)
         \/ \E tk \in Token, type \in AttrTypes \cup {"BUTT"} :
              AddTokenUndone(p, k, tk, type)
         \/ \E t \in Topics : DelToken(p, k, t)

Spec == Init /\ [][Next]_vars
-----------------------------------------------------------------------------
\* Every table holds what its declaration says; deleted products hold nothing.
TypeOK ==
  /\ pdts \subseteq Pdts
  /\ fmt \in [Pdts -> [Keys -> Formats \cup {NoFmt}]]
  /\ pref \in [Pdts -> [Topics -> Nat]]
  /\ attr \in [Topics -> [ref : Nat, type : AttrTypes \cup {"none"}]]
  /\ orphan \in [Pdts -> [Topics -> Nat]]
  /\ strayed \subseteq Pdts \X Topics
  /\ stranded \in [Topics -> Nat]
  /\ \A p \in Pdts \ pdts : fmt[p] = NoFmts /\ pref[p] = NoRefs

\* The two levels of counters agree (attr.c:82-107 against pdt.c:15-64): an
\* attribute counts exactly the references its products count, plus those
\* deleted products left behind.  So no product can take an attribute away
\* from another one, whatever deletions of absent tokens it is sent.
AttrRefsAccounted ==
  \A t \in Topics :
    attr[t].ref = stranded[t] + SumFunction([p \in Pdts |-> pref[p][t]])

\* A product counts exactly its tokens (pdt.c:15-64 against g1_fmt.c:89-196),
\* including those of formats replaced by add_g1_fmt, for every topic for
\* which it was never told to delete a token that was not there: a refused
\* registration is undone in full, a topic that a format holds twice is
\* counted twice and released twice.
PdtRefsExact ==
  \A p \in pdts, t \in Topics :
    <<p, t>> \notin strayed => pref[p][t] = PdtTokens(p)[t] + orphan[p][t]

\* A registered attribute never changes its type (attr.c:59-73), whichever
\* products come, go and redefine it, until its last reference is gone.
TypeStable ==
  [][\A t \in Topics :
       Registered(t) /\ Registered(t)' => attr'[t].type = attr[t].type]_vars
=============================================================================
