--------------------------- MODULE CatalogProofs ----------------------------
(***************************************************************************)
(* Theorems about the catalogue.  The token list of a format, for every    *)
(* set of topics, every payload size and every width of the message        *)
(* fields: its slices stay in order, disjoint and inside the payload, and  *)
(* first fit refuses nothing it could place.  All products, for every set  *)
(* of products, keys and topics: the two levels of reference counters      *)
(* agree, a product counts its tokens exactly, and a registered attribute  *)
(* keeps its type.                                                         *)
(***************************************************************************)
EXTENDS Catalog, Format, ListLemmas

(* Additions of two message fields never wrap in an unsigned long, so the  *)
(* comparisons of g1_fmt.c:33-43 are comparisons of plain sums.            *)
LEMMA NoWrap ==
  ASSUME NEW a \in 0 .. Wire - 1, NEW b \in 0 .. Wire - 1
  PROVE  UAdd(a, b) = a + b
<1>1. a + b \in 0 .. ULong - 1  BY WidthAssumption
<1>2. \A n, m \in Nat : n < m => n % m = n
  OBVIOUS
<1>3. ULong \in Nat /\ a + b \in Nat /\ a + b < ULong  BY <1>1, WidthAssumption
<1> QED  BY <1>2, <1>3 DEF UAdd

(* An accepted token is inserted at one link of the list.                  *)
LEMMA AddInserts ==
  ASSUME NEW ts, NEW sz, NEW tk, Accepts(ts, sz, tk)
  PROVE  \E i \in InsertionPoint(ts, sz, tk) :
           /\ i \in 1 .. Len(ts) + 1
           /\ AddTokenInternal(ts, sz, tk) = InsertAt(ts, i, tk)
<1>1. \A i \in InsertionPoint(ts, sz, tk) : i \in 1 .. Len(ts) + 1
  BY DEF InsertionPoint
<1> QED  BY <1>1 DEF Accepts, AddTokenInternal

(* A token list is a sequence of tokens whatever is added.                  *)
LEMMA AddTyped ==
  ASSUME NEW ts \in Seq(Token), NEW sz \in Nat, NEW tk \in Token
  PROVE  AddTokenInternal(ts, sz, tk) \in Seq(Token)
<1>1. CASE ~ Accepts(ts, sz, tk)  BY <1>1 DEF AddTokenInternal
<1>2. CASE Accepts(ts, sz, tk)
  <2>1. PICK i \in 1 .. Len(ts) + 1 : AddTokenInternal(ts, sz, tk) = InsertAt(ts, i, tk)
    BY <1>2, AddInserts
  <2> QED  BY <2>1, InsertAtElements
<1> QED  BY <1>1, <1>2

(* A stored token and the end of its slice are numbers.                    *)
LEMMA TokenNumbers ==
  ASSUME NEW tk \in Token
  PROVE  /\ tk.offset \in Nat /\ tk.len \in Nat /\ tk.len > 0
         /\ UAdd(tk.offset, tk.len) = tk.offset + tk.len
<1>1. /\ tk.offset \in 0 .. Wire - 1 /\ tk.len \in 0 .. Wire - 1
      /\ tk.len > 0
  BY WidthAssumption DEF Token
<1> QED  BY <1>1, NoWrap, WidthAssumption

(* The tokens of a laid-out list are disjoint intervals in payload order.  *)
LEMMA LayoutNumbers ==
  ASSUME NEW ts \in Seq(Token), NEW sz \in Nat, Layout(ts, sz)
  PROVE  /\ Len(ts) \in Nat
         /\ \A j \in 1 .. Len(ts) :
              /\ ts[j].offset \in Nat /\ ts[j].offset + ts[j].len \in Nat
              /\ ts[j].offset < ts[j].offset + ts[j].len
              /\ ts[j].offset + ts[j].len <= sz
              /\ UAdd(ts[j].offset, ts[j].len) = ts[j].offset + ts[j].len
         /\ \A j, k \in 1 .. Len(ts) :
              j < k => ts[j].offset + ts[j].len <= ts[k].offset
<1>1. ASSUME NEW j \in 1 .. Len(ts)
      PROVE  /\ ts[j].offset \in Nat /\ ts[j].offset + ts[j].len \in Nat
             /\ ts[j].offset < ts[j].offset + ts[j].len
             /\ ts[j].offset + ts[j].len <= sz
             /\ UAdd(ts[j].offset, ts[j].len) = ts[j].offset + ts[j].len
  <2>1. ts[j] \in Token  OBVIOUS
  <2> QED  BY <2>1, TokenNumbers DEF Layout
<1> QED  BY <1>1 DEF Layout

(* A gap that holds a token separates the tokens before it from those      *)
(* behind it, and the token ends within the size.                          *)
LEMMA FitsSeparates ==
  ASSUME NEW ts \in Seq(Token), NEW sz \in Nat, NEW tk \in Token,
         Layout(ts, sz), NEW i \in 1 .. Len(ts) + 1, Fits(ts, sz, tk, i)
  PROVE  /\ tk.offset + tk.len <= sz
         /\ \A j \in 1 .. Len(ts) : j < i => ts[j].offset + ts[j].len <= tk.offset
         /\ \A j \in 1 .. Len(ts) : i <= j => tk.offset + tk.len <= ts[j].offset
<1> DEFINE n    == Len(ts)
           o(j) == ts[j].offset
           e(j) == ts[j].offset + ts[j].len
           to   == tk.offset
           te   == tk.offset + tk.len
<1>1. n \in Nat /\ to \in Nat /\ te \in Nat /\ to <= te
  BY TokenNumbers
<1>2. /\ \A j \in 1 .. n :
           /\ o(j) \in Nat /\ e(j) \in Nat /\ o(j) < e(j) /\ e(j) <= sz
           /\ UAdd(ts[j].offset, ts[j].len) = e(j)
      /\ \A j, k \in 1 .. n : j < k => e(j) <= o(k)
  BY LayoutNumbers
<1>3. i > 1 => e(i - 1) <= to
  <2> SUFFICES ASSUME i > 1 PROVE e(i - 1) <= to
    OBVIOUS
  <2>1. i - 1 \in 1 .. n  BY <1>1
  <2>2. PrevEnd(ts, i) = e(i - 1)  BY <1>2, <2>1 DEF PrevEnd
  <2> QED  BY <2>2 DEF Fits
<1>4. te <= IF i = n + 1 THEN sz ELSE o(i)
  BY TokenNumbers DEF Fits, NextStart
<1> HIDE DEF n, o, e, to, te
<1>5. i \in 1 .. n + 1  BY DEF n
<1>6. te <= sz
  <2>1. CASE i = n + 1  BY <1>4, <2>1
  <2>2. CASE i \in 1 .. n  BY <1>1, <1>2, <1>4, <2>2
  <2> QED  BY <1>1, <1>5, <2>1, <2>2
<1>7. ASSUME NEW j \in 1 .. n, j < i PROVE e(j) <= to
  <2>1. i > 1 /\ i - 1 \in 1 .. n  BY <1>1, <1>5, <1>7
  <2>2. CASE j = i - 1  BY <1>3, <2>1, <2>2
  <2>3. CASE j < i - 1
    BY <1>1, <1>2, <1>3, <2>1, <2>3
  <2> QED  BY <1>1, <1>5, <1>7, <2>2, <2>3
<1>8. ASSUME NEW j \in 1 .. n, i <= j PROVE te <= o(j)
  <2>1. i \in 1 .. n /\ te <= o(i)  BY <1>1, <1>4, <1>5, <1>8
  <2>2. CASE j = i  BY <2>1, <2>2
  <2>3. CASE i < j
    BY <1>1, <1>2, <2>1, <2>3
  <2> QED  BY <1>1, <1>5, <1>8, <2>2, <2>3
<1> QED  BY <1>6, <1>7, <1>8 DEF n, o, e, to, te

(* The step the layout rests on: a token put into the gap where it fits    *)
(* leaves every pair of tokens in order and every token inside the size.   *)
LEMMA AddKeepsLayout ==
  ASSUME NEW ts \in Seq(Token), NEW sz \in Nat, NEW tk \in Token,
         Layout(ts, sz)
  PROVE  Layout(AddTokenInternal(ts, sz, tk), sz)
<1>1. CASE ~ Accepts(ts, sz, tk)  BY <1>1 DEF AddTokenInternal
<1>2. CASE Accepts(ts, sz, tk)
  <2>1. PICK i \in InsertionPoint(ts, sz, tk) :
          AddTokenInternal(ts, sz, tk) = InsertAt(ts, i, tk)
    BY <1>2, AddInserts
  <2> DEFINE ns   == InsertAt(ts, i, tk)
             n    == Len(ts)
             o(j) == ts[j].offset
             e(j) == ts[j].offset + ts[j].len
             to   == tk.offset
             te   == tk.offset + tk.len
  <2>2. i \in 1 .. n + 1 /\ Fits(ts, sz, tk, i)
    BY <2>1 DEF InsertionPoint
  <2>3. AddTokenInternal(ts, sz, tk) = ns  BY <2>1
  <2>4. /\ Len(ns) = n + 1
        /\ \A j \in 1 .. n + 1 :
             ns[j] = IF j < i THEN ts[j] ELSE IF j = i THEN tk ELSE ts[j - 1]
    BY <2>2, InsertAtElements
  <2>5. n \in Nat /\ to \in Nat /\ te \in Nat /\ to <= te
    BY TokenNumbers
  <2>6. \A j \in 1 .. n : o(j) \in Nat /\ e(j) \in Nat /\ o(j) <= e(j) /\ e(j) <= sz
    BY LayoutNumbers
  <2>7. \A j, k \in 1 .. n : j < k => e(j) <= o(k)
    BY DEF Layout
  <2>8. /\ te <= sz
        /\ \A j \in 1 .. n : j < i => e(j) <= to
        /\ \A j \in 1 .. n : i <= j => te <= o(j)
    BY <2>2, FitsSeparates
  <2> DEFINE no(j) == ns[j].offset
             ne(j) == ns[j].offset + ns[j].len
  <2>10. \A j \in 1 .. n + 1 :
           /\ no(j) = IF j < i THEN o(j) ELSE IF j = i THEN to ELSE o(j - 1)
           /\ ne(j) = IF j < i THEN e(j) ELSE IF j = i THEN te ELSE e(j - 1)
    BY <2>4
  <2>11. SUFFICES /\ \A j \in 1 .. n + 1 : ne(j) <= sz
                  /\ \A j, k \in 1 .. n + 1 : j < k => ne(j) <= no(k)
    BY <2>3, <2>4 DEF Layout
  <2> HIDE DEF ns, n, o, e, to, te, no, ne
  <2>12. ASSUME NEW j \in 1 .. n + 1 PROVE ne(j) <= sz
    <3>1. CASE j < i
      <4>1. j \in 1 .. n  BY <2>2, <2>5, <3>1
      <4> QED  BY <2>6, <2>10, <3>1, <4>1
    <3>2. CASE j = i  BY <2>2, <2>10, <2>8, <3>2
    <3>3. CASE j > i
      <4>1. j - 1 \in 1 .. n  BY <2>2, <2>5, <3>3
      <4> QED  BY <2>2, <2>5, <2>6, <2>10, <3>3, <4>1
    <3> QED  BY <2>2, <2>5, <3>1, <3>2, <3>3
  <2>13. ASSUME NEW j \in 1 .. n + 1, NEW k \in 1 .. n + 1, j < k
         PROVE  ne(j) <= no(k)
    <3>1. CASE k < i
      <4>1. j \in 1 .. n /\ k \in 1 .. n /\ j < i  BY <2>2, <2>5, <2>13, <3>1
      <4> QED  BY <2>7, <2>10, <2>13, <3>1, <4>1
    <3>2. CASE k = i
      <4>1. j \in 1 .. n /\ j < i  BY <2>2, <2>5, <2>13, <3>2
      <4> QED  BY <2>2, <2>10, <2>8, <3>2, <4>1
    <3>3. CASE j = i
      <4>1. k - 1 \in 1 .. n /\ i <= k - 1 /\ ~ (k < i) /\ k # i
        BY <2>2, <2>5, <2>13, <3>3
      <4> QED  BY <2>2, <2>10, <2>8, <3>3, <4>1
    <3>4. CASE j < i /\ i < k
      <4>1. j \in 1 .. n /\ k - 1 \in 1 .. n /\ i <= k - 1 /\ ~ (k < i) /\ k # i
        BY <2>2, <2>5, <3>4
      <4>2. ne(j) = e(j) /\ no(k) = o(k - 1)  BY <2>10, <3>4, <4>1
      <4> QED  BY <2>5, <2>6, <2>8, <2>8, <3>4, <4>1, <4>2
    <3>5. CASE i < j
      <4>1. /\ j - 1 \in 1 .. n /\ k - 1 \in 1 .. n /\ j - 1 < k - 1
            /\ ~ (k < i) /\ k # i /\ ~ (j < i) /\ j # i
        BY <2>2, <2>5, <2>13, <3>5
      <4>2. ne(j) = e(j - 1) /\ no(k) = o(k - 1)  BY <2>10, <4>1
      <4> QED  BY <2>7, <4>1, <4>2
    <3> QED  BY <2>2, <2>5, <2>13, <3>1, <3>2, <3>3, <3>4, <3>5
  <2> QED  BY <2>12, <2>13
<1> QED  BY <1>1, <1>2

(* Deleting a token takes one token of its topic from the list, if any.    *)
LEMMA DelRemoves ==
  ASSUME NEW ts \in Seq(Token), NEW topic
  PROVE  \/ /\ DelTokenInternal(ts, topic) = ts
            /\ \A i \in 1 .. Len(ts) : ts[i].topic # topic
         \/ \E i \in 1 .. Len(ts) : /\ DelTokenInternal(ts, topic) = RemoveAt(ts, i)
                                   /\ ts[i].topic = topic
<1> DEFINE I == {i \in 1 .. Len(ts) : ts[i].topic = topic}
<1>1. CASE I = {}
  <2>1. ~ \E i \in 1 .. Len(ts) : ts[i].topic = topic  BY <1>1
  <2> QED  BY <2>1 DEF DelTokenInternal, RemoveFirstMatch
<1>2. CASE I # {}
  <2>1. \E i \in 1 .. Len(ts) : ts[i].topic = topic  BY <1>2
  <2>2. I \in SUBSET Nat  OBVIOUS
  <2>3. Min(I) \in I  BY <1>2, <2>2, MinExists
  <2>4. DelTokenInternal(ts, topic) = RemoveAt(ts, Min(I))
    BY <1>2, <2>1 DEF DelTokenInternal, RemoveFirstMatch, SelectInSeq
  <2> QED  BY <2>3, <2>4
<1> QED  BY <1>1, <1>2

(* Deleting a token keeps the list a list of tokens and keeps the layout.  *)
LEMMA DelKeepsLayout ==
  ASSUME NEW ts \in Seq(Token), NEW sz \in Nat, NEW topic
  PROVE  /\ DelTokenInternal(ts, topic) \in Seq(Token)
         /\ Layout(ts, sz) => Layout(DelTokenInternal(ts, topic), sz)
<1>1. CASE DelTokenInternal(ts, topic) = ts  BY <1>1
<1>2. CASE \E i \in 1 .. Len(ts) : DelTokenInternal(ts, topic) = RemoveAt(ts, i)
  <2>1. PICK i \in 1 .. Len(ts) : DelTokenInternal(ts, topic) = RemoveAt(ts, i)
    BY <1>2
  <2> DEFINE ns == RemoveAt(ts, i)
  <2>2. /\ ns \in Seq(Token)
        /\ Len(ns) = Len(ts) - 1
        /\ \A j \in 1 .. Len(ts) - 1 : ns[j] = IF j < i THEN ts[j] ELSE ts[j + 1]
    BY RemoveAtElements
  <2> HIDE DEF ns
  <2>3. Len(ts) \in Nat  OBVIOUS
  <2>4. ASSUME Layout(ts, sz) PROVE Layout(ns, sz)
    <3> DEFINE up(j) == IF j < i THEN j ELSE j + 1
    <3>1. \A j \in 1 .. Len(ns) : up(j) \in 1 .. Len(ts) /\ ns[j] = ts[up(j)]
      BY <2>2, <2>3
    <3>2. \A j, k \in 1 .. Len(ns) : j < k => up(j) < up(k)
      BY <2>2, <2>3
    <3> HIDE DEF up
    <3> QED  BY <2>4, <3>1, <3>2 DEF Layout
  <2> QED  BY <2>1, <2>2, <2>4 DEF ns
<1> QED  BY <1>1, <1>2, DelRemoves

(* Type correctness of one format.                                         *)
THEOREM FormatTypeCorrect == FormatSpec => []TokensTyped
<1>1. FormatInit => TokensTyped
  BY DEF FormatInit, TokensTyped
<1>2. TokensTyped /\ [FormatNext]_format_vars => TokensTyped'
  <2> SUFFICES ASSUME TokensTyped, [FormatNext]_format_vars PROVE TokensTyped'
    OBVIOUS
  <2>1. ASSUME NEW tk \in Token, Add(tk) PROVE TokensTyped'
    BY <2>1, AddTyped, SizesAssumption DEF TokensTyped, Add
  <2>2. ASSUME NEW topic \in Topics, Del(topic) PROVE TokensTyped'
    BY <2>2, DelKeepsLayout, SizesAssumption DEF TokensTyped, Del
  <2>3. CASE UNCHANGED format_vars
    BY <2>3 DEF TokensTyped, format_vars
  <2> QED  BY <2>1, <2>2, <2>3 DEF FormatNext
<1> QED  BY <1>1, <1>2, PTL DEF FormatSpec

(* The layout of a format (g1_fmt.c:8-74), for every set of topics, every  *)
(* payload size and every width of the fields: whatever tokens are added   *)
(* and deleted in whatever order, they stay disjoint, in payload order and *)
(* inside the declared size.                                               *)
THEOREM FormatLayoutCorrect == FormatSpec => []LayoutOK
<1>1. FormatInit => LayoutOK
  BY DEF FormatInit, LayoutOK, Layout
<1>2. TokensTyped /\ LayoutOK /\ [FormatNext]_format_vars => LayoutOK'
  <2> SUFFICES ASSUME TokensTyped, LayoutOK, [FormatNext]_format_vars PROVE LayoutOK'
    OBVIOUS
  <2>1. ASSUME NEW tk \in Token, Add(tk) PROVE LayoutOK'
    BY <2>1, AddKeepsLayout, SizesAssumption DEF TokensTyped, LayoutOK, Add
  <2>2. ASSUME NEW topic \in Topics, Del(topic) PROVE LayoutOK'
    BY <2>2, DelKeepsLayout, SizesAssumption DEF TokensTyped, LayoutOK, Del
  <2>3. CASE UNCHANGED format_vars
    BY <2>3 DEF LayoutOK, format_vars
  <2> QED  BY <2>1, <2>2, <2>3 DEF FormatNext
<1> QED  BY <1>1, <1>2, FormatTypeCorrect, PTL DEF FormatSpec
-----------------------------------------------------------------------------
(* The walk of g1_fmt.c:25-43 stops only where the list and the topics     *)
(* allow it.                                                               *)
LEMMA AcceptedIsFree ==
  ASSUME TokensTyped, LayoutOK, NEW tk \in Token, Accepts(tokens, size, tk)
  PROVE  /\ tk.offset + tk.len <= size
         /\ \A i \in 1 .. Len(tokens) : Disjoint(tk, tokens[i])
         /\ ~ Shadowed(tk)
<1> DEFINE n    == Len(tokens)
           o(j) == tokens[j].offset
           e(j) == tokens[j].offset + tokens[j].len
           to   == tk.offset
           te   == tk.offset + tk.len
<1>1. tokens \in Seq(Token) /\ size \in Nat /\ Layout(tokens, size)
  BY SizesAssumption DEF TokensTyped, LayoutOK
<1>2. PICK i \in InsertionPoint(tokens, size, tk) : TRUE  BY DEF Accepts
<1>3. /\ i \in 1 .. n + 1 /\ Fits(tokens, size, tk, i)
      /\ \A j \in 1 .. i : j <= n => tokens[j].topic # tk.topic
  BY <1>2 DEF InsertionPoint
<1>4. /\ te <= size
      /\ \A j \in 1 .. n : j < i => e(j) <= to
      /\ \A j \in 1 .. n : i <= j => te <= o(j)
  BY <1>1, <1>3, FitsSeparates
<1>5. /\ n \in Nat
      /\ \A j \in 1 .. n : o(j) \in Nat /\ e(j) \in Nat /\ o(j) < e(j)
      /\ \A j, k \in 1 .. n : j < k => e(j) <= o(k)
  BY <1>1, LayoutNumbers
<1>6. to \in Nat /\ te \in Nat /\ to < te
  BY TokenNumbers DEF Token
<1>7. ASSUME NEW j \in 1 .. n PROVE Disjoint(tk, tokens[j])
  BY <1>3, <1>4, <1>5 DEF Disjoint
<1>8. ASSUME NEW j \in 1 .. n, tokens[j].topic = tk.topic
      PROVE  /\ ~ (o(j) < to)
             /\ \E m \in 1 .. n : o(m) > to /\ ~ (o(m) >= o(j))
  <2> HIDE DEF n, o, e, to, te
  <2>1. i < j
    <3>1. ~ (j \in 1 .. i)  BY <1>3, <1>5, <1>8
    <3> QED  BY <1>3, <1>5, <3>1
  <2>2. i \in 1 .. n  BY <1>3, <1>5, <2>1
  <2>3. te <= o(i) /\ e(i) <= o(j) /\ te <= o(j)
    BY <1>3, <1>4, <1>5, <2>1, <2>2
  <2> QED  BY <1>5, <1>6, <2>2, <2>3
<1>9. ~ Shadowed(tk)  BY <1>8 DEF Shadowed
<1> QED  BY <1>4, <1>7, <1>9

(* First fit: where the list and the topics allow it, the walk stops at    *)
(* the first link before a token that starts behind the new one.           *)
LEMMA FreeIsAccepted ==
  ASSUME TokensTyped, LayoutOK, NEW tk \in Token,
         tk.offset + tk.len <= size,
         \A i \in 1 .. Len(tokens) : Disjoint(tk, tokens[i]),
         ~ Shadowed(tk)
  PROVE  Accepts(tokens, size, tk)
<1> DEFINE n    == Len(tokens)
           o(j) == tokens[j].offset
           e(j) == tokens[j].offset + tokens[j].len
           to   == tk.offset
           te   == tk.offset + tk.len
           T    == {j \in 1 .. n + 1 : j = n + 1 \/ (j <= n /\ te <= o(j))}
<1>1. tokens \in Seq(Token) /\ size \in Nat /\ Layout(tokens, size)
  BY SizesAssumption DEF TokensTyped, LayoutOK
<1>2. /\ n \in Nat
      /\ \A j \in 1 .. n :
           /\ o(j) \in Nat /\ e(j) \in Nat /\ o(j) < e(j)
           /\ UAdd(tokens[j].offset, tokens[j].len) = e(j)
      /\ \A j, k \in 1 .. n : j < k => e(j) <= o(k)
  BY <1>1, LayoutNumbers
<1>3. to \in Nat /\ te \in Nat /\ to < te /\ UAdd(tk.offset, tk.len) = te
  BY TokenNumbers DEF Token
<1>4. \A j \in 1 .. n : te <= o(j) \/ e(j) <= to  BY DEF Disjoint
<1>5. te <= size  OBVIOUS
<1>6. \A i \in 1 .. n : tokens[i].topic = tk.topic =>
        /\ ~ (o(i) < to)
        /\ \E m \in 1 .. n : o(m) > to /\ ~ (o(m) >= o(i))
  BY DEF Shadowed
<1>7. \A j \in 1 .. n + 1 :
        Fits(tokens, size, tk, j) <=>
          to >= PrevEnd(tokens, j) /\ te <= NextStart(tokens, size, j)
  BY <1>3 DEF Fits
<1>8. \A j \in 1 .. n + 1 :
        /\ NextStart(tokens, size, j) = IF j = n + 1 THEN size ELSE o(j)
        /\ PrevEnd(tokens, j) = IF j = 1 THEN 0 ELSE e(j - 1)
  <2> SUFFICES ASSUME NEW j \in 1 .. n + 1, j # 1
               PROVE  PrevEnd(tokens, j) = e(j - 1)
    BY DEF NextStart, PrevEnd
  <2>1. j - 1 \in 1 .. n  BY <1>2
  <2> QED  BY <1>2, <2>1 DEF PrevEnd
<1> HIDE DEF n, o, e, to, te
<1>9. T \subseteq Nat /\ n + 1 \in T  BY <1>2
<1>10. PICK i \in T : \A j \in T : i <= j  BY <1>9, LeastExists
<1>11. i \in 1 .. n + 1 /\ (i # n + 1 => i \in 1 .. n /\ te <= o(i))
  BY <1>2, <1>10
<1>12. ASSUME NEW j \in 1 .. n, j < i
       PROVE  o(j) < te /\ e(j) <= to /\ o(j) < to
  <2>1. j \notin T  BY <1>2, <1>10, <1>11, <1>12
  <2>2. j \in 1 .. n + 1 /\ j <= n  BY <1>2
  <2>3. ~ (te <= o(j))  BY <2>1, <2>2
  <2> QED  BY <1>2, <1>3, <1>4, <2>3
<1> HIDE DEF T
<1>13. Fits(tokens, size, tk, i)
  <2>1. te <= NextStart(tokens, size, i)
    BY <1>5, <1>8, <1>11
  <2>2. CASE i = 1
    <3>1. PrevEnd(tokens, i) = 0  BY <1>8, <1>11, <2>2
    <3> QED  BY <1>3, <1>7, <1>11, <2>1, <3>1
  <2>3. CASE i # 1
    <3>1. i - 1 \in 1 .. n /\ i - 1 < i  BY <1>2, <1>11, <2>3
    <3>2. PrevEnd(tokens, i) = e(i - 1) /\ e(i - 1) <= to
      BY <1>8, <1>11, <1>12, <2>3, <3>1
    <3>3. e(i - 1) \in Nat  BY <1>2, <3>1
    <3> QED  BY <1>3, <1>7, <1>11, <2>1, <3>2, <3>3
  <2> QED  BY <2>2, <2>3
<1>14. ASSUME NEW j \in 1 .. i - 1 PROVE ~ Fits(tokens, size, tk, j)
  <2>1. j \in 1 .. n /\ j < i /\ j \in 1 .. n + 1 /\ j # n + 1  BY <1>2, <1>11
  <2>2. NextStart(tokens, size, j) = o(j) /\ o(j) < te  BY <1>8, <1>12, <2>1
  <2> QED  BY <1>2, <1>3, <1>7, <2>1, <2>2
<1>15. ASSUME NEW j \in 1 .. i, j <= n PROVE tokens[j].topic # tk.topic
  <2> SUFFICES ASSUME tokens[j].topic = tk.topic PROVE FALSE
    OBVIOUS
  <2>1. j \in 1 .. n  BY <1>2, <1>11, <1>15
  <2>2. ~ (o(j) < to)  BY <1>6, <2>1
  <2>3. j = i  BY <1>11, <1>12, <2>1, <2>2
  <2>4. PICK m \in 1 .. n : o(m) > to /\ ~ (o(m) >= o(j))  BY <1>6, <2>1
  <2>5. ~ (m < i)  BY <1>2, <1>3, <1>12, <2>4
  <2>6. i < m  BY <1>2, <1>11, <2>3, <2>4, <2>5
  <2>7. e(i) <= o(m) /\ o(i) < e(i) /\ o(i) \in Nat /\ o(m) \in Nat /\ e(i) \in Nat
    BY <1>2, <2>1, <2>3, <2>6
  <2> QED  BY <2>3, <2>4, <2>7
<1>16. i \in InsertionPoint(tokens, size, tk)
  BY <1>11, <1>13, <1>14, <1>15 DEF InsertionPoint, n
<1> QED  BY <1>16 DEF Accepts

(* First fit refuses nothing it could place (g1_fmt.c:25-43): in every     *)
(* reachable list a token is accepted exactly when it ends within the      *)
(* size, overlaps no token, and is not behind or right before a token of   *)
(* its topic.                                                              *)
THEOREM FormatAcceptsExactly == FormatSpec => []AcceptsExactly
<1>1. TokensTyped /\ LayoutOK => AcceptsExactly
  BY AcceptedIsFree, FreeIsAccepted DEF AcceptsExactly
<1> QED  BY <1>1, FormatTypeCorrect, FormatLayoutCorrect, PTL
-----------------------------------------------------------------------------
(* How many tokens have a topic, in a list and in the list without one.    *)
LEMMA CountSkips ==
  ASSUME NEW r \in Seq(Token), NEW s \in Seq(Token), NEW i \in 1 .. Len(s),
         Skips(r, s, i), NEW t
  PROVE  /\ TokensOf(r, t) \in Nat
         /\ TokensOf(s, t) = TokensOf(r, t) + (IF s[i].topic = t THEN 1 ELSE 0)
<1> DEFINE A == {j \in 1 .. Len(r) : r[j].topic = t}
           B == {m \in 1 .. Len(s) : s[m].topic = t}
<1>1. PICK up \in [1 .. Len(r) -> 1 .. Len(s)] :
        /\ \A j \in 1 .. Len(r) : r[j] = s[up[j]] /\ up[j] # i
        /\ \A j, k \in 1 .. Len(r) : j < k => up[j] < up[k]
        /\ \A m \in 1 .. Len(s) : m # i => \E j \in 1 .. Len(r) : up[j] = m
  BY DEF Skips
<1>2. Len(r) \in Nat /\ Len(s) \in Nat  OBVIOUS
<1>3. IsFiniteSet(A) /\ IsFiniteSet(B)
  <2>1. IsFiniteSet(1 .. Len(r)) /\ IsFiniteSet(1 .. Len(s))
    BY <1>2, FS_Interval
  <2> QED  BY <2>1, FS_Subset
<1> DEFINE f == [j \in A |-> up[j]]
<1>4. f \in [A -> B \ {i}]  BY <1>1
<1>5. \A x, y \in A : f[x] = f[y] => x = y
  <2> SUFFICES ASSUME NEW x \in A, NEW y \in A, f[x] = f[y] PROVE x = y
    OBVIOUS
  <2>1. x \in Int /\ y \in Int /\ up[x] = up[y] /\ up[x] \in Int
    BY <1>2
  <2>2. ~ (x < y) /\ ~ (y < x)  BY <1>1, <2>1
  <2> QED  BY <2>1, <2>2
<1>6. \A m \in B \ {i} : \E j \in A : f[j] = m  BY <1>1
<1> HIDE DEF f, A, B
<1>7. f \in Bijection(A, B \ {i})
  BY <1>4, <1>5, <1>6 DEF Bijection, Injection, Surjection, IsInjective
<1>8. Cardinality(A) \in Nat /\ Cardinality(B) \in Nat
      /\ Cardinality(B \ {i}) = Cardinality(A)
  <2>1. ExistsBijection(A, B \ {i})  BY <1>7 DEF ExistsBijection
  <2> QED  BY <1>3, <2>1, FS_Bijection, FS_CardinalityType
<1>9. Cardinality(B \ {i}) = IF i \in B THEN Cardinality(B) - 1 ELSE Cardinality(B)
  BY <1>3, FS_RemoveElement
<1>10. i \in B <=> s[i].topic = t  BY DEF B
<1> QED  BY <1>8, <1>9, <1>10 DEF TokensOf, A, B

(* The number of tokens of a topic is a number, 0 if no token has it.      *)
LEMMA CountType ==
  ASSUME NEW s \in Seq(Token), NEW t
  PROVE  /\ TokensOf(s, t) \in Nat
         /\ TokensOf(s, t) = 0 <=> \A i \in 1 .. Len(s) : s[i].topic # t
<1> DEFINE B == {m \in 1 .. Len(s) : s[m].topic = t}
<1>1. Len(s) \in Nat  OBVIOUS
<1>2. IsFiniteSet(B)
  <2>1. IsFiniteSet(1 .. Len(s))  BY <1>1, FS_Interval
  <2> QED  BY <2>1, FS_Subset
<1>3. B = {} <=> \A i \in 1 .. Len(s) : s[i].topic # t  OBVIOUS
<1> HIDE DEF B
<1>4. Cardinality(B) \in Nat /\ (Cardinality(B) = 0 <=> B = {})
  BY <1>2, FS_EmptySet, FS_CardinalityType
<1> QED  BY <1>3, <1>4 DEF TokensOf, B

(* add_g1_token_internal adds one token of its topic.                      *)
LEMMA AddCounts ==
  ASSUME NEW ts \in Seq(Token), NEW sz, NEW tk \in Token, Accepts(ts, sz, tk)
  PROVE  /\ AddTokenInternal(ts, sz, tk) \in Seq(Token)
         /\ \A t : TokensOf(AddTokenInternal(ts, sz, tk), t) =
                     TokensOf(ts, t) + (IF t = tk.topic THEN 1 ELSE 0)
<1>1. PICK i \in InsertionPoint(ts, sz, tk) :
        AddTokenInternal(ts, sz, tk) = InsertAt(ts, i, tk)
  BY DEF Accepts, AddTokenInternal
<1>2. i \in 1 .. Len(ts) + 1  BY DEF InsertionPoint
<1> DEFINE ns == InsertAt(ts, i, tk)
<1>3. ns \in Seq(Token) /\ Len(ns) = Len(ts) + 1 /\ ns[i] = tk /\ Skips(ts, ns, i)
  BY <1>2, InsertAtSkips
<1> HIDE DEF ns
<1>4. \A t : TokensOf(ns, t) = TokensOf(ts, t) + (IF ns[i].topic = t THEN 1 ELSE 0)
  BY <1>2, <1>3, CountSkips
<1> QED  BY <1>1, <1>3, <1>4 DEF ns

(* del_g1_token_internal takes one token of the topic away, if any has it. *)
LEMMA DelCounts ==
  ASSUME NEW ts \in Seq(Token), NEW topic
  PROVE  /\ DelTokenInternal(ts, topic) \in Seq(Token)
         /\ \A t : TokensOf(DelTokenInternal(ts, topic), t) =
                     TokensOf(ts, t)
                       - (IF t = topic /\ TokensOf(ts, topic) > 0 THEN 1 ELSE 0)
<1> DEFINE I == {i \in 1 .. Len(ts) : ts[i].topic = topic}
<1>1. CASE I = {}
  <2>1. \A i \in 1 .. Len(ts) : ts[i].topic # topic  BY <1>1
  <2>2. DelTokenInternal(ts, topic) = ts  BY <2>1 DEF DelTokenInternal, RemoveFirstMatch
  <2>3. TokensOf(ts, topic) = 0 /\ \A t : TokensOf(ts, t) \in Nat
    BY <2>1, CountType
  <2> QED  BY <2>2, <2>3
<1>2. CASE I # {}
  <2>1. \E i \in 1 .. Len(ts) : ts[i].topic = topic  BY <1>2
  <2>2. I \in SUBSET Nat  OBVIOUS
  <2>3. Min(I) \in I  BY <1>2, <2>2, MinExists
  <2>4. DelTokenInternal(ts, topic) = RemoveAt(ts, Min(I))
    BY <1>2, <2>1 DEF DelTokenInternal, RemoveFirstMatch, SelectInSeq
  <2>5. PICK i \in 1 .. Len(ts) :
          DelTokenInternal(ts, topic) = RemoveAt(ts, i) /\ ts[i].topic = topic
    BY <2>3, <2>4
  <2> DEFINE ns == RemoveAt(ts, i)
  <2>6. ns \in Seq(Token) /\ Skips(ns, ts, i)  BY RemoveAtSkips
  <2> HIDE DEF ns, I
  <2>7. \A t : /\ TokensOf(ns, t) \in Nat
               /\ TokensOf(ts, t) = TokensOf(ns, t) + (IF ts[i].topic = t THEN 1 ELSE 0)
    BY <2>6, CountSkips
  <2>8. TokensOf(ts, topic) > 0  BY <2>5, <2>7
  <2> QED  BY <2>5, <2>6, <2>7, <2>8 DEF ns
<1> QED  BY <1>1, <1>2
-----------------------------------------------------------------------------
\* A value of the format table.
Slots == Formats \cup {NoFmt}

\* An entry of the attribute table.
Attrs == [ref : Nat, type : AttrTypes \cup {"none"}]

\* Values of a table of counters by product and topic.
Counters == [Pdts -> [Topics -> Nat]]

\* The tokens of a topic in a product's formats f, and the references the
\* products' counters r hold.
CountIn(f, t) == SumFunction([k \in Keys |-> FmtTokens(f[k])[t]])
RefsIn(r, t)  == SumFunction([p \in Pdts |-> r[p][t]])

\* A product that is not there left no orphaned tokens.
NothingLeft == \A p \in Pdts \ pdts : orphan[p] = NoRefs

(* The inductive invariant.                                                *)
Inv == TypeOK /\ NothingLeft /\ AttrRefsAccounted /\ PdtRefsExact

\* A registered attribute that stays registered keeps its type.
TypesStay ==
  \A t \in Topics : Registered(t) /\ Registered(t)' => attr'[t].type = attr[t].type

(* The two sums as functions of the tables.                                *)
LEMMA SumsOfTables ==
  /\ \A p : \A t \in Topics : PdtTokens(p)[t] = CountIn(fmt[p], t)
  /\ \A p : \A t \in Topics : PdtTokens(p)'[t] = CountIn(fmt'[p], t)
  /\ AttrRefsAccounted <=> \A t \in Topics : attr[t].ref = stranded[t] + RefsIn(pref, t)
  /\ AttrRefsAccounted' <=> \A t \in Topics : attr'[t].ref = stranded'[t] + RefsIn(pref', t)
BY DEF PdtTokens, CountIn, RefsIn, AttrRefsAccounted

(* A format holds a number of tokens of each topic.                        *)
LEMMA FmtTokensType ==
  ASSUME NEW f \in Slots, NEW t \in Topics
  PROVE  /\ FmtTokens(f)[t] \in Nat
         /\ f = NoFmt => FmtTokens(f)[t] = 0
         /\ f # NoFmt => f.tokens \in Seq(Token) /\ f.size \in Sizes
                        /\ FmtTokens(f)[t] = TokensOf(f.tokens, t)
<1>1. CASE f = NoFmt  BY <1>1 DEF FmtTokens
<1>2. CASE f # NoFmt
  <2>1. f.tokens \in Seq(Token) /\ f.size \in Sizes  BY <1>2 DEF Slots, Formats
  <2>2. TokensOf(f.tokens, t) \in Nat  BY <2>1, CountType
  <2> QED  BY <1>2, <2>1, <2>2 DEF FmtTokens
<1> QED  BY <1>1, <1>2

(* A new list of tokens makes a new format.                                *)
LEMMA FmtWithTokens ==
  ASSUME NEW f \in Slots, f # NoFmt, NEW ts \in Seq(Token)
  PROVE  /\ [f EXCEPT !.tokens = ts] \in Slots
         /\ [f EXCEPT !.tokens = ts] # NoFmt
         /\ \A t \in Topics :
              FmtTokens([f EXCEPT !.tokens = ts])[t] = TokensOf(ts, t)
<1>1. [f EXCEPT !.tokens = ts] \in Formats  BY DEF Slots, Formats
<1>2. [f EXCEPT !.tokens = ts].tokens = ts  BY DEF Slots, Formats
<1>3. [f EXCEPT !.tokens = ts] # NoFmt  BY <1>1, CatalogAssumption DEF Formats
<1> QED  BY <1>1, <1>2, <1>3 DEF Slots, FmtTokens

(* The tokens of a product, if one of its formats changes.                 *)
LEMMA CountUpdate ==
  ASSUME NEW f \in [Keys -> Slots], NEW g \in [Keys -> Slots], NEW k \in Keys,
         \A j \in Keys : j # k => g[j] = f[j], NEW t \in Topics
  PROVE  /\ CountIn(f, t) \in Nat /\ CountIn(g, t) \in Nat
         /\ FmtTokens(f[k])[t] \in Nat /\ FmtTokens(f[k])[t] =< CountIn(f, t)
         /\ FmtTokens(g[k])[t] \in Nat
         /\ CountIn(g, t) = CountIn(f, t) - FmtTokens(f[k])[t] + FmtTokens(g[k])[t]
<1> DEFINE hf == [j \in Keys |-> FmtTokens(f[j])[t]]
           hg == [j \in Keys |-> FmtTokens(g[j])[t]]
<1>1. hf \in [Keys -> Nat] /\ hg \in [Keys -> Nat]  BY FmtTokensType
<1>2. \A j \in Keys : j # k => hg[j] = hf[j]  OBVIOUS
<1>3. hf[k] = FmtTokens(f[k])[t] /\ hg[k] = FmtTokens(g[k])[t]  OBVIOUS
<1>4. SumFunction(hf) = CountIn(f, t) /\ SumFunction(hg) = CountIn(g, t)
  BY DEF CountIn
<1> HIDE DEF hf, hg
<1>5. IsFiniteSet(Keys)  BY CatalogAssumption
<1>6. SumFunction(hf) \in Nat /\ SumFunction(hg) \in Nat /\ hf[k] =< SumFunction(hf)
  BY <1>1, <1>5, SumBounds
<1>7. SumFunction(hg) + hf[k] = SumFunction(hf) + hg[k]
  BY <1>1, <1>2, <1>5, SumUpdate
<1>8. hf[k] \in Nat /\ hg[k] \in Nat  BY <1>1
<1> QED  BY <1>3, <1>4, <1>6, <1>7, <1>8

(* The references of all products, if the counters of one change.          *)
LEMMA RefsUpdate ==
  ASSUME NEW r \in Counters, NEW q \in Counters,
         NEW p \in Pdts, \A x \in Pdts : x # p => q[x] = r[x], NEW t \in Topics
  PROVE  /\ RefsIn(r, t) \in Nat /\ RefsIn(q, t) \in Nat
         /\ r[p][t] \in Nat /\ r[p][t] =< RefsIn(r, t) /\ q[p][t] \in Nat
         /\ RefsIn(q, t) = RefsIn(r, t) - r[p][t] + q[p][t]
<1> DEFINE hr == [x \in Pdts |-> r[x][t]]
           hq == [x \in Pdts |-> q[x][t]]
<1>1. hr \in [Pdts -> Nat] /\ hq \in [Pdts -> Nat]  BY DEF Counters
<1>2. \A x \in Pdts : x # p => hq[x] = hr[x]  OBVIOUS
<1>3. hr[p] = r[p][t] /\ hq[p] = q[p][t]  OBVIOUS
<1>4. SumFunction(hr) = RefsIn(r, t) /\ SumFunction(hq) = RefsIn(q, t)
  BY DEF RefsIn
<1> HIDE DEF hr, hq
<1>5. IsFiniteSet(Pdts)  BY CatalogAssumption
<1>6. SumFunction(hr) \in Nat /\ SumFunction(hq) \in Nat /\ hr[p] =< SumFunction(hr)
  BY <1>1, <1>5, SumBounds
<1>7. SumFunction(hq) + hr[p] = SumFunction(hr) + hq[p]
  BY <1>1, <1>2, <1>5, SumUpdate
<1>8. hr[p] \in Nat /\ hq[p] \in Nat  BY <1>1
<1> QED  BY <1>3, <1>4, <1>6, <1>7, <1>8

(* A table without formats holds no tokens.                                *)
LEMMA NoFmtsNoTokens ==
  ASSUME NEW t \in Topics
  PROVE  CountIn(NoFmts, t) = 0 /\ NoFmts \in [Keys -> Slots]
<1>1. FmtTokens(NoFmt)[t] = 0  BY FmtTokensType DEF Slots
<1>2. [k \in Keys |-> FmtTokens(NoFmts[k])[t]] = [k \in Keys |-> 0]
  BY <1>1 DEF NoFmts
<1>3. IsFiniteSet(Keys)  BY CatalogAssumption
<1> QED  BY <1>2, <1>3, SumOfZeros DEF CountIn, NoFmts, Slots

(* add_attr adds one reference and fixes the type of a new entry only.     *)
LEMMA AddAttrRef ==
  ASSUME NEW a \in Attrs, NEW type \in AttrTypes
  PROVE  /\ AddAttr(a, type) \in Attrs /\ AddAttr(a, type).ref = a.ref + 1
         /\ a.ref > 0 => AddAttr(a, type).type = a.type
BY DEF AddAttr, Attrs

(* del_attr_ref takes references away; the type goes with the last one.    *)
LEMMA DelAttrRefs ==
  ASSUME NEW a \in Attrs, NEW n \in Nat, n =< a.ref
  PROVE  /\ DelAttrRef(a, n) \in Attrs /\ DelAttrRef(a, n).ref = a.ref - n
         /\ DelAttrRef(a, n).ref > 0 => DelAttrRef(a, n).type = a.type
BY DEF DelAttrRef, Attrs, NoAttr

\* Of count calls of del_pdt_attr, those that find a reference: released.
Found(have, count) == IF count =< have THEN count ELSE have

(* del_pdt_attr takes the same number from both tables.                    *)
LEMMA Release ==
  ASSUME Inv, NEW p \in Pdts, NEW count \in [Topics -> Nat], DelPdtAttr(p, count)
  PROVE  /\ pref' \in Counters /\ attr' \in [Topics -> Attrs]
         /\ \A q \in Pdts : q # p => pref'[q] = pref[q]
         /\ \A t \in Topics :
              /\ pref[p][t] \in Nat
              /\ pref'[p][t] = pref[p][t] - Found(pref[p][t], count[t])
              /\ attr'[t].ref = attr[t].ref - Found(pref[p][t], count[t])
              /\ RefsIn(pref', t) = RefsIn(pref, t) - Found(pref[p][t], count[t])
         /\ \A t \in Topics : attr[t].ref \in Nat /\ RefsIn(pref, t) \in Nat
         /\ TypesStay
<1> DEFINE released == [t \in Topics |-> Found(pref[p][t], count[t])]
<1>1. pref \in Counters /\ attr \in [Topics -> Attrs]
      /\ stranded \in [Topics -> Nat]
  BY DEF Inv, TypeOK, Attrs, Counters
<1>2. /\ pref' = [pref EXCEPT ![p] = [t \in Topics |-> pref[p][t] - released[t]]]
      /\ attr' = [t \in Topics |-> DelAttrRef(attr[t], released[t])]
  BY <1>1 DEF DelPdtAttr, Found, Counters
<1>3. \A t \in Topics : /\ pref[p][t] \in Nat
                        /\ released[t] \in Nat /\ released[t] =< pref[p][t]
                        /\ released[t] = Found(pref[p][t], count[t])
  BY <1>1 DEF Found, Counters
<1> HIDE DEF released
<1>4. pref' \in Counters
  <2>1. [t \in Topics |-> pref[p][t] - released[t]] \in [Topics -> Nat]
    BY <1>3
  <2> QED  BY <1>1, <1>2, <2>1 DEF Counters
<1>5. /\ \A q \in Pdts : q # p => pref'[q] = pref[q]
      /\ \A t \in Topics : pref'[p][t] = pref[p][t] - released[t]
  BY <1>1, <1>2 DEF Counters
<1>6. ASSUME NEW t \in Topics
      PROVE  /\ RefsIn(pref, t) \in Nat /\ pref[p][t] =< RefsIn(pref, t)
             /\ RefsIn(pref', t) = RefsIn(pref, t) - pref[p][t] + pref'[p][t]
  BY <1>1, <1>4, <1>5, RefsUpdate
<1>7. ASSUME NEW t \in Topics
      PROVE  attr[t] \in Attrs /\ attr[t].ref \in Nat /\ released[t] =< attr[t].ref
  <2>1. attr[t].ref = stranded[t] + RefsIn(pref, t)
    BY SumsOfTables DEF Inv
  <2>2. attr[t] \in Attrs /\ attr[t].ref \in Nat /\ stranded[t] \in Nat
    BY <1>1 DEF Attrs
  <2> QED  BY <1>3, <1>6, <2>1, <2>2
<1>8. ASSUME NEW t \in Topics
      PROVE  /\ attr'[t] \in Attrs /\ attr'[t].ref = attr[t].ref - released[t]
             /\ attr'[t].ref > 0 => attr'[t].type = attr[t].type
  BY <1>2, <1>3, <1>7, DelAttrRefs
<1>9. attr' \in [Topics -> Attrs]  BY <1>2, <1>8
<1>10. TypesStay  BY <1>8 DEF TypesStay, Registered
<1>11. \A t \in Topics : RefsIn(pref', t) = RefsIn(pref, t) - released[t]
  BY <1>3, <1>5, <1>6
<1> QED  BY <1>3, <1>4, <1>5, <1>6, <1>7, <1>8, <1>9, <1>10, <1>11
-----------------------------------------------------------------------------
\* Values of the format tables of all products.
Tables == [Pdts -> [Keys -> Slots]]

(* The tables hold what their declarations say.                            *)
LEMMA Shapes ==
  /\ TypeOK <=> /\ pdts \subseteq Pdts /\ fmt \in Tables /\ pref \in Counters
                /\ attr \in [Topics -> Attrs] /\ orphan \in Counters
                /\ strayed \subseteq Pdts \X Topics /\ stranded \in [Topics -> Nat]
                /\ \A p \in Pdts \ pdts : fmt[p] = NoFmts /\ pref[p] = NoRefs
  /\ TypeOK' <=> /\ pdts' \subseteq Pdts /\ fmt' \in Tables /\ pref' \in Counters
                 /\ attr' \in [Topics -> Attrs] /\ orphan' \in Counters
                 /\ strayed' \subseteq Pdts \X Topics /\ stranded' \in [Topics -> Nat]
                 /\ \A p \in Pdts \ pdts' : fmt'[p] = NoFmts /\ pref'[p] = NoRefs
BY DEF TypeOK, Tables, Slots, Counters, Attrs

(* A change of one product leaves the others exact.                        *)
LEMMA ExactStep ==
  ASSUME Inv, NEW p \in Pdts, pdts' \subseteq pdts \cup {p},
         \A q \in Pdts : q # p =>
           /\ pref'[q] = pref[q] /\ fmt'[q] = fmt[q] /\ orphan'[q] = orphan[q]
           /\ \A t \in Topics : <<q, t>> \in strayed => <<q, t>> \in strayed',
         p \in pdts' => \A t \in Topics : <<p, t>> \notin strayed' =>
           pref'[p][t] = CountIn(fmt'[p], t) + orphan'[p][t]
  PROVE  PdtRefsExact'
<1>1. pdts \subseteq Pdts  BY Shapes DEF Inv
<1>2. ASSUME NEW q \in pdts', NEW t \in Topics, <<q, t>> \notin strayed'
      PROVE  pref'[q][t] = CountIn(fmt'[q], t) + orphan'[q][t]
  <2>1. CASE q = p  BY <1>2, <2>1
  <2>2. CASE q # p
    <3>1. q \in pdts /\ q \in Pdts  BY <1>1, <2>2
    <3>2. <<q, t>> \notin strayed  BY <1>2, <2>2, <3>1
    <3>3. pref[q][t] = CountIn(fmt[q], t) + orphan[q][t]
      BY <3>1, <3>2, SumsOfTables DEF Inv, PdtRefsExact
    <3> QED  BY <2>2, <3>1, <3>3
  <2> QED  BY <2>1, <2>2
<1>3. \A q : \A t \in Topics : PdtTokens(q)'[t] = CountIn(fmt'[q], t)  BY SumsOfTables
<1> QED  BY <1>2, <1>3 DEF PdtRefsExact

(* A change of one format of one product.                                  *)
LEMMA OneFmt ==
  ASSUME Inv, NEW p \in Pdts, NEW k \in Keys, NEW f \in Slots,
         fmt' = [fmt EXCEPT ![p][k] = f]
  PROVE  /\ fmt' \in Tables
         /\ \A q \in Pdts : q # p => fmt'[q] = fmt[q]
         /\ fmt[p][k] \in Slots
         /\ \A t \in Topics :
              /\ CountIn(fmt[p], t) \in Nat /\ CountIn(fmt'[p], t) \in Nat
              /\ FmtTokens(fmt[p][k])[t] \in Nat /\ FmtTokens(f)[t] \in Nat
              /\ FmtTokens(fmt[p][k])[t] =< CountIn(fmt[p], t)
              /\ CountIn(fmt'[p], t) =
                   CountIn(fmt[p], t) - FmtTokens(fmt[p][k])[t] + FmtTokens(f)[t]
<1> DEFINE a == fmt[p]
           b == [a EXCEPT ![k] = f]
           Table == [Keys -> Slots]
<1>1. fmt \in [Pdts -> Table]  BY Shapes DEF Inv, Tables
<1>2. fmt' = [fmt EXCEPT ![p] = b]  BY <1>1
<1>3. a \in Table  BY <1>1
<1>4. b \in Table /\ b[k] = f /\ \A j \in Keys : j # k => b[j] = a[j]
  BY <1>3
<1> HIDE DEF b
<1>5. fmt' \in [Pdts -> Table] /\ fmt'[p] = b /\ \A q \in Pdts : q # p => fmt'[q] = fmt[q]
  <2> HIDE DEF Table, a
  <2> QED  BY <1>1, <1>2, <1>4
<1>6. a[k] \in Slots  BY <1>3
<1>7. ASSUME NEW t \in Topics
      PROVE  /\ CountIn(a, t) \in Nat /\ CountIn(b, t) \in Nat
             /\ FmtTokens(a[k])[t] \in Nat /\ FmtTokens(a[k])[t] =< CountIn(a, t)
             /\ FmtTokens(b[k])[t] \in Nat
             /\ CountIn(b, t) = CountIn(a, t) - FmtTokens(a[k])[t] + FmtTokens(b[k])[t]
  <2> HIDE DEF a
  <2> QED  BY <1>3, <1>4, CountUpdate
<1> QED  BY <1>4, <1>5, <1>6, <1>7 DEF Tables

(* What the invariant says of a product that is there.                     *)
LEMMA ExactNow ==
  ASSUME Inv, NEW p \in pdts, NEW t \in Topics, <<p, t>> \notin strayed
  PROVE  pref[p][t] = CountIn(fmt[p], t) + orphan[p][t]
BY SumsOfTables DEF Inv, PdtRefsExact

(* The empty catalogue.                                                    *)
LEMMA InitInv == Init => Inv
<1> SUFFICES ASSUME Init PROVE Inv  OBVIOUS
<1>1. NoRefs \in [Topics -> Nat] /\ NoAttr \in Attrs /\ NoAttr.ref = 0
  BY DEF NoRefs, NoAttr, Attrs
<1>2. TypeOK
  <2>1. NoFmts \in [Keys -> Slots]  BY DEF NoFmts, Slots
  <2> QED  BY <1>1, <2>1, Shapes DEF Init, Tables, Counters
<1>3. NothingLeft  BY DEF NothingLeft, Init
<1>4. AttrRefsAccounted
  <2>1. ASSUME NEW t \in Topics PROVE RefsIn(pref, t) = 0
    <3>1. [p \in Pdts |-> pref[p][t]] = [p \in Pdts |-> 0]  BY DEF Init, NoRefs
    <3>2. IsFiniteSet(Pdts)  BY CatalogAssumption
    <3> QED  BY <3>1, <3>2, SumOfZeros DEF RefsIn
  <2>2. \A t \in Topics : attr[t].ref = 0 /\ stranded[t] = 0
    BY <1>1 DEF Init, NoRefs
  <2> QED  BY <2>1, <2>2, SumsOfTables
<1>5. PdtRefsExact  BY DEF Init, PdtRefsExact
<1> QED  BY <1>2, <1>3, <1>4, <1>5 DEF Inv

(* The two levels agree after a release.                                   *)
LEMMA ReleaseAccounts ==
  ASSUME Inv, NEW p \in Pdts, NEW count \in [Topics -> Nat], DelPdtAttr(p, count),
         stranded' = stranded
  PROVE  AttrRefsAccounted'
<1>1. \A t \in Topics :
        /\ pref[p][t] \in Nat /\ attr[t].ref \in Nat /\ RefsIn(pref, t) \in Nat
        /\ attr'[t].ref = attr[t].ref - Found(pref[p][t], count[t])
        /\ RefsIn(pref', t) = RefsIn(pref, t) - Found(pref[p][t], count[t])
  BY Release
<1>2. ASSUME NEW t \in Topics
      PROVE  attr'[t].ref = stranded'[t] + RefsIn(pref', t)
  <2>1. attr[t].ref = stranded[t] + RefsIn(pref, t) /\ stranded[t] \in Nat
    BY Shapes, SumsOfTables DEF Inv
  <2>2. count[t] \in Nat /\ pref[p][t] \in Nat  BY <1>1
  <2>3. Found(pref[p][t], count[t]) \in Nat  BY <2>2 DEF Found
  <2> QED  BY <1>1, <2>1, <2>3
<1> QED  BY <1>2, SumsOfTables

(* add_pdt: a new product starts with nothing.                             *)
LEMMA AddPdtStep ==
  ASSUME Inv, NEW p \in Pdts, AddPdt(p)
  PROVE  Inv' /\ TypesStay
<1>1. /\ p \notin pdts /\ pdts' = pdts \cup {p}
      /\ UNCHANGED <<fmt, pref, attr, orphan, strayed, stranded>>
  BY DEF AddPdt
<1>2. TypeOK /\ TypeOK'  BY <1>1, Shapes DEF Inv
<1>3. NothingLeft'  BY <1>1 DEF Inv, NothingLeft
<1>4. AttrRefsAccounted'  BY <1>1 DEF Inv, AttrRefsAccounted
<1>5. PdtRefsExact'
  <2>1. fmt[p] = NoFmts /\ pref[p] = NoRefs /\ orphan[p] = NoRefs
    BY <1>1, <1>2, Shapes DEF Inv, NothingLeft
  <2>2. \A t \in Topics : CountIn(NoFmts, t) = 0 /\ NoRefs[t] = 0
    BY NoFmtsNoTokens DEF NoRefs
  <2>3. \A t \in Topics : pref'[p][t] = CountIn(fmt'[p], t) + orphan'[p][t]
    BY <1>1, <2>1, <2>2
  <2> QED  BY <1>1, <2>3, ExactStep
<1>6. TypesStay  BY <1>1 DEF TypesStay
<1> QED  BY <1>2, <1>3, <1>4, <1>5, <1>6 DEF Inv

(* del_g1_fmt: the tokens of the format are released.                      *)
LEMMA DelFmtStep ==
  ASSUME Inv, NEW p \in Pdts, NEW k \in Keys, DelFmt(p, k)
  PROVE  Inv' /\ TypesStay
<1> DEFINE count == FmtTokens(fmt[p][k])
<1>1. /\ p \in pdts /\ fmt[p][k] # NoFmt /\ DelPdtAttr(p, count)
      /\ fmt' = [fmt EXCEPT ![p][k] = NoFmt]
      /\ UNCHANGED <<pdts, orphan, strayed, stranded>>
  BY DEF DelFmt
<1>2. /\ fmt' \in Tables
      /\ \A q \in Pdts : q # p => fmt'[q] = fmt[q]
      /\ fmt[p][k] \in Slots
      /\ \A t \in Topics :
           /\ CountIn(fmt[p], t) \in Nat /\ count[t] \in Nat
           /\ count[t] =< CountIn(fmt[p], t)
           /\ CountIn(fmt'[p], t) = CountIn(fmt[p], t) - count[t] + FmtTokens(NoFmt)[t]
  <2>1. NoFmt \in Slots  BY DEF Slots
  <2> QED  BY <1>1, <2>1, OneFmt, ZenonT(60)
<1>3. /\ count \in [Topics -> Nat]
      /\ \A t \in Topics : FmtTokens(NoFmt)[t] = 0
  <2>1. count = [t \in Topics |-> count[t]]  BY DEF FmtTokens
  <2> QED  BY <1>2, <2>1, FmtTokensType DEF Slots
<1> HIDE DEF count
<1>4. /\ pref' \in Counters /\ attr' \in [Topics -> Attrs]
      /\ \A q \in Pdts : q # p => pref'[q] = pref[q]
      /\ \A t \in Topics :
           /\ pref[p][t] \in Nat
           /\ pref'[p][t] = pref[p][t] - Found(pref[p][t], count[t])
           /\ attr'[t].ref = attr[t].ref - Found(pref[p][t], count[t])
           /\ RefsIn(pref', t) = RefsIn(pref, t) - Found(pref[p][t], count[t])
           /\ attr[t].ref \in Nat /\ RefsIn(pref, t) \in Nat
      /\ TypesStay
  BY <1>1, <1>3, Release
<1>5. TypeOK /\ TypeOK'  BY <1>1, <1>2, <1>4, Shapes DEF Inv
<1>6. NothingLeft'  BY <1>1 DEF Inv, NothingLeft
<1>7. AttrRefsAccounted'  BY <1>1, <1>3, ReleaseAccounts
<1>8. PdtRefsExact'
  <2>1. ASSUME NEW t \in Topics, <<p, t>> \notin strayed'
        PROVE  pref'[p][t] = CountIn(fmt'[p], t) + orphan'[p][t]
    <3>1. pref[p][t] = CountIn(fmt[p], t) + orphan[p][t]
      BY <1>1, <2>1, ExactNow
    <3>2. orphan[p][t] \in Nat  BY <1>5, Shapes DEF Counters
    <3>3. Found(pref[p][t], count[t]) = count[t]
      BY <1>2, <3>1, <3>2 DEF Found
    <3>4. pref'[p][t] = pref[p][t] - count[t] /\ orphan'[p][t] = orphan[p][t]
      BY <1>1, <1>4, <3>3
    <3>5. CountIn(fmt'[p], t) = CountIn(fmt[p], t) - count[t]
          /\ CountIn(fmt[p], t) \in Nat /\ count[t] \in Nat
      BY <1>2, <1>3
    <3> QED  BY <3>1, <3>2, <3>4, <3>5
  <2> QED  BY <1>1, <1>2, <1>4, <2>1, ExactStep
<1> QED  BY <1>4, <1>5, <1>6, <1>7, <1>8 DEF Inv

(* del_pdt: the tokens are released, what the product still counts stays.  *)
LEMMA DelPdtStep ==
  ASSUME Inv, NEW p \in Pdts, DelPdt(p)
  PROVE  Inv' /\ TypesStay
<1> DEFINE released == [t \in Topics |-> Found(pref[p][t], PdtTokens(p)[t])]
<1>1. /\ pdts' = pdts \ {p} /\ fmt' = [fmt EXCEPT ![p] = NoFmts]
      /\ attr' = [t \in Topics |-> DelAttrRef(attr[t], released[t])]
      /\ stranded' = [t \in Topics |-> stranded[t] + pref[p][t] - released[t]]
      /\ pref' = [pref EXCEPT ![p] = NoRefs]
      /\ orphan' = [orphan EXCEPT ![p] = NoRefs]
      /\ strayed' = {s \in strayed : s[1] # p}
  BY DEF DelPdt, Found
<1>2. /\ TypeOK /\ pdts \subseteq Pdts /\ fmt \in Tables /\ pref \in Counters
      /\ attr \in [Topics -> Attrs] /\ orphan \in Counters
      /\ strayed \subseteq Pdts \X Topics /\ stranded \in [Topics -> Nat]
  BY Shapes DEF Inv
<1>3. ASSUME NEW t \in Topics
      PROVE  released[t] \in Nat /\ released[t] =< pref[p][t] /\ pref[p][t] \in Nat
  <2>1. CountIn(fmt[p], t) \in Nat
    <3>1. fmt[p] \in [Keys -> Slots]  BY <1>2 DEF Tables
    <3>2. [k \in Keys |-> FmtTokens(fmt[p][k])[t]] \in [Keys -> Nat]
      BY <3>1, FmtTokensType
    <3> QED  BY <3>2, SumBounds, CatalogAssumption DEF CountIn
  <2>2. PdtTokens(p)[t] \in Nat /\ pref[p][t] \in Nat
    BY <1>2, <2>1, SumsOfTables DEF Counters
  <2> QED  BY <2>2 DEF Found
<1> HIDE DEF released
<1>4. NoRefs \in [Topics -> Nat] /\ \A t \in Topics : NoRefs[t] = 0  BY DEF NoRefs
<1>5. /\ pref' \in Counters /\ orphan' \in Counters
      /\ pref'[p] = NoRefs /\ orphan'[p] = NoRefs
      /\ \A q \in Pdts : q # p => pref'[q] = pref[q] /\ orphan'[q] = orphan[q]
  BY <1>1, <1>2, <1>4 DEF Counters
<1>6. /\ fmt' \in Tables /\ fmt'[p] = NoFmts
      /\ \A q \in Pdts : q # p => fmt'[q] = fmt[q]
  <2> DEFINE Table == [Keys -> Slots]
  <2>1. NoFmts \in Table  BY DEF NoFmts, Slots
  <2>2. fmt \in [Pdts -> Table]  BY <1>2 DEF Tables
  <2> HIDE DEF Table
  <2>3. fmt' \in [Pdts -> Table] /\ fmt'[p] = NoFmts
        /\ \A q \in Pdts : q # p => fmt'[q] = fmt[q]
    BY <1>1, <2>1, <2>2
  <2> QED  BY <2>3 DEF Tables, Table
<1>7. ASSUME NEW t \in Topics
      PROVE  /\ attr[t] \in Attrs /\ attr[t].ref \in Nat /\ stranded[t] \in Nat
             /\ attr[t].ref = stranded[t] + RefsIn(pref, t) /\ released[t] =< attr[t].ref
             /\ RefsIn(pref, t) \in Nat
             /\ RefsIn(pref', t) = RefsIn(pref, t) - pref[p][t]
  <2>1. /\ RefsIn(pref, t) \in Nat /\ pref[p][t] =< RefsIn(pref, t)
        /\ RefsIn(pref', t) = RefsIn(pref, t) - pref[p][t] + pref'[p][t]
    BY <1>2, <1>5, RefsUpdate
  <2>2. pref'[p][t] = 0  BY <1>4, <1>5
  <2>3. attr[t] \in Attrs /\ attr[t].ref \in Nat /\ stranded[t] \in Nat
    BY <1>2 DEF Attrs
  <2>4. attr[t].ref = stranded[t] + RefsIn(pref, t)  BY SumsOfTables DEF Inv
  <2> QED  BY <1>3, <2>1, <2>2, <2>3, <2>4
<1>8. ASSUME NEW t \in Topics
      PROVE  /\ attr'[t] \in Attrs /\ attr'[t].ref = attr[t].ref - released[t]
             /\ attr'[t].ref > 0 => attr'[t].type = attr[t].type
             /\ stranded'[t] = stranded[t] + pref[p][t] - released[t]
             /\ stranded'[t] \in Nat
  <2>1. attr'[t] = DelAttrRef(attr[t], released[t])  BY <1>1
  <2>2. stranded'[t] = stranded[t] + pref[p][t] - released[t]  BY <1>1
  <2> QED  BY <1>3, <1>7, <2>1, <2>2, DelAttrRefs
<1>9. TypeOK'
  <2>1. attr' \in [Topics -> Attrs] /\ stranded' \in [Topics -> Nat]
    BY <1>1, <1>8
  <2>2. ASSUME NEW q \in Pdts \ pdts' PROVE fmt'[q] = NoFmts /\ pref'[q] = NoRefs
    <3>1. CASE q = p  BY <1>5, <1>6, <3>1
    <3>2. CASE q # p
      <4>1. q \in Pdts \ pdts  BY <1>1, <2>2, <3>2
      <4> QED  BY <1>2, <1>5, <1>6, <3>2, <4>1, Shapes
    <3> QED  BY <3>1, <3>2
  <2> QED  BY <1>1, <1>2, <1>5, <1>6, <2>1, <2>2, Shapes
<1>10. NothingLeft'
  <2>1. ASSUME NEW q \in Pdts \ pdts' PROVE orphan'[q] = NoRefs
    <3>1. CASE q = p  BY <1>5, <3>1
    <3>2. CASE q # p  BY <1>1, <1>5, <2>1, <3>2 DEF Inv, NothingLeft
    <3> QED  BY <3>1, <3>2
  <2> QED  BY <2>1 DEF NothingLeft
<1>11. AttrRefsAccounted'
  <2>1. \A t \in Topics : attr'[t].ref = stranded'[t] + RefsIn(pref', t)
    BY <1>3, <1>7, <1>8
  <2> QED  BY <2>1, SumsOfTables
<1>12. PdtRefsExact'
  <2>1. ASSUME NEW q \in Pdts, q # p, NEW t \in Topics, <<q, t>> \in strayed
        PROVE  <<q, t>> \in strayed'
    <3>1. <<q, t>>[1] = q  OBVIOUS
    <3> QED  BY <1>1, <2>1, <3>1
  <2>2. p \notin pdts' /\ pdts' \subseteq pdts \cup {p}  BY <1>1
  <2> QED  BY <1>5, <1>6, <2>1, <2>2, ExactStep
<1>13. TypesStay  BY <1>8 DEF TypesStay, Registered
<1> QED  BY <1>9, <1>10, <1>11, <1>12, <1>13 DEF Inv

(* add_g1_fmt: the tokens of the format that is replaced are orphaned.     *)
LEMMA AddFmtStep ==
  ASSUME Inv, NEW p \in Pdts, NEW k \in Keys, NEW sz \in Sizes, AddFmt(p, k, sz)
  PROVE  Inv' /\ TypesStay
<1> DEFINE f == [size |-> sz, tokens |-> << >>]
           moved == [t \in Topics |-> IF <<p, t>> \in strayed THEN 0
                                      ELSE orphan[p][t] + FmtTokens(fmt[p][k])[t]]
<1>1. /\ p \in pdts /\ fmt' = [fmt EXCEPT ![p][k] = f]
      /\ UNCHANGED <<pdts, pref, attr, strayed, stranded>>
  BY DEF AddFmt
<1>2. /\ TypeOK /\ pdts \subseteq Pdts /\ pref \in Counters
      /\ attr \in [Topics -> Attrs] /\ orphan \in Counters
      /\ strayed \subseteq Pdts \X Topics /\ stranded \in [Topics -> Nat]
  BY Shapes DEF Inv
<1>3. orphan' = [orphan EXCEPT ![p] = moved]
  BY <1>2 DEF AddFmt, Counters
<1>4. f \in Slots /\ \A t \in Topics : FmtTokens(f)[t] = 0
  <2>1. << >> \in Seq(Token) /\ f.tokens = << >>  OBVIOUS
  <2>2. f \in Formats  BY <2>1 DEF Formats
  <2>3. f # NoFmt  BY <2>2, CatalogAssumption DEF Formats
  <2>4. \A t \in Topics : TokensOf(<< >>, t) = 0
    <3>1. \A t : \A i \in 1 .. Len(<< >>) : <<>>[i].topic # t  OBVIOUS
    <3> QED  BY <2>1, <3>1, CountType
  <2> QED  BY <2>1, <2>2, <2>3, <2>4 DEF Slots, FmtTokens
<1> HIDE DEF f
<1>5. /\ fmt' \in Tables
      /\ \A q \in Pdts : q # p => fmt'[q] = fmt[q]
      /\ fmt[p][k] \in Slots
      /\ \A t \in Topics :
           /\ CountIn(fmt[p], t) \in Nat /\ FmtTokens(fmt[p][k])[t] \in Nat
           /\ FmtTokens(fmt[p][k])[t] =< CountIn(fmt[p], t)
           /\ CountIn(fmt'[p], t) =
                CountIn(fmt[p], t) - FmtTokens(fmt[p][k])[t] + FmtTokens(f)[t]
  BY <1>1, <1>4, OneFmt, ZenonT(60)
<1>6. /\ orphan' \in Counters /\ orphan'[p] = moved
      /\ \A q \in Pdts : q # p => orphan'[q] = orphan[q]
  <2>1. \A t \in Topics : orphan[p][t] \in Nat  BY <1>2 DEF Counters
  <2>2. moved \in [Topics -> Nat]  BY <1>5, <2>1
  <2> HIDE DEF moved
  <2> QED  BY <1>2, <1>3, <2>2 DEF Counters
<1>7. TypeOK'
  <2>1. ASSUME NEW q \in Pdts \ pdts' PROVE fmt'[q] = NoFmts /\ pref'[q] = NoRefs
    <3>1. q # p /\ q \in Pdts \ pdts  BY <1>1, <2>1
    <3> QED  BY <1>1, <1>2, <1>5, <3>1, Shapes
  <2> QED  BY <1>1, <1>2, <1>5, <1>6, <2>1, Shapes
<1>8. NothingLeft'  BY <1>1, <1>6 DEF Inv, NothingLeft
<1>9. AttrRefsAccounted'  BY <1>1 DEF Inv, AttrRefsAccounted
<1>10. PdtRefsExact'
  <2>1. ASSUME NEW t \in Topics, <<p, t>> \notin strayed
        PROVE  pref'[p][t] = CountIn(fmt'[p], t) + orphan'[p][t]
    <3>1. pref[p][t] = CountIn(fmt[p], t) + orphan[p][t]
      BY <1>1, <2>1, ExactNow
    <3>2. orphan'[p][t] = orphan[p][t] + FmtTokens(fmt[p][k])[t] /\ orphan[p][t] \in Nat
      BY <1>2, <1>6, <2>1 DEF Counters
    <3>3. CountIn(fmt'[p], t) = CountIn(fmt[p], t) - FmtTokens(fmt[p][k])[t]
          /\ CountIn(fmt[p], t) \in Nat /\ FmtTokens(fmt[p][k])[t] \in Nat
      BY <1>4, <1>5
    <3> QED  BY <1>1, <3>1, <3>2, <3>3
  <2> QED  BY <1>1, <1>5, <1>6, <2>1, ExactStep
<1>11. TypesStay  BY <1>1 DEF TypesStay
<1> QED  BY <1>7, <1>8, <1>9, <1>10, <1>11 DEF Inv

(* A token list that changes inside a format, for the two actions below.   *)
LEMMA OneList ==
  ASSUME Inv, NEW p \in pdts, NEW k \in Keys, fmt[p][k] # NoFmt,
         NEW ts \in Seq(Token), fmt' = [fmt EXCEPT ![p][k].tokens = ts],
         UNCHANGED <<pdts, stranded>>, strayed' \subseteq Pdts \X Topics,
         pref' \in Counters, attr' \in [Topics -> Attrs], orphan' \in Counters,
         \A q \in Pdts : q # p => pref'[q] = pref[q] /\ orphan'[q] = orphan[q]
  PROVE  /\ TypeOK' /\ NothingLeft'
         /\ \A q \in Pdts : q # p => fmt'[q] = fmt[q]
         /\ fmt[p][k].tokens \in Seq(Token)
         /\ \A t \in Topics :
              /\ CountIn(fmt[p], t) \in Nat
              /\ TokensOf(fmt[p][k].tokens, t) \in Nat
              /\ TokensOf(fmt[p][k].tokens, t) =< CountIn(fmt[p], t)
              /\ CountIn(fmt'[p], t) =
                   CountIn(fmt[p], t) - TokensOf(fmt[p][k].tokens, t) + TokensOf(ts, t)
<1> DEFINE f == [fmt[p][k] EXCEPT !.tokens = ts]
<1>1. /\ TypeOK /\ pdts \subseteq Pdts /\ p \in Pdts /\ fmt \in Tables
      /\ strayed \subseteq Pdts \X Topics /\ stranded \in [Topics -> Nat]
  BY Shapes DEF Inv
<1>2. fmt[p][k] \in Slots  BY <1>1 DEF Tables
<1>3. fmt' = [fmt EXCEPT ![p][k] = f]  BY <1>1 DEF Tables
<1>4. f \in Slots /\ \A t \in Topics : FmtTokens(f)[t] = TokensOf(ts, t)
  BY <1>2, FmtWithTokens
<1> HIDE DEF f
<1>5. /\ fmt' \in Tables
      /\ \A q \in Pdts : q # p => fmt'[q] = fmt[q]
      /\ \A t \in Topics :
           /\ CountIn(fmt[p], t) \in Nat /\ FmtTokens(fmt[p][k])[t] \in Nat
           /\ FmtTokens(fmt[p][k])[t] =< CountIn(fmt[p], t)
           /\ CountIn(fmt'[p], t) =
                CountIn(fmt[p], t) - FmtTokens(fmt[p][k])[t] + FmtTokens(f)[t]
  <2>1. p \in Pdts /\ k \in Keys /\ f \in Slots /\ fmt' = [fmt EXCEPT ![p][k] = f] /\ Inv
    BY <1>1, <1>3, <1>4
  <2> QED  BY ONLY <2>1, OneFmt, ZenonT(60)
<1>6. /\ fmt[p][k].tokens \in Seq(Token)
      /\ \A t \in Topics : FmtTokens(fmt[p][k])[t] = TokensOf(fmt[p][k].tokens, t)
  <2>1. fmt[p][k].tokens \in Seq(Token)  BY <1>2 DEF Slots, Formats
  <2> QED  BY <1>2, <2>1, FmtTokensType
<1>7. TypeOK'
  <2>1. ASSUME NEW q \in Pdts \ pdts' PROVE fmt'[q] = NoFmts /\ pref'[q] = NoRefs
    BY <1>1, <1>5, <2>1, Shapes
  <2> QED  BY <1>1, <1>5, <2>1, Shapes
<1>8. NothingLeft'  BY DEF Inv, NothingLeft
<1> QED  BY <1>4, <1>5, <1>6, <1>7, <1>8

(* add_g1_token: token, product and attribute count one more.              *)
LEMMA AddTokenStep ==
  ASSUME Inv, NEW p \in Pdts, NEW k \in Keys, NEW tk \in Token, NEW type \in AttrTypes,
         AddToken(p, k, tk, type)
  PROVE  Inv' /\ TypesStay
<1> DEFINE old == fmt[p][k].tokens
           ts  == AddTokenInternal(old, fmt[p][k].size, tk)
           u   == tk.topic
<1>1. /\ p \in pdts /\ fmt[p][k] # NoFmt /\ Accepts(old, fmt[p][k].size, tk)
      /\ pref' = [pref EXCEPT ![p][u] = @ + 1]
      /\ attr' = [attr EXCEPT ![u] = AddAttr(@, type)]
      /\ UNCHANGED <<pdts, orphan, strayed, stranded>>
  BY DEF AddToken, TokenPlaced, AddPdtAttr
<1>2. /\ TypeOK /\ fmt \in Tables /\ pref \in Counters
      /\ attr \in [Topics -> Attrs] /\ orphan \in Counters /\ stranded \in [Topics -> Nat]
  BY Shapes DEF Inv
<1>3. fmt' = [fmt EXCEPT ![p][k].tokens = ts]
  BY <1>2 DEF AddToken, Tables
<1>4. u \in Topics  BY DEF Token
<1>5. old \in Seq(Token)
  <2>1. fmt[p][k] \in Slots  BY <1>2 DEF Tables
  <2> QED  BY <1>1, <2>1 DEF Slots, Formats
<1>6. ts \in Seq(Token) /\ \A t : TokensOf(ts, t) = TokensOf(old, t) + (IF t = u THEN 1 ELSE 0)
  BY <1>1, <1>5, AddCounts
<1>7. /\ pref' \in Counters
      /\ \A q \in Pdts : q # p => pref'[q] = pref[q]
      /\ \A t \in Topics : pref[p][t] \in Nat
                          /\ pref'[p][t] = pref[p][t] + (IF t = u THEN 1 ELSE 0)
  BY <1>1, <1>2, <1>4 DEF Counters
<1>8. /\ attr' \in [Topics -> Attrs]
      /\ \A t \in Topics :
           /\ attr[t].ref \in Nat
           /\ attr'[t].ref = attr[t].ref + (IF t = u THEN 1 ELSE 0)
           /\ attr[t].ref > 0 => attr'[t].type = attr[t].type
  <2>1. attr[u] \in Attrs  BY <1>2, <1>4
  <2>2. /\ AddAttr(attr[u], type) \in Attrs /\ AddAttr(attr[u], type).ref = attr[u].ref + 1
        /\ attr[u].ref > 0 => AddAttr(attr[u], type).type = attr[u].type
    BY <2>1, AddAttrRef
  <2>3. attr' \in [Topics -> Attrs] /\ attr'[u] = AddAttr(attr[u], type)
        /\ \A t \in Topics : t # u => attr'[t] = attr[t]
    BY <1>1, <1>2, <1>4, <2>2
  <2>4. \A t \in Topics : attr[t].ref \in Nat  BY <1>2 DEF Attrs
  <2> QED  BY <2>2, <2>3, <2>4
<1> HIDE DEF old, ts, u
<1>9. /\ TypeOK' /\ NothingLeft'
      /\ \A q \in Pdts : q # p => fmt'[q] = fmt[q]
      /\ \A t \in Topics :
           /\ CountIn(fmt[p], t) \in Nat /\ TokensOf(old, t) \in Nat
           /\ CountIn(fmt'[p], t) = CountIn(fmt[p], t) - TokensOf(old, t) + TokensOf(ts, t)
  <2>1. \A q \in Pdts : q # p => pref'[q] = pref[q] /\ orphan'[q] = orphan[q]
    BY <1>1, <1>7
  <2>2. strayed' \subseteq Pdts \X Topics  BY <1>1, <1>2, Shapes
  <2>3. UNCHANGED <<pdts, stranded>> /\ p \in pdts /\ fmt[p][k] # NoFmt  BY <1>1
  <2>4. orphan' \in Counters /\ pref' \in Counters /\ attr' \in [Topics -> Attrs]
    BY <1>1, <1>2, <1>7, <1>8
  <2>5. ts \in Seq(Token)  BY <1>6
  <2> QED  BY <1>3, <2>1, <2>2, <2>3, <2>4, <2>5, OneList DEF old
<1>10. AttrRefsAccounted'
  <2>1. ASSUME NEW t \in Topics
        PROVE  attr'[t].ref = stranded'[t] + RefsIn(pref', t)
    <3>1. attr[t].ref = stranded[t] + RefsIn(pref, t)  BY SumsOfTables DEF Inv
    <3>2. /\ RefsIn(pref, t) \in Nat
          /\ RefsIn(pref', t) = RefsIn(pref, t) - pref[p][t] + pref'[p][t]
      BY <1>2, <1>7, RefsUpdate
    <3>3. stranded[t] \in Nat  BY <1>2
    <3>4. RefsIn(pref', t) = RefsIn(pref, t) + (IF t = u THEN 1 ELSE 0)
      BY <1>7, <3>2
    <3> QED  BY <1>1, <1>8, <3>1, <3>2, <3>3, <3>4
  <2> QED  BY <2>1, SumsOfTables
<1>11. PdtRefsExact'
  <2>1. ASSUME NEW t \in Topics, <<p, t>> \notin strayed
        PROVE  pref'[p][t] = CountIn(fmt'[p], t) + orphan'[p][t]
    <3>1. pref[p][t] = CountIn(fmt[p], t) + orphan[p][t]
      BY <1>1, <2>1, ExactNow
    <3>2. orphan[p][t] \in Nat  BY <1>2 DEF Counters
    <3>3. CountIn(fmt'[p], t) = CountIn(fmt[p], t) + (IF t = u THEN 1 ELSE 0)
      BY <1>6, <1>9
    <3>4. CountIn(fmt[p], t) \in Nat  BY <1>9
    <3> QED  BY <1>1, <1>7, <3>1, <3>2, <3>3, <3>4
  <2> QED  BY <1>1, <1>7, <1>9, <2>1, ExactStep
<1>12. TypesStay  BY <1>8 DEF TypesStay, Registered
<1> QED  BY <1>9, <1>10, <1>11, <1>12 DEF Inv

(* A registration that fails: the list holds what it held of each topic.   *)
LEMMA AddTokenUndoneStep ==
  ASSUME Inv, NEW p \in Pdts, NEW k \in Keys, NEW tk \in Token, NEW type,
         AddTokenUndone(p, k, tk, type)
  PROVE  Inv' /\ TypesStay
<1> DEFINE old == fmt[p][k].tokens
           one == AddTokenInternal(old, fmt[p][k].size, tk)
           ts  == DelTokenInternal(one, tk.topic)
<1>1. /\ p \in pdts /\ fmt[p][k] # NoFmt /\ Accepts(old, fmt[p][k].size, tk)
      /\ UNCHANGED <<pdts, pref, attr, orphan, strayed, stranded>>
  BY DEF AddTokenUndone, TokenPlaced
<1>2. /\ TypeOK /\ fmt \in Tables /\ pref \in Counters
      /\ attr \in [Topics -> Attrs] /\ orphan \in Counters
  BY Shapes DEF Inv
<1>3. fmt' = [fmt EXCEPT ![p][k].tokens = ts]
  BY <1>2 DEF AddTokenUndone, Tables
<1>4. old \in Seq(Token)
  <2>1. fmt[p][k] \in Slots  BY <1>2 DEF Tables
  <2> QED  BY <1>1, <2>1 DEF Slots, Formats
<1>5. one \in Seq(Token)
      /\ \A t : TokensOf(one, t) = TokensOf(old, t) + (IF t = tk.topic THEN 1 ELSE 0)
  BY <1>1, <1>4, AddCounts
<1> HIDE DEF old, one
<1>6. /\ ts \in Seq(Token)
      /\ \A t : TokensOf(ts, t) =
           TokensOf(one, t) - (IF t = tk.topic /\ TokensOf(one, tk.topic) > 0 THEN 1 ELSE 0)
  BY <1>5, DelCounts
<1> HIDE DEF ts
<1>7. ASSUME NEW t PROVE TokensOf(ts, t) = TokensOf(old, t)
  <2>1. TokensOf(old, t) \in Nat /\ TokensOf(old, tk.topic) \in Nat
    BY <1>4, CountType
  <2>2. TokensOf(one, tk.topic) = TokensOf(old, tk.topic) + 1  BY <1>5
  <2>3. TokensOf(one, tk.topic) > 0  BY <2>1, <2>2
  <2>4. CASE t = tk.topic
    <3>1. TokensOf(ts, t) = TokensOf(one, t) - 1  BY <1>6, <2>3, <2>4
    <3> QED  BY <2>1, <2>2, <2>4, <3>1
  <2>5. CASE t # tk.topic
    <3>1. TokensOf(ts, t) = TokensOf(one, t) - 0 /\ TokensOf(one, t) = TokensOf(old, t) + 0
      BY <1>5, <1>6, <2>5
    <3> QED  BY <2>1, <3>1
  <2> QED  BY <2>4, <2>5
<1>8. /\ TypeOK' /\ NothingLeft'
      /\ \A q \in Pdts : q # p => fmt'[q] = fmt[q]
      /\ \A t \in Topics :
           /\ CountIn(fmt[p], t) \in Nat /\ TokensOf(old, t) \in Nat
           /\ CountIn(fmt'[p], t) = CountIn(fmt[p], t) - TokensOf(old, t) + TokensOf(ts, t)
  <2>1. attr' \in [Topics -> Attrs] /\ strayed' \subseteq Pdts \X Topics
    BY <1>1, Shapes DEF Inv
  <2> QED  BY <1>1, <1>2, <1>3, <1>6, <2>1, OneList, ZenonT(60) DEF old
<1>9. \A t \in Topics : CountIn(fmt'[p], t) = CountIn(fmt[p], t)
  BY <1>7, <1>8
<1>10. AttrRefsAccounted'  BY <1>1 DEF Inv, AttrRefsAccounted
<1>11. PdtRefsExact'
  <2>1. ASSUME NEW t \in Topics, <<p, t>> \notin strayed
        PROVE  pref'[p][t] = CountIn(fmt'[p], t) + orphan'[p][t]
    BY <1>1, <1>9, <2>1, ExactNow
  <2> QED  BY <1>1, <1>8, <2>1, ExactStep
<1>12. TypesStay  BY <1>1 DEF TypesStay
<1> QED  BY <1>8, <1>10, <1>11, <1>12 DEF Inv

(* del_g1_token: one reference and one token less, or the product strays.  *)
LEMMA DelTokenStep ==
  ASSUME Inv, NEW p \in Pdts, NEW k \in Keys, NEW u \in Topics, DelToken(p, k, u)
  PROVE  Inv' /\ TypesStay
<1> DEFINE old == fmt[p][k].tokens
           ts  == DelTokenInternal(old, u)
           count == [t \in Topics |-> IF t = u THEN 1 ELSE 0]
<1>1. /\ p \in pdts /\ fmt[p][k] # NoFmt /\ DelPdtAttr(p, count)
      /\ UNCHANGED <<pdts, stranded>>
  BY DEF DelToken
<1>2. /\ TypeOK /\ pdts \subseteq Pdts /\ fmt \in Tables /\ pref \in Counters
      /\ attr \in [Topics -> Attrs] /\ orphan \in Counters
      /\ strayed \subseteq Pdts \X Topics /\ stranded \in [Topics -> Nat]
  BY Shapes DEF Inv
<1>3. fmt' = [fmt EXCEPT ![p][k].tokens = ts]
  BY <1>2 DEF DelToken, Tables
<1>4. fmt[p][k] \in Slots /\ old \in Seq(Token)
      /\ \A t \in Topics : FmtTokens(fmt[p][k])[t] = TokensOf(old, t)
  <2>1. fmt[p][k] \in Slots  BY <1>2 DEF Tables
  <2> QED  BY <1>1, <2>1, FmtTokensType DEF Slots, Formats
<1>5. /\ ts \in Seq(Token)
      /\ \A t : TokensOf(ts, t) =
           TokensOf(old, t) - (IF t = u /\ TokensOf(old, u) > 0 THEN 1 ELSE 0)
  BY <1>4, DelCounts
<1>6. count \in [Topics -> Nat] /\ \A t \in Topics : count[t] = IF t = u THEN 1 ELSE 0
  OBVIOUS
<1> HIDE DEF count
<1>7. /\ pref' \in Counters /\ attr' \in [Topics -> Attrs]
      /\ \A q \in Pdts : q # p => pref'[q] = pref[q]
      /\ \A t \in Topics :
           /\ pref[p][t] \in Nat
           /\ pref'[p][t] = pref[p][t] - Found(pref[p][t], count[t])
      /\ TypesStay
  BY <1>1, <1>6, Release
<1>8. /\ orphan' \in Counters
      /\ \A q \in Pdts : q # p => orphan'[q] = orphan[q]
      /\ \A t \in Topics : t # u => orphan'[p][t] = orphan[p][t]
      /\ TokensOf(old, u) # 0 => UNCHANGED <<strayed, orphan>>
      /\ TokensOf(old, u) = 0 => strayed' = strayed \cup {<<p, u>>}
  <2>1. CASE TokensOf(old, u) = 0
    <3>1. /\ strayed' = strayed \cup {<<p, u>>}
          /\ orphan' = [orphan EXCEPT ![p][u] = 0]
      BY <1>4, <2>1 DEF DelToken
    <3> QED  BY <1>2, <2>1, <3>1 DEF Counters
  <2>2. CASE TokensOf(old, u) # 0
    <3>1. UNCHANGED <<strayed, orphan>>  BY <1>4, <2>2 DEF DelToken
    <3> QED  BY <1>2, <2>2, <3>1
  <2> QED  BY <2>1, <2>2
<1> HIDE DEF old, ts
<1>9. /\ TypeOK' /\ NothingLeft'
      /\ \A q \in Pdts : q # p => fmt'[q] = fmt[q]
      /\ \A t \in Topics :
           /\ CountIn(fmt[p], t) \in Nat /\ TokensOf(old, t) \in Nat
           /\ TokensOf(old, t) =< CountIn(fmt[p], t)
           /\ CountIn(fmt'[p], t) = CountIn(fmt[p], t) - TokensOf(old, t) + TokensOf(ts, t)
  <2>1. strayed' \subseteq Pdts \X Topics  BY <1>2, <1>8
  <2>2. \A q \in Pdts : q # p => pref'[q] = pref[q] /\ orphan'[q] = orphan[q]
    BY <1>7, <1>8
  <2> QED  BY <1>1, <1>3, <1>5, <1>7, <1>8, <2>1, <2>2, OneList, ZenonT(60) DEF old
<1>10. AttrRefsAccounted'  BY <1>1, <1>6, ReleaseAccounts
<1>11. PdtRefsExact'
  <2>1. ASSUME NEW t \in Topics, <<p, t>> \notin strayed'
        PROVE  pref'[p][t] = CountIn(fmt'[p], t) + orphan'[p][t]
    <3>1. <<p, t>> \notin strayed  BY <1>8, <2>1
    <3>2. pref[p][t] = CountIn(fmt[p], t) + orphan[p][t]
      BY <1>1, <3>1, ExactNow
    <3>3. /\ orphan[p][t] \in Nat /\ CountIn(fmt[p], t) \in Nat
          /\ TokensOf(old, t) \in Nat /\ TokensOf(old, t) =< CountIn(fmt[p], t)
      BY <1>2, <1>9 DEF Counters
    <3>4. pref'[p][t] = pref[p][t] - Found(pref[p][t], count[t])  BY <1>7
    <3>5. CASE t = u
      <4>1. TokensOf(old, t) # 0 /\ orphan'[p][t] = orphan[p][t]
        BY <1>8, <2>1, <3>5
      <4>2. Found(pref[p][t], count[t]) = 1
        BY <1>6, <3>2, <3>3, <3>5, <4>1 DEF Found
      <4>3. CountIn(fmt'[p], t) = CountIn(fmt[p], t) - 1
        BY <1>5, <1>9, <3>3, <3>5, <4>1
      <4> QED  BY <3>2, <3>3, <3>4, <4>1, <4>2, <4>3
    <3>6. CASE t # u
      <4>1. Found(pref[p][t], count[t]) = 0
        BY <1>6, <1>7, <3>6 DEF Found
      <4>2. CountIn(fmt'[p], t) = CountIn(fmt[p], t)
        <5>1. TokensOf(ts, t) = TokensOf(old, t) - 0  BY <1>5, <3>6
        <5> QED  BY <1>9, <3>3, <5>1
      <4> QED  BY <1>8, <3>2, <3>3, <3>4, <3>6, <4>1, <4>2
    <3> QED  BY <3>5, <3>6
  <2>2. strayed \subseteq strayed'  BY <1>8
  <2> QED  BY <1>1, <1>7, <1>8, <1>9, <2>1, <2>2, ExactStep
<1> QED  BY <1>7, <1>9, <1>10, <1>11 DEF Inv
-----------------------------------------------------------------------------
(* Every handler keeps the invariant and the types of the attributes.      *)
LEMMA NextStep == Inv /\ [Next]_vars => Inv' /\ TypesStay
<1> SUFFICES ASSUME Inv, [Next]_vars PROVE Inv' /\ TypesStay  OBVIOUS
<1>1. CASE UNCHANGED vars
  <2>1. /\ pdts' = pdts /\ fmt' = fmt /\ pref' = pref /\ attr' = attr
        /\ orphan' = orphan /\ strayed' = strayed /\ stranded' = stranded
    BY <1>1 DEF vars
  <2>2. TypeOK'  BY <2>1, Shapes DEF Inv
  <2>3. NothingLeft' /\ AttrRefsAccounted'
    BY <2>1 DEF Inv, NothingLeft, AttrRefsAccounted
  <2>4. PdtRefsExact'  BY <2>1 DEF Inv, PdtRefsExact, PdtTokens
  <2>5. TypesStay  BY <2>1 DEF TypesStay
  <2> QED  BY <2>2, <2>3, <2>4, <2>5 DEF Inv
<1>2. CASE Next
  <2>1. PICK p \in Pdts :
          \/ AddPdt(p) \/ DelPdt(p)
          \/ \E k \in Keys :
               \/ \E sz \in Sizes : AddFmt(p, k, sz)
               \/ DelFmt(p, k)
               \/ \E tk \in Token, type \in AttrTypes : AddToken(p, k, tk, type)
               \/ \E tk \in Token, type \in AttrTypes \cup {"BUTT"} :
                    AddTokenUndone(p, k, tk, type)
               \/ \E t \in Topics : DelToken(p, k, t)
    BY <1>2 DEF Next
  <2>2. CASE AddPdt(p)  BY <2>2, AddPdtStep
  <2>3. CASE DelPdt(p)  BY <2>3, DelPdtStep
  <2>4. CASE \E k \in Keys, sz \in Sizes : AddFmt(p, k, sz)  BY <2>4, AddFmtStep
  <2>5. CASE \E k \in Keys : DelFmt(p, k)  BY <2>5, DelFmtStep
  <2>6. CASE \E k \in Keys, tk \in Token, type \in AttrTypes : AddToken(p, k, tk, type)
    BY <2>6, AddTokenStep
  <2>7. CASE \E k \in Keys, tk \in Token, type \in AttrTypes \cup {"BUTT"} :
               AddTokenUndone(p, k, tk, type)
    BY <2>7, AddTokenUndoneStep
  <2>8. CASE \E k \in Keys, t \in Topics : DelToken(p, k, t)  BY <2>8, DelTokenStep
  <2> QED  BY <2>1, <2>2, <2>3, <2>4, <2>5, <2>6, <2>7, <2>8
<1> QED  BY <1>1, <1>2

(* The invariant holds in every reachable state.                           *)
LEMMA Invariance == Spec => []Inv
BY InitInv, NextStep, PTL DEF Spec

(* The tables hold what their declarations say, and a product that was     *)
(* deleted, by del_pdt (pdt.c:111-140), left neither formats nor counters. *)
THEOREM CatalogTypeCorrect == Spec => []TypeOK
<1>1. Inv => TypeOK  BY DEF Inv
<1> QED  BY <1>1, Invariance, PTL

(* The two levels of counters agree (attr.c:82-107 against pdt.c:15-64):   *)
(* an attribute counts what the products count, whatever they are told to  *)
(* delete, so that none takes an attribute away from another one.          *)
THEOREM RefsAreAccounted == Spec => []AttrRefsAccounted
<1>1. Inv => AttrRefsAccounted  BY DEF Inv
<1> QED  BY <1>1, Invariance, PTL

(* A product counts exactly the tokens of its formats (pdt.c:15-64 against *)
(* g1_fmt.c:89-196), those of replaced formats included, until it is told  *)
(* to delete a token of a topic that the format does not have.             *)
THEOREM PdtRefsAreExact == Spec => []PdtRefsExact
<1>1. Inv => PdtRefsExact  BY DEF Inv
<1> QED  BY <1>1, Invariance, PTL

(* A registered attribute keeps its type (attr.c:59-73), whichever         *)
(* products come, go and redefine it, until its last reference is gone.    *)
THEOREM TypesAreStable == Spec => TypeStable
<1>1. Inv /\ [Next]_vars => [TypesStay]_vars  BY NextStep
<1>2. Spec => [][TypesStay]_vars  BY <1>1, Invariance, PTL DEF Spec
<1> QED  BY <1>2, PTL DEF TypeStable, TypesStay
=============================================================================
