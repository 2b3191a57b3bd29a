----------------------------- MODULE ListLemmas -----------------------------
(***************************************************************************)
(* What the operators on lists and sums return that the models use: the    *)
(* elements of a list after an insertion or a removal, and the sum over a  *)
(* function after one of its values changes.                               *)
(***************************************************************************)
EXTENDS Integers, Sequences, FiniteSets, SequencesExt, SequenceTheorems,
        FiniteSetTheorems, WellFoundedInduction, TLAPS

(* What InsertAt returns, element by element.                              *)
LEMMA InsertAtElements ==
  ASSUME NEW S, NEW s \in Seq(S), NEW e \in S, NEW i \in 1 .. Len(s) + 1
  PROVE  /\ InsertAt(s, i, e) \in Seq(S)
         /\ Len(InsertAt(s, i, e)) = Len(s) + 1
         /\ \A j \in 1 .. Len(s) + 1 :
              InsertAt(s, i, e)[j] = IF j < i THEN s[j]
                                     ELSE IF j = i THEN e ELSE s[j - 1]
<1> DEFINE front == SubSeq(s, 1, i - 1)
           head  == front \o <<e>>
           back  == SubSeq(s, i, Len(s))
<1>1. front \in Seq(S) /\ Len(front) = i - 1
      /\ \A j \in 1 .. i - 1 : front[j] = s[j]
  BY SubSeqProperties
<1>2. back \in Seq(S) /\ Len(back) = Len(s) - i + 1
      /\ \A j \in 1 .. Len(s) - i + 1 : back[j] = s[i + j - 1]
  BY SubSeqProperties
<1>3. InsertAt(s, i, e) = head \o back
  BY DEF InsertAt
<1> HIDE DEF front, back
<1>4. head \in Seq(S) /\ Len(head) = i
      /\ \A j \in 1 .. i : head[j] = IF j < i THEN s[j] ELSE e
  BY <1>1
<1> HIDE DEF head
<1>5. /\ head \o back \in Seq(S)
      /\ Len(head \o back) = Len(head) + Len(back)
      /\ \A j \in 1 .. Len(head) + Len(back) :
           (head \o back)[j] = IF j <= Len(head) THEN head[j] ELSE back[j - Len(head)]
  BY <1>2, <1>4, ConcatProperties
<1>6. Len(s) \in Nat /\ Len(head) + Len(back) = Len(s) + 1
  BY <1>2, <1>4
<1>7. ASSUME NEW j \in 1 .. Len(s) + 1
      PROVE  (head \o back)[j] = IF j < i THEN s[j] ELSE IF j = i THEN e ELSE s[j - 1]
  <2>1. CASE j <= i  BY <1>4, <1>5, <1>6, <2>1
  <2>2. CASE j > i
    <3>1. (head \o back)[j] = back[j - i]  BY <1>4, <1>5, <1>6, <2>2
    <3>2. j - i \in 1 .. Len(s) - i + 1 /\ i + (j - i) - 1 = j - 1
      BY <1>6, <2>2
    <3> QED  BY <1>2, <1>6, <2>2, <3>1, <3>2
  <2> QED  BY <1>6, <2>1, <2>2
<1> QED  BY <1>3, <1>5, <1>6, <1>7

(* What RemoveAt returns, element by element.                              *)
LEMMA RemoveAtElements ==
  ASSUME NEW S, NEW s \in Seq(S), NEW i \in 1 .. Len(s)
  PROVE  /\ RemoveAt(s, i) \in Seq(S)
         /\ Len(RemoveAt(s, i)) = Len(s) - 1
         /\ \A j \in 1 .. Len(s) - 1 :
              RemoveAt(s, i)[j] = IF j < i THEN s[j] ELSE s[j + 1]
<1> DEFINE front == SubSeq(s, 1, i - 1)
           back  == SubSeq(s, i + 1, Len(s))
<1>1. front \in Seq(S) /\ Len(front) = i - 1
      /\ \A j \in 1 .. i - 1 : front[j] = s[j]
  BY SubSeqProperties
<1>2. back \in Seq(S) /\ Len(back) = Len(s) - i
      /\ \A j \in 1 .. Len(s) - i : back[j] = s[i + j]
  BY SubSeqProperties
<1>3. RemoveAt(s, i) = front \o back
  BY DEF RemoveAt
<1> HIDE DEF front, back
<1>4. /\ front \o back \in Seq(S)
      /\ Len(front \o back) = Len(front) + Len(back)
      /\ \A j \in 1 .. Len(front) + Len(back) :
           (front \o back)[j] = IF j <= Len(front) THEN front[j]
                                                  ELSE back[j - Len(front)]
  BY <1>1, <1>2, ConcatProperties
<1>5. Len(s) \in Nat /\ Len(front) + Len(back) = Len(s) - 1
  BY <1>1, <1>2
<1>6. ASSUME NEW j \in 1 .. Len(s) - 1
      PROVE  (front \o back)[j] = IF j < i THEN s[j] ELSE s[j + 1]
  <2>1. CASE j < i  BY <1>1, <1>4, <1>5, <2>1
  <2>2. CASE j >= i
    <3>1. (front \o back)[j] = back[j - (i - 1)]  BY <1>1, <1>4, <1>5, <2>2
    <3>2. j - (i - 1) \in 1 .. Len(s) - i /\ i + (j - (i - 1)) = j + 1
      BY <1>5, <2>2
    <3> QED  BY <1>2, <1>5, <2>2, <3>1, <3>2
  <2> QED  BY <1>5, <2>1, <2>2
<1> QED  BY <1>3, <1>4, <1>5, <1>6

(* A non-empty set of numbers has a least element.                         *)
LEMMA LeastExists ==
  ASSUME NEW T \in SUBSET Nat, T # {}
  PROVE  \E x \in T : \A y \in T : x =< y
<1>1. \E x \in T : \A y \in T : ~ (<<y, x>> \in OpToRel(<, Nat))
  BY NatLessThanWellFounded, WFMin, Zenon
<1>2. PICK x \in T : \A y \in T : ~ (<<y, x>> \in OpToRel(<, Nat))
  BY <1>1
<1>3. ASSUME NEW y \in T PROVE x =< y
  <2>1. x \in Nat /\ y \in Nat  OBVIOUS
  <2>2. SUFFICES ASSUME y < x PROVE FALSE  BY <2>1
  <2>3. <<y, x>> \in OpToRel(<, Nat)  BY <2>1, <2>2 DEF OpToRel
  <2> QED  BY <1>2, <2>3
<1> QED  BY <1>3

(* The CHOOSE of Min, which RemoveFirstMatch uses, finds it.               *)
LEMMA MinExists ==
  ASSUME NEW T \in SUBSET Nat, T # {}
  PROVE  Min(T) \in T
BY LeastExists DEF Min

\* The list r reads the list s through an increasing map that meets every
\* position but i.
Skips(r, s, i) ==
  \E up \in [1 .. Len(r) -> 1 .. Len(s)] :
    /\ \A j \in 1 .. Len(r) : r[j] = s[up[j]] /\ up[j] # i
    /\ \A j, k \in 1 .. Len(r) : j < k => up[j] < up[k]
    /\ \A m \in 1 .. Len(s) : m # i => \E j \in 1 .. Len(r) : up[j] = m

(* Removing a position keeps the other elements in their order.            *)
LEMMA RemoveAtSkips ==
  ASSUME NEW S, NEW s \in Seq(S), NEW i \in 1 .. Len(s)
  PROVE  /\ RemoveAt(s, i) \in Seq(S)
         /\ Len(RemoveAt(s, i)) = Len(s) - 1
         /\ Skips(RemoveAt(s, i), s, i)
<1> DEFINE r  == RemoveAt(s, i)
           up == [j \in 1 .. Len(s) - 1 |-> IF j < i THEN j ELSE j + 1]
<1>1. /\ r \in Seq(S) /\ Len(r) = Len(s) - 1
      /\ \A j \in 1 .. Len(s) - 1 : r[j] = IF j < i THEN s[j] ELSE s[j + 1]
  BY RemoveAtElements
<1> HIDE DEF r
<1>2. Len(s) \in Nat  OBVIOUS
<1>3. up \in [1 .. Len(r) -> 1 .. Len(s)]  BY <1>1, <1>2
<1>4. \A j \in 1 .. Len(r) : r[j] = s[up[j]] /\ up[j] # i  BY <1>1, <1>2
<1>5. \A j, k \in 1 .. Len(r) : j < k => up[j] < up[k]  BY <1>1, <1>2
<1>6. ASSUME NEW m \in 1 .. Len(s), m # i
      PROVE  \E j \in 1 .. Len(r) : up[j] = m
  <2>1. CASE m < i
    <3>1. m \in 1 .. Len(r) /\ up[m] = m  BY <1>1, <1>2, <2>1
    <3> QED  BY <3>1
  <2>2. CASE m > i
    <3>1. m - 1 \in 1 .. Len(r) /\ up[m - 1] = m  BY <1>1, <1>2, <2>2
    <3> QED  BY <3>1
  <2>3. m < i \/ m > i  BY <1>2, <1>6
  <2> QED  BY <2>1, <2>2, <2>3
<1> HIDE DEF up
<1>7. Skips(r, s, i)  BY <1>3, <1>4, <1>5, <1>6 DEF Skips
<1> QED  BY <1>1, <1>7 DEF r
(* Inserting an element keeps the other elements in their order.           *)
LEMMA InsertAtSkips ==
  ASSUME NEW S, NEW s \in Seq(S), NEW e \in S, NEW i \in 1 .. Len(s) + 1
  PROVE  /\ InsertAt(s, i, e) \in Seq(S)
         /\ Len(InsertAt(s, i, e)) = Len(s) + 1
         /\ InsertAt(s, i, e)[i] = e
         /\ Skips(s, InsertAt(s, i, e), i)
<1> DEFINE r  == InsertAt(s, i, e)
           up == [j \in 1 .. Len(s) |-> IF j < i THEN j ELSE j + 1]
<1>1. /\ r \in Seq(S) /\ Len(r) = Len(s) + 1
      /\ \A j \in 1 .. Len(s) + 1 :
           r[j] = IF j < i THEN s[j] ELSE IF j = i THEN e ELSE s[j - 1]
  <2>1. i \in 1 .. Len(s) + 1  OBVIOUS
  <2>2. s \in Seq(S) /\ e \in S  OBVIOUS
  <2> HIDE DEF r
  <2>3. /\ InsertAt(s, i, e) \in Seq(S) /\ Len(InsertAt(s, i, e)) = Len(s) + 1
        /\ \A j \in 1 .. Len(s) + 1 :
             InsertAt(s, i, e)[j] = IF j < i THEN s[j] ELSE IF j = i THEN e ELSE s[j - 1]
    BY ONLY <2>1, <2>2, InsertAtElements
  <2> QED  BY <2>3 DEF r
<1> HIDE DEF r
<1>2. Len(s) \in Nat  OBVIOUS
<1>3. up \in [1 .. Len(s) -> 1 .. Len(r)]  BY <1>1, <1>2
<1>4. ASSUME NEW j \in 1 .. Len(s) PROVE s[j] = r[up[j]] /\ up[j] # i
  <2>1. CASE j < i  BY <1>1, <1>2, <2>1
  <2>2. CASE ~ (j < i)
    <3>1. up[j] = j + 1 /\ j + 1 \in 1 .. Len(s) + 1 /\ ~ (j + 1 < i) /\ j + 1 # i
      BY <1>2, <2>2
    <3>2. (j + 1) - 1 = j  BY <1>2
    <3> QED  BY <1>1, <3>1, <3>2
  <2> QED  BY <2>1, <2>2
<1>5. \A j, k \in 1 .. Len(s) : j < k => up[j] < up[k]  BY <1>2
<1>6. ASSUME NEW m \in 1 .. Len(r), m # i
      PROVE  \E j \in 1 .. Len(s) : up[j] = m
  <2>1. CASE m < i
    <3>1. m \in 1 .. Len(s) /\ up[m] = m  BY <1>1, <1>2, <2>1
    <3> QED  BY <3>1
  <2>2. CASE m > i
    <3>1. m - 1 \in 1 .. Len(s) /\ up[m - 1] = m  BY <1>1, <1>2, <2>2
    <3> QED  BY <3>1
  <2>3. m < i \/ m > i  BY <1>1, <1>2, <1>6
  <2> QED  BY <2>1, <2>2, <2>3
<1> HIDE DEF up
<1>7. Skips(s, r, i)  BY <1>3, <1>4, <1>5, <1>6 DEF Skips
<1>8. r[i] = e  BY <1>1, <1>2
<1> QED  BY <1>1, <1>7, <1>8 DEF r

-----------------------------------------------------------------------------
(* Induction over the numbers of a set: no least number is missing.        *)
LEMMA SetInduction ==
  ASSUME NEW T \in SUBSET Nat,
         \A n \in Nat : (\A m \in Nat : m < n => m \in T) => n \in T
  PROVE  T = Nat
<1> SUFFICES ASSUME Nat \ T # {} PROVE FALSE
  OBVIOUS
<1>1. PICK n \in Nat \ T : \A m \in Nat \ T : n =< m  BY LeastExists
<1>2. \A m \in Nat : m < n => m \in T  BY <1>1
<1> QED  BY <1>1, <1>2

(* Sets by the number of their elements.                                   *)
LEMMA SmallerSubset ==
  ASSUME NEW S, IsFiniteSet(S), NEW s \in SUBSET S
  PROVE  /\ IsFiniteSet(s) /\ Cardinality(s) \in Nat
         /\ \A x \in s : /\ s \ {x} \in SUBSET S
                         /\ Cardinality(s \ {x}) = Cardinality(s) - 1
                         /\ Cardinality(s \ {x}) < Cardinality(s)
<1>1. IsFiniteSet(s) /\ Cardinality(s) \in Nat  BY FS_Subset, FS_CardinalityType
<1>2. ASSUME NEW x \in s
      PROVE  /\ Cardinality(s \ {x}) = Cardinality(s) - 1
             /\ Cardinality(s \ {x}) < Cardinality(s)
  <2>1. Cardinality(s \ {x}) = Cardinality(s) - 1  BY <1>1, FS_RemoveElement
  <2> QED  BY <1>1, <2>1
<1> QED  BY <1>1, <1>2

\* The element a sum takes first.
AnyOf(s) == CHOOSE x \in s : TRUE

\* The sum of h over s, given the sums over the smaller sets.
SumStep(sum, h, s) == IF s = {} THEN 0 ELSE h[AnyOf(s)] + sum[s \ {AnyOf(s)}]

\* sum gives the sum of h over every subset of S.
Sums(sum, h, S) == sum = [s \in SUBSET S |-> SumStep(sum, h, s)]

\* The sums are numbers.
NatSums(sum, h, S) == sum \in [SUBSET S -> Nat] /\ Sums(sum, h, S)

(* The recursion of SumFunctionOnSet has a solution.                       *)
LEMMA SumsExist ==
  ASSUME NEW S, IsFiniteSet(S), NEW h \in [S -> Nat]
  PROVE  \E sum : NatSums(sum, h, S)
<1> DEFINE D(n) == {s \in SUBSET S : Cardinality(s) =< n}
           Good(n) == \E sum \in [D(n) -> Nat] : \A s \in D(n) : sum[s] = SumStep(sum, h, s)
<1>1. ASSUME NEW s \in SUBSET S
      PROVE  /\ Cardinality(s) \in Nat
             /\ s # {} => /\ AnyOf(s) \in s /\ h[AnyOf(s)] \in Nat
                          /\ s \ {AnyOf(s)} \in SUBSET S
                          /\ Cardinality(s \ {AnyOf(s)}) = Cardinality(s) - 1
                          /\ Cardinality(s) > 0
  <2>1. s # {} => AnyOf(s) \in s  BY DEF AnyOf
  <2>2. Cardinality(s) \in Nat  BY SmallerSubset
  <2>3. ASSUME s # {}
        PROVE  /\ s \ {AnyOf(s)} \in SUBSET S
               /\ Cardinality(s \ {AnyOf(s)}) = Cardinality(s) - 1
    BY <2>1, <2>3, SmallerSubset
  <2>4. s # {} => Cardinality(s \ {AnyOf(s)}) \in Nat
    BY <2>3, SmallerSubset
  <2> QED  BY <2>1, <2>2, <2>3, <2>4
<1>2. ASSUME NEW n \in Nat, \A m \in Nat : m < n => Good(m)
      PROVE  Good(n)
  <2>1. CASE n = 0
    <3>1. ASSUME NEW s \in D(n) PROVE s = {}
      <4>1. Cardinality(s) \in Nat /\ Cardinality(s) =< 0 /\ s \in SUBSET S
        BY <1>1, <2>1
      <4>2. s # {} => Cardinality(s) > 0  BY <1>1, <4>1, Zenon
      <4> QED  BY <4>1, <4>2
    <3> DEFINE g == [s \in D(n) |-> 0]
    <3>2. g \in [D(n) -> Nat] /\ \A s \in D(n) : g[s] = SumStep(g, h, s)
      BY <3>1 DEF SumStep
    <3> QED  BY <3>2
  <2>2. CASE n # 0
    <3>1. n - 1 \in Nat /\ n - 1 < n  BY <2>2
    <3>2. PICK f \in [D(n - 1) -> Nat] : \A s \in D(n - 1) : f[s] = SumStep(f, h, s)
      BY <1>2, <3>1
    <3> DEFINE g == [s \in D(n) |-> SumStep(f, h, s)]
    <3>3. ASSUME NEW s \in D(n), s # {}
          PROVE  /\ s \ {AnyOf(s)} \in D(n - 1) /\ s \ {AnyOf(s)} \in D(n)
                 /\ h[AnyOf(s)] \in Nat
      BY <1>1, <3>1, <3>3
    <3> HIDE DEF D
    <3>4. ASSUME NEW s \in D(n) PROVE SumStep(f, h, s) \in Nat
      BY <3>2, <3>3 DEF SumStep
    <3>5. \A s \in D(n - 1) : s \in D(n) => g[s] = f[s]
      BY <3>2
    <3>6. ASSUME NEW s \in D(n) PROVE g[s] = SumStep(g, h, s)
      <4>1. CASE s = {}  BY <4>1 DEF SumStep
      <4>2. CASE s # {}
        <5>1. g[s \ {AnyOf(s)}] = f[s \ {AnyOf(s)}]  BY <3>3, <3>5, <4>2
        <5> QED  BY <4>2, <5>1 DEF SumStep
      <4> QED  BY <4>1, <4>2
    <3>7. g \in [D(n) -> Nat]  BY <3>4
    <3> HIDE DEF g
    <3> QED  BY <3>6, <3>7
  <2> QED  BY <2>1, <2>2
<1>3. Cardinality(S) \in Nat /\ D(Cardinality(S)) = SUBSET S
  BY FS_Subset, FS_CardinalityType
<1> HIDE DEF D
<1>4. Good(Cardinality(S))
  <2> DEFINE T == {n \in Nat : Good(n)}
  <2> HIDE DEF Good
  <2>1. T \in SUBSET Nat /\ \A n \in Nat : (\A m \in Nat : m < n => m \in T) => n \in T
    BY <1>2
  <2> HIDE DEF T
  <2>2. T = Nat  BY <2>1, SetInduction
  <2> QED  BY <1>3, <2>2 DEF T
<1>5. PICK sum \in [SUBSET S -> Nat] : \A s \in SUBSET S : sum[s] = SumStep(sum, h, s)
  BY <1>3, <1>4
<1>6. NatSums(sum, h, S)  BY <1>5 DEF Sums, NatSums
<1> QED  BY <1>6

(* A sum does not depend on the element that is taken first.               *)
LEMMA AnyFirst ==
  ASSUME NEW S, IsFiniteSet(S), NEW h \in [S -> Nat],
         NEW sum, NatSums(sum, h, S),
         NEW s \in SUBSET S, NEW x \in s
  PROVE  sum[s] = h[x] + sum[s \ {x}]
<1> DEFINE Good(n) == \A u \in SUBSET S : \A y \in u :
                        Cardinality(u) = n => sum[u] = h[y] + sum[u \ {y}]
<1>1. ASSUME NEW n \in Nat, \A m \in Nat : m < n => Good(m)
      PROVE  Good(n)
  <2> SUFFICES ASSUME NEW u \in SUBSET S, NEW y \in u, Cardinality(u) = n
               PROVE  sum[u] = h[y] + sum[u \ {y}]
    OBVIOUS
  <2> DEFINE c == AnyOf(u)
  <2>1. c \in u  BY DEF AnyOf
  <2>2. sum[u] = h[c] + sum[u \ {c}]  BY DEF NatSums, Sums, SumStep
  <2> HIDE DEF c
  <2>3. CASE c = y  BY <2>2, <2>3
  <2>4. CASE c # y
    <3>1. /\ u \ {c} \in SUBSET S /\ Cardinality(u \ {c}) \in Nat /\ Cardinality(u \ {c}) < n
          /\ u \ {y} \in SUBSET S /\ Cardinality(u \ {y}) \in Nat /\ Cardinality(u \ {y}) < n
      BY <2>1, SmallerSubset
    <3>2. y \in u \ {c} /\ c \in u \ {y} /\ (u \ {c}) \ {y} = (u \ {y}) \ {c}
      BY <2>1, <2>4
    <3>3. sum[u \ {c}] = h[y] + sum[(u \ {c}) \ {y}]  BY <1>1, <3>1, <3>2, SMTT(30)
    <3>4. sum[u \ {y}] = h[c] + sum[(u \ {c}) \ {y}]  BY <1>1, <3>1, <3>2
    <3>5. h[y] \in Nat /\ h[c] \in Nat /\ sum[(u \ {c}) \ {y}] \in Nat
      BY <2>1, <3>1 DEF NatSums
    <3> QED  BY <2>2, <3>3, <3>4, <3>5
  <2> QED  BY <2>3, <2>4
<1> DEFINE T == {n \in Nat : Good(n)}
<1>2. T = Nat
  <2> HIDE DEF Good
  <2>1. T \in SUBSET Nat /\ \A n \in Nat : (\A m \in Nat : m < n => m \in T) => n \in T
    BY <1>1
  <2> HIDE DEF T
  <2> QED  BY <2>1, SetInduction
<1>3. Cardinality(s) \in Nat  BY SmallerSubset
<1> QED  BY <1>2, <1>3

(* Functions that agree on a set have the same sum over it.                *)
LEMMA SumsAgree ==
  ASSUME NEW S, IsFiniteSet(S), NEW h \in [S -> Nat], NEW g \in [S -> Nat],
         NEW sum, NatSums(sum, h, S),
         NEW sumg, NatSums(sumg, g, S),
         NEW s \in SUBSET S, \A x \in s : h[x] = g[x]
  PROVE  sum[s] = sumg[s]
<1> DEFINE Good(n) == \A u \in SUBSET s : Cardinality(u) = n => sum[u] = sumg[u]
<1>1. ASSUME NEW n \in Nat, \A m \in Nat : m < n => Good(m)
      PROVE  Good(n)
  <2> SUFFICES ASSUME NEW u \in SUBSET s, Cardinality(u) = n
               PROVE  sum[u] = sumg[u]
    OBVIOUS
  <2>1. u \in SUBSET S /\ sum[u] = SumStep(sum, h, u) /\ sumg[u] = SumStep(sumg, g, u)
    BY DEF NatSums, Sums
  <2>2. CASE u = {}  BY <2>1, <2>2 DEF SumStep
  <2>3. CASE u # {}
    <3> DEFINE c == AnyOf(u)
    <3>1. c \in u  BY <2>3 DEF AnyOf
    <3>2. Cardinality(u \ {c}) \in Nat /\ Cardinality(u \ {c}) < n /\ u \ {c} \in SUBSET s
      BY <2>1, <3>1, SmallerSubset
    <3>3. sum[u \ {c}] = sumg[u \ {c}]  BY <1>1, <3>2
    <3> QED  BY <2>1, <2>3, <3>1, <3>3 DEF SumStep
  <2> QED  BY <2>2, <2>3
<1> DEFINE T == {n \in Nat : Good(n)}
<1>2. T = Nat
  <2> HIDE DEF Good
  <2>1. T \in SUBSET Nat /\ \A n \in Nat : (\A m \in Nat : m < n => m \in T) => n \in T
    BY <1>1
  <2> HIDE DEF T
  <2> QED  BY <2>1, SetInduction
<1>3. Cardinality(s) \in Nat  BY SmallerSubset
<1> QED  BY <1>2, <1>3

(* SumFunction is such a sum.                                              *)
LEMMA SumFunctionSums ==
  ASSUME NEW S, IsFiniteSet(S), NEW h \in [S -> Nat]
  PROVE  \E sum : NatSums(sum, h, S) /\ SumFunction(h) = sum[S]
<1> DEFINE sum == CHOOSE f : Sums(f, h, S)
<1>1. PICK f : NatSums(f, h, S)  BY SumsExist
<1>2. Sums(sum, h, S)  BY <1>1 DEF NatSums
<1>3. SumFunction(h) = sum[S]
  <2>1. SumFunctionOnSet(h, S) = sum[S]
    BY <1>2 DEF SumFunctionOnSet, FoldFunctionOnSet, MapThenFoldSet, Sums, SumStep, AnyOf
  <2> QED  BY <2>1 DEF SumFunction
<1> HIDE DEF sum
<1>4. sum = f
  <2> DEFINE Good(n) == \A u \in SUBSET S : Cardinality(u) = n => sum[u] = f[u]
  <2>1. ASSUME NEW n \in Nat, \A m \in Nat : m < n => Good(m)
        PROVE  Good(n)
    <3> SUFFICES ASSUME NEW u \in SUBSET S, Cardinality(u) = n
                 PROVE  sum[u] = f[u]
      OBVIOUS
    <3>1. sum[u] = SumStep(sum, h, u) /\ f[u] = SumStep(f, h, u)
      BY <1>1, <1>2 DEF NatSums, Sums
    <3>2. CASE u = {}  BY <3>1, <3>2 DEF SumStep
    <3>3. CASE u # {}
      <4> DEFINE c == AnyOf(u)
      <4>1. c \in u  BY <3>3 DEF AnyOf
      <4>2. Cardinality(u \ {c}) \in Nat /\ Cardinality(u \ {c}) < n /\ u \ {c} \in SUBSET S
        BY <4>1, SmallerSubset
      <4>3. sum[u \ {c}] = f[u \ {c}]  BY <2>1, <4>2
      <4> QED  BY <3>1, <3>3, <4>3 DEF SumStep
    <3> QED  BY <3>2, <3>3
  <2> DEFINE T == {n \in Nat : Good(n)}
  <2>2. T = Nat
    <3> HIDE DEF Good
    <3>1. T \in SUBSET Nat /\ \A n \in Nat : (\A m \in Nat : m < n => m \in T) => n \in T
      BY <2>1
    <3> HIDE DEF T
    <3> QED  BY <3>1, SetInduction
  <2>3. \A u \in SUBSET S : Cardinality(u) \in Nat  BY SmallerSubset
  <2>4. \A u \in SUBSET S : sum[u] = f[u]  BY <2>2, <2>3
  <2> QED  BY <1>1, <1>2, <2>4 DEF NatSums, Sums
<1> QED  BY <1>1, <1>2, <1>3, <1>4

(* The sum of numbers is a number, and no term is larger than it.          *)
LEMMA SumBounds ==
  ASSUME NEW S, IsFiniteSet(S), NEW h \in [S -> Nat]
  PROVE  /\ SumFunction(h) \in Nat
         /\ \A x \in S : h[x] =< SumFunction(h)
<1>1. PICK sum : NatSums(sum, h, S) /\ SumFunction(h) = sum[S]
  BY SumFunctionSums
<1>2. SumFunction(h) \in Nat  BY <1>1 DEF NatSums
<1>3. ASSUME NEW x \in S PROVE h[x] =< SumFunction(h)
  <2>1. S \in SUBSET S /\ S \ {x} \in SUBSET S  OBVIOUS
  <2>2. sum[S] = h[x] + sum[S \ {x}]  BY <1>1, <2>1, AnyFirst
  <2>3. h[x] \in Nat /\ sum[S \ {x}] \in Nat  BY <1>1, <2>1 DEF NatSums
  <2> QED  BY <1>1, <2>2, <2>3
<1> QED  BY <1>2, <1>3

(* A sum of nothing but zeros.                                             *)
LEMMA SumOfZeros ==
  ASSUME NEW S, IsFiniteSet(S)
  PROVE  SumFunction([x \in S |-> 0]) = 0
<1> DEFINE h == [x \in S |-> 0]
           z == [s \in SUBSET S |-> 0]
<1>1. PICK sum : NatSums(sum, h, S) /\ SumFunction(h) = sum[S]
  BY SumFunctionSums
<1>2. \A s \in SUBSET S : s # {} => AnyOf(s) \in S  BY DEF AnyOf
<1>3. NatSums(z, h, S)
  <2>1. \A s \in SUBSET S : SumStep(z, h, s) = 0  BY <1>2 DEF SumStep
  <2> QED  BY <2>1 DEF Sums, NatSums
<1>4. h \in [S -> Nat] /\ S \in SUBSET S  OBVIOUS
<1>5. z[S] = 0  BY <1>4
<1> HIDE DEF h, z
<1>6. sum[S] = z[S]  BY <1>1, <1>3, <1>4, SumsAgree
<1> QED  BY <1>1, <1>5, <1>6 DEF h

(* Changing one term changes the sum by as much.                           *)
LEMMA SumUpdate ==
  ASSUME NEW S, IsFiniteSet(S), NEW h \in [S -> Nat], NEW g \in [S -> Nat],
         NEW x \in S, \A y \in S : y # x => g[y] = h[y]
  PROVE  SumFunction(g) + h[x] = SumFunction(h) + g[x]
<1>1. PICK sum : NatSums(sum, h, S) /\ SumFunction(h) = sum[S]
  BY SumFunctionSums
<1>2. PICK sumg : NatSums(sumg, g, S) /\ SumFunction(g) = sumg[S]
  BY SumFunctionSums
<1>0. S \in SUBSET S /\ S \ {x} \in SUBSET S  OBVIOUS
<1>3. sum[S] = h[x] + sum[S \ {x}] /\ sumg[S] = g[x] + sumg[S \ {x}]
  BY <1>0, <1>1, <1>2, AnyFirst
<1>4. sum[S \ {x}] = sumg[S \ {x}]
  <2> DEFINE r == S \ {x}
  <2>1. r \in SUBSET S /\ \A y \in r : h[y] = g[y]  OBVIOUS
  <2> HIDE DEF r
  <2>2. sum[r] = sumg[r]  BY <1>1, <1>2, <2>1, SumsAgree
  <2> QED  BY <2>2 DEF r
<1>5. sum[S \ {x}] \in Nat /\ h[x] \in Nat /\ g[x] \in Nat
  BY <1>0, <1>1 DEF NatSums
<1> QED  BY <1>1, <1>2, <1>3, <1>4, <1>5
-----------------------------------------------------------------------------
(* A remainder is unique.                                                  *)
LEMMA RemainderUnique ==
  ASSUME NEW h \in Nat \ {0}, NEW q \in Int, NEW p \in Int,
         NEW r \in 0 .. h - 1, NEW s \in 0 .. h - 1, h * q + r = h * p + s
  PROVE  r = s
<1> DEFINE d == q - p
<1>1. d \in Int /\ h * d = s - r  OBVIOUS
<1> HIDE DEF d
<1>2. CASE d >= 1
  <2>1. h * d >= h  BY <1>1, <1>2
  <2> QED  BY <1>1, <2>1
<1>3. CASE d <= -1
  <2>1. h * d <= 0 - h  BY <1>1, <1>3
  <2> QED  BY <1>1, <2>1
<1>4. CASE d = 0
  <2>1. h * d = 0  BY <1>4
  <2> QED  BY <1>1, <2>1
<1> QED  BY <1>1, <1>2, <1>3, <1>4

(* Quotient and remainder.                                                 *)
LEMMA DivMod ==
  ASSUME NEW h \in Nat \ {0}, NEW n \in Nat
  PROVE  /\ n = h * (n \div h) + (n % h)
         /\ n \div h \in Nat /\ n % h \in 0 .. h - 1
OBVIOUS
=============================================================================
