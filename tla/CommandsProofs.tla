--------------------------- MODULE CommandsProofs ---------------------------
(***************************************************************************)
(* Theorems about the lines of the operator interface, for every table of  *)
(* commands, every line and every output: a line runs what its words mean, *)
(* TAB offers what they may become, what is shown of an output is what the *)
(* filters let pass, and no filter stays behind.                           *)
(*                                                                         *)
(* The first two rest on the lengths of the abbreviations being those of   *)
(* the current mode, the third on what a filter has become after the lines *)
(* it has met.  What the recursive functions over numbers compute is found *)
(* with StepInduction and WalkExists, which are about sets and functions,  *)
(* since the induction theorems of the library are about operators.        *)
(***************************************************************************)
EXTENDS Commands, ListLemmas

(* Numbers one by one.                                                     *)
LEMMA StepInduction ==
  ASSUME NEW T \in SUBSET Nat, 0 \in T, \A n \in T : n + 1 \in T
  PROVE  T = Nat
<1>1. ASSUME NEW n \in Nat, \A m \in Nat : m < n => m \in T
      PROVE  n \in T
  <2>1. CASE n = 0  BY <2>1
  <2>2. CASE n # 0
    <3>1. n - 1 \in Nat /\ n - 1 < n /\ (n - 1) + 1 = n  BY <2>2
    <3>2. n - 1 \in T  BY <1>1, <3>1
    <3> QED  BY <3>1, <3>2
  <2> QED  BY <2>1, <2>2
<1> QED  BY <1>1, SetInduction

\* A walk of N steps from s0 through S, the n-th of which is given by F[n].
HasWalk(S, N, s0, F) ==
  \E g \in [0 .. N -> S] : g[0] = s0 /\ \A n \in 1 .. N : g[n] = F[n][g[n - 1]]

(* Such a walk there is.                                                   *)
LEMMA WalkExists ==
  ASSUME NEW S, NEW N \in Nat, NEW s0 \in S, NEW F \in [1 .. N -> [S -> S]]
  PROVE  HasWalk(S, N, s0, F)
<1> DEFINE Good(m) == \E g \in [0 .. m -> S] :
                        g[0] = s0 /\ \A n \in 1 .. m : g[n] = F[n][g[n - 1]]
           T == {m \in Nat : m <= N => Good(m)}
<1>1. 0 \in T
  <2> DEFINE g == [n \in 0 .. 0 |-> s0]
  <2>1. g \in [0 .. 0 -> S] /\ g[0] = s0  OBVIOUS
  <2>2. \A n \in 1 .. 0 : g[n] = F[n][g[n - 1]]  OBVIOUS
  <2> HIDE DEF g
  <2>3. Good(0)  BY <2>1, <2>2
  <2> QED  BY <2>3
<1>2. ASSUME NEW m \in T PROVE m + 1 \in T
  <2>1. m \in Nat /\ (m <= N => Good(m))  OBVIOUS
  <2>2. SUFFICES ASSUME m + 1 <= N PROVE Good(m + 1)  BY <2>1
  <2>3. Good(m)  BY <2>1, <2>2
  <2>4. PICK g \in [0 .. m -> S] :
          g[0] = s0 /\ \A n \in 1 .. m : g[n] = F[n][g[n - 1]]
    BY <2>3
  <2> DEFINE h == [n \in 0 .. m + 1 |-> IF n <= m THEN g[n] ELSE F[m + 1][g[m]]]
  <2>5. F[m + 1][g[m]] \in S
    <3>1. g[m] \in S /\ m + 1 \in 1 .. N  BY <2>1, <2>2, <2>4
    <3> QED  BY <3>1
  <2>6. h \in [0 .. m + 1 -> S]  BY <2>1, <2>4, <2>5
  <2>7. h[0] = s0  BY <2>1, <2>4
  <2>8. ASSUME NEW n \in 1 .. m + 1 PROVE h[n] = F[n][h[n - 1]]
    <3>1. n - 1 \in 0 .. m /\ h[n - 1] = g[n - 1]  BY <2>1
    <3>2. CASE n <= m
      <4>1. n \in 1 .. m /\ h[n] = g[n]  BY <2>1, <3>2
      <4>2. g[n] = F[n][g[n - 1]]  BY <2>4, <4>1
      <4> HIDE DEF h
      <4> QED  BY <3>1, <4>1, <4>2
    <3>3. CASE n = m + 1
      <4>1. n - 1 = m /\ h[n] = F[m + 1][g[m]]  BY <2>1, <3>3
      <4> HIDE DEF h
      <4> QED  BY <3>1, <3>3, <4>1
    <3> QED  BY <2>1, <3>2, <3>3
  <2> HIDE DEF h
  <2> QED  BY <2>6, <2>7, <2>8
<1> HIDE DEF Good
<1>3. T = Nat  BY <1>1, <1>2, StepInduction
<1>4. Good(N)
  <2>1. N \in T  BY <1>3
  <2> QED  BY <2>1
<1> QED  BY <1>4 DEF Good, HasWalk

(* The places of a list are finitely many.                                 *)
LEMMA PlacesFinite ==
  ASSUME NEW n \in Nat, NEW S, S \in SUBSET (1 .. n)
  PROVE  IsFiniteSet(S)
<1>1. IsFiniteSet(1 .. n)  BY FS_Interval
<1> QED  BY <1>1, FS_Subset

(* A bounded set of numbers has a greatest and a least one.                *)
LEMMA MaxExists ==
  ASSUME NEW T \in SUBSET Nat, T # {}, NEW n \in Nat, \A x \in T : x <= n
  PROVE  Max(T) \in T /\ \A y \in T : y <= Max(T)
<1> DEFINE U == {n - x : x \in T}
<1>1. U \in SUBSET Nat /\ U # {}  OBVIOUS
<1>2. PICK u \in U : \A v \in U : u <= v  BY <1>1, LeastExists
<1>3. PICK x \in T : u = n - x  BY <1>2
<1>4. \A y \in T : x >= y
  <2> SUFFICES ASSUME NEW y \in T PROVE x >= y  OBVIOUS
  <2>1. n - y \in U  OBVIOUS
  <2>2. n - x <= n - y /\ x \in Nat /\ y \in Nat  BY <1>2, <1>3, <2>1
  <2> QED  BY <2>2
<1> HIDE DEF U
<1>5. Max(T) \in T /\ \A y \in T : Max(T) >= y  BY <1>3, <1>4 DEF Max
<1> QED  BY <1>5

LEMMA MinIsLeast ==
  ASSUME NEW T \in SUBSET Nat, T # {}
  PROVE  Min(T) \in T /\ \A y \in T : Min(T) <= y
BY LeastExists DEF Min
-----------------------------------------------------------------------------
(* InOrder.                                                                *)

\* How many numbers of S are not above x.
Rank(S, x) == Cardinality({j \in S : j <= x})

(* Greater members have greater ranks.                                     *)
LEMMA RanksIncrease ==
  ASSUME NEW S \in SUBSET Nat, IsFiniteSet(S)
  PROVE  /\ Cardinality(S) \in Nat
         /\ \A x \in S : Rank(S, x) \in 1 .. Cardinality(S)
         /\ \A x, y \in S : x < y => Rank(S, x) < Rank(S, y)
<1> DEFINE Upto(x) == {j \in S : j <= x}
<1>1. ASSUME NEW x \in S
      PROVE  /\ IsFiniteSet(Upto(x)) /\ Cardinality(Upto(x)) \in Nat
             /\ Cardinality(Upto(x)) <= Cardinality(S) /\ Cardinality(Upto(x)) # 0
  <2>1. Upto(x) \in SUBSET S /\ x \in Upto(x)  OBVIOUS
  <2>2. IsFiniteSet(Upto(x)) /\ Cardinality(Upto(x)) <= Cardinality(S)
    BY <2>1, FS_Subset
  <2> HIDE DEF Upto
  <2>3. Cardinality(Upto(x)) \in Nat  BY <2>2, FS_CardinalityType
  <2>4. Cardinality(Upto(x)) # 0  BY <2>1, <2>2, FS_EmptySet
  <2> QED  BY <2>2, <2>3, <2>4
<1>2. Cardinality(S) \in Nat  BY FS_CardinalityType
<1>3. ASSUME NEW x \in S, NEW y \in S, x < y
      PROVE  Cardinality(Upto(x)) < Cardinality(Upto(y))
  <2>0. x \in Nat /\ y \in Nat /\ y \in Upto(y)  OBVIOUS
  <2>1. Upto(x) \subseteq Upto(y) /\ y \notin Upto(x)
    <3>1. \A j \in Upto(x) : j \in S /\ j \in Nat /\ j <= x  OBVIOUS
    <3>2. \A j \in Upto(x) : j <= y  BY <1>3, <2>0, <3>1
    <3>3. ~ (y <= x)  BY <1>3, <2>0
    <3> QED  BY <3>1, <3>2, <3>3
  <2> HIDE DEF Upto
  <2>2. Cardinality(Upto(x) \cup {y}) = Cardinality(Upto(x)) + 1
    BY <1>1, <2>1, FS_AddElement
  <2>3. Cardinality(Upto(x) \cup {y}) <= Cardinality(Upto(y))
    BY <1>1, <2>0, <2>1, FS_Subset
  <2>4. Cardinality(Upto(x)) \in Nat /\ Cardinality(Upto(y)) \in Nat  BY <1>1
  <2> QED  BY <2>2, <2>3, <2>4
<1>4. \A x : Rank(S, x) = Cardinality(Upto(x))  BY DEF Rank
<1> HIDE DEF Upto
<1>5. \A x \in S : Rank(S, x) \in 1 .. Cardinality(S)  BY <1>1, <1>2, <1>4
<1> QED  BY <1>2, <1>3, <1>4, <1>5

(* InOrder lists every member at its rank.                                 *)
LEMMA InOrderRanks ==
  ASSUME NEW S \in SUBSET Nat, IsFiniteSet(S)
  PROVE  /\ InOrder(S) \in Seq(S) /\ Len(InOrder(S)) = Cardinality(S)
         /\ Cardinality(S) \in Nat
         /\ \A n \in 1 .. Cardinality(S) :
              InOrder(S)[n] \in S /\ Rank(S, InOrder(S)[n]) = n
         /\ \A x \in S : Rank(S, x) \in 1 .. Cardinality(S)
                         /\ InOrder(S)[Rank(S, x)] = x
<1> DEFINE N == Cardinality(S)
           f == [x \in S |-> Rank(S, x)]
<1>1. /\ N \in Nat /\ \A x \in S : Rank(S, x) \in 1 .. N
      /\ \A x, y \in S : x < y => Rank(S, x) < Rank(S, y)
  BY RanksIncrease
<1>2. \A x, y \in S : Rank(S, x) = Rank(S, y) => x = y
  <2> SUFFICES ASSUME NEW x \in S, NEW y \in S, x # y PROVE Rank(S, x) # Rank(S, y)
    OBVIOUS
  <2>1. x < y \/ y < x  OBVIOUS
  <2>2. Rank(S, x) \in Nat /\ Rank(S, y) \in Nat  BY <1>1
  <2> QED  BY <1>1, <2>1, <2>2
<1> HIDE DEF N
<1>3. f \in Injection(S, 1 .. N)
  BY <1>1, <1>2 DEF Injection, IsInjective
<1>4. IsFiniteSet(1 .. N) /\ Cardinality(1 .. N) = N
  BY <1>1, FS_Interval
<1>5. f \in Surjection(S, 1 .. N)
  BY <1>3, <1>4, FS_Injection DEF N
<1>6. \A n \in 1 .. N : \E x \in S : Rank(S, x) = n
  BY <1>5 DEF Surjection
<1>7. \A n \in 1 .. N : InOrder(S)[n] = CHOOSE i \in S : Rank(S, i) = n
  BY DEF InOrder, Rank, N
<1>8. \A n \in 1 .. N : InOrder(S)[n] \in S /\ Rank(S, InOrder(S)[n]) = n
  BY <1>6, <1>7
<1>9. \A x \in S : InOrder(S)[Rank(S, x)] = x
  BY <1>1, <1>2, <1>8
<1>10. InOrder(S) = [n \in 1 .. N |-> CHOOSE i \in S : Rank(S, i) = n]
  BY DEF InOrder, Rank, N
<1>11. InOrder(S) \in [1 .. N -> S]  BY <1>7, <1>8, <1>10
<1>12. InOrder(S) \in Seq(S) /\ Len(InOrder(S)) = N  BY <1>1, <1>11
<1> QED  BY <1>1, <1>8, <1>9, <1>12 DEF N

(* A greater number comes last.                                            *)
LEMMA InOrderAppends ==
  ASSUME NEW S \in SUBSET Nat, IsFiniteSet(S), NEW m \in Nat, \A x \in S : x < m
  PROVE  /\ IsFiniteSet(S \cup {m}) /\ Cardinality(S \cup {m}) = Cardinality(S) + 1
         /\ InOrder(S \cup {m}) = Append(InOrder(S), m)
<1> DEFINE U == S \cup {m}
           N == Cardinality(S)
<1>1. IsFiniteSet(U) /\ Cardinality(U) = N + 1 /\ U \in SUBSET Nat
  <2>1. m \notin S  OBVIOUS
  <2> QED  BY <2>1, FS_AddElement
<1>2. \A x \in S : Rank(U, x) = Rank(S, x)
  <2> SUFFICES ASSUME NEW x \in S PROVE Rank(U, x) = Rank(S, x)  OBVIOUS
  <2>1. {j \in U : j <= x} = {j \in S : j <= x}  OBVIOUS
  <2> QED  BY <2>1 DEF Rank
<1>3. Rank(U, m) = N + 1
  <2>1. {j \in U : j <= m} = U
    <3>1. \A j \in U : j <= m  OBVIOUS
    <3> QED  BY <3>1
  <2> HIDE DEF U
  <2> QED  BY <1>1, <2>1 DEF Rank
<1>4. /\ InOrder(S) \in Seq(S) /\ Len(InOrder(S)) = N /\ N \in Nat
      /\ \A n \in 1 .. N : InOrder(S)[n] \in S /\ Rank(S, InOrder(S)[n]) = n
  BY InOrderRanks
<1>5. m \in U /\ S \subseteq U  OBVIOUS
<1> HIDE DEF U, N
<1>6. /\ InOrder(U) \in Seq(U) /\ Len(InOrder(U)) = N + 1
      /\ \A x \in U : InOrder(U)[Rank(U, x)] = x
  BY <1>1, InOrderRanks
<1>7. InOrder(U)[N + 1] = m  BY <1>3, <1>5, <1>6
<1>8. ASSUME NEW n \in 1 .. N PROVE InOrder(U)[n] = InOrder(S)[n]
  <2>1. InOrder(S)[n] \in S /\ Rank(U, InOrder(S)[n]) = n  BY <1>2, <1>4
  <2> QED  BY <1>5, <1>6, <2>1
<1>9. InOrder(S) \in Seq(U)  BY <1>4, <1>5, SeqMonotonic
<1>10. /\ Append(InOrder(S), m) \in Seq(U) /\ Len(Append(InOrder(S), m)) = N + 1
       /\ \A n \in 1 .. N : Append(InOrder(S), m)[n] = InOrder(S)[n]
       /\ Append(InOrder(S), m)[N + 1] = m
  BY <1>4, <1>5, <1>9, AppendProperties
<1>11. \A n \in 1 .. N + 1 : InOrder(U)[n] = Append(InOrder(S), m)[n]
  <2> SUFFICES ASSUME NEW n \in 1 .. N + 1
               PROVE  InOrder(U)[n] = Append(InOrder(S), m)[n]
    OBVIOUS
  <2>1. n \in 1 .. N \/ n = N + 1  BY <1>4
  <2> QED  BY <1>7, <1>8, <1>10, <2>1
<1>12. InOrder(U) = Append(InOrder(S), m)
  BY <1>6, <1>10, <1>11, SeqEqual
<1> QED  BY <1>1, <1>12 DEF U, N
-----------------------------------------------------------------------------
(* The table of commands.                                                  *)

LEMMA TableFacts ==
  /\ Len(Table) \in Nat /\ Ids = 1 .. Len(Table)
  /\ \A c \in Ids :
       /\ Table[c].name \in Seq(STRING) /\ Len(Table[c].name) \in Nat \ {0}
       /\ Table[c].mode \in Modes \cup {"ANY"}
       /\ Table[c].parent \in 0 .. c - 1 /\ Table[c].parent \in {0} \cup Ids
<1>1. Table \in Seq(Command) /\ \A c \in Ids : Table[c].parent \in 0 .. c - 1
  BY CommandsAssumption
<1>2. Len(Table) \in Nat /\ Ids = 1 .. Len(Table) /\ \A c \in Ids : Table[c] \in Command
  BY <1>1 DEF Ids
<1>3. ASSUME NEW c \in Ids
      PROVE  /\ Table[c].name \in Seq(STRING) /\ Len(Table[c].name) \in Nat \ {0}
             /\ Table[c].mode \in Modes \cup {"ANY"}
             /\ Table[c].parent \in {0} \cup Ids
  <2>1. /\ Table[c].name \in Seq(STRING) /\ Table[c].name # << >>
        /\ Table[c].mode \in Modes \cup {"ANY"}
    BY <1>2 DEF Command
  <2>2. Len(Table[c].name) \in Nat \ {0}  BY <2>1, EmptySeq
  <2>3. Table[c].parent \in {0} \cup Ids  BY <1>1, <1>2
  <2> QED  BY <2>1, <2>2, <2>3
<1> QED  BY <1>1, <1>2, <1>3

(* The path of a command is that of its parent and the command.            *)
LEMMA PathEquation ==
  /\ Path \in [0 .. Len(Table) -> Seq(Ids)]
  /\ Path[0] = << >>
  /\ \A c \in Ids : Path[c] = Append(Path[Table[c].parent], c)
<1> DEFINE N == Len(Table)
           up(c) == Table[c].parent
           Good(m) == \E g \in [0 .. m -> Seq(Ids)] :
                        g[0] = << >> /\ \A c \in 1 .. m : g[c] = Append(g[up(c)], c)
           T == {m \in Nat : m <= N => Good(m)}
<1>1. N \in Nat /\ Ids = 1 .. N /\ \A c \in 1 .. N : up(c) \in 0 .. c - 1
  BY TableFacts
<1> HIDE DEF Good, up
<1>2. 0 \in T
  <2> DEFINE g == [c \in 0 .. 0 |-> << >>]
  <2>1. g \in [0 .. 0 -> Seq(Ids)] /\ g[0] = << >>  OBVIOUS
  <2>2. \A c \in 1 .. 0 : g[c] = Append(g[up(c)], c)  OBVIOUS
  <2> HIDE DEF g
  <2>3. Good(0)  BY <2>1, <2>2 DEF Good
  <2> QED  BY <2>3
<1>3. ASSUME NEW m \in T PROVE m + 1 \in T
  <2>1. m \in Nat /\ (m <= N => Good(m))  OBVIOUS
  <2>2. SUFFICES ASSUME m + 1 <= N PROVE Good(m + 1)  BY <2>1
  <2>3. Good(m) /\ m + 1 \in Ids /\ up(m + 1) \in 0 .. m  BY <1>1, <2>1, <2>2
  <2>4. PICK g \in [0 .. m -> Seq(Ids)] :
          g[0] = << >> /\ \A c \in 1 .. m : g[c] = Append(g[up(c)], c)
    BY <2>3 DEF Good
  <2> DEFINE h == [c \in 0 .. m + 1 |-> IF c <= m THEN g[c] ELSE Append(g[up(m + 1)], m + 1)]
  <2>5. Append(g[up(m + 1)], m + 1) \in Seq(Ids)
    BY <2>3, <2>4, AppendProperties
  <2>6. h \in [0 .. m + 1 -> Seq(Ids)]  BY <2>1, <2>4, <2>5
  <2>7. h[0] = << >>  BY <2>1, <2>4
  <2>8. ASSUME NEW c \in 1 .. m + 1 PROVE h[c] = Append(h[up(c)], c)
    <3>1. up(c) \in 0 .. m /\ h[up(c)] = g[up(c)]
      <4>0. c \in 1 .. N  BY <1>1, <2>1, <2>2
      <4>1. up(c) \in 0 .. c - 1  BY <1>1, <4>0
      <4>2. up(c) \in 0 .. m  BY <2>1, <4>1
      <4> QED  BY <2>1, <4>2
    <3>2. CASE c <= m
      <4>1. c \in 1 .. m /\ h[c] = g[c]  BY <2>1, <3>2
      <4>2. g[c] = Append(g[up(c)], c)  BY <2>4, <4>1
      <4> HIDE DEF h
      <4> QED  BY <3>1, <4>1, <4>2
    <3>3. CASE c = m + 1
      <4>1. h[c] = Append(g[up(m + 1)], m + 1)  BY <2>1, <3>3
      <4> HIDE DEF h
      <4> QED  BY <3>1, <3>3, <4>1
    <3>4. c <= m \/ c = m + 1  BY <2>1
    <3> QED  BY <3>2, <3>3, <3>4
  <2> HIDE DEF h
  <2> QED  BY <2>6, <2>7, <2>8 DEF Good
<1>4. T = Nat  BY <1>2, <1>3, StepInduction
<1>5. Good(N)
  <2>1. N \in T  BY <1>1, <1>4
  <2> QED  BY <2>1
<1>6. PICK g \in [0 .. N -> Seq(Ids)] :
        g[0] = << >> /\ \A c \in 1 .. N : g[c] = Append(g[up(c)], c)
  BY <1>5 DEF Good
<1> DEFINE R(f) == [c \in 0 .. Len(Table) |->
                      IF c = 0 THEN << >> ELSE Append(f[Table[c].parent], c)]
<1>7. g = R(g)  BY <1>1, <1>6 DEF up
<1>8. Path = CHOOSE f : f = R(f)  BY DEF Path
<1> HIDE DEF R
<1>9. Path = R(Path)  BY <1>7, <1>8
<1>10. Path = [c \in 0 .. N |-> IF c = 0 THEN << >> ELSE Append(Path[up(c)], c)]
  BY <1>9 DEF R, up
<1>11. Path[0] = << >> /\ \A c \in 1 .. N : Path[c] = Append(Path[up(c)], c)
  <2>1. \A c \in 0 .. N : Path[c] = IF c = 0 THEN << >> ELSE Append(Path[up(c)], c)
    BY <1>10
  <2>2. \A c \in 1 .. N : c \in 0 .. N /\ c # 0  BY <1>1
  <2>3. 0 \in 0 .. N  BY <1>1
  <2> QED  BY <2>1, <2>2, <2>3
<1> DEFINE U == {c \in Nat : c <= N => Path[c] \in Seq(Ids)}
<1>12. ASSUME NEW c \in Nat, \A d \in Nat : d < c => d \in U PROVE c \in U
  <2> SUFFICES ASSUME c <= N, c # 0 PROVE Path[c] \in Seq(Ids)
    BY <1>11, EmptySeq
  <2>1. c \in Ids /\ up(c) \in 0 .. c - 1 /\ Path[c] = Append(Path[up(c)], c)
    BY <1>1, <1>11
  <2>2. up(c) \in Nat /\ up(c) < c /\ up(c) <= N  BY <1>1, <2>1
  <2>3. up(c) \in U  BY <1>12, <2>2
  <2>4. Path[up(c)] \in Seq(Ids)  BY <2>2, <2>3
  <2> QED  BY <2>1, <2>4, AppendProperties
<1>13. U = Nat  BY <1>12, SetInduction
<1>14. \A c \in 0 .. N : Path[c] \in Seq(Ids)  BY <1>1, <1>13
<1>15. Path \in [0 .. N -> Seq(Ids)]
  <2> HIDE DEF U
  <2> QED  BY <1>10, <1>14
<1> QED  BY <1>1, <1>11, <1>15 DEF up

\* What the path p of the command c looks like.
Linked(c, p) ==
  /\ Len(p) \in Nat \ {0} /\ p[Len(p)] = c
  /\ \A i \in 1 .. Len(p) :
       /\ p[i] \in Ids /\ Table[p[i]].mode = Table[c].mode
       /\ Table[p[i]].parent = IF i = 1 THEN 0 ELSE p[i - 1]
       /\ Len(Path[p[i]]) = i

(* A path leads from the top to its command, in one mode.                  *)
LEMMA PathLinks ==
  ASSUME NEW c \in Ids
  PROVE  Linked(c, Path[c])
<1> DEFINE T == {n \in Nat : n \in Ids => Linked(n, Path[n])}
<1>1. ASSUME NEW n \in Nat, \A m \in Nat : m < n => m \in T PROVE n \in T
  <2> SUFFICES ASSUME n \in Ids PROVE Linked(n, Path[n])  OBVIOUS
  <2> DEFINE q == Table[n].parent
             p == Path[q]
             k == Len(p)
             r == Path[n]
  <2>1. q \in 0 .. n - 1 /\ q \in {0} \cup Ids /\ q \in 0 .. Len(Table)
    BY TableFacts
  <2>2. p \in Seq(Ids) /\ r = Append(p, n)  BY <2>1, PathEquation
  <2>3. /\ k \in Nat /\ Len(r) = k + 1 /\ r[k + 1] = n
        /\ \A i \in 1 .. k : r[i] = p[i]
    BY <2>2, AppendProperties
  <2>4. CASE q = 0
    <3>1. k = 0  BY <2>4, PathEquation
    <3> QED  BY <2>3, <2>4, <3>1 DEF Linked
  <2>5. CASE q # 0
    <3>1. q \in Ids /\ q \in Nat /\ q < n  BY <2>1, <2>5, TableFacts
    <3>2. Linked(q, p)  BY <1>1, <3>1
    <3>3. Table[q].mode = Table[n].mode  BY <2>5, CommandsAssumption
    <3> HIDE DEF q, p, k, r
    <3>4. ASSUME NEW i \in 1 .. Len(r)
          PROVE  /\ r[i] \in Ids /\ Table[r[i]].mode = Table[n].mode
                 /\ Table[r[i]].parent = IF i = 1 THEN 0 ELSE r[i - 1]
                 /\ Len(Path[r[i]]) = i
      <4>1. CASE i \in 1 .. k
        <5>1. r[i] = p[i] /\ (i # 1 => r[i - 1] = p[i - 1])  BY <2>3, <4>1
        <5> QED  BY <3>2, <3>3, <4>1, <5>1 DEF Linked, k
      <4>2. CASE i = k + 1
        <5>1. k # 0 /\ p[k] = q  BY <3>2 DEF Linked, k
        <5>2. r[i] = n /\ i # 1 /\ r[i - 1] = q  BY <2>3, <4>2, <5>1
        <5>3. Table[n].parent = q /\ Len(Path[n]) = i  BY <2>3, <4>2 DEF q, r
        <5> QED  BY <5>2, <5>3
      <4> QED  BY <2>3, <4>1, <4>2
    <3>5. Linked(n, r)  BY <2>3, <3>4 DEF Linked
    <3> QED  BY <3>5 DEF r
  <2> QED  BY <2>4, <2>5
<1>2. T = Nat  BY <1>1, SetInduction
<1>3. c \in T  BY <1>2, TableFacts
<1> QED  BY <1>3

(* A command of a mode has its whole path there.                           *)
LEMMA PathVisible ==
  ASSUME NEW c \in Ids, NEW m, Visible(c, m), NEW i \in 1 .. Len(Path[c])
  PROVE  Path[c][i] \in Ids /\ Visible(Path[c][i], m)
BY PathLinks DEF Linked, Visible

(* Two commands whose words are chosen alike are one if they have          *)
(* callbacks.                                                              *)
LEMMA SameCommand ==
  ASSUME NEW c \in Ids, NEW d \in Ids, Table[c].effect # "none", Table[d].effect # "none",
         \A i \in 1 .. Len(Path[c]) :
           i <= Len(Path[d]) /\ Table[Path[c][i]].parent = Table[Path[d][i]].parent
             => Path[c][i] = Path[d][i],
         Len(Path[c]) <= Len(Path[d])
  PROVE  c = d
<1> DEFINE n == Len(Path[c])
           T == {i \in Nat : i \in 1 .. n => Path[c][i] = Path[d][i]}
<1>1. Linked(c, Path[c]) /\ Linked(d, Path[d])  BY PathLinks
<1>2. n \in Nat \ {0} /\ Len(Path[d]) \in Nat  BY <1>1 DEF Linked
<1>3. ASSUME NEW i \in Nat, \A j \in Nat : j < i => j \in T PROVE i \in T
  <2> SUFFICES ASSUME i \in 1 .. n PROVE Path[c][i] = Path[d][i]  OBVIOUS
  <2>1. i \in 1 .. Len(Path[c]) /\ i \in 1 .. Len(Path[d])  BY <1>2
  <2>2. /\ Table[Path[c][i]].parent = IF i = 1 THEN 0 ELSE Path[c][i - 1]
        /\ Table[Path[d][i]].parent = IF i = 1 THEN 0 ELSE Path[d][i - 1]
    BY <1>1, <2>1 DEF Linked
  <2>3. i # 1 => Path[c][i - 1] = Path[d][i - 1]
    <3> SUFFICES ASSUME i # 1 PROVE Path[c][i - 1] = Path[d][i - 1]  OBVIOUS
    <3>1. i - 1 \in Nat /\ i - 1 < i /\ i - 1 \in 1 .. n  BY <1>2, <2>1
    <3>2. i - 1 \in T  BY <1>3, <3>1
    <3> QED  BY <3>1, <3>2
  <2>4. i <= Len(Path[d])  BY <2>1
  <2> QED  BY <2>1, <2>2, <2>3, <2>4
<1>4. T = Nat  BY <1>3, SetInduction
<1>5. Path[c][n] = c /\ Path[d][n] = c
  <2>1. n \in T  BY <1>2, <1>4
  <2> QED  BY <1>1, <1>2, <2>1 DEF Linked
<1>6. CASE n = Len(Path[d])  BY <1>1, <1>5, <1>6 DEF Linked
<1>7. CASE n < Len(Path[d])
  <2> DEFINE e == Path[d][n + 1]
  <2>1. n + 1 \in 1 .. Len(Path[d]) /\ n + 1 # 1 /\ (n + 1) - 1 = n  BY <1>2, <1>7
  <2>2. e \in Ids /\ Table[e].parent = c  BY <1>1, <1>5, <2>1 DEF Linked
  <2>3. Table[c].effect = "none"  BY <2>2, CommandsAssumption
  <2> QED  BY <2>3
<1> QED  BY <1>2, <1>6, <1>7
-----------------------------------------------------------------------------
(* Abbreviations.                                                          *)

(* A word begins another if it is not longer and agrees in every place.    *)
LEMMA PrefixElements ==
  ASSUME NEW S, NEW s \in Seq(S), NEW t \in Seq(S), NEW n \in Nat,
         n <= Len(s), n <= Len(t)
  PROVE  SubSeq(s, 1, n) = SubSeq(t, 1, n) <=> \A j \in 1 .. n : s[j] = t[j]
<1>1. ASSUME NEW u \in Seq(S), n <= Len(u)
      PROVE  /\ SubSeq(u, 1, n) \in Seq(S) /\ Len(SubSeq(u, 1, n)) = n
             /\ \A j \in 1 .. n : SubSeq(u, 1, n)[j] = u[j]
  <2>1. \A j \in 1 .. n : u[j] \in S
    <3>1. \A j \in 1 .. n : j \in 1 .. Len(u)  BY <1>1
    <3> QED  BY <3>1
  <2>2. /\ SubSeq(u, 1, n) \in Seq(S)
        /\ Len(SubSeq(u, 1, n)) = IF 1 <= n THEN n - 1 + 1 ELSE 0
        /\ \A j \in 1 .. n - 1 + 1 : SubSeq(u, 1, n)[j] = u[1 + j - 1]
    BY <2>1, SubSeqProperties
  <2>3. n - 1 + 1 = n /\ \A j \in 1 .. n : 1 + j - 1 = j  OBVIOUS
  <2> QED  BY <2>2, <2>3
<1>2. ASSUME SubSeq(s, 1, n) = SubSeq(t, 1, n), NEW j \in 1 .. n PROVE s[j] = t[j]
  BY <1>1, <1>2
<1>3. ASSUME \A j \in 1 .. n : s[j] = t[j] PROVE SubSeq(s, 1, n) = SubSeq(t, 1, n)
  <2> DEFINE a == SubSeq(s, 1, n)
             b == SubSeq(t, 1, n)
  <2>1. a \in Seq(S) /\ Len(a) = n /\ \A j \in 1 .. n : a[j] = s[j]  BY <1>1
  <2>2. b \in Seq(S) /\ Len(b) = n /\ \A j \in 1 .. n : b[j] = t[j]  BY <1>1
  <2> HIDE DEF a, b
  <2>3. a = b  BY <1>3, <2>1, <2>2, SeqEqual
  <2> QED  BY <2>3 DEF a, b
<1> QED  BY <1>2, <1>3

LEMMA PrefixMeans ==
  ASSUME NEW S, NEW s \in Seq(S), NEW t \in Seq(S)
  PROVE  IsPrefix(s, t) <=> Len(s) <= Len(t) /\ \A j \in 1 .. Len(s) : s[j] = t[j]
<1>1. Len(s) \in Nat  OBVIOUS
<1> QED  BY <1>1, PrefixElements DEF IsPrefix

(* A beginning of one name begins another one as far as they agree.        *)
LEMMA CommonLenMeans ==
  ASSUME NEW c \in Ids, NEW d \in Ids
  PROVE  /\ CommonLen(c, d) \in 0 .. Len(Table[c].name)
         /\ \A w \in Seq(STRING) : IsPrefix(w, Table[c].name) =>
              (IsPrefix(w, Table[d].name) <=> Len(w) <= CommonLen(c, d))
<1> DEFINE s == Table[c].name
           t == Table[d].name
           T == {n \in 0 .. Len(s) : n <= Len(t) /\ SubSeq(s, 1, n) = SubSeq(t, 1, n)}
           M == Max(T)
<1>1. s \in Seq(STRING) /\ t \in Seq(STRING) /\ Len(s) \in Nat /\ Len(t) \in Nat
  BY TableFacts
<1>2. CommonLen(c, d) = M  BY DEF CommonLen
<1> HIDE DEF s, t
<1>3. T \in SUBSET Nat /\ 0 \in T /\ \A n \in T : n <= Len(s)
  BY <1>1, PrefixElements
<1>4. M \in T /\ \A n \in T : n <= M
  <2> HIDE DEF T
  <2> QED  BY <1>1, <1>3, MaxExists
<1>5. ASSUME NEW w \in Seq(STRING), IsPrefix(w, s)
      PROVE  IsPrefix(w, t) <=> Len(w) <= M
  <2>1. /\ Len(w) \in Nat /\ Len(w) <= Len(s)
        /\ \A j \in 1 .. Len(w) : w[j] = s[j]
    BY <1>1, <1>5, PrefixMeans
  <2>2. ASSUME IsPrefix(w, t) PROVE Len(w) <= M
    <3>1. Len(w) <= Len(t) /\ \A j \in 1 .. Len(w) : w[j] = t[j]
      BY <1>1, <2>2, PrefixMeans
    <3>2. SubSeq(s, 1, Len(w)) = SubSeq(t, 1, Len(w))
      BY <1>1, <2>1, <3>1, PrefixElements
    <3>3. Len(w) \in T  BY <2>1, <3>1, <3>2
    <3> QED  BY <1>4, <3>3
  <2>3. ASSUME Len(w) <= M PROVE IsPrefix(w, t)
    <3>1. M \in Nat /\ M <= Len(s) /\ M <= Len(t) /\ SubSeq(s, 1, M) = SubSeq(t, 1, M)
      BY <1>3, <1>4
    <3>2. \A j \in 1 .. M : s[j] = t[j]  BY <1>1, <3>1, PrefixElements, ZenonT(60)
    <3>3. \A j \in 1 .. Len(w) : j \in 1 .. M
      <4>1. Len(w) \in Nat /\ M \in Nat /\ Len(w) <= M  BY <2>1, <2>3, <3>1
      <4> HIDE DEF M
      <4> QED  BY ONLY <4>1
    <3>4. Len(w) <= Len(t) /\ \A j \in 1 .. Len(w) : w[j] = t[j]
      BY <1>1, <2>1, <2>3, <3>1, <3>2, <3>3
    <3> QED  BY <1>1, <3>4, PrefixMeans
  <2> QED  BY <2>2, <2>3
<1>6. M \in 0 .. Len(s)  BY <1>1, <1>4
<1> HIDE DEF M
<1> QED  BY <1>2, <1>5, <1>6 DEF s, t

\* The other commands that may be met where c is, and what tells c from them.
Rivals(c, m) == {d \in Siblings[Table[c].parent] \ {c} : Visible(d, m)}
Telling(c, m) == Max({1} \cup {1 + CommonLen(c, d) : d \in Rivals(c, m)})

LEMMA RivalsAre ==
  ASSUME NEW c \in Ids, NEW m
  PROVE  Rivals(c, m) =
           {d \in Ids : d # c /\ Table[d].parent = Table[c].parent /\ Visible(d, m)}
<1>1. Table[c].parent \in 0 .. Len(Table)  BY TableFacts
<1> QED  BY <1>1 DEF Rivals, Siblings

(* A word tells a command if it begins no rival's name.                    *)
LEMMA TellingMeans ==
  ASSUME NEW c \in Ids, NEW m
  PROVE  /\ Telling(c, m) \in 1 .. Len(Table[c].name) + 1
         /\ \A w \in Seq(STRING) : IsPrefix(w, Table[c].name) /\ Len(w) > 0 =>
              (Len(w) >= Telling(c, m)
                 <=> \A d \in Rivals(c, m) : ~ IsPrefix(w, Table[d].name))
<1> DEFINE s == Table[c].name
           L == Len(s)
           T == {1} \cup {1 + CommonLen(c, d) : d \in Rivals(c, m)}
<1>1. s \in Seq(STRING) /\ L \in Nat  BY TableFacts
<1>2. \A d \in Rivals(c, m) : d \in Ids  BY RivalsAre
<1>3. ASSUME NEW d \in Rivals(c, m)
      PROVE  /\ CommonLen(c, d) \in 0 .. L
             /\ \A w \in Seq(STRING) : IsPrefix(w, s) =>
                  (IsPrefix(w, Table[d].name) <=> Len(w) <= CommonLen(c, d))
  BY <1>2, CommonLenMeans
<1> HIDE DEF L
<1>4. T \in SUBSET Nat /\ T # {} /\ \A x \in T : x >= 1 /\ x <= L + 1
  <2>1. \A d \in Rivals(c, m) : 1 + CommonLen(c, d) \in Nat /\ 1 + CommonLen(c, d) >= 1
                                /\ 1 + CommonLen(c, d) <= L + 1
    BY <1>1, <1>3
  <2>2. 1 <= L + 1  BY <1>1
  <2> QED  BY <2>1, <2>2
<1>5. Telling(c, m) \in T /\ \A x \in T : x <= Telling(c, m)
  <2>1. Telling(c, m) = Max(T)  BY DEF Telling
  <2> HIDE DEF T
  <2>2. L + 1 \in Nat  BY <1>1
  <2> QED  BY <1>4, <2>1, <2>2, MaxExists
<1>6. ASSUME NEW w \in Seq(STRING), IsPrefix(w, s), Len(w) > 0
      PROVE  Len(w) >= Telling(c, m)
               <=> \A d \in Rivals(c, m) : ~ IsPrefix(w, Table[d].name)
  <2>1. Len(w) \in Nat  OBVIOUS
  <2>2. ASSUME Len(w) >= Telling(c, m), NEW d \in Rivals(c, m)
        PROVE  ~ IsPrefix(w, Table[d].name)
    <3>1. 1 + CommonLen(c, d) \in T  OBVIOUS
    <3>2. 1 + CommonLen(c, d) <= Telling(c, m) /\ Telling(c, m) \in Nat
      BY <1>4, <1>5, <3>1
    <3>3. ~ (Len(w) <= CommonLen(c, d))  BY <1>3, <2>1, <2>2, <3>2
    <3> QED  BY <1>3, <1>6, <3>3
  <2>3. ASSUME \A d \in Rivals(c, m) : ~ IsPrefix(w, Table[d].name)
        PROVE  Len(w) >= Telling(c, m)
    <3>1. CASE Telling(c, m) = 1  BY <1>6, <2>1, <3>1
    <3>2. CASE \E d \in Rivals(c, m) : Telling(c, m) = 1 + CommonLen(c, d)
      <4>1. PICK d \in Rivals(c, m) : Telling(c, m) = 1 + CommonLen(c, d)  BY <3>2
      <4>2. ~ (Len(w) <= CommonLen(c, d))  BY <1>3, <1>6, <2>3
      <4> QED  BY <1>3, <2>1, <4>1, <4>2
    <3> QED  BY <1>5, <3>1, <3>2
  <2> QED  BY <2>2, <2>3
<1>7. Telling(c, m) \in 1 .. L + 1
  <2> HIDE DEF T
  <2>1. Telling(c, m) \in Nat /\ Telling(c, m) >= 1 /\ Telling(c, m) <= L + 1
    BY <1>4, <1>5
  <2> QED  BY <1>1, <2>1
<1> QED  BY <1>6, <1>7 DEF L

(* Setting a mode computes what tells the commands of the mode apart.      *)
LEMMA ShortestTells ==
  ASSUME NEW m, NEW old
  PROVE  \A c \in Ids : Visible(c, m) => Shortest(m, old)[c] = Telling(c, m)
<1> SUFFICES ASSUME NEW c \in Ids, Visible(c, m)
             PROVE  Shortest(m, old)[c] = Telling(c, m)
  OBVIOUS
<1> DEFINE p == Table[c].parent
<1>1. ~ \E d \in Range(Path[p]) : ~ Visible(d, m)
  <2>1. CASE p = 0
    <3>1. Path[p] = << >>  BY <2>1, PathEquation
    <3>2. Range(Path[p]) = {}  BY <3>1 DEF Range
    <3> QED  BY <3>2
  <2>2. CASE p # 0
    <3>1. p \in Ids /\ p \in 0 .. Len(Table) /\ Visible(p, m)
      <4>1. p \in Ids  BY <2>2, TableFacts
      <4>2. Table[p].mode = Table[c].mode  BY <2>2, CommandsAssumption
      <4> QED  BY <4>1, <4>2, TableFacts DEF Visible
    <3>2. Path[p] \in Seq(Ids)  BY <3>1, PathEquation
    <3>3. \A i \in 1 .. Len(Path[p]) : Visible(Path[p][i], m)
      BY <3>1, PathVisible
    <3>4. DOMAIN Path[p] = 1 .. Len(Path[p])  BY <3>2
    <3> QED  BY <3>3, <3>4 DEF Range
  <2> QED  BY <2>1, <2>2
<1> QED  BY <1>1 DEF Shortest, Telling, Rivals

LEMMA ShortestType ==
  ASSUME NEW m, NEW old \in [Ids -> Nat]
  PROVE  Shortest(m, old) \in [Ids -> Nat]
<1> SUFFICES ASSUME NEW c \in Ids PROVE Shortest(m, old)[c] \in Nat
  BY DEF Shortest
<1>1. Telling(c, m) \in Nat /\ Len(Table[c].name) \in Nat
  BY TableFacts, TellingMeans
<1> QED  BY <1>1 DEF Shortest, Telling, Rivals
-----------------------------------------------------------------------------
(* Reading a line.                                                         *)

Word == Seq(STRING)
Reading == [words : Seq(Word), word : Word, begun : BOOLEAN, quote : STRING]

LEMMA OneElement ==
  ASSUME NEW S, NEW x \in S
  PROVE  <<x>> \in Seq(S)
OBVIOUS

LEMMA OneLetter ==
  ASSUME NEW S, NEW x \in S
  PROVE  <<x>> \in Seq(S) /\ Len(<<x>>) = 1 /\ <<x>>[1] = x
OBVIOUS

LEMMA OneLong ==
  ASSUME NEW S, NEW s \in Seq(S), Len(s) = 1
  PROVE  s = <<s[1]>>
OBVIOUS

LEMMA OneCharacter ==
  ASSUME NEW S, NEW s \in Seq(S), NEW i \in 1 .. Len(s)
  PROVE  SubSeq(s, i, i) = <<s[i]>>
<1> DEFINE t == SubSeq(s, i, i)
<1>1. i \in Int /\ \A j \in i .. i : s[j] \in S  OBVIOUS
<1>2. /\ t \in Seq(S) /\ Len(t) = IF i <= i THEN i - i + 1 ELSE 0
      /\ \A j \in 1 .. i - i + 1 : t[j] = s[i + j - 1]
  BY <1>1, SubSeqProperties
<1> HIDE DEF t
<1>3. i - i + 1 = 1 /\ i + 1 - 1 = i /\ i <= i  BY <1>1
<1>4. Len(t) = 1 /\ t[1] = s[i]  BY <1>2, <1>3
<1>5. t = <<t[1]>>  BY <1>2, <1>4, OneLong
<1> QED  BY <1>4, <1>5 DEF t

LEMMA Literals == "" \in STRING /\ << >> \in Word /\ <<"|">> \in Word
<1>1. "" \in STRING /\ "|" \in STRING  BY CommandsAssumption
<1>2. << >> \in Seq(STRING)  OBVIOUS
<1>3. <<"|">> \in Seq(STRING)  BY <1>1, OneElement
<1> QED  BY <1>1, <1>2, <1>3 DEF Word

LEMMA AddType ==
  ASSUME NEW ws \in Seq(Word), NEW w \in Word
  PROVE  Add(ws, w) \in Seq(Word)
BY AppendProperties DEF Add

LEMMA ReadType ==
  ASSUME NEW st \in Reading, NEW ch \in STRING
  PROVE  Read(st, ch) \in Reading
<1> DEFINE Done(s) == IF s.begun THEN [s EXCEPT !.words = Add(@, s.word), !.begun = FALSE]
                      ELSE s
           ended   == IF st = NothingRead THEN [st EXCEPT !.words = Add(@, << >>)]
                      ELSE Done(st)
<1>1. /\ st.words \in Seq(Word) /\ st.word \in Word
      /\ st.begun \in BOOLEAN /\ st.quote \in STRING
  BY DEF Reading
<1>2. Done(st) \in Reading
  <2>1. Add(st.words, st.word) \in Seq(Word)  BY <1>1, AddType
  <2> QED  BY <2>1 DEF Reading
<1>3. ended \in Reading /\ ended.words \in Seq(Word)
  <2>1. [st EXCEPT !.words = Add(@, << >>)] \in Reading
    <3>1. << >> \in Word  BY Literals
    <3>2. Add(st.words, << >>) \in Seq(Word)  BY <1>1, <3>1, AddType
    <3> QED  BY <3>2 DEF Reading
  <2> HIDE DEF Done
  <2>2. ended \in Reading  BY <1>2, <2>1
  <2> QED  BY <2>2 DEF Reading
<1>4. Read(st, ch) =
        IF st.quote # "" /\ ch = st.quote THEN [Done(st) EXCEPT !.quote = ""]
        ELSE IF ch \in Marks THEN [st EXCEPT !.quote = ch, !.begun = TRUE, !.word = << >>]
        ELSE IF st.quote = "" /\ ch = " " THEN Done(st)
        ELSE IF st.quote = "" /\ ch = "|" THEN [ended EXCEPT !.words = Add(@, <<"|">>)]
        ELSE [st EXCEPT !.begun = TRUE, !.word = IF st.begun THEN Append(@, ch) ELSE <<ch>>]
  BY DEF Read
<1> HIDE DEF Done, ended
<1>5. [Done(st) EXCEPT !.quote = ""] \in Reading  BY <1>2, Literals DEF Reading
<1>6. [st EXCEPT !.quote = ch, !.begun = TRUE, !.word = << >>] \in Reading
  <2>1. << >> \in Word  BY Literals
  <2> QED  BY <2>1 DEF Reading
<1>7. [ended EXCEPT !.words = Add(@, <<"|">>)] \in Reading
  <2>1. <<"|">> \in Word  BY Literals
  <2>2. Add(ended.words, <<"|">>) \in Seq(Word)  BY <1>3, <2>1, AddType
  <2> QED  BY <1>3, <2>2 DEF Reading
<1>8. [st EXCEPT !.begun = TRUE, !.word = IF st.begun THEN Append(@, ch) ELSE <<ch>>] \in Reading
  <2>1. Append(st.word, ch) \in Word /\ <<ch>> \in Word
    BY <1>1, AppendProperties DEF Word
  <2> QED  BY <2>1 DEF Reading
<1> QED  BY <1>2, <1>4, <1>5, <1>6, <1>7, <1>8

(* A line is read character by character.                                  *)
LEMMA ParseWalk ==
  ASSUME NEW line \in Seq(STRING)
  PROVE  \E g \in [0 .. Len(line) -> Reading] :
           /\ g[0] = NothingRead
           /\ \A n \in 1 .. Len(line) : g[n] = Read(g[n - 1], line[n])
           /\ ParseLine(line) = IF g[Len(line)].begun
                                THEN Add(g[Len(line)].words, g[Len(line)].word)
                                ELSE g[Len(line)].words
<1> DEFINE N == Len(line)
           F == [n \in 1 .. N |-> [st \in Reading |-> Read(st, line[n])]]
           R(f) == [n \in 0 .. Len(line) |->
                      IF n = 0 THEN NothingRead ELSE Read(f[n - 1], line[n])]
           A == CHOOSE f : f = R(f)
<1>1. N \in Nat /\ \A n \in 1 .. N : line[n] \in STRING  OBVIOUS
<1> HIDE DEF N
<1>2. F \in [1 .. N -> [Reading -> Reading]]  BY <1>1, ReadType
<1>3. NothingRead \in Reading
  <2>1. << >> \in Seq(Word)  OBVIOUS
  <2> QED  BY <2>1, Literals DEF NothingRead, Reading
<1>4. PICK g \in [0 .. N -> Reading] :
        g[0] = NothingRead /\ \A n \in 1 .. N : g[n] = F[n][g[n - 1]]
  <2> HIDE DEF F, A, R
  <2>1. HasWalk(Reading, N, NothingRead, F)  BY <1>1, <1>2, <1>3, WalkExists
  <2> QED  BY <2>1 DEF HasWalk
<1>5. ASSUME NEW n \in 1 .. N PROVE g[n] = Read(g[n - 1], line[n])
  <2>1. g[n - 1] \in Reading  BY <1>1, <1>4
  <2>2. F[n][g[n - 1]] = Read(g[n - 1], line[n])  BY <2>1
  <2> QED  BY <1>4, <2>2
<1>6. g = R(g)
  <2>1. \A n \in 0 .. N : g[n] = IF n = 0 THEN NothingRead ELSE Read(g[n - 1], line[n])
    <3> SUFFICES ASSUME NEW n \in 0 .. N, n # 0 PROVE g[n] = Read(g[n - 1], line[n])
      BY <1>4
    <3>1. n \in 1 .. N  BY <1>1
    <3> QED  BY <1>5, <3>1
  <2> QED  BY <1>4, <2>1 DEF N
<1>7. A = R(A)
  <2> HIDE DEF R
  <2> QED  BY <1>6
<1>8. ParseLine(line) = IF A[N].begun THEN Add(A[N].words, A[N].word) ELSE A[N].words
  BY DEF ParseLine, N
<1>9. \A n \in 0 .. N : A[n] = IF n = 0 THEN NothingRead ELSE Read(A[n - 1], line[n])
  <2> HIDE DEF A
  <2> QED  BY <1>7 DEF N
<1> HIDE DEF A, R, F
<1> DEFINE T == {n \in Nat : n <= N => A[n] = g[n]}
<1>10. 0 \in T  BY <1>1, <1>4, <1>9
<1>11. ASSUME NEW n \in T PROVE n + 1 \in T
  <2> SUFFICES ASSUME n + 1 <= N PROVE A[n + 1] = g[n + 1]  BY <1>1
  <2>1. n \in Nat /\ n <= N /\ n + 1 \in 1 .. N /\ n + 1 \in 0 .. N /\ n + 1 # 0 /\ (n + 1) - 1 = n
    BY <1>1
  <2>2. A[n] = g[n]  BY <2>1
  <2>3. A[n + 1] = Read(A[n], line[n + 1])  BY <1>9, <2>1
  <2>4. g[n + 1] = Read(g[n], line[n + 1])  BY <1>5, <2>1
  <2> QED  BY <2>2, <2>3, <2>4
<1>12. T = Nat  BY <1>10, <1>11, StepInduction
<1>13. A[N] = g[N]
  <2>1. N \in T  BY <1>1, <1>12
  <2> QED  BY <1>1, <2>1
<1> QED  BY <1>4, <1>5, <1>8, <1>13 DEF N

LEMMA ParseType ==
  ASSUME NEW line \in Seq(STRING)
  PROVE  ParseLine(line) \in Seq(Word)
<1>1. PICK g \in [0 .. Len(line) -> Reading] :
           ParseLine(line) = IF g[Len(line)].begun
                             THEN Add(g[Len(line)].words, g[Len(line)].word)
                             ELSE g[Len(line)].words
  BY ParseWalk
<1>2. g[Len(line)] \in Reading  OBVIOUS
<1>3. g[Len(line)].words \in Seq(Word) /\ g[Len(line)].word \in Word
  BY <1>2 DEF Reading
<1> QED  BY <1>1, <1>3, AddType
-----------------------------------------------------------------------------
(* Filters.                                                                *)

(* The places of the bars are numbers.                                     *)
LEMMA BarsAre ==
  ASSUME NEW ws \in Seq(Word)
  PROVE  Bars(ws) \in SUBSET (1 .. Len(ws)) /\ IsFiniteSet(Bars(ws))
<1>1. Len(ws) \in Nat  OBVIOUS
<1>2. Bars(ws) \in SUBSET (1 .. Len(ws))  BY DEF Bars
<1>3. IsFiniteSet(1 .. Len(ws))  BY <1>1, FS_Interval
<1>4. IsFiniteSet(Bars(ws))  BY <1>2, <1>3, FS_Subset
<1> QED  BY <1>2, <1>4

LEMMA BehindAre ==
  ASSUME NEW line \in Lines
  PROVE  /\ Len(Behind[line]) \in Nat
         /\ DOMAIN Behind[line] = 1 .. Len(Behind[line])
         /\ Bars(Words[line]) = {} => Behind[line] = << >>
         /\ Words[line] \in Seq(Word)
<1> DEFINE ws == Words[line]
           bars == InOrder(Bars(ws))
<1>1. ws \in Seq(Word)  BY ParseType, CommandsAssumption DEF Words
<1> HIDE DEF ws
<1>2. Bars(ws) \in SUBSET Nat /\ IsFiniteSet(Bars(ws))
  BY <1>1, BarsAre
<1>3. bars \in Seq(Bars(ws)) /\ Len(bars) = Cardinality(Bars(ws)) /\ Len(bars) \in Nat
  BY <1>2, InOrderRanks
<1>4. DOMAIN bars = 1 .. Len(bars)  BY <1>3
<1>5. Behind[line] = [f \in DOMAIN bars |->
         SubSeq(ws, bars[f] + 1, IF f < Len(bars) THEN bars[f + 1] - 1 ELSE Len(ws))]
  BY DEF Behind, FilterTexts, ws
<1> HIDE DEF bars
<1>6. DOMAIN Behind[line] = 1 .. Len(bars) /\ Len(Behind[line]) = Len(bars)
  BY <1>3, <1>4, <1>5
<1>7. ASSUME Bars(ws) = {} PROVE Behind[line] = << >>
  <2>1. Len(bars) = 0  BY <1>3, <1>7, FS_EmptySet
  <2> QED  BY <1>4, <1>5, <2>1
<1> QED  BY <1>1, <1>3, <1>6, <1>7 DEF ws

(* A filter is made as it is when no line has come yet.                    *)
LEMMA FilterFresh ==
  ASSUME NEW a
  PROVE  ~ FilterInit(a).matched /\ FilterInit(a).count = 0
<1> DEFINE Fresh(f) == ~ f.matched /\ f.count = 0
<1>1. \A kind, from, to, invert : Fresh(Filter(kind, from, to, invert))
  BY DEF Filter
<1>2. Fresh(NoFilter)  BY <1>1 DEF NoFilter
<1> HIDE DEF Fresh
<1>3. Fresh(FilterInit(a))  BY <1>1, <1>2 DEF FilterInit
<1> QED  BY <1>3 DEF Fresh

(* The filters made are those of the first texts.                          *)
LEMMA MadeAre ==
  ASSUME NEW line \in Lines
  PROVE  /\ Len(Made[line]) \in 0 .. Len(Behind[line])
         /\ DOMAIN Made[line] = 1 .. Len(Made[line])
         /\ Made[line] = [i \in 1 .. Len(Made[line]) |-> FilterInit(Behind[line][i])]
         /\ \A i \in 1 .. Len(Made[line]) :
              /\ Made[line][i] = FilterInit(Behind[line][i])
              /\ Made[line][i] # NoFilter
              /\ ~ Made[line][i].matched /\ Made[line][i].count = 0
<1> DEFINE texts == Behind[line]
           N == Len(texts)
           bad == {i \in DOMAIN texts : Refused(texts[i]) \/ FilterInit(texts[i]) = NoFilter}
           T == {N + 1} \cup bad
           K == Min(T) - 1
<1>1. N \in Nat /\ DOMAIN texts = 1 .. N  BY BehindAre
<1>2. Made[line] = [i \in 1 .. K |-> FilterInit(texts[i])]
  BY DEF Made
<1> HIDE DEF texts, N
<1>3. T \in SUBSET Nat /\ N + 1 \in T /\ \A i \in T : i >= 1  BY <1>1
<1>4. \A i \in 1 .. N : i \notin T => FilterInit(texts[i]) # NoFilter  BY <1>1
<1> HIDE DEF T
<1>5. Min(T) \in T /\ \A i \in T : Min(T) <= i  BY <1>3, MinIsLeast
<1>6. K \in 0 .. N
  <2>1. Min(T) \in Nat /\ Min(T) >= 1 /\ Min(T) <= N + 1  BY <1>3, <1>5
  <2> QED  BY <1>1, <2>1
<1>7. \A i \in 1 .. K : i \in 1 .. N /\ i \notin T
  <2>1. Min(T) \in Nat  BY <1>3, <1>5
  <2> SUFFICES ASSUME NEW i \in 1 .. K PROVE i \in 1 .. N /\ i \notin T  OBVIOUS
  <2>2. ~ (Min(T) <= i)  BY <2>1
  <2>3. i \in 1 .. N  BY <1>1, <1>6
  <2> QED  BY <1>5, <2>2, <2>3
<1> HIDE DEF K
<1>8. Len(Made[line]) = K /\ DOMAIN Made[line] = 1 .. K  BY <1>2, <1>6
<1>9. \A i \in 1 .. K : Made[line][i] = FilterInit(texts[i])  BY <1>2
<1> QED  BY <1>2, <1>4, <1>6, <1>7, <1>8, <1>9, FilterFresh DEF texts, N
-----------------------------------------------------------------------------
(* The states.                                                             *)

\* While a line may be typed, unique_len is that of the mode.
UniqueCurrent ==
  connected => \A c \in Ids : Visible(c, mode) => unique[c] = Telling(c, mode)
FiltersFresh ==
  \A i \in DOMAIN filters : filters[i] # NoFilter /\ ~ filters[i].matched /\ filters[i].count = 0
Inv ==
  /\ mode \in Modes /\ connected \in BOOLEAN /\ unique \in [Ids -> Nat]
  /\ FiltersFresh /\ UniqueCurrent

LEMMA InvTyped == Inv => TypeOK
<1> SUFFICES ASSUME Inv, connected, NEW c \in Ids, Visible(c, mode)
             PROVE  unique[c] \in 1 .. Len(Table[c].name) + 1
  BY DEF Inv, FiltersFresh, TypeOK
<1>1. unique[c] = Telling(c, mode)  BY DEF Inv, UniqueCurrent
<1> QED  BY <1>1, TellingMeans

LEMMA InitInv == Init => Inv
<1> SUFFICES ASSUME Init PROVE Inv  OBVIOUS
<1>1. ASSUME NEW c \in Ids
      PROVE  Max({1} \cup {1 + CommonLen(c, d) :
                            d \in {x \in Ids \ {c} : Table[x].mode = "ANY"}}) \in Nat
  <2> DEFINE T == {1} \cup {1 + CommonLen(c, d) :
                              d \in {x \in Ids \ {c} : Table[x].mode = "ANY"}}
             L == Len(Table[c].name)
  <2>1. L \in Nat  BY TableFacts
  <2>2. \A d \in Ids : CommonLen(c, d) \in 0 .. L  BY CommonLenMeans
  <2> HIDE DEF L
  <2>3. T \in SUBSET Nat /\ T # {} /\ \A x \in T : x <= L + 1
    <3>1. \A d \in Ids : 1 + CommonLen(c, d) \in Nat /\ 1 + CommonLen(c, d) <= L + 1
      BY <2>1, <2>2
    <3>2. 1 <= L + 1  BY <2>1
    <3> QED  BY <3>1, <3>2
  <2>4. L + 1 \in Nat  BY <2>1
  <2> SUFFICES Max(T) \in Nat  OBVIOUS
  <2> HIDE DEF T
  <2>5. Max(T) \in T  BY <2>3, <2>4, MaxExists
  <2> QED  BY <2>3, <2>5
<1>2. unique \in [Ids -> Nat]  BY <1>1 DEF Init
<1>3. mode = "EXEC" /\ filters = << >> /\ connected = FALSE  BY DEF Init
<1>4. mode \in Modes  BY <1>3, CommandsAssumption
<1>5. FiltersFresh  BY <1>3 DEF FiltersFresh
<1> QED  BY <1>2, <1>3, <1>4, <1>5 DEF Inv, UniqueCurrent

(* A mode that is set has its abbreviations.                               *)
LEMMA SetModeStep ==
  ASSUME Inv, connected, NEW m \in Modes, SetConfigMode(m)
  PROVE  /\ mode' \in Modes /\ unique' \in [Ids -> Nat]
         /\ \A c \in Ids : Visible(c, mode') => unique'[c] = Telling(c, mode')
<1>1. mode' = m /\ unique' = IF m = mode THEN unique ELSE Shortest(m, unique)
  BY DEF SetConfigMode
<1>2. CASE m = mode  BY <1>1, <1>2 DEF Inv, UniqueCurrent
<1>3. CASE m # mode
  <2>1. unique' = Shortest(m, unique) /\ unique \in [Ids -> Nat]
    BY <1>1, <1>3 DEF Inv
  <2> QED  BY <1>1, <2>1, ShortestTells, ShortestType
<1> QED  BY <1>2, <1>3

LEMMA AcceptStep == Inv /\ Accept => Inv'
<1> SUFFICES ASSUME Inv, Accept PROVE Inv'  OBVIOUS
<1> DEFINE u == Shortest(mode, unique)
<1>1. /\ mode' = "EXEC" /\ connected' = TRUE /\ filters' = filters
      /\ unique' = IF mode = "EXEC" THEN u ELSE Shortest("EXEC", u)
  BY DEF Accept
<1>2. unique \in [Ids -> Nat] /\ u \in [Ids -> Nat]
  BY ShortestType DEF Inv
<1>3. /\ unique' \in [Ids -> Nat]
      /\ \A c \in Ids : Visible(c, mode') => unique'[c] = Telling(c, mode')
  <2>1. CASE mode = "EXEC"
    <3>1. unique' = Shortest(mode', unique)  BY <1>1, <2>1
    <3> QED  BY <1>2, <3>1, ShortestTells, ShortestType
  <2>2. CASE mode # "EXEC"
    <3>1. unique' = Shortest(mode', u)  BY <1>1, <2>2
    <3> QED  BY <1>2, <3>1, ShortestTells, ShortestType
  <2> QED  BY <2>1, <2>2
<1>4. mode' \in Modes  BY <1>1, CommandsAssumption
<1>5. FiltersFresh'  BY <1>1 DEF Inv, FiltersFresh
<1> QED  BY <1>1, <1>3, <1>4, <1>5 DEF Inv, UniqueCurrent

LEMMA RunStep ==
  ASSUME Inv, Prompted, NEW line \in Lines, RunCommand(line)
  PROVE  Inv'
<1> DEFINE c     == Selected(line)
           texts == IF c = 0 THEN << >> ELSE Behind[line]
           runs  == c # 0 /\ Len(Made[line]) = Len(texts)
<1>1. /\ IF runs THEN Callback(c) ELSE UNCHANGED <<mode, unique, connected>>
      /\ filters' = IF c = 0 THEN filters ELSE Remaining(texts, Made[line])
  BY DEF RunCommand
<1> HIDE DEF c, texts, runs
<1>2. connected /\ connected \in BOOLEAN  BY DEF Prompted, Inv
<1>3. FiltersFresh'
  <2>1. CASE filters' = filters  BY <2>1 DEF Inv, FiltersFresh
  <2>2. CASE filters' = Made[line]  BY <2>2, MadeAre DEF FiltersFresh
  <2>3. CASE filters' = << >>  BY <2>3 DEF FiltersFresh
  <2> QED  BY <1>1, <2>1, <2>2, <2>3 DEF Remaining
<1>4. /\ mode' \in Modes /\ connected' \in BOOLEAN /\ unique' \in [Ids -> Nat]
      /\ \A d \in Ids : Visible(d, mode') => unique'[d] = Telling(d, mode')
  <2>1. CASE UNCHANGED <<mode, unique, connected>>
    BY <1>2, <2>1 DEF Inv, UniqueCurrent
  <2>2. CASE Callback(c)
    <3>1. connected' \in BOOLEAN  BY <2>2 DEF Callback
    <3>2. CASE \E m \in Modes : SetConfigMode(m)  BY <1>2, <3>1, <3>2, SetModeStep
    <3>3. CASE UNCHANGED <<mode, unique>>  BY <1>2, <3>1, <3>3 DEF Inv, UniqueCurrent
    <3>4. "EXEC" \in Modes  BY CommandsAssumption
    <3> QED  BY <2>2, <3>2, <3>3, <3>4 DEF Callback
  <2> QED  BY <1>1, <2>1, <2>2
<1> QED  BY <1>3, <1>4 DEF Inv, UniqueCurrent

LEMMA NextInv == Inv /\ [Next]_vars => Inv'
<1> SUFFICES ASSUME Inv, [Next]_vars PROVE Inv'  OBVIOUS
<1>1. CASE UNCHANGED <<mode, unique, filters, connected>>
  BY <1>1 DEF Inv, FiltersFresh, UniqueCurrent
<1>2. CASE Accept  BY <1>2, AcceptStep
<1>3. CASE Prompt  BY <1>1, <1>3 DEF Prompt
<1>4. ASSUME Prompted, NEW line \in Lines, Tab(line) PROVE Inv'
  BY <1>1, <1>4 DEF Tab
<1>5. ASSUME Prompted, NEW line \in Lines, RunCommand(line) PROVE Inv'
  BY <1>5, RunStep
<1>6. CASE UNCHANGED vars  BY <1>1, <1>6 DEF vars
<1> QED  BY <1>2, <1>3, <1>4, <1>5, <1>6 DEF Next

LEMMA Invariance == Spec => []Inv
BY InitInv, NextInv, PTL DEF Spec

(* Type correctness, and: in every mode a visible command can be told by   *)
(* some abbreviation or by its name, and installed filters are untouched.  *)
THEOREM CommandsTypeCorrect == Spec => []TypeOK
BY Invariance, InvTyped, PTL

\* What FiltersRemoved says of a step.
FiltersGo ==
  filters' # << >> => \/ filters' = filters /\ (last'.key # "enter" \/ last'.ran = 0)
                      \/ /\ last'.ran = 0 /\ Len(last'.written) > 1
                         /\ \E i \in 2 .. Len(last'.written) : Refused(last'.written[i])

LEMMA RunRemoves ==
  ASSUME NEW line \in Lines, RunCommand(line)
  PROVE  FiltersGo
<1> DEFINE c     == Selected(line)
           texts == IF c = 0 THEN << >> ELSE Behind[line]
           runs  == c # 0 /\ Len(Made[line]) = Len(texts)
           made  == Made[line]
<1>1. /\ filters' = IF c = 0 THEN filters ELSE Remaining(texts, made)
      /\ last'.ran = (IF runs THEN c ELSE 0) /\ last'.written = texts
  BY DEF RunCommand, Ran, Nothing
<1> HIDE DEF c
<1> SUFFICES ASSUME filters' # << >> PROVE FiltersGo  BY DEF FiltersGo
<1>2. CASE c = 0  BY <1>1, <1>2 DEF FiltersGo
<1>3. CASE c # 0
  <2>1. texts = Behind[line] /\ Len(made) \in 0 .. Len(texts) /\ Len(texts) \in Nat
        /\ DOMAIN made = 1 .. Len(made)
    BY <1>3, BehindAre, MadeAre
  <2> HIDE DEF texts, made
  <2>2. /\ Len(made) < Len(texts) /\ Refused(texts[Len(made) + 1])
        /\ filters' = IF made = << >> THEN filters ELSE made
    BY <1>1, <1>3 DEF Remaining
  <2>3. last'.ran = 0  BY <1>1, <2>1, <2>2 DEF made
  <2>4. CASE made = << >>  BY <2>2, <2>3, <2>4 DEF FiltersGo
  <2>5. CASE made # << >>
    <3>1. Len(made) # 0
      <4>1. ASSUME Len(made) = 0 PROVE made = << >>
        BY <2>1, <4>1, MadeAre DEF made
      <4> QED  BY <2>5, <4>1
    <3>2. Len(made) + 1 \in 2 .. Len(texts) /\ Len(texts) > 1
      BY <2>1, <2>2, <3>1
    <3> QED  BY <1>1, <2>2, <2>3, <3>2 DEF FiltersGo
  <2> QED  BY <2>4, <2>5
<1> QED  BY <1>2, <1>3

(* No filter outlives its command (cli.c:871-879), whatever the table and  *)
(* the lines, but those before a text refused before it made one           *)
(* (cli.c:808-841), until the next command that runs.                      *)
THEOREM NoFilterOutlives == Spec => FiltersRemoved
<1>1. ASSUME [Next]_vars PROVE [FiltersGo]_vars
  <2>1. CASE UNCHANGED vars  BY <2>1
  <2>2. ASSUME filters' = filters, last'.key # "enter" PROVE FiltersGo
    BY <2>2 DEF FiltersGo
  <2>3. CASE Accept  BY <2>2, <2>3 DEF Accept, Nothing
  <2>4. CASE Prompt  BY <2>2, <2>4 DEF Prompt, Nothing
  <2>5. ASSUME NEW line \in Lines, Tab(line) PROVE FiltersGo
    BY <2>2, <2>5 DEF Tab, Nothing
  <2> QED  BY <1>1, <2>1, <2>3, <2>4, <2>5, RunRemoves DEF Next
<1> QED  BY <1>1, PTL DEF Spec, FiltersRemoved, FiltersGo
-----------------------------------------------------------------------------
(* The words of a line without quotation marks.                            *)

Cut(line, i)    == line[i] \in {" ", "|"}
Firsts(line, m) == {i \in DOMAIN line :
                      /\ i <= m
                      /\ line[i] = "|" \/ (~ Cut(line, i) /\ (i = 1 \/ Cut(line, i - 1)))}
EndAt(line, i)  == IF line[i] = "|" THEN i
                   ELSE Max({j \in i .. Len(line) : \A k \in i .. j : ~ Cut(line, k)})
WordAt(line, i) == SubSeq(line, i, EndAt(line, i))
Listed(line, S) == [n \in DOMAIN InOrder(S) |-> WordAt(line, InOrder(S)[n])]

LEMMA WordsAreListed ==
  ASSUME NEW line \in Seq(STRING)
  PROVE  WordsOf(line) = Listed(line, Firsts(line, Len(line)))
<1> DEFINE F == {i \in DOMAIN line :
                   line[i] = "|" \/ (~ Cut(line, i) /\ (i = 1 \/ Cut(line, i - 1)))}
<1>1. \A i \in DOMAIN line : i <= Len(line)  OBVIOUS
<1>2. Firsts(line, Len(line)) = F  BY <1>1 DEF Firsts
<1>3. WordsOf(line) = Listed(line, F)
  BY DEF WordsOf, Listed, WordAt, EndAt, Cut
<1> QED  BY <1>2, <1>3

(* A run of characters up to a place where the word ends is the word.      *)
LEMMA WordEnds ==
  ASSUME NEW line \in Seq(STRING), NEW s \in 1 .. Len(line), NEW n \in s .. Len(line),
         \A k \in s .. n : ~ Cut(line, k),
         n = Len(line) \/ Cut(line, n + 1)
  PROVE  EndAt(line, s) = n
<1> DEFINE T == {j \in s .. Len(line) : \A k \in s .. j : ~ Cut(line, k)}
<1>0. Len(line) \in Nat /\ s \in Nat /\ n \in Nat /\ s <= n /\ n <= Len(line) /\ s >= 1
  OBVIOUS
<1>1. line[s] # "|"
  <2>1. s \in s .. n  BY <1>0
  <2> QED  BY <2>1 DEF Cut
<1>2. EndAt(line, s) = Max(T)  BY <1>1 DEF EndAt
<1>3. n \in T  OBVIOUS
<1>4. \A j \in T : j \in Nat /\ j <= n
  <2> SUFFICES ASSUME NEW j \in T, n < j PROVE FALSE  BY <1>0
  <2>1. n + 1 \in s .. j /\ n # Len(line)  BY <1>0
  <2> QED  BY <2>1
<1> HIDE DEF T
<1>5. Max(T) \in T /\ \A j \in T : j <= Max(T)
  <2>1. T \in SUBSET Nat /\ T # {}  BY <1>3, <1>4
  <2> QED  BY <1>0, <1>4, <2>1, MaxExists
<1>6. Max(T) = n
  <2>1. n <= Max(T) /\ Max(T) <= n /\ Max(T) \in Nat  BY <1>3, <1>4, <1>5
  <2> QED  BY <1>0, <2>1
<1> QED  BY <1>2, <1>6

(* A word ends in the line and begins with its first character.            *)
LEMMA WordIs ==
  ASSUME NEW line \in Seq(STRING), NEW m, NEW s \in Firsts(line, m)
  PROVE  /\ s \in 1 .. Len(line) /\ EndAt(line, s) \in s .. Len(line)
         /\ WordAt(line, s) \in Word /\ Len(WordAt(line, s)) \in Nat \ {0}
         /\ WordAt(line, s)[1] = line[s]
         /\ line[s] = "|" => WordAt(line, s) = <<"|">>
<1> DEFINE T == {j \in s .. Len(line) : \A k \in s .. j : ~ Cut(line, k)}
           e == EndAt(line, s)
<1>1. s \in 1 .. Len(line) /\ Len(line) \in Nat /\ (line[s] = "|" \/ ~ Cut(line, s))
  BY DEF Firsts
<1>2. e \in s .. Len(line)
  <2>1. CASE line[s] = "|"  BY <1>1, <2>1 DEF EndAt
  <2>2. CASE line[s] # "|"
    <3>1. e = Max(T)  BY <2>2 DEF EndAt
    <3>2. s \in T
      <4>1. \A k \in s .. s : k = s  BY <1>1
      <4> QED  BY <1>1, <2>2, <4>1
    <3>3. \A j \in T : j \in s .. Len(line) /\ j \in Nat /\ j <= Len(line)  BY <1>1
    <3> HIDE DEF T
    <3>4. T \in SUBSET Nat /\ T # {}  BY <3>2, <3>3
    <3>5. Max(T) \in T  BY <1>1, <3>3, <3>4, MaxExists
    <3> QED  BY <3>1, <3>3, <3>5
  <2> QED  BY <2>1, <2>2
<1> HIDE DEF e
<1>3. \A i \in s .. e : line[i] \in STRING
  <2> SUFFICES ASSUME NEW i \in s .. e PROVE line[i] \in STRING  OBVIOUS
  <2>1. i \in 1 .. Len(line)  BY <1>1, <1>2
  <2> QED  BY <2>1
<1>4. s \in Int /\ e \in Int /\ s <= e  BY <1>1, <1>2
<1>5. /\ SubSeq(line, s, e) \in Seq(STRING) /\ Len(SubSeq(line, s, e)) = e - s + 1
      /\ \A i \in 1 .. e - s + 1 : SubSeq(line, s, e)[i] = line[s + i - 1]
  BY <1>3, <1>4, SubSeqProperties
<1>6. WordAt(line, s) = SubSeq(line, s, e)  BY DEF WordAt, e
<1> DEFINE w == SubSeq(line, s, e)
<1> HIDE DEF w
<1>7. 1 \in 1 .. e - s + 1 /\ s + 1 - 1 = s /\ e - s + 1 \in Nat \ {0}  BY <1>4
<1>8. w \in Word /\ Len(w) \in Nat \ {0} /\ w[1] = line[s] /\ Len(w) = e - s + 1
  BY <1>5, <1>7 DEF w, Word
<1>9. ASSUME line[s] = "|" PROVE w = <<"|">>
  <2>1. e = s  BY <1>9 DEF e, EndAt
  <2>2. Len(w) = 1  BY <1>4, <1>8, <2>1
  <2> QED  BY <1>8, <1>9, <2>2, OneLong DEF Word
<1> QED  BY <1>1, <1>2, <1>6, <1>8, <1>9 DEF e, w

\* The list p is ws, or what a line may have of it.
Begins(p, ws) ==
  /\ Len(p) <= Len(ws) /\ \A i \in 1 .. Len(p) : p[i] = ws[i]
  /\ Len(p) = Len(ws) \/ Len(p) >= MaxWords - 1

LEMMA AddBegins ==
  ASSUME NEW p \in Seq(Word), NEW ws \in Seq(Word), NEW w \in Word, Begins(p, ws)
  PROVE  Begins(Add(p, w), Append(ws, w))
<1>0. MaxWords \in Nat  BY CommandsAssumption
<1>1. Len(p) \in Nat /\ Len(ws) \in Nat /\ MaxWords \in Nat  BY <1>0
<1>2. /\ Len(Append(ws, w)) = Len(ws) + 1 /\ Append(ws, w)[Len(ws) + 1] = w
      /\ \A i \in 1 .. Len(ws) : Append(ws, w)[i] = ws[i]
  BY AppendProperties
<1>3. /\ Len(Append(p, w)) = Len(p) + 1 /\ Append(p, w)[Len(p) + 1] = w
      /\ \A i \in 1 .. Len(p) : Append(p, w)[i] = p[i]
  BY AppendProperties
<1>4. Len(p) <= Len(ws) /\ \A i \in 1 .. Len(p) : p[i] = ws[i]  BY DEF Begins
<1>5. CASE Len(p) < MaxWords - 1
  <2>1. Len(p) = Len(ws) /\ Add(p, w) = Append(p, w)
    BY <1>1, <1>5 DEF Add, Begins
  <2>2. \A i \in 1 .. Len(p) + 1 : Append(p, w)[i] = Append(ws, w)[i]
    <3> SUFFICES ASSUME NEW i \in 1 .. Len(p) + 1
                 PROVE  Append(p, w)[i] = Append(ws, w)[i]
      OBVIOUS
    <3>1. i \in 1 .. Len(p) \/ i = Len(p) + 1  BY <1>1
    <3> QED  BY <1>2, <1>3, <1>4, <2>1, <3>1
  <2> QED  BY <1>1, <1>2, <1>3, <2>1, <2>2 DEF Begins
<1>6. CASE ~ (Len(p) < MaxWords - 1)
  <2>1. Add(p, w) = p  BY <1>6 DEF Add
  <2>2. Len(p) >= MaxWords - 1 /\ Len(p) <= Len(ws) + 1  BY <1>1, <1>4, <1>6
  <2>3. \A i \in 1 .. Len(p) : Append(ws, w)[i] = p[i]
    <3> SUFFICES ASSUME NEW i \in 1 .. Len(p) PROVE Append(ws, w)[i] = p[i]  OBVIOUS
    <3>1. i \in 1 .. Len(ws)  BY <1>1, <1>4
    <3> QED  BY <1>2, <1>4, <3>1
  <2> QED  BY <1>2, <2>1, <2>2, <2>3 DEF Begins
<1> QED  BY <1>5, <1>6

LEMMA FirstsAre ==
  ASSUME NEW line \in Seq(STRING), NEW m
  PROVE  Firsts(line, m) \in SUBSET Nat /\ IsFiniteSet(Firsts(line, m))
<1>1. Len(line) \in Nat /\ Firsts(line, m) \in SUBSET (1 .. Len(line))
  BY DEF Firsts
<1>2. IsFiniteSet(1 .. Len(line))  BY <1>1, FS_Interval
<1>3. IsFiniteSet(Firsts(line, m))  BY <1>1, <1>2, FS_Subset
<1> QED  BY <1>1, <1>3

(* One word per first character, and a later one comes behind.             *)
LEMMA ListedWords ==
  ASSUME NEW line \in Seq(STRING), NEW m
  PROVE  /\ Listed(line, Firsts(line, m)) \in Seq(Word)
         /\ Len(Listed(line, Firsts(line, m))) = Len(InOrder(Firsts(line, m)))
         /\ \A n \in 1 .. Len(Listed(line, Firsts(line, m))) :
              \E s \in Firsts(line, m) : Listed(line, Firsts(line, m))[n] = WordAt(line, s)
<1> DEFINE F == Firsts(line, m)
           o == InOrder(F)
           N == Cardinality(F)
<1>1. /\ o \in Seq(F) /\ Len(o) = N /\ N \in Nat
      /\ \A n \in 1 .. N : o[n] \in F
  BY FirstsAre, InOrderRanks
<1>2. \A s \in F : WordAt(line, s) \in Word  BY WordIs
<1> HIDE DEF o, N, F
<1>3. DOMAIN o = 1 .. N  BY <1>1
<1>4. Listed(line, F) = [n \in 1 .. N |-> WordAt(line, o[n])]
  BY <1>3 DEF Listed, o
<1>5. \A n \in 1 .. N : Listed(line, F)[n] = WordAt(line, o[n])  BY <1>4
<1>6. Listed(line, F) \in [1 .. N -> Word]
  <2>1. \A n \in 1 .. N : WordAt(line, o[n]) \in Word  BY <1>1, <1>2
  <2> QED  BY <1>4, <2>1
<1>7. Listed(line, F) \in Seq(Word) /\ Len(Listed(line, F)) = N  BY <1>1, <1>6
<1> QED  BY <1>1, <1>5, <1>7 DEF F, o

LEMMA ListedAppends ==
  ASSUME NEW line \in Seq(STRING), NEW m \in Nat, NEW s \in Nat, s \in Firsts(line, s), m < s,
         Firsts(line, s) = Firsts(line, m) \cup {s}
  PROVE  Listed(line, Firsts(line, s)) = Append(Listed(line, Firsts(line, m)), WordAt(line, s))
<1> DEFINE F == Firsts(line, m)
           o == InOrder(F)
           N == Cardinality(F)
           l == Listed(line, F)
           ll == Listed(line, Firsts(line, s))
           r == Append(l, WordAt(line, s))
<1>1. s \in Nat /\ \A x \in F : x < s
  <2>1. s \in Nat /\ s \in DOMAIN line  BY DEF Firsts
  <2>2. \A x \in F : x \in Nat /\ x <= m  BY DEF Firsts
  <2> QED  BY <2>1, <2>2
<1>2. F \in SUBSET Nat /\ IsFiniteSet(F)  BY FirstsAre
<1>3. InOrder(Firsts(line, s)) = Append(o, s)  BY <1>1, <1>2, InOrderAppends
<1>4. o \in Seq(F) /\ Len(o) = N /\ N \in Nat  BY <1>2, InOrderRanks
<1>5. l \in Seq(Word) /\ Len(l) = N  BY <1>4, ListedWords
<1>6. ll \in Seq(Word) /\ Len(ll) = Len(Append(o, s))  BY <1>3, ListedWords
<1>7. WordAt(line, s) \in Word  BY WordIs
<1>8. /\ Append(o, s) \in Seq(Firsts(line, s)) /\ Len(Append(o, s)) = N + 1
      /\ Append(o, s)[N + 1] = s /\ \A i \in 1 .. N : Append(o, s)[i] = o[i]
  <2>1. o \in Seq(Firsts(line, s))  BY <1>4, SeqMonotonic
  <2> QED  BY <1>4, <2>1, AppendProperties
<1>9. /\ r \in Seq(Word) /\ Len(r) = N + 1 /\ r[N + 1] = WordAt(line, s)
      /\ \A i \in 1 .. N : r[i] = l[i]
  BY <1>5, <1>7, AppendProperties
<1>10. \A i \in 1 .. N + 1 : ll[i] = WordAt(line, Append(o, s)[i])
  <2>1. DOMAIN Append(o, s) = 1 .. N + 1  BY <1>8
  <2> HIDE DEF o
  <2> QED  BY <1>3, <2>1 DEF Listed
<1>11. \A i \in 1 .. N : l[i] = WordAt(line, o[i])
  <2>1. DOMAIN o = 1 .. N  BY <1>4
  <2> QED  BY <2>1 DEF Listed
<1> HIDE DEF F, o, N, l, ll, r
<1>12. \A i \in 1 .. N + 1 : ll[i] = r[i]
  <2> SUFFICES ASSUME NEW i \in 1 .. N + 1 PROVE ll[i] = r[i]  OBVIOUS
  <2>1. i \in 1 .. N \/ i = N + 1  BY <1>4
  <2> QED  BY <1>8, <1>9, <1>10, <1>11, <2>1
<1>13. ll = r  BY <1>6, <1>8, <1>9, <1>12, SeqEqual
<1> QED  BY <1>13 DEF ll, r, l, F

LEMMA FirstsGrow ==
  ASSUME NEW line \in Seq(STRING), NEW n \in 0 .. Len(line) - 1
  PROVE  Firsts(line, n + 1) =
           IF n + 1 \in Firsts(line, n + 1) THEN Firsts(line, n) \cup {n + 1}
           ELSE Firsts(line, n)
<1> DEFINE P(i) == line[i] = "|" \/ (~ Cut(line, i) /\ (i = 1 \/ Cut(line, i - 1)))
<1>1. \A m : Firsts(line, m) = {i \in 1 .. Len(line) : i <= m /\ P(i)}  BY DEF Firsts
<1> HIDE DEF P
<1>2. n \in Nat /\ Len(line) \in Nat  OBVIOUS
<1>3. \A i \in 1 .. Len(line) : i <= n + 1 <=> (i <= n \/ i = n + 1)  BY <1>2
<1>4. n + 1 \in 1 .. Len(line) /\ n + 1 <= n + 1 /\ ~ (n + 1 <= n)  BY <1>2
<1> QED  BY <1>1, <1>3, <1>4

(* Within a word none begins.                                              *)
LEMMA FirstsStay ==
  ASSUME NEW line \in Seq(STRING), NEW s \in 1 .. Len(line), NEW n \in s .. Len(line),
         \A k \in s .. n : ~ Cut(line, k)
  PROVE  Firsts(line, n) = Firsts(line, s)
<1>1. s \in Nat /\ n \in Nat /\ s <= n  OBVIOUS
<1>2. ASSUME NEW i \in Firsts(line, n), ~ (i <= s) PROVE FALSE
  <2>1. /\ i \in Nat /\ i <= n
        /\ line[i] = "|" \/ (~ Cut(line, i) /\ (i = 1 \/ Cut(line, i - 1)))
    BY DEF Firsts
  <2>2. i \in s .. n /\ i - 1 \in s .. n /\ i # 1  BY <1>1, <1>2, <2>1
  <2>3. ~ Cut(line, i) /\ ~ Cut(line, i - 1)  BY <2>2
  <2> QED  BY <2>1, <2>2, <2>3 DEF Cut
<1>3. ASSUME NEW i \in Firsts(line, n) PROVE i \in Firsts(line, s)
  <2>1. i <= s  BY <1>2
  <2> QED  BY <2>1 DEF Firsts
<1>4. ASSUME NEW i \in Firsts(line, s) PROVE i \in Firsts(line, n)
  <2>1. i \in Nat /\ i <= s  BY DEF Firsts
  <2>2. i <= n  BY <1>1, <2>1
  <2> QED  BY <2>2 DEF Firsts
<1> QED  BY <1>3, <1>4

\* What has been read of the first n characters, s the first one of a word
\* that goes on.
InWord(line, n, st, s) ==
  /\ s \in Firsts(line, s) /\ \A k \in s .. n : ~ Cut(line, k)
  /\ st.word = SubSeq(line, s, n)
  /\ Begins(st.words, Listed(line, Firsts(line, s - 1)))
ReadSoFar(line, n, st) ==
  /\ st.quote = ""
  /\ IF n >= 1 /\ ~ Cut(line, n)
     THEN /\ st.begun
          /\ \E s \in 1 .. n : InWord(line, n, st, s)
     ELSE ~ st.begun /\ Begins(st.words, Listed(line, Firsts(line, n)))
Finished(st) == IF st.begun THEN Add(st.words, st.word) ELSE st.words

LEMMA FinishedType ==
  ASSUME NEW st \in Reading
  PROVE  Finished(st) \in Seq(Word)
<1>1. st.words \in Seq(Word) /\ st.word \in Word  BY DEF Reading
<1> QED  BY <1>1, AddType DEF Finished

(* Where no word goes on, all that began are there.                        *)
LEMMA FinishedBegins ==
  ASSUME NEW line \in Seq(STRING), NEW n \in 0 .. Len(line), NEW st \in Reading,
         ReadSoFar(line, n, st), n = Len(line) \/ Cut(line, n + 1)
  PROVE  Begins(Finished(st), Listed(line, Firsts(line, n)))
<1>0. n \in Nat /\ Len(line) \in Nat /\ n <= Len(line)  OBVIOUS
<1>1. CASE n >= 1 /\ ~ Cut(line, n)
  <2>1. PICK s \in 1 .. n :
               /\ s \in Firsts(line, s) /\ \A k \in s .. n : ~ Cut(line, k)
               /\ st.word = SubSeq(line, s, n)
               /\ Begins(st.words, Listed(line, Firsts(line, s - 1)))
    BY <1>1 DEF ReadSoFar, InWord
  <2>2. s \in Nat /\ s \in 1 .. Len(line) /\ n \in s .. Len(line) /\ s - 1 \in Nat
        /\ s - 1 \in 0 .. Len(line) - 1 /\ (s - 1) + 1 = s /\ s - 1 < s
    BY <1>0
  <2>3. WordAt(line, s) = st.word  BY <2>1, <2>2, WordEnds DEF WordAt
  <2>4. Firsts(line, s) = Firsts(line, s - 1) \cup {s}
    BY <2>1, <2>2, FirstsGrow
  <2>5. Listed(line, Firsts(line, s)) = Append(Listed(line, Firsts(line, s - 1)), st.word)
    BY <2>1, <2>2, <2>3, <2>4, ListedAppends
  <2>6. Firsts(line, n) = Firsts(line, s)  BY <2>1, <2>2, FirstsStay
  <2>7. Finished(st) = Add(st.words, st.word)  BY <1>1 DEF ReadSoFar, Finished
  <2>8. st.words \in Seq(Word) /\ st.word \in Word  BY DEF Reading
  <2>9. Listed(line, Firsts(line, s - 1)) \in Seq(Word)  BY ListedWords
  <2> QED  BY <2>1, <2>5, <2>6, <2>7, <2>8, <2>9, AddBegins
<1>2. CASE ~ (n >= 1 /\ ~ Cut(line, n))
  BY <1>2 DEF ReadSoFar, Finished
<1> QED  BY <1>1, <1>2

\* What a character is, and a state outside quotation marks.
IsBlank(ch) == ch = " "
IsBar(ch)   == ch = "|"
Plain(st)   == st.quote = ""

LEMMA ReadStep ==
  ASSUME NEW line \in Seq(STRING), NEW n \in 0 .. Len(line) - 1, NEW st \in Reading,
         ReadSoFar(line, n, st), line[n + 1] \notin Marks,
         ~ (st = NothingRead /\ IsBar(line[n + 1]))
  PROVE  ReadSoFar(line, n + 1, Read(st, line[n + 1]))
<1> DEFINE ch == line[n + 1]
           r  == Read(st, ch)
<1>0. /\ n \in Nat /\ Len(line) \in Nat /\ n < Len(line) /\ n \in 0 .. Len(line)
      /\ n + 1 \in DOMAIN line /\ n + 1 \in Nat /\ n + 1 >= 1 /\ n + 1 <= n + 1
      /\ (n + 1) - 1 = n
  OBVIOUS
<1>1. st.quote = "" /\ ch \notin Marks  BY DEF ReadSoFar
<1>2. /\ st.words \in Seq(Word) /\ st.word \in Word /\ st.begun \in BOOLEAN
  BY DEF Reading
<1>3. Firsts(line, n + 1) = IF n + 1 \in Firsts(line, n + 1) THEN Firsts(line, n) \cup {n + 1}
                            ELSE Firsts(line, n)
  BY FirstsGrow
<1>4. n + 1 \in Firsts(line, n + 1)
        <=> ch = "|" \/ (~ Cut(line, n + 1) /\ (n = 0 \/ Cut(line, n)))
  BY <1>0 DEF Firsts
<1>5. CASE ch = " "
  <2>1. r.words = Finished(st) /\ ~ r.begun /\ r.quote = ""
    BY <1>1, <1>2, <1>5 DEF Read, Finished, Reading
  <2>2. Cut(line, n + 1) /\ Firsts(line, n + 1) = Firsts(line, n)
    BY <1>3, <1>4, <1>5 DEF Cut
  <2>3. Begins(r.words, Listed(line, Firsts(line, n)))
    BY <1>0, <2>1, <2>2, FinishedBegins
  <2> QED  BY <2>1, <2>2, <2>3 DEF ReadSoFar
<1>6. CASE ch = "|"
  <2>0. st # NothingRead  BY <1>6 DEF IsBar
  <2>1. r.words = Add(Finished(st), <<"|">>) /\ ~ r.begun /\ r.quote = ""
    BY <1>1, <1>2, <1>6, <2>0 DEF Read, Finished, Reading
  <2>2. Cut(line, n + 1) /\ n + 1 \in Firsts(line, n + 1)
        /\ Firsts(line, n + 1) = Firsts(line, n) \cup {n + 1}
    BY <1>3, <1>4, <1>6 DEF Cut
  <2>3. Begins(Finished(st), Listed(line, Firsts(line, n)))
    BY <1>0, <2>2, FinishedBegins
  <2>4. WordAt(line, n + 1) = <<"|">> /\ <<"|">> \in Word
    BY <1>6, <2>2, WordIs, Literals
  <2>5. Listed(line, Firsts(line, n + 1)) = Append(Listed(line, Firsts(line, n)), <<"|">>)
    <3>1. n < n + 1  BY <1>0
    <3> QED  BY <1>0, <2>2, <2>4, <3>1, ListedAppends
  <2>6. Finished(st) \in Seq(Word) /\ Listed(line, Firsts(line, n)) \in Seq(Word)
    BY FinishedType, ListedWords
  <2>7. Begins(r.words, Listed(line, Firsts(line, n + 1)))
    BY <2>1, <2>3, <2>4, <2>5, <2>6, AddBegins
  <2> QED  BY <2>1, <2>2, <2>7 DEF ReadSoFar
<1>7. CASE ch \notin {" ", "|"}
  <2>1. /\ r.words = st.words /\ r.begun /\ r.quote = ""
        /\ r.word = IF st.begun THEN Append(st.word, ch) ELSE <<ch>>
    BY <1>1, <1>2, <1>7 DEF Read, Reading
  <2>2. ~ Cut(line, n + 1)  BY <1>7 DEF Cut
  <2>3. CASE n >= 1 /\ ~ Cut(line, n)
    <3>1. PICK s \in 1 .. n :
               /\ s \in Firsts(line, s) /\ \A k \in s .. n : ~ Cut(line, k)
               /\ st.word = SubSeq(line, s, n)
               /\ Begins(st.words, Listed(line, Firsts(line, s - 1)))
      BY <2>3 DEF ReadSoFar, InWord
    <3>2. s \in Nat /\ s \in 1 .. n + 1 /\ s \in 1 .. Len(line) /\ n + 1 \in s .. Len(line)
      BY <1>0
    <3>3. \A k \in s .. n + 1 : ~ Cut(line, k)
      <4>1. \A k \in s .. n + 1 : k \in s .. n \/ k = n + 1  BY <1>0, <3>2
      <4> QED  BY <2>2, <3>1, <4>1
    <3>4. st.begun  BY <2>3 DEF ReadSoFar
    <3>5. SubSeq(line, s, n + 1) = Append(SubSeq(line, s, n), ch)  BY <3>2
    <3>6. r.word = SubSeq(line, s, n + 1)  BY <2>1, <3>1, <3>4, <3>5
    <3> HIDE DEF r
    <3>7. Begins(r.words, Listed(line, Firsts(line, s - 1)))  BY <2>1, <3>1
    <3>8. InWord(line, n + 1, r, s)  BY <3>1, <3>3, <3>6, <3>7 DEF InWord
    <3>9. n + 1 >= 1  BY <1>0
    <3>10. ReadSoFar(line, n + 1, r)
      BY <2>1, <2>2, <3>2, <3>8, <3>9 DEF ReadSoFar
    <3> QED  BY <3>10 DEF r
  <2>4. CASE ~ (n >= 1 /\ ~ Cut(line, n))
    <3>1. ~ st.begun /\ Begins(st.words, Listed(line, Firsts(line, n)))
      BY <2>4 DEF ReadSoFar
    <3>2. n = 0 \/ Cut(line, n)  BY <1>0, <2>4
    <3>3. n + 1 \in Firsts(line, n + 1)  BY <1>4, <2>2, <3>2
    <3>4. SubSeq(line, n + 1, n + 1) = <<ch>>  BY <1>0, OneCharacter
    <3>5. \A k \in n + 1 .. n + 1 : k = n + 1  BY <1>0
    <3>6. n + 1 \in 1 .. n + 1  BY <1>0
    <3> HIDE DEF r
    <3>7. Begins(r.words, Listed(line, Firsts(line, (n + 1) - 1)))  BY <1>0, <2>1, <3>1
    <3>8. r.word = SubSeq(line, n + 1, n + 1)  BY <2>1, <3>1, <3>4
    <3>9. \A k \in n + 1 .. n + 1 : ~ Cut(line, k)  BY <2>2, <3>5
    <3>10. InWord(line, n + 1, r, n + 1)  BY <3>3, <3>7, <3>8, <3>9 DEF InWord
    <3>11. n + 1 >= 1  BY <1>0
    <3>12. ReadSoFar(line, n + 1, r)
      BY <2>1, <2>2, <3>6, <3>10, <3>11 DEF ReadSoFar
    <3> QED  BY <3>12 DEF r
  <2> QED  BY <2>3, <2>4
<1> QED  BY <1>5, <1>6, <1>7

\* The line begins with a bar, at i after blanks only.
BarAt(line, i) ==
  i \in 1 .. Len(line) /\ IsBar(line[i]) /\ \A j \in 1 .. i - 1 : IsBlank(line[j])
BarFirst(line) == \E i \in 1 .. Len(line) : BarAt(line, i)

LEMMA NoWordRead == NothingRead.word = << >> /\ NothingRead.words = << >>
BY Zenon DEF NothingRead

(* A blank at the beginning is passed over.                                *)
LEMMA ReadBlank ==
  ASSUME NEW ch, IsBlank(ch)
  PROVE  Read(NothingRead, ch) = NothingRead
BY DEF IsBlank, Read, NothingRead, Marks

(* Once characters of a word were read there are such.                     *)
LEMMA ReadOn ==
  ASSUME NEW st \in Reading, Plain(st), NEW ch \in STRING, ch \notin Marks,
         st.word # << >> \/ (~ IsBlank(ch) /\ ~ IsBar(ch))
  PROVE  Read(st, ch).word # << >>
<1>1. st.word \in Seq(STRING) /\ st.words \in Seq(Word) /\ st.begun \in BOOLEAN
  BY DEF Reading, Word
<1>2. Append(st.word, ch) # << >> /\ <<ch>> # << >>
  <2>1. Append(st.word, ch) # << >>  BY <1>1, AppendProperties
  <2>2. <<ch>> # << >>  OBVIOUS
  <2> QED  BY <2>1, <2>2
<1>3. CASE IsBlank(ch) \/ IsBar(ch)
  <2>1. st # NothingRead /\ st.word # << >>  BY <1>3, NoWordRead
  <2>2. Read(st, ch).word = st.word
    BY <1>3, <2>1, Zenon DEF Read, Reading, Plain, IsBlank, IsBar
  <2> QED  BY <2>1, <2>2
<1>4. CASE ~ IsBlank(ch) /\ ~ IsBar(ch)
  <2>1. Read(st, ch) = [st EXCEPT !.begun = TRUE,
                                  !.word = IF st.begun THEN Append(@, ch) ELSE <<ch>>]
    BY <1>4, Zenon DEF Read, Plain, IsBlank, IsBar
  <2>2. Read(st, ch).word = IF st.begun THEN Append(st.word, ch) ELSE <<ch>>
    BY <2>1 DEF Reading
  <2> QED  BY <1>2, <2>2
<1> QED  BY <1>3, <1>4

(* Of a line without quotation marks that does not begin with a bar the    *)
(* words are read.                                                         *)
LEMMA ParseBegins ==
  ASSUME NEW line \in Seq(STRING), ~ Quoted(line), ~ BarFirst(line)
  PROVE  Begins(ParseLine(line), WordsOf(line))
<1> DEFINE N == Len(line)
<1>1. PICK g \in [0 .. Len(line) -> Reading] :
           /\ g[0] = NothingRead
           /\ \A n \in 1 .. Len(line) : g[n] = Read(g[n - 1], line[n])
           /\ ParseLine(line) = IF g[Len(line)].begun
                                THEN Add(g[Len(line)].words, g[Len(line)].word)
                                ELSE g[Len(line)].words
  BY ParseWalk
<1>2. N \in Nat /\ \A n \in 1 .. N : line[n] \notin Marks  BY DEF Quoted
\* Nothing has been read, or characters of words.
<1> DEFINE Begun(n) == IF g[n] = NothingRead THEN \A j \in 1 .. n : IsBlank(line[j])
                       ELSE g[n].word # << >>
           T == {n \in Nat : n <= N => ReadSoFar(line, n, g[n]) /\ Begun(n)}
<1> HIDE DEF Begun
<1>3. 0 \in T
  <2>1. Firsts(line, 0) = {}  BY DEF Firsts
  <2>2. Cardinality(Firsts(line, 0)) = 0  BY <2>1, FS_EmptySet
  <2>3. Len(InOrder(Firsts(line, 0))) = 0  BY <2>2, FirstsAre, InOrderRanks
  <2>4. Len(Listed(line, Firsts(line, 0))) = 0  BY <2>3, ListedWords
  <2>5. Begins(<< >>, Listed(line, Firsts(line, 0)))  BY <2>4 DEF Begins
  <2>6. ReadSoFar(line, 0, NothingRead)  BY <2>5 DEF ReadSoFar, NothingRead
  <2>7. Begun(0)  BY <1>1 DEF Begun
  <2> QED  BY <1>1, <2>6, <2>7
<1>4. ASSUME NEW n \in T PROVE n + 1 \in T
  <2> SUFFICES ASSUME n + 1 <= N PROVE ReadSoFar(line, n + 1, g[n + 1]) /\ Begun(n + 1)
    OBVIOUS
  <2>1. n \in Nat /\ n <= N /\ n \in 0 .. N /\ n \in 0 .. N - 1 /\ n + 1 \in 1 .. N /\ (n + 1) - 1 = n
    BY <1>2
  <2>2. ReadSoFar(line, n, g[n]) /\ g[n] \in Reading /\ Begun(n)  BY <2>1
  <2>3. g[n + 1] = Read(g[n], line[n + 1])  BY <1>1, <2>1
  <2>4. line[n + 1] \notin Marks /\ line[n + 1] \in STRING  BY <1>2, <2>1
  <2>5. ~ (g[n] = NothingRead /\ IsBar(line[n + 1]))
    <3> SUFFICES ASSUME g[n] = NothingRead, IsBar(line[n + 1]) PROVE FALSE  OBVIOUS
    <3>1. \A j \in 1 .. n : IsBlank(line[j])  BY <2>2 DEF Begun
    <3>2. BarAt(line, n + 1)  BY <2>1, <3>1 DEF BarAt
    <3> QED  BY <2>1, <3>2 DEF BarFirst
  <2>6. ReadSoFar(line, n + 1, g[n + 1])
    BY <2>1, <2>2, <2>3, <2>4, <2>5, ReadStep
  <2>7. Begun(n + 1)
    <3>1. CASE g[n] = NothingRead /\ IsBlank(line[n + 1])
      <4>1. g[n + 1] = NothingRead  BY <2>3, <3>1, ReadBlank
      <4>2. \A j \in 1 .. n + 1 : IsBlank(line[j])
        <5>1. \A j \in 1 .. n + 1 : j \in 1 .. n \/ j = n + 1  BY <2>1
        <5> QED  BY <2>2, <3>1, <5>1 DEF Begun
      <4> QED  BY <4>1, <4>2 DEF Begun
    <3>2. CASE ~ (g[n] = NothingRead /\ IsBlank(line[n + 1]))
      <4>1. Plain(g[n])  BY <2>2 DEF ReadSoFar, Plain
      <4>2. g[n].word # << >> \/ (~ IsBlank(line[n + 1]) /\ ~ IsBar(line[n + 1]))
        BY <2>2, <2>5, <3>2 DEF Begun
      <4>3. g[n + 1].word # << >>  BY <2>2, <2>3, <2>4, <4>1, <4>2, ReadOn
      <4> QED  BY <4>3, NoWordRead DEF Begun
    <3> QED  BY <3>1, <3>2
  <2> QED  BY <2>6, <2>7
<1>5. T = Nat  BY <1>3, <1>4, StepInduction
<1>6. ReadSoFar(line, N, g[N]) /\ g[N] \in Reading
  <2>1. N \in T  BY <1>2, <1>5
  <2> QED  BY <1>2, <2>1
<1>7. ParseLine(line) = Finished(g[N])  BY <1>1 DEF Finished
<1>8. N \in 0 .. Len(line)  BY <1>2
<1> QED  BY <1>6, <1>7, <1>8, FinishedBegins, WordsAreListed

(* Of one that does the first word has no characters.                      *)
Leads(ws) == Len(ws) >= 1 /\ ws[1] = << >>

LEMMA AddLeads ==
  ASSUME NEW ws \in Seq(Word), NEW w \in Word, Leads(ws)
  PROVE  Leads(Add(ws, w))
<1>1. CASE Add(ws, w) = ws  BY <1>1
<1>2. CASE Add(ws, w) = Append(ws, w)
  <2>1. Len(ws) \in Nat /\ Len(ws) >= 1 /\ 1 \in 1 .. Len(ws)  BY DEF Leads
  <2>2. Len(Append(ws, w)) = Len(ws) + 1 /\ Append(ws, w)[1] = ws[1]
    BY <2>1, AppendProperties
  <2> QED  BY <1>2, <2>1, <2>2 DEF Leads
<1> QED  BY <1>1, <1>2 DEF Add

LEMMA ReadFirstBar ==
  ASSUME NEW ch, IsBar(ch)
  PROVE  Leads(Read(NothingRead, ch).words)
<1> DEFINE one == Append(<< >>, << >>)
<1>1. MaxWords - 1 > 0
  <2>1. MaxWords \in Nat \ {0, 1}  BY CommandsAssumption
  <2> QED  BY <2>1
<1>2. << >> \in Seq(Word) /\ << >> \in Word /\ <<"|">> \in Word
  <2>1. << >> \in Seq(Word)  OBVIOUS
  <2> QED  BY <2>1, Literals, Zenon
<1>3. Len(<< >>) < MaxWords - 1  BY <1>1
<1>4. Add(<< >>, << >>) = one  BY <1>3 DEF Add
<1>5. one \in Seq(Word) /\ Len(one) = 1 /\ one[1] = << >>
  <2>1. /\ Append(<< >>, << >>) \in Seq(Word)
        /\ Len(Append(<< >>, << >>)) = Len(<< >>) + 1
        /\ Append(<< >>, << >>)[Len(<< >>) + 1] = << >>
    BY <1>2, AppendProperties, Zenon
  <2>2. Len(<< >>) + 1 = 1  OBVIOUS
  <2> QED  BY <2>1, <2>2, Zenon
<1> HIDE DEF one
<1>6. Leads(one)
  <2>1. Len(one) >= 1 /\ one[1] = << >>  BY <1>5
  <2> QED  BY <2>1 DEF Leads
<1>7. Leads(Add(one, <<"|">>))  BY <1>2, <1>5, <1>6, AddLeads
<1>8. Read(NothingRead, ch).words = Add(Add(<< >>, << >>), <<"|">>)
  BY Zenon DEF IsBar, Read, NothingRead, Marks
<1> QED  BY <1>4, <1>7, <1>8, Zenon

LEMMA ReadLeads ==
  ASSUME NEW st \in Reading, NEW ch \in STRING, Leads(st.words)
  PROVE  Leads(Read(st, ch).words)
<1>1. st.words \in Seq(Word) /\ st.word \in Word /\ <<"|">> \in Word
  BY Literals DEF Reading
<1>2. st # NothingRead
  <2>1. Len(<< >>) = 0 /\ ~ (0 >= 1)  OBVIOUS
  <2> QED  BY <2>1, NoWordRead DEF Leads
<1>3. Finished(st) \in Seq(Word) /\ Leads(Finished(st))
  BY <1>1, AddLeads, FinishedType DEF Finished
<1>4. Leads(Add(Finished(st), <<"|">>))  BY <1>1, <1>3, AddLeads
<1>5. Read(st, ch).words \in {st.words, Finished(st), Add(Finished(st), <<"|">>)}
  BY <1>2, Zenon DEF Read, Finished, Reading
<1> QED  BY <1>3, <1>4, <1>5, Zenon

LEMMA ParseLeads ==
  ASSUME NEW line \in Seq(STRING), BarFirst(line)
  PROVE  Leads(ParseLine(line))
<1> DEFINE N == Len(line)
<1>1. PICK g \in [0 .. Len(line) -> Reading] :
           /\ g[0] = NothingRead
           /\ \A n \in 1 .. Len(line) : g[n] = Read(g[n - 1], line[n])
           /\ ParseLine(line) = IF g[Len(line)].begun
                                THEN Add(g[Len(line)].words, g[Len(line)].word)
                                ELSE g[Len(line)].words
  BY ParseWalk
<1>2. PICK b \in 1 .. N : BarAt(line, b)  BY DEF BarFirst
<1>3. N \in Nat /\ b \in Nat /\ b >= 1 /\ b <= N  OBVIOUS
<1>4. IsBar(line[b]) /\ \A j \in 1 .. b - 1 : IsBlank(line[j])  BY <1>2 DEF BarAt
<1> DEFINE So(n) == IF n < b THEN g[n] = NothingRead ELSE Leads(g[n].words)
           T == {n \in Nat : n <= N => So(n)}
<1>5. 0 \in T
  <2>1. 0 < b  BY <1>3
  <2> QED  BY <1>1, <2>1
<1>6. ASSUME NEW n \in T PROVE n + 1 \in T
  <2> SUFFICES ASSUME n + 1 <= N PROVE So(n + 1)  OBVIOUS
  <2>1. n \in Nat /\ n <= N /\ n \in 0 .. N /\ n + 1 \in 1 .. N /\ (n + 1) - 1 = n
    BY <1>3
  <2>2. So(n) /\ g[n] \in Reading /\ line[n + 1] \in STRING  BY <2>1
  <2>3. g[n + 1] = Read(g[n], line[n + 1])  BY <1>1, <2>1
  <2>4. CASE n + 1 < b
    <3>1. n < b /\ n + 1 \in 1 .. b - 1  BY <1>3, <2>1, <2>4
    <3>2. IsBlank(line[n + 1]) /\ g[n] = NothingRead  BY <1>4, <2>2, <3>1
    <3> QED  BY <2>3, <2>4, <3>2, ReadBlank
  <2>5. CASE n + 1 = b
    <3>1. n < b /\ ~ (n + 1 < b)  BY <1>3, <2>1, <2>5
    <3>2. IsBar(line[n + 1]) /\ g[n] = NothingRead  BY <1>4, <2>2, <2>5, <3>1
    <3> QED  BY <2>3, <3>1, <3>2, ReadFirstBar
  <2>6. CASE n + 1 > b
    <3>1. ~ (n < b) /\ ~ (n + 1 < b)  BY <1>3, <2>1, <2>6
    <3> QED  BY <2>2, <2>3, <3>1, ReadLeads
  <2> QED  BY <1>3, <2>1, <2>4, <2>5, <2>6
<1>7. T = Nat
  <2> HIDE DEF So
  <2> QED  BY <1>5, <1>6, StepInduction
<1>8. Leads(g[N].words) /\ g[N] \in Reading
  <2>1. N \in T /\ ~ (N < b)  BY <1>3, <1>7
  <2> QED  BY <1>3, <2>1
<1>9. g[N].words \in Seq(Word) /\ g[N].word \in Word  BY <1>8 DEF Reading
<1> QED  BY <1>1, <1>8, <1>9, AddLeads

(* The first word of such a line is the bar.                               *)
LEMMA BarIsFirst ==
  ASSUME NEW line \in Seq(STRING), BarFirst(line)
  PROVE  1 \in 1 .. Len(WordsOf(line)) /\ WordsOf(line)[1] = <<"|">>
<1> DEFINE F == Firsts(line, Len(line))
<1>1. PICK b \in 1 .. Len(line) : BarAt(line, b)  BY DEF BarFirst
<1>2. line[b] = "|" /\ \A j \in 1 .. b - 1 : IsBlank(line[j])
  BY <1>1 DEF BarAt, IsBar
<1>3. b \in F  BY <1>2 DEF Firsts
<1>4. ASSUME NEW j \in F, j < b PROVE FALSE
  <2>1. /\ j \in 1 .. Len(line)
        /\ line[j] = "|" \/ ~ Cut(line, j)
    BY DEF Firsts
  <2>2. j \in 1 .. b - 1  BY <1>4, <2>1
  <2>3. line[j] = " "  BY <1>2, <2>2 DEF IsBlank
  <2> QED  BY <2>1, <2>3 DEF Cut
<1>5. F \in SUBSET Nat /\ IsFiniteSet(F)  BY FirstsAre
<1> HIDE DEF F
<1>6. Rank(F, b) = 1
  <2>1. \A j \in F : j <= b <=> j = b
    <3> SUFFICES ASSUME NEW j \in F PROVE j <= b <=> j = b  OBVIOUS
    <3>1. j \in Nat /\ b \in Nat /\ ~ (j < b)  BY <1>3, <1>4, <1>5
    <3> QED  BY <3>1
  <2>2. {j \in F : j <= b} = {b}  BY <1>3, <2>1
  <2> QED  BY <2>2, FS_Singleton DEF Rank
<1>7. /\ InOrder(F)[1] = b /\ 1 \in 1 .. Len(InOrder(F)) /\ InOrder(F) \in Seq(F)
  BY <1>3, <1>5, <1>6, InOrderRanks
<1>8. WordsOf(line) = Listed(line, F) /\ Len(Listed(line, F)) = Len(InOrder(F))
  BY WordsAreListed, ListedWords DEF F
<1>9. Listed(line, F)[1] = WordAt(line, b)
  <2>1. 1 \in DOMAIN InOrder(F)  BY <1>7
  <2> QED  BY <1>7, <2>1 DEF Listed
<1>10. WordAt(line, b) = <<"|">>  BY <1>2, <1>3, WordIs DEF F
<1> QED  BY <1>7, <1>8, <1>9, <1>10, Zenon

\* The words ws have characters.
NotEmpty(ws) == \A i \in 1 .. Len(ws) : ws[i] # << >>

LEMMA WordsType ==
  ASSUME NEW line \in Seq(STRING)
  PROVE  WordsOf(line) \in Seq(Word) /\ NotEmpty(WordsOf(line))
<1> DEFINE F == Firsts(line, Len(line))
           ws == Listed(line, F)
<1>1. WordsOf(line) = ws /\ ws \in Seq(Word)
  BY WordsAreListed, ListedWords
<1>2. ASSUME NEW i \in 1 .. Len(ws) PROVE ws[i] # << >>
  <2>1. PICK s \in F : ws[i] = WordAt(line, s)  BY ListedWords
  <2> HIDE DEF ws, F
  <2>2. WordAt(line, s) \in Word /\ Len(WordAt(line, s)) \in Nat \ {0}
    BY WordIs DEF F
  <2>3. Len(WordAt(line, s)) # 0  BY <2>2
  <2>4. WordAt(line, s) # << >>  BY <2>3, EmptySeq
  <2> QED  BY <2>1, <2>4
<1> QED  BY <1>1, <1>2 DEF NotEmpty

LEMMA BeforeBar ==
  ASSUME NEW ws \in Seq(Word), Bars(ws) # {}
  PROVE  /\ Min(Bars(ws)) \in 1 .. Len(ws) /\ Min(Bars(ws)) \in Bars(ws)
         /\ \A b \in Bars(ws) : Min(Bars(ws)) <= b
         /\ CommandWords(ws) \in Seq(Word) /\ Len(CommandWords(ws)) = Min(Bars(ws)) - 1
         /\ \A i \in 1 .. Min(Bars(ws)) - 1 : CommandWords(ws)[i] = ws[i]
<1> DEFINE b == Min(Bars(ws))
<1>1. b \in Bars(ws) /\ b \in 1 .. Len(ws) /\ \A x \in Bars(ws) : b <= x
  <2>1. Bars(ws) \in SUBSET (1 .. Len(ws))  BY BarsAre
  <2>2. Bars(ws) \in SUBSET Nat  BY <2>1
  <2> QED  BY <2>1, <2>2, MinIsLeast
<1> HIDE DEF b
<1>2. b - 1 \in 0 .. Len(ws) /\ Len(ws) \in Nat /\ b \in Nat /\ b >= 1  BY <1>1
<1>3. CommandWords(ws) = SubSeq(ws, 1, b - 1)  BY DEF CommandWords, b
<1>4. \A i \in 1 .. b - 1 : ws[i] \in Word
  <2> SUFFICES ASSUME NEW i \in 1 .. b - 1 PROVE ws[i] \in Word  OBVIOUS
  <2>1. i \in 1 .. Len(ws)  BY <1>2
  <2> QED  BY <2>1
<1>5. /\ SubSeq(ws, 1, b - 1) \in Seq(Word)
      /\ Len(SubSeq(ws, 1, b - 1)) = IF 1 <= b - 1 THEN b - 1 - 1 + 1 ELSE 0
      /\ \A i \in 1 .. b - 1 - 1 + 1 : SubSeq(ws, 1, b - 1)[i] = ws[1 + i - 1]
  <2>1. b - 1 \in Int  BY <1>2
  <2> QED  BY <1>4, <2>1, SubSeqProperties
<1> DEFINE t == SubSeq(ws, 1, b - 1)
<1> HIDE DEF t
<1>6. t \in Seq(Word) /\ Len(t) = b - 1 /\ \A i \in 1 .. b - 1 : t[i] = ws[i]
  <2>1. b - 1 - 1 + 1 = b - 1 /\ \A i \in 1 .. b - 1 : 1 + i - 1 = i  BY <1>2
  <2>2. (IF 1 <= b - 1 THEN b - 1 - 1 + 1 ELSE 0) = b - 1  BY <1>2
  <2> QED  BY <1>5, <2>1, <2>2 DEF t
<1> QED  BY <1>1, <1>3, <1>6 DEF b, t

(* What was read before the first bar is what stands there, as far as a    *)
(* line goes.                                                              *)
LEMMA CommandWordsBegin ==
  ASSUME NEW p \in Seq(Word), NEW ws \in Seq(Word), NotEmpty(ws),
         Begins(p, ws), MaxWords - 1 > 0
  PROVE  /\ CommandWords(p) \in Seq(Word) /\ CommandWords(ws) \in Seq(Word)
         /\ Begins(CommandWords(p), CommandWords(ws)) /\ NotEmpty(CommandWords(ws))
<1>0. MaxWords \in Nat  BY CommandsAssumption
<1>1. Len(p) \in Nat /\ Len(ws) \in Nat /\ Len(p) <= Len(ws)
      /\ \A i \in 1 .. Len(p) : p[i] = ws[i]
  BY DEF Begins
<1>2. Bars(p) = {i \in Bars(ws) : i <= Len(p)}
  <2>1. CASE p = << >>
    <3>1. Len(p) = 0  BY <2>1
    <3>2. \A i \in Bars(ws) : ~ (i <= Len(p))  BY <3>1, BarsAre
    <3> QED  BY <2>1, <3>2 DEF Bars
  <2>2. CASE p # << >>
    <3>1. Len(p) # 0  BY <2>2, EmptySeq
    <3>2. 1 \in 1 .. Len(p) /\ 1 \in 1 .. Len(ws) /\ Len(ws) # 0  BY <1>1, <3>1
    <3>3. p[1] = ws[1] /\ ws # << >>  BY <1>1, <3>2
    <3>0. ws[1] # << >>  BY <3>2 DEF NotEmpty
    <3>4. CASE ws[1][1] = "|"  BY <2>2, <3>0, <3>3, <3>4 DEF Bars
    <3>5. CASE ws[1][1] # "|"
      <4>1. Bars(ws) = {i \in 1 .. Len(ws) : ws[i] # << >> /\ ws[i][1] = "|"}
        BY <3>3, <3>5 DEF Bars
      <4>2. Bars(p) = {i \in 1 .. Len(p) : p[i] # << >> /\ p[i][1] = "|"}
        BY <2>2, <3>3, <3>5 DEF Bars
      <4>3. \A i \in 1 .. Len(ws) : i <= Len(p) <=> i \in 1 .. Len(p)  BY <1>1
      <4>4. \A i \in 1 .. Len(p) : i \in 1 .. Len(ws)  BY <1>1
      <4> QED  BY <1>1, <4>1, <4>2, <4>3, <4>4
    <3> QED  BY <3>4, <3>5
  <2> QED  BY <2>1, <2>2
<1>3. CASE Bars(ws) = {}
  <2>1. CommandWords(p) = p /\ CommandWords(ws) = ws  BY <1>2, <1>3 DEF CommandWords
  <2> QED  BY <2>1
<1>4. CASE Bars(ws) # {}
  <2> DEFINE b == Min(Bars(ws))
             cw == CommandWords(ws)
  <2>1. /\ b \in 1 .. Len(ws) /\ b \in Bars(ws) /\ \A x \in Bars(ws) : b <= x
        /\ cw \in Seq(Word) /\ Len(cw) = b - 1 /\ \A i \in 1 .. b - 1 : cw[i] = ws[i]
    BY <1>4, BeforeBar
  <2> HIDE DEF b, cw
  <2>2. NotEmpty(cw)
    <3> SUFFICES ASSUME NEW i \in 1 .. b - 1 PROVE cw[i] # << >>
      BY <2>1 DEF NotEmpty
    <3>1. i \in 1 .. Len(ws)  BY <1>1, <2>1
    <3> QED  BY <2>1, <3>1 DEF NotEmpty
  <2>3. CASE Bars(p) = {}
    <3>1. CommandWords(p) = p  BY <2>3 DEF CommandWords
    <3>2. Len(p) < b  BY <1>1, <1>2, <2>1, <2>3
    <3>3. Len(p) <= Len(cw) /\ Len(p) # Len(ws)  BY <1>1, <2>1, <3>2
    <3>4. \A i \in 1 .. Len(p) : p[i] = cw[i]
      <4> SUFFICES ASSUME NEW i \in 1 .. Len(p) PROVE p[i] = cw[i]  OBVIOUS
      <4>1. i \in 1 .. b - 1  BY <1>1, <2>1, <3>2
      <4> QED  BY <1>1, <2>1, <4>1
    <3>5. Len(p) >= MaxWords - 1  BY <3>3 DEF Begins
    <3>6. Begins(p, cw)  BY <3>3, <3>4, <3>5 DEF Begins
    <3> QED  BY <2>1, <2>2, <3>1, <3>6 DEF cw
  <2>4. CASE Bars(p) # {}
    <3> DEFINE q == Min(Bars(p))
               cp == CommandWords(p)
    <3>1. /\ q \in 1 .. Len(p) /\ q \in Bars(p) /\ \A x \in Bars(p) : q <= x
          /\ cp \in Seq(Word) /\ Len(cp) = q - 1 /\ \A i \in 1 .. q - 1 : cp[i] = p[i]
      BY <2>4, BeforeBar
    <3> HIDE DEF q, cp
    <3>2. b <= q  BY <1>2, <2>1, <3>1
    <3>3. b <= Len(p)  BY <1>1, <2>1, <3>1, <3>2
    <3>4. q <= b  BY <1>2, <2>1, <3>1, <3>3
    <3>5. q = b  BY <2>1, <3>1, <3>2, <3>4
    <3>6. \A i \in 1 .. Len(cp) : cp[i] = cw[i]
      <4> SUFFICES ASSUME NEW i \in 1 .. b - 1 PROVE cp[i] = cw[i]  BY <3>1, <3>5
      <4>1. i \in 1 .. Len(p)  BY <1>1, <2>1, <3>3
      <4> QED  BY <1>1, <2>1, <3>1, <3>5, <4>1
    <3>7. Len(cp) = Len(cw) /\ Len(cp) \in Nat  BY <2>1, <3>1, <3>5
    <3>8. Begins(cp, cw)  BY <3>6, <3>7 DEF Begins
    <3> QED  BY <2>1, <2>2, <3>1, <3>8 DEF cw, cp
  <2> QED  BY <2>3, <2>4
<1> QED  BY <1>3, <1>4
-----------------------------------------------------------------------------
(* The command a line means.                                               *)

(* A word that begins a name begins no question, and the name of a command *)
(* begins no other one that could be meant.                                *)
LEMMA NamesDiffer ==
  ASSUME NEW m, NEW c \in Ids, Visible(c, m), NEW d \in Rivals(c, m)
  PROVE  ~ IsPrefix(Table[c].name, Table[d].name)
<1>1. /\ d \in Ids /\ d # c /\ Table[d].parent = Table[c].parent /\ Visible(d, m)
  BY RivalsAre
<1>2. Table[c].mode = Table[d].mode \/ "ANY" \in {Table[c].mode, Table[d].mode}
  BY <1>1 DEF Visible
<1> QED  BY <1>1, <1>2, CommandsAssumption

LEMMA BeginningsAskNothing ==
  ASSUME NEW c \in Ids, NEW w \in Word, Len(w) > 0, IsPrefix(w, Table[c].name)
  PROVE  ~ Asks(w)
<1> DEFINE n == Table[c].name
<1>1. n \in Seq(STRING) /\ Len(n) \in Nat  BY TableFacts
<1>2. \A i \in 1 .. Len(n) : n[i] # "?"
  <2>1. \A i \in DOMAIN n : n[i] # "?"  BY CommandsAssumption
  <2> QED  BY <1>1, <2>1
<1> HIDE DEF n
<1>3. w \in Seq(STRING) /\ IsPrefix(w, n)  BY DEF Word, n
<1>4. Len(w) \in Nat /\ Len(w) <= Len(n) /\ \A j \in 1 .. Len(w) : w[j] = n[j]
  BY <1>1, <1>3, PrefixMeans
<1>5. Len(w) \in 1 .. Len(w) /\ Len(w) \in 1 .. Len(n)  BY <1>1, <1>4
<1>6. w[Len(w)] # "?"  BY <1>2, <1>4, <1>5
<1> QED  BY <1>6 DEF Asks, Last

(* The abbreviations of a mode are the words that begin no other name.     *)
LEMMA AbbreviationsAre ==
  ASSUME NEW c \in Ids, Visible(c, mode), unique[c] = Telling(c, mode),
         NEW w \in Word, Len(w) > 0
  PROVE  /\ Abbreviates(w, c) <=> Sole(w, c, mode)
         /\ IsPrefix(w, Table[c].name) /\ Len(w) >= unique[c]
              <=> IsPrefix(w, Table[c].name)
                    /\ \A d \in Rivals(c, mode) : ~ IsPrefix(w, Table[d].name)
<1>1. w \in Seq(STRING)  BY DEF Word
<1>2. IsPrefix(w, Table[c].name) =>
        (Len(w) >= unique[c] <=> \A d \in Rivals(c, mode) : ~ IsPrefix(w, Table[d].name))
  BY <1>1, TellingMeans
<1>3. (\A d \in Rivals(c, mode) : ~ IsPrefix(w, Table[d].name))
        <=> \A d \in Siblings[Table[c].parent] \ {c} :
              Visible(d, mode) => ~ IsPrefix(w, Table[d].name)
  BY DEF Rivals
<1> QED  BY <1>2, <1>3 DEF Abbreviates, Sole

(* Two commands never have the same word for them.                         *)
LEMMA OneMeaning ==
  ASSUME NEW m, NEW c \in Ids, NEW d \in Ids, Table[c].parent = Table[d].parent,
         NEW w, Sole(w, c, m), Sole(w, d, m)
  PROVE  c = d
<1> SUFFICES ASSUME c # d PROVE FALSE  OBVIOUS
<1>1. Visible(c, m) /\ Visible(d, m) /\ d \in Rivals(c, m)
  BY RivalsAre DEF Sole
<1>2. w = Table[c].name  BY <1>1 DEF Sole, Rivals
<1> QED  BY <1>1, <1>2, NamesDiffer DEF Sole

(* What cli_find_command takes for a word is the command the word stands   *)
(* for.                                                                    *)
LEMMA ChosenIsSole ==
  ASSUME Inv, connected, NEW w \in Word, Len(w) > 0, NEW c \in Ids
  PROVE  (~ Asks(w) /\ c = Chosen(w, Table[c].parent)) <=> Sole(w, c, mode)
<1> DEFINE p == Table[c].parent
           meant == {x \in Siblings[p] : Visible(x, mode) /\ Abbreviates(w, x)}
           own == {x \in meant : Table[x].mode = mode}
<1>1. p \in 0 .. Len(Table) /\ Ids \subseteq Nat /\ 0 \notin Ids  BY TableFacts
<1>2. Siblings[p] = {x \in Ids : Table[x].parent = p}  BY <1>1 DEF Siblings
<1>3. \A x \in Ids : Visible(x, mode) => (Abbreviates(w, x) <=> Sole(w, x, mode))
  BY AbbreviationsAre DEF Inv, UniqueCurrent
<1>4. meant = {x \in Ids : Table[x].parent = p /\ Sole(w, x, mode)}
  <2>1. \A x \in Ids : Sole(w, x, mode) => Visible(x, mode)  BY DEF Sole
  <2> QED  BY <1>2, <1>3, <2>1
<1>5. Chosen(w, p) = IF own # {} THEN Min(own) ELSE IF meant # {} THEN Max(meant) ELSE 0
  BY DEF Chosen
<1>6. ASSUME Sole(w, c, mode) PROVE ~ Asks(w) /\ c = Chosen(w, p)
  <2>1. ~ Asks(w)  BY <1>6, BeginningsAskNothing DEF Sole
  <2>2. meant = {c}
    <3>1. c \in meant  BY <1>4, <1>6
    <3>2. \A x \in meant : x = c  BY <1>4, <1>6, OneMeaning
    <3> HIDE DEF meant
    <3> QED  BY <3>1, <3>2
  <2> HIDE DEF meant
  <2>3. own = {} \/ own = {c}  BY <2>2
  <2> HIDE DEF own
  <2>4. c \in Nat  BY <1>1
  <2>5. Min({c}) = c
    <3>1. {c} \in SUBSET Nat /\ {c} # {}  BY <2>4
    <3> QED  BY <3>1, MinIsLeast
  <2>6. Max({c}) = c
    <3>1. {c} \in SUBSET Nat /\ {c} # {} /\ \A x \in {c} : x <= c  BY <2>4
    <3> QED  BY <2>4, <3>1, MaxExists
  <2> QED  BY <1>5, <2>1, <2>2, <2>3, <2>5, <2>6
<1>7. ASSUME c = Chosen(w, p) PROVE Sole(w, c, mode)
  <2>1. meant \in SUBSET Ids /\ own \in SUBSET meant  BY <1>4
  <2>2. c # 0  BY <1>1
  <2>3. \A x \in meant : x \in Nat /\ x <= Len(Table)  BY <1>4, TableFacts
  <2>4. \A x \in meant : Sole(w, x, mode)  BY <1>4
  <2> HIDE DEF meant
  <2>5. own # {} => Min(own) \in own
    <3>1. own \in SUBSET Nat  BY <2>1, <2>3
    <3> HIDE DEF own
    <3> QED  BY <3>1, MinIsLeast
  <2> HIDE DEF own
  <2>6. meant # {} => Max(meant) \in meant
    <3>1. meant \in SUBSET Nat /\ Len(Table) \in Nat  BY <2>3, TableFacts
    <3> QED  BY <2>3, <3>1, MaxExists
  <2>7. c \in meant  BY <1>5, <1>7, <2>1, <2>2, <2>5, <2>6
  <2> QED  BY <2>4, <2>7
<1> QED  BY <1>6, <1>7

(* The words of a path are in what was read.                               *)
LEMMA PathRead ==
  ASSUME NEW p \in Seq(Word), NEW ws \in Seq(Word), Begins(p, ws), NEW c \in Ids
  PROVE  /\ Len(Path[c]) \in Nat /\ DOMAIN Path[c] = 1 .. Len(Path[c])
         /\ Len(Path[c]) <= Len(p) <=> Len(Path[c]) <= Len(ws)
         /\ Len(Path[c]) <= Len(p) => \A i \in 1 .. Len(Path[c]) : p[i] = ws[i]
<1>1. Path[c] \in Seq(Ids)
  <2>1. c \in 0 .. Len(Table)  BY TableFacts
  <2> QED  BY <2>1, PathEquation
<1> DEFINE n == Len(Path[c])
<1>2. n \in Nat /\ DOMAIN Path[c] = 1 .. n  BY <1>1
<1>3. n < MaxWords - 1  BY DepthAssumption
<1> HIDE DEF n
<1>4. MaxWords \in Nat  BY CommandsAssumption
<1>5. Len(p) \in Nat /\ Len(ws) \in Nat  OBVIOUS
<1>6. /\ Len(p) <= Len(ws) /\ \A i \in 1 .. Len(p) : p[i] = ws[i]
      /\ Len(p) = Len(ws) \/ Len(p) >= MaxWords - 1
  BY DEF Begins
<1>7. n <= Len(p) <=> n <= Len(ws)  BY <1>2, <1>3, <1>4, <1>5, <1>6
<1>8. ASSUME n <= Len(p) PROVE \A i \in 1 .. n : p[i] = ws[i]
  <2>1. \A i \in 1 .. n : i \in 1 .. Len(p)  BY <1>2, <1>5, <1>8
  <2> QED  BY <1>6, <2>1
<1> QED  BY <1>2, <1>7, <1>8 DEF n

LEMMA FoundWithoutBar ==
  ASSUME Inv, connected, NEW line \in Lines, ~ Quoted(line), ~ BarFirst(line)
  PROVE  /\ Selected(line) # 0 => Means(CommandWords(WordsOf(line)), Selected(line), mode)
         /\ \A c \in Ids :
              Table[c].effect # "none" /\ Means(CommandWords(WordsOf(line)), c, mode)
                => Selected(line) = c
<1> DEFINE ws == CommandWords(WordsOf(line))
           cw == Before[line]
           found == {c \in Ids :
             /\ Table[c].effect # "none" /\ Len(Path[c]) <= Len(cw)
             /\ \A i \in DOMAIN Path[c] :
                  ~ Asks(cw[i]) /\ Path[c][i] = Chosen(cw[i], Table[Path[c][i]].parent)}
<1>1. FindCommand(cw) = IF found = {} THEN 0 ELSE CHOOSE c \in found : TRUE
  BY DEF FindCommand
<1>2. line \in Seq(STRING) /\ Words[line] = ParseLine(line) /\ cw = CommandWords(ParseLine(line))
  BY CommandsAssumption DEF Words, Before
<1>3. /\ ParseLine(line) \in Seq(Word) /\ WordsOf(line) \in Seq(Word) /\ NotEmpty(WordsOf(line))
      /\ Begins(ParseLine(line), WordsOf(line))
  BY <1>2, ParseType, WordsType, ParseBegins
<1>4. ASSUME NEW c \in Ids
      PROVE  /\ cw \in Seq(Word) /\ ws \in Seq(Word) /\ Begins(cw, ws) /\ NotEmpty(ws)
             /\ Len(Path[c]) \in Nat \ {0}
  <2>1. Len(Path[c]) < MaxWords - 1  BY DepthAssumption
  <2>2. Len(Path[c]) \in Nat \ {0}  BY PathLinks DEF Linked
  <2>3. MaxWords \in Nat  BY CommandsAssumption
  <2>4. MaxWords - 1 > 0  BY <2>1, <2>2, <2>3
  <2> QED  BY <1>2, <1>3, <2>2, <2>4, CommandWordsBegin
<1> HIDE DEF ws, cw
<1>5. ASSUME NEW c \in Ids
      PROVE  c \in found <=> Table[c].effect # "none" /\ Means(ws, c, mode)
  <2>1. /\ cw \in Seq(Word) /\ ws \in Seq(Word) /\ Begins(cw, ws) /\ NotEmpty(ws)
    BY <1>4
  <2>2. /\ Len(Path[c]) \in Nat /\ DOMAIN Path[c] = 1 .. Len(Path[c])
        /\ Len(Path[c]) <= Len(cw) <=> Len(Path[c]) <= Len(ws)
        /\ Len(Path[c]) <= Len(cw) => \A i \in 1 .. Len(Path[c]) : cw[i] = ws[i]
    BY <2>1, PathRead
  <2>3. ASSUME NEW i \in 1 .. Len(Path[c]), Len(Path[c]) <= Len(cw)
        PROVE  (~ Asks(cw[i]) /\ Path[c][i] = Chosen(cw[i], Table[Path[c][i]].parent))
                 <=> Sole(ws[i], Path[c][i], mode)
    <3>1. Path[c][i] \in Ids  BY PathLinks DEF Linked
    <3>2. i \in 1 .. Len(ws) /\ cw[i] = ws[i]  BY <2>1, <2>2, <2>3
    <3>3. ws[i] \in Word /\ ws[i] # << >>  BY <2>1, <3>2 DEF NotEmpty
    <3>4. Len(ws[i]) > 0
      <4>1. Len(ws[i]) \in Nat \ {0}  BY <3>3, EmptySeq DEF Word
      <4> QED  BY <4>1
    <3> QED  BY <3>1, <3>2, <3>3, <3>4, ChosenIsSole
  <2> QED  BY <2>2, <2>3 DEF Means
<1>6. ASSUME NEW c \in found, NEW d \in found PROVE c = d
  <2>1. /\ c \in Ids /\ d \in Ids /\ Table[c].effect # "none" /\ Table[d].effect # "none"
        /\ Means(ws, c, mode) /\ Means(ws, d, mode)
    BY <1>5
  <2>2. Len(Path[c]) \in Nat /\ Len(Path[d]) \in Nat  BY <1>4, <2>1
  <2>3. ASSUME NEW a \in Ids, NEW b \in Ids, Means(ws, a, mode), Means(ws, b, mode),
               Table[a].effect # "none", Table[b].effect # "none",
               Len(Path[a]) <= Len(Path[b])
        PROVE  a = b
    <3>1. ASSUME NEW i \in 1 .. Len(Path[a]), i <= Len(Path[b]),
                 Table[Path[a][i]].parent = Table[Path[b][i]].parent
          PROVE  Path[a][i] = Path[b][i]
      <4>1. Len(Path[a]) \in Nat /\ Len(Path[b]) \in Nat  BY <1>4
      <4>2. i \in 1 .. Len(Path[b])  BY <3>1, <4>1
      <4>3. Path[a][i] \in Ids /\ Path[b][i] \in Ids  BY <4>2, PathLinks DEF Linked
      <4>4. DOMAIN Path[a] = 1 .. Len(Path[a]) /\ DOMAIN Path[b] = 1 .. Len(Path[b])
        BY <1>4, PathRead
      <4>5. Sole(ws[i], Path[a][i], mode) /\ Sole(ws[i], Path[b][i], mode)
        BY <2>3, <4>2, <4>4 DEF Means
      <4> QED  BY <3>1, <4>3, <4>5, OneMeaning
    <3> QED  BY <2>3, <3>1, SameCommand
  <2>4. Len(Path[c]) <= Len(Path[d]) \/ Len(Path[d]) <= Len(Path[c])  BY <2>2
  <2> QED  BY <2>1, <2>3, <2>4
<1>7. \A c \in found : c \in Ids  OBVIOUS
<1> HIDE DEF found
<1>8. ASSUME Selected(line) # 0 PROVE Selected(line) \in found
  BY <1>1, <1>8 DEF Selected, cw
<1>9. ASSUME NEW c \in found PROVE Selected(line) = c
  <2>1. FindCommand(cw) = c  BY <1>1, <1>6
  <2>2. Words[line] # << >>
    <3> SUFFICES ASSUME Words[line] = << >> PROVE FALSE  OBVIOUS
    <3>0. cw = << >>
      <4>1. cw = CommandWords(<< >>) /\ Bars(<< >>) = {}  BY <1>2 DEF Bars
      <4> QED  BY <4>1 DEF CommandWords
    <3>1. c \in Ids /\ cw \in Seq(Word) /\ ws \in Seq(Word) /\ Begins(cw, ws)
          /\ Len(Path[c]) \in Nat \ {0}
      BY <1>4, <1>7
    <3>2. Len(Path[c]) <= Len(cw)
      <4>1. Len(Path[c]) <= Len(ws)  BY <1>5, <3>1 DEF Means
      <4> QED  BY <3>1, <4>1, PathRead
    <3>3. Len(cw) = 0  BY <3>0
    <3> QED  BY <3>1, <3>2, <3>3
  <2> QED  BY <2>1, <2>2 DEF Selected, cw
<1>10. ASSUME Selected(line) # 0 PROVE Means(ws, Selected(line), mode)
  <2>1. Selected(line) \in found /\ Selected(line) \in Ids  BY <1>7, <1>8, <1>10
  <2> QED  BY <1>5, <2>1
<1>11. ASSUME NEW c \in Ids, Table[c].effect # "none", Means(ws, c, mode)
       PROVE  Selected(line) = c
  <2>1. c \in found  BY <1>5, <1>11
  <2> QED  BY <1>9, <2>1
<1> QED  BY <1>10, <1>11 DEF ws

(* A line that begins with a bar means and runs nothing.                   *)
LEMMA EmptyChoosesNothing ==
  ASSUME Inv, connected, NEW p \in 0 .. Len(Table)
  PROVE  Chosen(<< >>, p) = 0
<1> DEFINE meant == {x \in Siblings[p] : Visible(x, mode) /\ Abbreviates(<< >>, x)}
           own == {x \in meant : Table[x].mode = mode}
<1>1. Siblings[p] = {x \in Ids : Table[x].parent = p}  BY DEF Siblings
<1>2. ASSUME NEW x \in Ids, Visible(x, mode) PROVE ~ Abbreviates(<< >>, x)
  <2>1. unique[x] = Telling(x, mode)  BY <1>2 DEF Inv, UniqueCurrent
  <2>2. Len(Table[x].name) \in Nat \ {0}  BY TableFacts
  <2>3. unique[x] \in 1 .. Len(Table[x].name) + 1  BY <2>1, TellingMeans
  <2>4. ~ (Len(<< >>) >= unique[x]) /\ << >> # Table[x].name  BY <2>2, <2>3
  <2> QED  BY <2>4 DEF Abbreviates
<1>3. meant = {}  BY <1>1, <1>2
<1>4. Chosen(<< >>, p) = IF own # {} THEN Min(own) ELSE IF meant # {} THEN Max(meant) ELSE 0
  BY DEF Chosen
<1>5. own = {}  BY <1>3
<1> HIDE DEF meant, own
<1> QED  BY <1>3, <1>4, <1>5

LEMMA FoundBehindBar ==
  ASSUME Inv, connected, NEW line \in Lines, BarFirst(line)
  PROVE  /\ Selected(line) = 0
         /\ \A c \in Ids : ~ Means(CommandWords(WordsOf(line)), c, mode)
<1> DEFINE ws == WordsOf(line)
           rs == ParseLine(line)
           cw == CommandWords(rs)
<1>1. line \in Seq(STRING) /\ Words[line] = rs /\ Before[line] = cw
  BY CommandsAssumption DEF Words, Before
<1>2. rs \in Seq(Word) /\ Len(rs) >= 1 /\ rs[1] = << >>
  BY <1>1, ParseType, ParseLeads DEF Leads
<1>3. 1 \in 1 .. Len(ws) /\ ws[1] = <<"|">>  BY <1>1, BarIsFirst
<1>4. ASSUME NEW c \in Ids
      PROVE  /\ 1 \in 1 .. Len(Path[c]) /\ DOMAIN Path[c] = 1 .. Len(Path[c])
             /\ Path[c][1] \in Ids /\ Len(Path[c]) \in Nat
  <2>1. c \in 0 .. Len(Table)  BY TableFacts
  <2>2. Path[c] \in Seq(Ids)  BY <2>1, PathEquation
  <2>3. Len(Path[c]) \in Nat \ {0}  BY PathLinks DEF Linked
  <2> QED  BY <2>2, <2>3
<1> HIDE DEF ws, rs
<1>5. cw \in Seq(Word) /\ (Len(cw) >= 1 => cw[1] = << >>)
  <2>1. CASE Bars(rs) = {}  BY <1>2, <2>1 DEF CommandWords
  <2>2. CASE Bars(rs) # {}
    <3> DEFINE b == Min(Bars(rs))
    <3>1. /\ b \in 1 .. Len(rs) /\ cw \in Seq(Word) /\ Len(cw) = b - 1
          /\ \A i \in 1 .. b - 1 : cw[i] = rs[i]
      BY <1>2, <2>2, BeforeBar
    <3> HIDE DEF b, cw
    <3>2. Len(cw) >= 1 => 1 \in 1 .. b - 1  BY <1>2, <3>1
    <3> QED  BY <1>2, <3>1, <3>2
  <2> QED  BY <2>1, <2>2
<1> HIDE DEF cw
<1>6. ASSUME NEW c \in Ids, Len(Path[c]) <= Len(cw),
             Path[c][1] = Chosen(cw[1], Table[Path[c][1]].parent)
      PROVE  FALSE
  <2>1. Path[c][1] \in Ids /\ Len(cw) >= 1  BY <1>4, <1>5, <1>6
  <2>2. Table[Path[c][1]].parent \in 0 .. Len(Table) /\ 0 \notin Ids
    BY <2>1, TableFacts
  <2>3. Path[c][1] = 0  BY <1>5, <1>6, <2>1, <2>2, EmptyChoosesNothing
  <2> QED  BY <2>1, <2>2, <2>3
<1>7. Selected(line) = 0
  <2>1. FindCommand(cw) = 0
    <3> DEFINE found == {c \in Ids :
          /\ Table[c].effect # "none" /\ Len(Path[c]) <= Len(cw)
          /\ \A i \in DOMAIN Path[c] :
               ~ Asks(cw[i]) /\ Path[c][i] = Chosen(cw[i], Table[Path[c][i]].parent)}
    <3>1. FindCommand(cw) = IF found = {} THEN 0 ELSE CHOOSE c \in found : TRUE
      BY DEF FindCommand
    <3>2. \A c \in found : FALSE  BY <1>4, <1>6
    <3> HIDE DEF found
    <3> QED  BY <3>1, <3>2
  <2> QED  BY <1>1, <2>1 DEF Selected
<1>8. CommandWords(ws) = ws
  <2>1. ws[1] # << >> /\ ws[1][1] = "|"  BY <1>3
  <2> QED  BY <2>1 DEF CommandWords, Bars
<1>9. ASSUME NEW c \in Ids, Means(ws, c, mode) PROVE FALSE
  <2>1. Path[c][1] \in Ids /\ Sole(ws[1], Path[c][1], mode)  BY <1>4, <1>9 DEF Means
  <2> DEFINE n == Table[Path[c][1]].name
  <2>2. n \in Seq(STRING) /\ IsPrefix(ws[1], n)  BY <2>1, TableFacts DEF Sole
  <2>3. \A i \in DOMAIN n : n[i] # "|"
    <3>1. \A i \in DOMAIN n : n[i] \notin {"?", "|"}  BY <2>1, CommandsAssumption
    <3> QED  BY <3>1
  <2> HIDE DEF n
  <2>4. ws[1] \in Seq(STRING) /\ Len(ws[1]) = 1 /\ ws[1][1] = "|"
    <3>1. "|" \in STRING  BY CommandsAssumption
    <3> QED  BY <1>3, <3>1, OneLetter, Zenon
  <2>5. Len(ws[1]) <= Len(n) /\ \A j \in 1 .. Len(ws[1]) : ws[1][j] = n[j]
    BY <2>2, <2>4, PrefixMeans
  <2>6. 1 \in DOMAIN n /\ 1 \in 1 .. Len(ws[1])  BY <2>2, <2>4, <2>5
  <2> QED  BY <2>3, <2>4, <2>5, <2>6
<1> QED  BY <1>7, <1>8, <1>9 DEF ws

LEMMA FoundIsMeant ==
  ASSUME Inv, connected, NEW line \in Lines, ~ Quoted(line)
  PROVE  /\ Selected(line) # 0 => Means(CommandWords(WordsOf(line)), Selected(line), mode)
         /\ \A c \in Ids :
              Table[c].effect # "none" /\ Means(CommandWords(WordsOf(line)), c, mode)
                => Selected(line) = c
<1>1. CASE BarFirst(line)  BY <1>1, FoundBehindBar
<1>2. CASE ~ BarFirst(line)  BY <1>2, FoundWithoutBar
<1> QED  BY <1>1, <1>2

LEMMA RunMeans ==
  ASSUME Inv, Prompted, NEW line \in Lines, RunCommand(line)
  PROVE  RunsWhatIsMeant'
<1> DEFINE c     == Selected(line)
           texts == IF c = 0 THEN << >> ELSE Behind[line]
           runs  == c # 0 /\ Len(Made[line]) = Len(texts)
           ws    == CommandWords(WordsOf(line))
<1>1. /\ last'.key = "enter" /\ last'.line = line /\ last'.mode = mode
      /\ last'.ran = (IF runs THEN c ELSE 0) /\ last'.written = texts
  BY DEF RunCommand, Ran, Nothing
<1> HIDE DEF c, texts
<1> SUFFICES ASSUME ~ Quoted(line)
             PROVE  /\ last'.ran # 0 => Means(ws, last'.ran, mode)
                    /\ \A d \in Ids :
                         Table[d].effect # "none" /\ Means(ws, d, mode) /\ last'.written = << >>
                           => last'.ran = d
  BY <1>1 DEF RunsWhatIsMeant
<1>2. /\ c # 0 => Means(ws, c, mode)
      /\ \A d \in Ids : Table[d].effect # "none" /\ Means(ws, d, mode) => c = d
  BY FoundIsMeant DEF Prompted, c
<1> HIDE DEF ws
<1>3. ASSUME NEW d \in Ids, Table[d].effect # "none", Means(ws, d, mode), last'.written = << >>
      PROVE  last'.ran = d
  <2>1. c = d /\ texts = << >>  BY <1>1, <1>2, <1>3
  <2>2. d # 0  BY TableFacts
  <2>3. texts = Behind[line]  BY <2>1, <2>2 DEF texts
  <2>4. Len(Made[line]) \in 0 .. Len(Behind[line])  BY MadeAre
  <2>5. Len(Made[line]) = Len(texts)  BY <2>1, <2>3, <2>4
  <2> QED  BY <1>1, <2>1, <2>2, <2>5
<1> QED  BY <1>1, <1>2, <1>3

(* A line runs the command its words mean in the mode it was typed in, and *)
(* only that one (cli.c:201-238, 612-673, 703-914), whatever the table, as *)
(* long as no name begins another one: the abbreviations computed when the *)
(* mode was set are the words that mean one command only, and what is cut  *)
(* off a long line is behind every command.                                *)
THEOREM WhatIsMeantRuns == Spec => []RunsWhatIsMeant
<1>1. Init => RunsWhatIsMeant  BY DEF Init, RunsWhatIsMeant, Nothing
<1>2. ASSUME Inv, RunsWhatIsMeant, [Next]_vars PROVE RunsWhatIsMeant'
  <2>1. CASE UNCHANGED vars  BY <1>2, <2>1 DEF vars, RunsWhatIsMeant
  <2>2. CASE Accept  BY <2>2 DEF Accept, Nothing, RunsWhatIsMeant
  <2>3. CASE Prompt  BY <2>3 DEF Prompt, Nothing, RunsWhatIsMeant
  <2>4. ASSUME NEW line \in Lines, Tab(line) PROVE RunsWhatIsMeant'
    BY <2>4 DEF Tab, Nothing, RunsWhatIsMeant
  <2> QED  BY <1>2, <2>1, <2>2, <2>3, <2>4, RunMeans DEF Next
<1> QED  BY <1>1, <1>2, Invariance, PTL DEF Spec
-----------------------------------------------------------------------------
(* What the TAB key offers.                                                *)

(* A word that begins with a bar is one.                                   *)
LEMMA BarWords ==
  ASSUME NEW line \in Seq(STRING), NEW i \in 1 .. Len(WordsOf(line)),
         WordsOf(line)[i][1] = "|"
  PROVE  WordsOf(line)[i] = <<"|">>
<1> DEFINE F == Firsts(line, Len(line))
<1>1. WordsOf(line) = Listed(line, F)  BY WordsAreListed
<1>2. PICK s \in F : WordsOf(line)[i] = WordAt(line, s)  BY <1>1, ListedWords
<1>3. WordAt(line, s)[1] = line[s] /\ (line[s] = "|" => WordAt(line, s) = <<"|">>)
  BY WordIs
<1> QED  BY <1>2, <1>3

(* The TAB key follows the command the word stands for.                    *)
LEMMA FollowsSole ==
  ASSUME Inv, connected, NEW w \in Word, Len(w) > 0, NEW c \in Ids
  PROVE  Follows(w, c) <=> Sole(w, c, mode)
<1>1. Visible(c, mode) => unique[c] = Telling(c, mode)  BY DEF Inv, UniqueCurrent
<1>2. ASSUME Visible(c, mode)
      PROVE  Follows(w, c) <=> IsPrefix(w, Table[c].name)
                                 /\ \A d \in Rivals(c, mode) : ~ IsPrefix(w, Table[d].name)
  BY <1>1, <1>2, AbbreviationsAre DEF Follows
<1>3. (\A d \in Rivals(c, mode) : ~ IsPrefix(w, Table[d].name))
        <=> \A d \in Siblings[Table[c].parent] \ {c} :
              Visible(d, mode) => ~ IsPrefix(w, Table[d].name)
  BY DEF Rivals
<1>4. ASSUME Visible(c, mode), w = Table[c].name
      PROVE  \A d \in Rivals(c, mode) : ~ IsPrefix(w, Table[d].name)
  BY <1>4, NamesDiffer
<1>5. CASE Visible(c, mode)  BY <1>2, <1>3, <1>4, <1>5 DEF Sole
<1>6. CASE ~ Visible(c, mode)  BY <1>6 DEF Sole, Follows
<1> QED  BY <1>5, <1>6

\* The commands the TAB key takes for the word w in the place of c.
Taken(w, c) == {x \in Siblings[Table[c].parent] : Follows(w, x)}

LEMMA TakenIsSole ==
  ASSUME Inv, connected, NEW w \in Word, Len(w) > 0, NEW c \in Ids
  PROVE  (Taken(w, c) # {} /\ c = Min(Taken(w, c))) <=> Sole(w, c, mode)
<1>1. Siblings[Table[c].parent] = {x \in Ids : Table[x].parent = Table[c].parent}
  BY TableFacts, SMTT(30) DEF Siblings
<1>2. Taken(w, c) = {x \in Ids : Table[x].parent = Table[c].parent /\ Sole(w, x, mode)}
  BY <1>1, FollowsSole DEF Taken
<1>3. Taken(w, c) \in SUBSET Nat  BY <1>2, TableFacts
<1>4. Taken(w, c) # {} => Min(Taken(w, c)) \in Taken(w, c)  BY <1>3, MinIsLeast
<1>5. ASSUME Sole(w, c, mode) PROVE Taken(w, c) # {} /\ c = Min(Taken(w, c))
  <2>1. c \in Taken(w, c)  BY <1>2, <1>5
  <2>2. \A x \in Taken(w, c) : x = c  BY <1>2, <1>5, OneMeaning
  <2> QED  BY <1>4, <2>1, <2>2
<1> QED  BY <1>2, <1>4, <1>5

\* Some characters for every word but the last.
OpenEnd(ws) == \A i \in 1 .. Len(ws) - 1 : ws[i] # << >>

LEMMA OpenIs ==
  ASSUME NEW line \in Seq(STRING), NEW ws \in Seq(Word), NotEmpty(ws)
  PROVE  /\ Open(ws, line) \in Seq(Word) /\ OpenEnd(Open(ws, line))
         /\ Len(Open(ws, line)) >= Len(ws)
<1>1. CASE Open(ws, line) = ws
  <2>1. \A i \in 1 .. Len(ws) - 1 : i \in 1 .. Len(ws)  OBVIOUS
  <2>2. Len(ws) >= Len(ws)  OBVIOUS
  <2> QED  BY <1>1, <2>1, <2>2 DEF OpenEnd, NotEmpty
<1>2. CASE Open(ws, line) = Append(ws, << >>)
  <2> DEFINE o == Append(ws, << >>)
  <2>1. << >> \in Word  BY Literals
  <2>2. o \in Seq(Word) /\ Len(o) = Len(ws) + 1 /\ \A i \in 1 .. Len(ws) : o[i] = ws[i]
    BY <2>1, AppendProperties
  <2> HIDE DEF o
  <2>3. Len(o) >= Len(ws) /\ \A i \in 1 .. Len(o) - 1 : i \in 1 .. Len(ws)  BY <2>2
  <2>4. OpenEnd(o)  BY <2>2, <2>3 DEF OpenEnd, NotEmpty
  <2> QED  BY <1>2, <2>2, <2>3, <2>4 DEF o
<1> QED  BY <1>1, <1>2 DEF Open

(* Under the same words the same commands are met.                         *)
LEMMA UnderWords ==
  ASSUME Inv, connected, NEW open \in Seq(Word), OpenEnd(open),
         NEW c \in Ids, Len(Path[c]) = Len(open)
  PROVE  (\A i \in 1 .. Len(open) - 1 :
            LET ds == Taken(open[i], Path[c][i]) IN ds # {} /\ Path[c][i] = Min(ds))
           <=> Means(open, Table[c].parent, mode)
<1> DEFINE q == Table[c].parent
           n == Len(open) - 1
<1>1. /\ Len(open) \in Nat \ {0} /\ q \in 0 .. Len(Table)
      /\ \A i \in 1 .. Len(open) : Path[c][i] \in Ids
  BY PathLinks, TableFacts DEF Linked
<1>2. /\ Path[q] \in Seq(Ids) /\ Path[c] = Append(Path[q], c)
  BY <1>1, PathEquation
<1>3. Len(Path[q]) = n /\ \A i \in 1 .. n : Path[c][i] = Path[q][i]
  <2>1. Len(Path[c]) = Len(Path[q]) + 1 /\ Len(Path[q]) \in Nat
        /\ \A i \in 1 .. Len(Path[q]) : Path[c][i] = Path[q][i]
    BY <1>2, AppendProperties
  <2> QED  BY <2>1
<1>4. DOMAIN Path[q] = 1 .. n /\ n <= Len(open) /\ \A i \in 1 .. n : i \in 1 .. Len(open)
  BY <1>1, <1>2, <1>3
<1> HIDE DEF q, n
<1>5. ASSUME NEW i \in 1 .. n
      PROVE  (Taken(open[i], Path[c][i]) # {} /\ Path[c][i] = Min(Taken(open[i], Path[c][i])))
               <=> Sole(open[i], Path[q][i], mode)
  <2>1. Path[c][i] \in Ids /\ open[i] \in Word  BY <1>1, <1>4
  <2>2. open[i] # << >>  BY DEF OpenEnd, n
  <2>3. Len(open[i]) > 0
    <3>1. Len(open[i]) \in Nat \ {0}  BY <2>1, <2>2, EmptySeq DEF Word
    <3> QED  BY <3>1
  <2> QED  BY <1>3, <2>1, <2>3, TakenIsSole
<1>6. Means(open, q, mode) <=> \A i \in 1 .. n : Sole(open[i], Path[q][i], mode)
  BY <1>3, <1>4 DEF Means
<1> QED  BY <1>5, <1>6 DEF n, q

LEMMA TabMeans ==
  ASSUME Inv, Prompted, NEW line \in Lines, Tab(line)
  PROVE  CompletionIsMeant'
<1> DEFINE ws   == WordsOf(line)
           open == Open(ws, line)
           p    == {c \in Ids \cup {0} : Len(Path[c]) = Len(open) - 1 /\ Means(open, c, mode)}
           rs   == ParseLine(line)
           ro   == Open(rs, line)
<1>0. connected  BY DEF Prompted
<1>1. /\ last'.key = "tab" /\ last'.line = line /\ last'.mode = mode
      /\ last'.offered = GetCompletions(line)
  BY DEF Tab, Nothing
<1>2. line \in Seq(STRING)  BY CommandsAssumption
<1> SUFFICES ASSUME ~ Quoted(line), \A i \in DOMAIN ws : ws[i] # <<"|">>
             PROVE  GetCompletions(line) =
                      {c \in Ids : /\ Table[c].parent \in p /\ Visible(c, mode)
                                   /\ IsPrefix(Last(open), Table[c].name)}
  BY <1>1 DEF CompletionIsMeant
<1>3. /\ ws \in Seq(Word) /\ NotEmpty(ws) /\ rs \in Seq(Word) /\ Begins(rs, ws)
  <2>1. ws \in Seq(Word) /\ NotEmpty(ws) /\ rs \in Seq(Word)
    BY <1>2, WordsType, ParseType
  <2>2. ~ BarFirst(line)
    <3> SUFFICES ASSUME BarFirst(line) PROVE FALSE  OBVIOUS
    <3>1. 1 \in 1 .. Len(ws) /\ ws[1] = <<"|">>  BY <1>2, BarIsFirst
    <3>2. DOMAIN ws = 1 .. Len(ws)  BY <2>1
    <3> QED  BY <3>1, <3>2
  <2> QED  BY <1>2, <2>1, <2>2, ParseBegins
<1>4. \A i \in 1 .. Len(ws) : ws[i][1] # "|"
  <2>1. DOMAIN ws = 1 .. Len(ws)  BY <1>3
  <2> QED  BY <1>2, <2>1, BarWords
<1>5. open \in Seq(Word) /\ OpenEnd(open) /\ Len(open) >= Len(ws)
  BY <1>2, <1>3, OpenIs
<1>6. GetCompletions(line) =
        {c \in Ids :
           /\ \A i \in 2 .. Len(rs) : rs[i] = << >> \/ rs[i][1] # "|"
           /\ Len(Path[c]) = Len(ro)
           /\ Visible(c, mode) /\ IsPrefix(Last(ro), Table[c].name)
           /\ \A i \in 1 .. Len(ro) - 1 :
                LET ds == Taken(ro[i], Path[c][i]) IN ds # {} /\ Path[c][i] = Min(ds)}
  BY DEF GetCompletions, Words, Taken
<1> HIDE DEF ws, open, rs, ro
<1>7. ASSUME NEW c \in Ids
      PROVE  /\ Len(Path[c]) \in Nat /\ Table[c].parent \in Ids \cup {0}
             /\ Len(Path[Table[c].parent]) = Len(Path[c]) - 1
             /\ Len(Path[c]) < MaxWords - 1
  <2>1. Table[c].parent \in 0 .. Len(Table) /\ Table[c].parent \in Ids \cup {0}
    BY TableFacts
  <2>2. Path[c] = Append(Path[Table[c].parent], c) /\ Path[Table[c].parent] \in Seq(Ids)
    BY <2>1, PathEquation
  <2>3. Len(Path[c]) = Len(Path[Table[c].parent]) + 1 /\ Len(Path[Table[c].parent]) \in Nat
    BY <2>2, AppendProperties
  <2> QED  BY <2>1, <2>3, DepthAssumption
<1>8. Len(rs) \in Nat /\ Len(ws) \in Nat /\ Len(open) \in Nat /\ MaxWords \in Nat
  <2>1. MaxWords \in Nat  BY CommandsAssumption
  <2> QED  BY <1>3, <1>5, <2>1
<1>9. CASE Len(rs) = Len(ws)
  <2>1. rs = ws
    <3>1. \A i \in 1 .. Len(rs) : rs[i] = ws[i]  BY <1>3 DEF Begins
    <3> QED  BY <1>3, <1>9, <3>1, SeqEqual
  <2>2. ro = open  BY <2>1 DEF ro, open
  <2>3. \A i \in 2 .. Len(ws) : i \in 1 .. Len(ws)  BY <1>8
  <2>4. \A i \in 2 .. Len(rs) : rs[i] = << >> \/ rs[i][1] # "|"  BY <1>4, <2>1, <2>3
  <2>5. ASSUME NEW c \in Ids
        PROVE  c \in GetCompletions(line)
                 <=> Table[c].parent \in p /\ Visible(c, mode) /\ IsPrefix(Last(open), Table[c].name)
    <3>1. Table[c].parent \in p
            <=> Len(Path[c]) = Len(open) /\ Means(open, Table[c].parent, mode)
      BY <1>7, <1>8
    <3>2. Len(Path[c]) = Len(open) =>
            ((\A i \in 1 .. Len(open) - 1 :
               LET ds == Taken(open[i], Path[c][i]) IN ds # {} /\ Path[c][i] = Min(ds))
               <=> Means(open, Table[c].parent, mode))
      BY <1>0, <1>5, UnderWords
    <3> HIDE DEF p
    <3> QED  BY <1>6, <2>2, <2>4, <3>1, <3>2
  <2>6. \A c \in GetCompletions(line) : c \in Ids  BY <1>6
  <2> HIDE DEF p
  <2> QED  BY <2>5, <2>6
<1>10. CASE Len(rs) # Len(ws)
  <2>1. Len(rs) >= MaxWords - 1 /\ Len(rs) <= Len(ws)  BY <1>3, <1>10 DEF Begins
  <2>2. Len(ro) \in Nat /\ Len(ro) >= Len(rs)
    <3>0. << >> \in Word  BY Literals
    <3>1. Len(Append(rs, << >>)) = Len(rs) + 1  BY <1>3, <3>0, AppendProperties
    <3>2. ro = rs \/ ro = Append(rs, << >>)  BY DEF ro, Open
    <3> QED  BY <1>8, <3>1, <3>2
  <2>3. \A c \in Ids : Len(Path[c]) # Len(ro) /\ Len(Path[c]) # Len(open)
    BY <1>5, <1>7, <1>8, <2>1, <2>2
  <2>4. GetCompletions(line) = {}  BY <1>6, <2>3
  <2>5. \A c \in Ids : Table[c].parent \notin p  BY <1>7, <1>8, <2>3, SMTT(30)
  <2> HIDE DEF p
  <2> QED  BY <2>4, <2>5
<1> QED  BY <1>9, <1>10

(* The TAB key offers exactly the commands that the last word may still    *)
(* become, under the command the words before it mean (cli.c:952-1028),    *)
(* whatever the table: the first command whose abbreviation is long enough *)
(* is the only one the word stands for.                                    *)
THEOREM TabOffersWhatIsMeant == Spec => []CompletionIsMeant
<1>1. Init => CompletionIsMeant  BY DEF Init, CompletionIsMeant, Nothing
<1>2. ASSUME Inv, CompletionIsMeant, [Next]_vars PROVE CompletionIsMeant'
  <2>1. CASE UNCHANGED vars  BY <1>2, <2>1 DEF vars, CompletionIsMeant
  <2>2. CASE Accept  BY <2>2 DEF Accept, Nothing, CompletionIsMeant
  <2>3. CASE Prompt  BY <2>3 DEF Prompt, Nothing, CompletionIsMeant
  <2>4. ASSUME NEW line \in Lines, RunCommand(line) PROVE CompletionIsMeant'
    <3>1. last'.key = "enter"  BY <2>4 DEF RunCommand, Ran, Nothing
    <3> QED  BY <3>1 DEF CompletionIsMeant
  <2> QED  BY <1>2, <2>1, <2>2, <2>3, <2>4, TabMeans DEF Next
<1> QED  BY <1>1, <1>2, Invariance, PTL DEF Spec
-----------------------------------------------------------------------------
(* What a filter lets pass.                                                *)

\* Has the range begun and not ended behind the lines ls?
On(f, ls) ==
  \E j \in 1 .. Len(ls) :
    /\ Occurs(f.from, ls[j])
    /\ f.to = << >> \/ \A k \in j .. Len(ls) : ~ Occurs(f.to, ls[k])

(* Whether a line passes is settled when it comes.                         *)
LEMMA PassesEarly ==
  ASSUME NEW L, NEW ls \in Seq(L), NEW l \in L, NEW f, NEW i \in 1 .. Len(ls)
  PROVE  Passes(f, Append(ls, l), i) <=> Passes(f, ls, i)
<1> DEFINE a == Append(ls, l)
<1>1. Len(ls) \in Nat /\ i \in Nat /\ i <= Len(ls)  OBVIOUS
<1>2. \A j \in 1 .. Len(ls) : a[j] = ls[j]  BY AppendProperties
<1> HIDE DEF a
<1>3. ASSUME NEW j \in 1 .. i
      PROVE  /\ a[j] = ls[j]
             /\ \A k \in j .. i - 1 : a[k] = ls[k]
  <2>1. j \in 1 .. Len(ls) /\ \A k \in j .. i - 1 : k \in 1 .. Len(ls)  BY <1>1
  <2> QED  BY <1>2, <2>1
<1>4. a[i] = ls[i]  BY <1>2
<1>5. Passes(f, a, i) <=> Passes(f, ls, i)
  <2>1. CASE f.kind = "match"  BY <1>4, <2>1 DEF Passes
  <2>2. CASE f.kind = "count"  BY <2>2 DEF Passes
  <2>3. CASE f.kind \notin {"match", "count"}
    <3> DEFINE P(x) == \E j \in 1 .. i :
                         /\ Occurs(f.from, x[j])
                         /\ f.to = << >> \/ \A k \in j .. i - 1 : ~ Occurs(f.to, x[k])
    <3>1. Passes(f, a, i) <=> P(a)  BY <2>3 DEF Passes
    <3>2. Passes(f, ls, i) <=> P(ls)  BY <2>3 DEF Passes
    <3>3. P(a) <=> P(ls)  BY <1>3
    <3> HIDE DEF P
    <3> QED  BY <3>1, <3>2, <3>3
  <2> QED  BY <2>1, <2>2, <2>3
<1> QED  BY <1>5 DEF a

(* The line that comes next passes a range that has begun, or begins it.   *)
LEMMA PassesNext ==
  ASSUME NEW L, NEW ls \in Seq(L), NEW l \in L, NEW f
  PROVE  /\ f.kind = "match" =>
              (Passes(f, Append(ls, l), Len(ls) + 1) <=> Occurs(f.from, l) # f.invert)
         /\ f.kind = "count" => ~ Passes(f, Append(ls, l), Len(ls) + 1)
         /\ f.kind \notin {"match", "count"} =>
              (Passes(f, Append(ls, l), Len(ls) + 1) <=> On(f, ls) \/ Occurs(f.from, l))
<1> DEFINE a == Append(ls, l)
           n == Len(ls)
<1>1. n \in Nat /\ (n + 1) - 1 = n  OBVIOUS
<1>2. a[n + 1] = l /\ \A j \in 1 .. n : a[j] = ls[j]  BY AppendProperties
<1> HIDE DEF a, n
<1>3. ASSUME f.kind = "match" PROVE Passes(f, a, n + 1) <=> Occurs(f.from, l) # f.invert
  BY <1>2, <1>3 DEF Passes
<1>4. ASSUME f.kind = "count" PROVE ~ Passes(f, a, n + 1)
  BY <1>4 DEF Passes
<1>5. ASSUME f.kind \notin {"match", "count"}
      PROVE  Passes(f, a, n + 1) <=> On(f, ls) \/ Occurs(f.from, l)
  <2> DEFINE Q(j) == /\ Occurs(f.from, a[j])
                     /\ f.to = << >> \/ \A k \in j .. n : ~ Occurs(f.to, a[k])
             R(j) == /\ Occurs(f.from, ls[j])
                     /\ f.to = << >> \/ \A k \in j .. n : ~ Occurs(f.to, ls[k])
  <2>1. Passes(f, a, n + 1) <=> \E j \in 1 .. n + 1 : Q(j)
    <3>1. Passes(f, a, n + 1) <=>
            \E j \in 1 .. n + 1 :
              /\ Occurs(f.from, a[j])
              /\ f.to = << >> \/ \A k \in j .. (n + 1) - 1 : ~ Occurs(f.to, a[k])
      BY <1>5 DEF Passes
    <3> QED  BY <1>1, <3>1
  <2>2. On(f, ls) <=> \E j \in 1 .. n : R(j)  BY DEF On, n
  <2>3. ASSUME NEW j \in 1 .. n PROVE Q(j) <=> R(j)
    <3>1. \A k \in j .. n : k \in 1 .. n  BY <1>1
    <3> QED  BY <1>2, <3>1
  <2>4. Q(n + 1) <=> Occurs(f.from, l)
    <3>1. \A k \in n + 1 .. n : FALSE  BY <1>1
    <3> QED  BY <1>2, <3>1
  <2> HIDE DEF Q, R
  <2>5. \A j \in 1 .. n + 1 : j \in 1 .. n \/ j = n + 1  BY <1>1
  <2>6. n + 1 \in 1 .. n + 1 /\ \A j \in 1 .. n : j \in 1 .. n + 1  BY <1>1
  <2> QED  BY <2>1, <2>2, <2>3, <2>4, <2>5, <2>6
<1> QED  BY <1>3, <1>4, <1>5 DEF a, n

LEMMA OnNext ==
  ASSUME NEW L, NEW ls \in Seq(L), NEW l \in L, NEW f
  PROVE  On(f, Append(ls, l)) <=>
           (On(f, ls) \/ Occurs(f.from, l)) /\ ~ (f.to # << >> /\ Occurs(f.to, l))
<1> DEFINE a == Append(ls, l)
           n == Len(ls)
           Q(j) == /\ Occurs(f.from, a[j])
                   /\ f.to = << >> \/ \A k \in j .. n + 1 : ~ Occurs(f.to, a[k])
           R(j) == /\ Occurs(f.from, ls[j])
                   /\ f.to = << >> \/ \A k \in j .. n : ~ Occurs(f.to, ls[k])
           Ends == f.to # << >> /\ Occurs(f.to, l)
<1>1. n \in Nat  OBVIOUS
<1>2. Len(a) = n + 1 /\ a[n + 1] = l /\ \A j \in 1 .. n : a[j] = ls[j]
  BY AppendProperties
<1> HIDE DEF a, n
<1>3. On(f, a) <=> \E j \in 1 .. n + 1 : Q(j)  BY <1>2 DEF On
<1>4. On(f, ls) <=> \E j \in 1 .. n : R(j)  BY DEF On, n
<1>5. ASSUME NEW j \in 1 .. n PROVE Q(j) <=> R(j) /\ ~ Ends
  <2>1. a[j] = ls[j] /\ \A k \in j .. n : k \in j .. n + 1 /\ a[k] = ls[k]
    <3>1. \A k \in j .. n : k \in 1 .. n /\ k \in j .. n + 1  BY <1>1
    <3> QED  BY <1>2, <3>1
  <2>2. n + 1 \in j .. n + 1 /\ \A k \in j .. n + 1 : k \in j .. n \/ k = n + 1  BY <1>1
  <2> QED  BY <1>2, <2>1, <2>2
<1>6. Q(n + 1) <=> Occurs(f.from, l) /\ ~ Ends
  <2>1. \A k \in n + 1 .. n + 1 : k = n + 1  BY <1>1
  <2>2. n + 1 \in n + 1 .. n + 1  BY <1>1
  <2> QED  BY <1>2, <2>1, <2>2
<1> HIDE DEF Q, R, Ends
<1>7. \A j \in 1 .. n + 1 : j \in 1 .. n \/ j = n + 1  BY <1>1
<1>8. n + 1 \in 1 .. n + 1 /\ \A j \in 1 .. n : j \in 1 .. n + 1  BY <1>1
<1>9. On(f, a) <=> (On(f, ls) \/ Occurs(f.from, l)) /\ ~ Ends
  BY <1>3, <1>4, <1>5, <1>6, <1>7, <1>8
<1> QED  BY <1>9 DEF a, Ends

(* One line more passes or does not.                                       *)
LEMMA ThroughNext ==
  ASSUME NEW L, NEW ls \in Seq(L), NEW l \in L, NEW f
  PROVE  Through(f, Append(ls, l)) =
           IF Passes(f, Append(ls, l), Len(ls) + 1) THEN Append(Through(f, ls), l)
           ELSE Through(f, ls)
<1> DEFINE a == Append(ls, l)
           n == Len(ls)
           S == {i \in DOMAIN ls : Passes(f, ls, i)}
           U == {i \in DOMAIN a : Passes(f, a, i)}
           o == InOrder(S)
           N == Cardinality(S)
<1>1. n \in Nat /\ DOMAIN ls = 1 .. n  OBVIOUS
<1>2. /\ a \in Seq(L) /\ DOMAIN a = 1 .. n + 1 /\ a[n + 1] = l
      /\ \A j \in 1 .. n : a[j] = ls[j]
  BY AppendProperties
<1>3. \A i \in 1 .. n : Passes(f, a, i) <=> Passes(f, ls, i)  BY PassesEarly
<1> HIDE DEF a, n
<1>4. S \in SUBSET (1 .. n) /\ S \in SUBSET Nat /\ IsFiniteSet(S)
  <2>1. S \in SUBSET (1 .. n) /\ S \in SUBSET Nat  BY <1>1
  <2> HIDE DEF S
  <2> QED  BY <1>1, <2>1, PlacesFinite
<1>5. /\ o \in Seq(S) /\ Len(o) = N /\ N \in Nat /\ \A k \in 1 .. N : o[k] \in S
  <2> HIDE DEF S
  <2> QED  BY <1>4, InOrderRanks
<1>6. U = S \cup (IF Passes(f, a, n + 1) THEN {n + 1} ELSE {})
  <2>1. \A i \in 1 .. n + 1 : i \in 1 .. n \/ i = n + 1  BY <1>1
  <2>2. n + 1 \in 1 .. n + 1 /\ \A i \in 1 .. n : i \in 1 .. n + 1  BY <1>1
  <2> QED  BY <1>1, <1>2, <1>3, <2>1, <2>2
<1>7. Through(f, ls) = [k \in DOMAIN o |-> ls[o[k]]]  BY DEF Through
<1>8. Through(f, a) = [k \in DOMAIN InOrder(U) |-> a[InOrder(U)[k]]]  BY DEF Through
<1> HIDE DEF S, U, o, N
<1>9. DOMAIN o = 1 .. N  BY <1>5
<1>10. \A k \in 1 .. N : a[o[k]] = ls[o[k]] /\ ls[o[k]] \in L
  <2>1. \A k \in 1 .. N : o[k] \in 1 .. n  BY <1>4, <1>5
  <2>2. \A j \in 1 .. n : ls[j] \in L  BY DEF n
  <2> QED  BY <1>2, <2>1, <2>2
<1>11. CASE ~ Passes(f, a, n + 1)
  <2>1. InOrder(U) = o  BY <1>6, <1>11 DEF o
  <2>2. Through(f, a) = [k \in 1 .. N |-> a[o[k]]] /\ Through(f, ls) = [k \in 1 .. N |-> ls[o[k]]]
    BY <1>7, <1>8, <1>9, <2>1
  <2>3. Through(f, a) = Through(f, ls)  BY <1>10, <2>2
  <2> QED  BY <1>11, <2>3 DEF a, n
<1>12. CASE Passes(f, a, n + 1)
  <2> DEFINE oo == Append(o, n + 1)
             t  == [k \in 1 .. N |-> ls[o[k]]]
             u  == [k \in 1 .. N + 1 |-> a[oo[k]]]
  <2>1. InOrder(U) = oo
    <3>1. \A x \in S : x < n + 1  BY <1>1, <1>4
    <3>2. n + 1 \in Nat  BY <1>1
    <3> QED  BY <1>4, <1>6, <1>12, <3>1, <3>2, InOrderAppends DEF o
  <2>2. DOMAIN oo = 1 .. N + 1 /\ oo[N + 1] = n + 1 /\ \A k \in 1 .. N : oo[k] = o[k]
    <3>0. S \subseteq Nat  BY <1>4
    <3>1. o \in Seq(Nat)
      <4>1. o \in Seq(S)  BY <1>5
      <4> QED  BY <3>0, <4>1, SeqMonotonic, Zenon
    <3>4. n + 1 \in Nat  BY <1>1
    <3>2. /\ oo \in Seq(Nat) /\ Len(oo) = Len(o) + 1 /\ oo[Len(o) + 1] = n + 1
          /\ \A k \in 1 .. Len(o) : oo[k] = o[k]
      BY <3>1, <3>4, AppendProperties
    <3>3. DOMAIN oo = 1 .. N + 1  BY <1>5, <3>2
    <3> QED  BY <1>5, <3>2, <3>3
  <2> HIDE DEF oo
  <2>3. Through(f, ls) = t /\ Through(f, a) = u  BY <1>7, <1>8, <1>9, <2>1, <2>2
  <2>4. t \in Seq(L) /\ Len(t) = N /\ \A k \in 1 .. N : t[k] = ls[o[k]]
    <3>1. t \in [1 .. N -> L]  BY <1>10
    <3> QED  BY <1>5, <3>1
  <2>5. \A k \in 1 .. N : a[oo[k]] = ls[o[k]]  BY <1>10, <2>2
  <2>6. a[oo[N + 1]] = l  BY <1>2, <2>2
  <2>7. u \in Seq(L) /\ Len(u) = N + 1 /\ \A k \in 1 .. N + 1 : u[k] = a[oo[k]]
    <3>1. \A k \in 1 .. N + 1 : k \in 1 .. N \/ k = N + 1  BY <1>5
    <3>2. \A k \in 1 .. N + 1 : a[oo[k]] \in L  BY <1>10, <2>5, <2>6, <3>1
    <3>3. u \in [1 .. N + 1 -> L]  BY <3>2
    <3> QED  BY <1>5, <3>3
  <2> HIDE DEF t, u
  <2>8. /\ Append(t, l) \in Seq(L) /\ Len(Append(t, l)) = N + 1
        /\ Append(t, l)[N + 1] = l /\ \A k \in 1 .. N : Append(t, l)[k] = t[k]
    BY <2>4, AppendProperties
  <2>9. \A k \in 1 .. N + 1 : u[k] = Append(t, l)[k]
    <3> SUFFICES ASSUME NEW k \in 1 .. N + 1 PROVE u[k] = Append(t, l)[k]  OBVIOUS
    <3>1. k \in 1 .. N \/ k = N + 1  BY <1>5
    <3> QED  BY <2>4, <2>5, <2>6, <2>7, <2>8, <3>1
  <2>10. u = Append(t, l)  BY <2>7, <2>8, <2>9, SeqEqual
  <2> QED  BY <1>12, <2>3, <2>10 DEF a, n
<1> QED  BY <1>11, <1>12

LEMMA ThroughType ==
  ASSUME NEW L, NEW ls \in Seq(L), NEW f
  PROVE  Through(f, ls) \in Seq(L)
<1> DEFINE S == {i \in DOMAIN ls : Passes(f, ls, i)}
           o == InOrder(S)
           N == Cardinality(S)
<1>1. Len(ls) \in Nat /\ DOMAIN ls = 1 .. Len(ls)  OBVIOUS
<1>2. S \in SUBSET (1 .. Len(ls)) /\ S \in SUBSET Nat  BY <1>1
<1>3. Through(f, ls) = [k \in DOMAIN o |-> ls[o[k]]]  BY DEF Through
<1> HIDE DEF S
<1>4. IsFiniteSet(S)  BY <1>1, <1>2, PlacesFinite
<1>5. o \in Seq(S) /\ Len(o) = N /\ N \in Nat /\ \A k \in 1 .. N : o[k] \in S
  BY <1>2, <1>4, InOrderRanks
<1>6. DOMAIN o = 1 .. N  BY <1>5
<1> HIDE DEF o, N
<1>7. \A k \in 1 .. N : ls[o[k]] \in L
  <2>1. \A k \in 1 .. N : o[k] \in 1 .. Len(ls)  BY <1>2, <1>5
  <2> QED  BY <2>1
<1>8. Through(f, ls) \in [1 .. N -> L]  BY <1>3, <1>6, <1>7
<1> QED  BY <1>5, <1>8

LEMMA NotBlankNext ==
  ASSUME NEW L, NEW ls \in Seq(L), NEW l \in L
  PROVE  /\ NotBlank(ls) \in Nat
         /\ NotBlank(Append(ls, l)) = NotBlank(ls) + (IF l = << >> THEN 0 ELSE 1)
<1> DEFINE a == Append(ls, l)
           n == Len(ls)
           S == {i \in DOMAIN ls : ls[i] # << >>}
           U == {i \in DOMAIN a : a[i] # << >>}
<1>1. n \in Nat /\ DOMAIN ls = 1 .. n  OBVIOUS
<1>2. /\ a \in Seq(L) /\ DOMAIN a = 1 .. n + 1 /\ a[n + 1] = l
      /\ \A j \in 1 .. n : a[j] = ls[j]
  BY AppendProperties
<1> HIDE DEF a, n
<1>3. S \in SUBSET (1 .. n) /\ n + 1 \notin S  BY <1>1
<1>4. U = S \cup (IF l = << >> THEN {} ELSE {n + 1})
  <2>1. \A i \in 1 .. n + 1 : i \in 1 .. n \/ i = n + 1  BY <1>1
  <2>2. n + 1 \in 1 .. n + 1 /\ \A i \in 1 .. n : i \in 1 .. n + 1  BY <1>1
  <2> QED  BY <1>1, <1>2, <2>1, <2>2
<1>5. NotBlank(ls) = Cardinality(S) /\ NotBlank(a) = Cardinality(U)  BY DEF NotBlank
<1> HIDE DEF S, U
<1>6. IsFiniteSet(S)  BY <1>1, <1>3, PlacesFinite
<1>7. Cardinality(S) \in Nat  BY <1>6, FS_CardinalityType
<1>8. Cardinality(S \cup {n + 1}) = Cardinality(S) + 1  BY <1>3, <1>6, FS_AddElement
<1>9. Cardinality(U) = Cardinality(S) + (IF l = << >> THEN 0 ELSE 1)
  <2>1. CASE l = << >>
    <3>1. U = S  BY <1>4, <2>1
    <3> QED  BY <1>7, <2>1, <3>1
  <2>2. CASE l # << >>
    <3>1. U = S \cup {n + 1}  BY <1>4, <2>2
    <3> QED  BY <1>8, <2>2, <3>1
  <2> QED  BY <2>1, <2>2
<1> QED  BY <1>5, <1>7, <1>9 DEF a

\* A filter f that has met the lines ls.
Met(f, ls) ==
  [kind |-> f.kind, from |-> f.from, to |-> f.to, invert |-> f.invert,
   matched |-> f.kind \notin {"match", "count"} /\ On(f, ls),
   count |-> IF f.kind = "count" THEN NotBlank(ls) ELSE 0]

(* A filter just made has met no line.                                     *)
LEMMA MetNothing ==
  ASSUME NEW a
  PROVE  FilterInit(a) = Met(FilterInit(a), << >>)
<1> DEFINE Made0(f) == \E kind, from, to, invert : f = Filter(kind, from, to, invert)
<1>1. \A kind, from, to, invert : Made0(Filter(kind, from, to, invert))  OBVIOUS
<1>2. Made0(NoFilter)  BY <1>1 DEF NoFilter
<1> HIDE DEF Made0
<1>3. Made0(FilterInit(a))  BY <1>1, <1>2 DEF FilterInit
<1>4. PICK kind, from, to, invert : FilterInit(a) = Filter(kind, from, to, invert)
  BY <1>3 DEF Made0
<1> DEFINE f == Filter(kind, from, to, invert)
<1>5. NotBlank(<< >>) = 0
  <2>1. {i \in DOMAIN << >> : << >>[i] # << >>} = {}  OBVIOUS
  <2> QED  BY <2>1, FS_EmptySet DEF NotBlank
<1>6. ~ On(f, << >>)  BY DEF On
<1>7. /\ f.kind = kind /\ f.from = from /\ f.to = to /\ f.invert = invert
      /\ f = [kind |-> kind, from |-> from, to |-> to, invert |-> invert,
              matched |-> FALSE, count |-> 0]
  BY DEF Filter
<1> HIDE DEF f
<1>8. (f.kind \notin {"match", "count"} /\ On(f, << >>)) = FALSE  BY <1>6
<1>9. (IF f.kind = "count" THEN NotBlank(<< >>) ELSE 0) = 0  BY <1>5
<1>10. Met(f, << >>) = f  BY <1>7, <1>8, <1>9 DEF Met
<1> QED  BY <1>4, <1>10 DEF f

(* A filter meets one line more.                                           *)
LEMMA MetNext ==
  ASSUME NEW L, NEW ls \in Seq(L), NEW l \in L, NEW f
  PROVE  /\ Filtered(Met(f, ls), l)[1] = Met(f, Append(ls, l))
         /\ Filtered(Met(f, ls), l)[2] <=> Passes(f, Append(ls, l), Len(ls) + 1)
<1> DEFINE a == Append(ls, l)
           m == Met(f, ls)
<1>1. /\ m.kind = f.kind /\ m.from = f.from /\ m.to = f.to /\ m.invert = f.invert
      /\ m.matched = (f.kind \notin {"match", "count"} /\ On(f, ls))
      /\ m.count = IF f.kind = "count" THEN NotBlank(ls) ELSE 0
  BY DEF Met
<1>2. CASE f.kind = "match"
  <2> DEFINE x == Occurs(f.from, l) # f.invert
  <2>1. Filtered(m, l) = <<m, x>>  BY <1>1, <1>2 DEF Filtered
  <2>2. Met(f, a) = m  BY <1>2 DEF Met
  <2>3. Passes(f, a, Len(ls) + 1) <=> x  BY <1>2, PassesNext
  <2> HIDE DEF m, a, x
  <2>4. Filtered(m, l)[1] = Met(f, a)  BY <2>1, <2>2
  <2>5. Filtered(m, l)[2] <=> Passes(f, a, Len(ls) + 1)  BY <2>1, <2>3
  <2> QED  BY <2>4, <2>5 DEF m, a
<1>3. CASE f.kind = "count"
  <2> DEFINE x == m.count + (IF l = << >> THEN 0 ELSE 1)
  <2>1. Filtered(m, l) = <<[m EXCEPT !.count = x], FALSE>>
    BY <1>1, <1>3 DEF Filtered
  <2>2. x = NotBlank(a)  BY <1>1, <1>3, NotBlankNext
  <2>3. [m EXCEPT !.count = NotBlank(a)] = Met(f, a)
    BY <1>3 DEF Met
  <2>4. ~ Passes(f, a, Len(ls) + 1)  BY <1>3, PassesNext
  <2> HIDE DEF m, a, x
  <2>5. Filtered(m, l)[1] = Met(f, a)  BY <2>1, <2>2, <2>3
  <2>6. Filtered(m, l)[2] <=> Passes(f, a, Len(ls) + 1)  BY <2>1, <2>4
  <2> QED  BY <2>5, <2>6 DEF m, a
<1>4. CASE f.kind \notin {"match", "count"}
  <2> DEFINE on == m.matched \/ Occurs(m.from, l)
             x  == on /\ ~ (m.to # << >> /\ Occurs(m.to, l))
  <2>1. Filtered(m, l) = <<[m EXCEPT !.matched = x], on>>
    BY <1>1, <1>4 DEF Filtered
  <2>2. m.matched <=> On(f, ls)  BY <1>1, <1>4
  <2>3. on <=> On(f, ls) \/ Occurs(f.from, l)  BY <1>1, <2>2
  <2>4. x <=> On(f, a)  BY <1>1, <2>3, OnNext
  <2>5. Passes(f, a, Len(ls) + 1) <=> On(f, ls) \/ Occurs(f.from, l)
    BY <1>4, PassesNext
  <2>6. \A b : [m EXCEPT !.matched = b] =
          [kind |-> f.kind, from |-> f.from, to |-> f.to, invert |-> f.invert,
           matched |-> b, count |-> 0]
    BY <1>4 DEF Met
  <2>7. Met(f, a) =
          [kind |-> f.kind, from |-> f.from, to |-> f.to, invert |-> f.invert,
           matched |-> x, count |-> 0]
    BY <1>4, <2>4 DEF Met
  <2> HIDE DEF m, a, x, on
  <2>8. Filtered(m, l)[1] = Met(f, a)  BY <2>1, <2>6, <2>7
  <2>9. Filtered(m, l)[2] <=> Passes(f, a, Len(ls) + 1)  BY <2>1, <2>3, <2>5
  <2> QED  BY <2>8, <2>9 DEF m, a
<1> QED  BY <1>2, <1>3, <1>4

\* What is left of the lines behind every filter.
Sieve(L, fs, lines, g) ==
  /\ g \in [0 .. Len(fs) -> Seq(L)] /\ g[0] = lines
  /\ \A n \in 1 .. Len(fs) : g[n] = Through(fs[n], g[n - 1])
HasSieve(L, fs, lines) == \E g : Sieve(L, fs, lines, g)

LEMMA SieveExists ==
  ASSUME NEW L, NEW fs, Len(fs) \in Nat, NEW lines \in Seq(L)
  PROVE  HasSieve(L, fs, lines)
<1> DEFINE N == Len(fs)
           F == [n \in 1 .. N |-> [ls \in Seq(L) |-> Through(fs[n], ls)]]
<1>1. F \in [1 .. N -> [Seq(L) -> Seq(L)]]
  <2>1. \A n \in 1 .. N : \A ls \in Seq(L) : Through(fs[n], ls) \in Seq(L)
    BY ThroughType
  <2> QED  BY <2>1
<1>2. \A n \in 1 .. N : \A ls \in Seq(L) : F[n][ls] = Through(fs[n], ls)  OBVIOUS
<1>3. N \in Nat  OBVIOUS
<1> HIDE DEF F, N
<1>4. HasWalk(Seq(L), N, lines, F)  BY <1>1, <1>3, WalkExists
<1>5. PICK g \in [0 .. N -> Seq(L)] :
        g[0] = lines /\ \A n \in 1 .. N : g[n] = F[n][g[n - 1]]
  BY <1>4 DEF HasWalk
<1>6. \A n \in 1 .. N : g[n] = Through(fs[n], g[n - 1])
  <2> SUFFICES ASSUME NEW n \in 1 .. N PROVE g[n] = Through(fs[n], g[n - 1])  OBVIOUS
  <2>1. n - 1 \in 0 .. N  BY <1>3
  <2>2. g[n - 1] \in Seq(L)  BY <2>1
  <2> QED  BY <1>2, <1>5, <2>2
<1>7. Sieve(L, fs, lines, g)  BY <1>5, <1>6 DEF Sieve, N
<1> QED  BY <1>7 DEF HasSieve

LEMMA SieveAll ==
  ASSUME NEW L, NEW fs, Len(fs) \in Nat, NEW lines \in Seq(L),
         NEW g, Sieve(L, fs, lines, g)
  PROVE  ThroughAll(fs, lines) = g[Len(fs)]
<1> DEFINE N == Len(fs)
           R(f) == [n \in 0 .. Len(fs) |-> IF n = 0 THEN lines ELSE Through(fs[n], f[n - 1])]
           A == CHOOSE f : f = R(f)
<1>0. N \in Nat  OBVIOUS
<1>1. /\ g \in [0 .. N -> Seq(L)] /\ g[0] = lines
      /\ \A n \in 1 .. N : g[n] = Through(fs[n], g[n - 1])
  BY DEF Sieve
<1>2. g = R(g)
  <2>1. \A n \in 0 .. N : g[n] = IF n = 0 THEN lines ELSE Through(fs[n], g[n - 1])
    <3> SUFFICES ASSUME NEW n \in 0 .. N, n # 0 PROVE g[n] = Through(fs[n], g[n - 1])
      BY <1>1
    <3>1. n \in 1 .. N  BY <1>0
    <3> QED  BY <1>1, <3>1
  <2> QED  BY <1>1, <2>1
<1>3. A = R(A)
  <2> HIDE DEF R
  <2> QED  BY <1>2
<1>4. ThroughAll(fs, lines) = A[N]  BY DEF ThroughAll
<1>5. \A n \in 0 .. N : A[n] = IF n = 0 THEN lines ELSE Through(fs[n], A[n - 1])
  <2> HIDE DEF A
  <2> QED  BY <1>3
<1> HIDE DEF A, R, N
<1> DEFINE T == {n \in Nat : n <= N => A[n] = g[n]}
<1>6. 0 \in T  BY <1>0, <1>1, <1>5
<1>7. ASSUME NEW n \in T PROVE n + 1 \in T
  <2> SUFFICES ASSUME n + 1 <= N PROVE A[n + 1] = g[n + 1]  BY <1>0
  <2>1. n \in Nat /\ n <= N /\ n + 1 \in 1 .. N /\ n + 1 \in 0 .. N /\ n + 1 # 0 /\ (n + 1) - 1 = n
    BY <1>0
  <2>2. A[n] = g[n]  BY <2>1
  <2>3. A[n + 1] = Through(fs[n + 1], A[n])  BY <1>5, <2>1
  <2>4. g[n + 1] = Through(fs[n + 1], g[n])  BY <1>1, <2>1
  <2> QED  BY <2>2, <2>3, <2>4
<1>8. T = Nat  BY <1>6, <1>7, StepInduction
<1>9. A[N] = g[N]
  <2>1. N \in T  BY <1>0, <1>8
  <2> QED  BY <1>0, <2>1
<1> QED  BY <1>4, <1>9 DEF N

(* Behind the first k of the filters is what they let pass.                *)
LEMMA SieveFirst ==
  ASSUME NEW L, NEW S, NEW fs \in Seq(S), NEW lines \in Seq(L),
         NEW g, Sieve(L, fs, lines, g), NEW k \in 0 .. Len(fs)
  PROVE  ThroughAll(SubSeq(fs, 1, k), lines) = g[k]
<1> DEFINE fk == SubSeq(fs, 1, k)
           gk == [n \in 0 .. k |-> g[n]]
<1>0. Len(fs) \in Nat /\ k \in Nat /\ k <= Len(fs)  OBVIOUS
<1>1. Len(fk) = k /\ \A n \in 1 .. k : fk[n] = fs[n]
  <2>1. \A n \in 1 .. k : n \in 1 .. Len(fs)  BY <1>0
  <2>2. \A n \in 1 .. k : fs[n] \in S  BY <2>1
  <2>3. /\ Len(fk) = IF 1 <= k THEN k - 1 + 1 ELSE 0
        /\ \A n \in 1 .. k - 1 + 1 : fk[n] = fs[1 + n - 1]
    BY <2>2, SubSeqProperties
  <2>4. k - 1 + 1 = k /\ \A n \in 1 .. k : 1 + n - 1 = n  BY <1>0
  <2>5. (IF 1 <= k THEN k - 1 + 1 ELSE 0) = k  BY <1>0
  <2> HIDE DEF fk
  <2> QED  BY <2>3, <2>4, <2>5
<1>2. /\ g \in [0 .. Len(fs) -> Seq(L)] /\ g[0] = lines
      /\ \A n \in 1 .. Len(fs) : g[n] = Through(fs[n], g[n - 1])
  BY DEF Sieve
<1>3. \A n \in 0 .. k : n \in 0 .. Len(fs) /\ g[n] \in Seq(L) /\ gk[n] = g[n]
  <2>1. \A n \in 0 .. k : n \in 0 .. Len(fs)  BY <1>0
  <2> QED  BY <1>2, <2>1
<1>4. gk \in [0 .. k -> Seq(L)]  BY <1>3
<1> HIDE DEF fk, gk
<1>5. \A n \in 1 .. k : gk[n] = Through(fk[n], gk[n - 1])
  <2> SUFFICES ASSUME NEW n \in 1 .. k PROVE gk[n] = Through(fk[n], gk[n - 1])  OBVIOUS
  <2>1. n \in 1 .. Len(fs) /\ n \in 0 .. k /\ n - 1 \in 0 .. k  BY <1>0
  <2>2. gk[n] = g[n] /\ gk[n - 1] = g[n - 1] /\ fk[n] = fs[n]  BY <1>1, <1>3, <2>1
  <2> QED  BY <1>2, <2>1, <2>2
<1>6. Sieve(L, fk, lines, gk)
  <2>1. 0 \in 0 .. k  BY <1>0
  <2>2. gk[0] = lines  BY <1>2, <1>3, <2>1
  <2> QED  BY <1>1, <1>4, <1>5, <2>2 DEF Sieve
<1>7. ThroughAll(fk, lines) = gk[k]  BY <1>0, <1>1, <1>6, SieveAll
<1>8. gk[k] = g[k]
  <2>1. k \in 0 .. k  BY <1>0
  <2> QED  BY <1>3, <2>1
<1> QED  BY <1>7, <1>8 DEF fk

LEMMA ThroughNothing ==
  ASSUME NEW f
  PROVE  Through(f, << >>) = << >>
<1> DEFINE S == {i \in DOMAIN << >> : Passes(f, << >>, i)}
<1>1. S = {}  OBVIOUS
<1>2. Through(f, << >>) = [n \in DOMAIN InOrder(S) |-> << >>[InOrder(S)[n]]]
  BY DEF Through
<1> HIDE DEF S
<1>3. Cardinality(S) = 0 /\ IsFiniteSet(S) /\ S \in SUBSET Nat  BY <1>1, FS_EmptySet
<1>4. InOrder(S) \in Seq(S) /\ Len(InOrder(S)) = 0  BY <1>3, InOrderRanks
<1>5. DOMAIN InOrder(S) = 1 .. 0  BY <1>4
<1> QED  BY <1>2, <1>5

\* The filters fs and the output after the lines ls were printed.
PrintedSo(fs, ls) ==
  [fs  |-> [k \in 1 .. Len(fs) |-> Met(fs[k], ThroughAll(SubSeq(fs, 1, k - 1), ls))],
   out |-> ThroughAll(fs, ls)]

LEMMA PrintedIs ==
  ASSUME NEW L, NEW S, NEW fs \in Seq(S), NEW ls \in Seq(L), NEW g, Sieve(L, fs, ls, g)
  PROVE  PrintedSo(fs, ls) =
           [fs |-> [k \in 1 .. Len(fs) |-> Met(fs[k], g[k - 1])], out |-> g[Len(fs)]]
<1>1. Len(fs) \in Nat  OBVIOUS
<1>2. ThroughAll(fs, ls) = g[Len(fs)]  BY <1>1, SieveAll
<1>3. \A k \in 1 .. Len(fs) : ThroughAll(SubSeq(fs, 1, k - 1), ls) = g[k - 1]
  <2>1. \A k \in 1 .. Len(fs) : k - 1 \in 0 .. Len(fs)  BY <1>1
  <2> QED  BY <2>1, SieveFirst
<1> QED  BY <1>2, <1>3 DEF PrintedSo

(* No line has been printed.                                               *)
LEMMA PrintedNothing ==
  ASSUME NEW S, NEW fs \in Seq(S), \A k \in 1 .. Len(fs) : fs[k] = Met(fs[k], << >>)
  PROVE  PrintedSo(fs, << >>) = [fs |-> fs, out |-> << >>]
<1> DEFINE g == [n \in 0 .. Len(fs) |-> << >>]
<1>1. Len(fs) \in Nat /\ DOMAIN fs = 1 .. Len(fs) /\ fs = [k \in 1 .. Len(fs) |-> fs[k]]
  OBVIOUS
<1>2. << >> \in Seq({}) /\ g \in [0 .. Len(fs) -> Seq({})]  OBVIOUS
<1>3. \A n \in 0 .. Len(fs) : g[n] = << >>  OBVIOUS
<1> HIDE DEF g
<1>4. \A n \in 1 .. Len(fs) : n - 1 \in 0 .. Len(fs) /\ n \in 0 .. Len(fs)  BY <1>1
<1>5. 0 \in 0 .. Len(fs) /\ Len(fs) \in 0 .. Len(fs)  BY <1>1
<1>6. \A n \in 1 .. Len(fs) : g[n] = Through(fs[n], g[n - 1])
  BY <1>3, <1>4, ThroughNothing
<1>7. Sieve({}, fs, << >>, g)  BY <1>2, <1>3, <1>5, <1>6 DEF Sieve
<1>8. PrintedSo(fs, << >>) =
        [fs |-> [k \in 1 .. Len(fs) |-> Met(fs[k], g[k - 1])], out |-> g[Len(fs)]]
  BY <1>2, <1>7, PrintedIs
<1>9. g[Len(fs)] = << >> /\ \A k \in 1 .. Len(fs) : Met(fs[k], g[k - 1]) = fs[k]
  BY <1>3, <1>4, <1>5
<1>10. [k \in 1 .. Len(fs) |-> Met(fs[k], g[k - 1])] = [k \in 1 .. Len(fs) |-> fs[k]]
  BY <1>9
<1> QED  BY <1>1, <1>8, <1>9, <1>10

(* Another line is printed.                                                *)
LEMMA PrintedNext ==
  ASSUME NEW L, NEW S, NEW fs \in Seq(S), NEW ls \in Seq(L), NEW l \in L
  PROVE  PrintLine(PrintedSo(fs, ls), l) = PrintedSo(fs, Append(ls, l))
<1> DEFINE K == Len(fs)
           a == Append(ls, l)
           st == PrintedSo(fs, ls)
<1>0. K \in Nat /\ a \in Seq(L)  BY AppendProperties
<1>1. PICK g : Sieve(L, fs, ls, g)  BY <1>0, SieveExists DEF HasSieve
<1>2. PICK h : Sieve(L, fs, a, h)
  <2> HIDE DEF a
  <2> QED  BY <1>0, SieveExists DEF HasSieve
<1>3. /\ g \in [0 .. K -> Seq(L)] /\ g[0] = ls
      /\ \A n \in 1 .. K : g[n] = Through(fs[n], g[n - 1])
  BY <1>1 DEF Sieve
<1>4. /\ h \in [0 .. K -> Seq(L)] /\ h[0] = a
      /\ \A n \in 1 .. K : h[n] = Through(fs[n], h[n - 1])
  BY <1>2 DEF Sieve
<1>5. st = [fs |-> [k \in 1 .. K |-> Met(fs[k], g[k - 1])], out |-> g[K]]
  BY <1>1, PrintedIs
<1>6. PrintedSo(fs, a) = [fs |-> [k \in 1 .. K |-> Met(fs[k], h[k - 1])], out |-> h[K]]
  <2> HIDE DEF a
  <2> QED  BY <1>0, <1>2, PrintedIs
<1> HIDE DEF K, st
<1>7. /\ DOMAIN st.fs = 1 .. K /\ Len(st.fs) = K /\ st.out = g[K]
      /\ \A k \in 1 .. K : st.fs[k] = Met(fs[k], g[k - 1])
  BY <1>0, <1>5
<1> DEFINE R(k) == Reaches(st.fs, k, l)
<1>8. R(1)  BY DEF Reaches
<1>9. ASSUME NEW k \in 1 .. K PROVE R(k + 1) <=> R(k) /\ Filtered(st.fs[k], l)[2]
  <2>1. k \in Nat /\ (k + 1) - 1 = k /\ k \in 1 .. k
        /\ \A j \in 1 .. k : j \in 1 .. k - 1 \/ j = k
    BY <1>0
  <2>2. \A j \in 1 .. k - 1 : j \in 1 .. k  BY <2>1
  <2>3. R(k + 1) <=> \A j \in 1 .. k : Filtered(st.fs[j], l)[2]  BY <2>1 DEF Reaches
  <2>4. R(k) <=> \A j \in 1 .. k - 1 : Filtered(st.fs[j], l)[2]  BY DEF Reaches
  <2> HIDE DEF R
  <2> QED  BY <2>1, <2>2, <2>3, <2>4
<1> HIDE DEF R
<1>10. ASSUME NEW k \in 1 .. K, h[k - 1] = IF R(k) THEN Append(g[k - 1], l) ELSE g[k - 1]
       PROVE  h[k] = IF R(k + 1) THEN Append(g[k], l) ELSE g[k]
  <2>1. k - 1 \in 0 .. K  BY <1>0
  <2>2. g[k - 1] \in Seq(L)  BY <1>3, <2>1
  <2>3. g[k] = Through(fs[k], g[k - 1]) /\ h[k] = Through(fs[k], h[k - 1])
    BY <1>3, <1>4
  <2>4. Filtered(st.fs[k], l)[2]
          <=> Passes(fs[k], Append(g[k - 1], l), Len(g[k - 1]) + 1)
    BY <1>7, <2>2, MetNext
  <2>5. Through(fs[k], Append(g[k - 1], l)) =
          IF Passes(fs[k], Append(g[k - 1], l), Len(g[k - 1]) + 1)
          THEN Append(g[k], l) ELSE g[k]
    BY <2>2, <2>3, ThroughNext
  <2>6. CASE R(k)  BY <1>9, <1>10, <2>3, <2>4, <2>5, <2>6
  <2>7. CASE ~ R(k)  BY <1>9, <1>10, <2>3, <2>7
  <2> QED  BY <2>6, <2>7
<1> DEFINE T == {k \in Nat : k <= K => h[k] = IF R(k + 1) THEN Append(g[k], l) ELSE g[k]}
<1>11. 0 \in T  BY <1>3, <1>4, <1>8
<1>12. ASSUME NEW k \in T PROVE k + 1 \in T
  <2> SUFFICES ASSUME k + 1 <= K
               PROVE  h[k + 1] = IF R((k + 1) + 1) THEN Append(g[k + 1], l) ELSE g[k + 1]
    BY <1>0
  <2>1. k \in Nat /\ k <= K /\ k + 1 \in 1 .. K /\ (k + 1) - 1 = k  BY <1>0
  <2>2. h[k] = IF R(k + 1) THEN Append(g[k], l) ELSE g[k]  BY <2>1
  <2> QED  BY <1>10, <2>1, <2>2
<1>13. T = Nat  BY <1>11, <1>12, StepInduction
<1>14. ASSUME NEW k \in 0 .. K
       PROVE  h[k] = IF R(k + 1) THEN Append(g[k], l) ELSE g[k]
  <2>1. k \in T /\ k <= K  BY <1>0, <1>13
  <2> QED  BY <2>1
<1> HIDE DEF T
<1>15. h[K] = IF R(K + 1) THEN Append(g[K], l) ELSE g[K]
  <2>1. K \in 0 .. K  BY <1>0
  <2> QED  BY <1>14, <2>1
<1>16. ASSUME NEW k \in 1 .. K
       PROVE  (IF R(k) THEN Filtered(st.fs[k], l)[1] ELSE st.fs[k]) = Met(fs[k], h[k - 1])
  <2>1. k - 1 \in 0 .. K /\ (k - 1) + 1 = k  BY <1>0
  <2>2. g[k - 1] \in Seq(L)  BY <1>3, <2>1
  <2>3. h[k - 1] = IF R(k) THEN Append(g[k - 1], l) ELSE g[k - 1]  BY <1>14, <2>1
  <2>4. Filtered(st.fs[k], l)[1] = Met(fs[k], Append(g[k - 1], l))
    BY <1>7, <2>2, MetNext
  <2> QED  BY <1>7, <2>3, <2>4
<1>17. PrintLine(st, l) =
         [fs  |-> [k \in 1 .. K |-> IF R(k) THEN Filtered(st.fs[k], l)[1] ELSE st.fs[k]],
          out |-> IF R(K + 1) THEN Append(g[K], l) ELSE g[K]]
  BY <1>7 DEF PrintLine, R
<1>18. PrintLine(st, l) = PrintedSo(fs, a)
  <2>1. [k \in 1 .. K |-> IF R(k) THEN Filtered(st.fs[k], l)[1] ELSE st.fs[k]] =
          [k \in 1 .. K |-> Met(fs[k], h[k - 1])]
    BY <1>16
  <2> QED  BY <1>6, <1>15, <1>17, <2>1
<1> QED  BY <1>18 DEF st

(* What is printed comes out as the filters one behind the other let it.   *)
LEMMA PrintedAll ==
  ASSUME NEW L, NEW S, NEW fs \in Seq(S), \A k \in 1 .. Len(fs) : fs[k] = Met(fs[k], << >>),
         NEW lines \in Seq(L)
  PROVE  Printed(fs, lines) = PrintedSo(fs, lines)
<1> DEFINE N == Len(lines)
           s0 == [fs |-> fs, out |-> << >>]
           R(f) == [n \in 0 .. Len(lines) |->
                      IF n = 0 THEN [fs |-> fs, out |-> << >>]
                      ELSE PrintLine(f[n - 1], lines[n])]
           A == CHOOSE f : f = R(f)
           g == [n \in 0 .. N |-> PrintedSo(fs, SubSeq(lines, 1, n))]
<1>0. N \in Nat  OBVIOUS
<1>1. g[0] = s0
  <2>1. SubSeq(lines, 1, 0) = << >> /\ 0 \in 0 .. N  BY <1>0, SubSeqEmpty
  <2>2. PrintedSo(fs, << >>) = s0  BY PrintedNothing
  <2> HIDE DEF s0
  <2> QED  BY <2>1, <2>2
<1>2. ASSUME NEW n \in 1 .. N PROVE g[n] = PrintLine(g[n - 1], lines[n])
  <2>1. n - 1 \in 0 .. N /\ n \in 0 .. N /\ lines[n] \in L /\ n - 1 \in Int /\ 1 \in Int
    BY <1>0
  <2>2. SubSeq(lines, 1, n - 1) \in Seq(L)
    <3>1. \A i \in 1 .. n - 1 : i \in 1 .. Len(lines)  BY <1>0
    <3>2. \A i \in 1 .. n - 1 : lines[i] \in L  BY <3>1
    <3> QED  BY <2>1, <3>2, SubSeqProperties
  <2>3. SubSeq(lines, 1, n) = Append(SubSeq(lines, 1, n - 1), lines[n])  BY <1>0
  <2>4. PrintLine(PrintedSo(fs, SubSeq(lines, 1, n - 1)), lines[n]) =
          PrintedSo(fs, Append(SubSeq(lines, 1, n - 1), lines[n]))
    BY <2>1, <2>2, PrintedNext, ZenonT(60)
  <2>5. g[n] = PrintedSo(fs, SubSeq(lines, 1, n))
        /\ g[n - 1] = PrintedSo(fs, SubSeq(lines, 1, n - 1))
    BY <2>1
  <2> QED  BY <2>3, <2>4, <2>5
<1>3. g[N] = PrintedSo(fs, lines)
  <2>1. SubSeq(lines, 1, N) = lines  BY SubSeqFull
  <2>2. N \in 0 .. N  BY <1>0
  <2> QED  BY <2>1, <2>2
<1>4. DOMAIN g = 0 .. N /\ g = [n \in 0 .. N |-> g[n]]  OBVIOUS
<1> HIDE DEF g
<1>5. g = R(g)
  <2>1. \A n \in 0 .. N : g[n] = IF n = 0 THEN s0 ELSE PrintLine(g[n - 1], lines[n])
    <3> SUFFICES ASSUME NEW n \in 0 .. N, n # 0 PROVE g[n] = PrintLine(g[n - 1], lines[n])
      BY <1>1
    <3>1. n \in 1 .. N  BY <1>0
    <3> QED  BY <1>2, <3>1
  <2>2. R(g) = [n \in 0 .. N |-> IF n = 0 THEN s0 ELSE PrintLine(g[n - 1], lines[n])]
    OBVIOUS
  <2> HIDE DEF R, s0
  <2> QED  BY <1>4, <2>1, <2>2
<1>6. A = R(A)
  <2> HIDE DEF R
  <2> QED  BY <1>5
<1>7. Printed(fs, lines) = A[N]  BY DEF Printed
<1>8. \A n \in 0 .. N : A[n] = IF n = 0 THEN s0 ELSE PrintLine(A[n - 1], lines[n])
  <2> HIDE DEF A
  <2> QED  BY <1>6
<1> HIDE DEF A, R, N, s0
<1> DEFINE T == {n \in Nat : n <= N => A[n] = g[n]}
<1>9. 0 \in T  BY <1>0, <1>1, <1>8
<1>10. ASSUME NEW n \in T PROVE n + 1 \in T
  <2> SUFFICES ASSUME n + 1 <= N PROVE A[n + 1] = g[n + 1]  BY <1>0
  <2>1. n \in Nat /\ n <= N /\ n + 1 \in 1 .. N /\ n + 1 \in 0 .. N /\ n + 1 # 0 /\ (n + 1) - 1 = n
    BY <1>0
  <2>2. A[n] = g[n]  BY <2>1
  <2>3. A[n + 1] = PrintLine(A[n], lines[n + 1])  BY <1>8, <2>1
  <2>4. g[n + 1] = PrintLine(g[n], lines[n + 1])  BY <1>2, <2>1
  <2> QED  BY <2>2, <2>3, <2>4
<1>11. T = Nat  BY <1>9, <1>10, StepInduction
<1>12. A[N] = g[N]
  <2>1. N \in T  BY <1>0, <1>11
  <2> QED  BY <1>0, <2>1
<1> QED  BY <1>3, <1>7, <1>12

(* The counts are those of what reached the filters that count.            *)
LEMMA CountsAre ==
  ASSUME NEW S, NEW fs \in Seq(S), NEW lines
  PROVE  Counts(PrintedSo(fs, lines).fs) =
           [n \in DOMAIN Counting(fs) |->
              NotBlank(ThroughAll(SubSeq(fs, 1, Counting(fs)[n] - 1), lines))]
<1> DEFINE K == Len(fs)
           t == PrintedSo(fs, lines).fs
           Cs == {k \in DOMAIN fs : fs[k].kind = "count"}
<1>1. K \in Nat /\ DOMAIN fs = 1 .. K  OBVIOUS
<1>2. DOMAIN t = 1 .. K /\ \A k \in 1 .. K : t[k] = Met(fs[k], ThroughAll(SubSeq(fs, 1, k - 1), lines))
  BY DEF PrintedSo
<1> HIDE DEF t, K
<1>3. \A k \in 1 .. K :
        /\ t[k].kind = fs[k].kind
        /\ fs[k].kind = "count" => t[k].count = NotBlank(ThroughAll(SubSeq(fs, 1, k - 1), lines))
  BY <1>2 DEF Met
<1>4. {k \in DOMAIN t : t[k].kind = "count"} = Cs  BY <1>1, <1>2, <1>3
<1>5. Counting(t) = InOrder(Cs) /\ Counting(fs) = InOrder(Cs)  BY <1>4 DEF Counting
<1>6. Cs \in SUBSET (1 .. K) /\ Cs \in SUBSET Nat /\ \A k \in Cs : fs[k].kind = "count"
  BY <1>1
<1> HIDE DEF Cs
<1>7. IsFiniteSet(Cs)  BY <1>1, <1>6, PlacesFinite
<1>8. /\ InOrder(Cs) \in Seq(Cs) /\ Len(InOrder(Cs)) = Cardinality(Cs)
      /\ Cardinality(Cs) \in Nat /\ \A n \in 1 .. Cardinality(Cs) : InOrder(Cs)[n] \in Cs
  BY <1>6, <1>7, InOrderRanks
<1>9. DOMAIN InOrder(Cs) = 1 .. Cardinality(Cs)  BY <1>8
<1>10. ASSUME NEW n \in 1 .. Cardinality(Cs)
       PROVE  t[InOrder(Cs)[n]].count =
                NotBlank(ThroughAll(SubSeq(fs, 1, InOrder(Cs)[n] - 1), lines))
  <2>1. InOrder(Cs)[n] \in Cs  BY <1>8
  <2>2. InOrder(Cs)[n] \in 1 .. K /\ fs[InOrder(Cs)[n]].kind = "count"  BY <1>6, <2>1
  <2> QED  BY <1>3, <2>2
<1>11. Counts(t) = [n \in 1 .. Cardinality(Cs) |-> t[InOrder(Cs)[n]].count]
  BY <1>5, <1>9 DEF Counts
<1> QED  BY <1>5, <1>9, <1>10, <1>11 DEF t

LEMMA RunFilters ==
  ASSUME NEW line \in Lines, RunCommand(line)
  PROVE  OutputFiltered'
<1> DEFINE c     == Selected(line)
           texts == IF c = 0 THEN << >> ELSE Behind[line]
           runs  == c # 0 /\ Len(Made[line]) = Len(texts)
           plain == runs /\ Table[c].effect = "plain"
           fs    == [i \in DOMAIN texts |-> FilterInit(texts[i])]
           arg   == IF texts = << >> THEN filters ELSE Made[line]
           L     == Seq(Word)
<1>1. PICK printed \in IF runs THEN Outputs ELSE {<< >>} :
           \E after \in {Printed(arg, IF plain THEN << >> ELSE printed)} :
             last' = [Nothing EXCEPT
               !.key = "enter", !.line = line, !.mode = mode, !.ran = IF runs THEN c ELSE 0,
               !.left = filters, !.written = texts, !.printed = printed,
               !.shown = IF ~ runs THEN << >> ELSE IF plain THEN printed ELSE after.out,
               !.counts = IF runs THEN Counts(after.fs) ELSE << >>]
  <2>1. Ran(line, c, arg)
    <3> HIDE DEF c
    <3> QED  BY DEF RunCommand, c
  <2> QED  BY <2>1 DEF Ran
<1> DEFINE after == Printed(arg, IF plain THEN << >> ELSE printed)
<1>2. /\ last'.ran = (IF runs THEN c ELSE 0) /\ last'.left = filters
      /\ last'.written = texts /\ last'.printed = printed
      /\ last'.shown = IF ~ runs THEN << >> ELSE IF plain THEN printed ELSE after.out
      /\ last'.counts = IF runs THEN Counts(after.fs) ELSE << >>
  BY <1>1 DEF Nothing
<1> HIDE DEF c, texts, arg, after
<1> SUFFICES ASSUME last'.ran # 0, Table[last'.ran].effect # "plain",
                    fs # << >> \/ last'.left = << >>
             PROVE  /\ last'.shown = ThroughAll(fs, last'.printed)
                    /\ last'.counts = [n \in DOMAIN Counting(fs) |->
                         NotBlank(ThroughAll(SubSeq(fs, 1, Counting(fs)[n] - 1), last'.printed))]
  BY <1>2 DEF OutputFiltered
<1>3. runs /\ ~ plain /\ c # 0 /\ last'.ran = c  BY <1>2
<1>4. texts = Behind[line] /\ Len(Made[line]) = Len(texts)  BY <1>3 DEF texts
<1>5. Len(texts) \in Nat /\ DOMAIN texts = 1 .. Len(texts)  BY <1>4, BehindAre
<1>6. fs = Made[line]
  <2>1. Made[line] = [i \in 1 .. Len(texts) |-> FilterInit(texts[i])]
    BY <1>4, MadeAre
  <2> QED  BY <1>5, <2>1
<1>7. arg = fs
  <2>1. CASE texts = << >>
    <3>1. DOMAIN texts = {}  BY <2>1
    <3>2. fs = << >>  BY <3>1
    <3> QED  BY <1>2, <2>1, <3>2 DEF arg
  <2>2. CASE texts # << >>  BY <1>6, <2>2 DEF arg
  <2> QED  BY <2>1, <2>2
<1> DEFINE S == {FilterInit(texts[i]) : i \in 1 .. Len(texts)}
<1>8. fs \in [1 .. Len(texts) -> S]  BY <1>5
<1>9. fs \in Seq(S) /\ Len(fs) = Len(texts)
  <2> HIDE DEF fs, S
  <2> QED  BY <1>5, <1>8
<1>10. \A k \in 1 .. Len(fs) : fs[k] = Met(fs[k], << >>)
  <2>1. \A k \in 1 .. Len(texts) : fs[k] = FilterInit(texts[k])  BY <1>5
  <2> HIDE DEF fs
  <2> QED  BY <1>9, <2>1, MetNothing
<1>11. printed \in Seq(L)
  <2>1. printed \in Outputs  BY <1>3
  <2>2. Outputs \subseteq Seq(Seq(Seq(STRING)))  BY CommandsAssumption
  <2> QED  BY <2>1, <2>2 DEF Word
<1> HIDE DEF fs, S, L, runs, plain
<1>12. after = PrintedSo(fs, printed)
  <2>1. after = Printed(fs, printed)  BY <1>3, <1>7 DEF after
  <2> QED  BY <1>9, <1>10, <1>11, <2>1, PrintedAll
<1>13. last'.shown = after.out /\ last'.counts = Counts(after.fs)  BY <1>2, <1>3
<1>14. after.out = ThroughAll(fs, printed)  BY <1>12 DEF PrintedSo
<1>15. Counts(after.fs) = [n \in DOMAIN Counting(fs) |->
         NotBlank(ThroughAll(SubSeq(fs, 1, Counting(fs)[n] - 1), printed))]
  BY <1>9, <1>12, CountsAre
<1> QED  BY <1>2, <1>13, <1>14, <1>15

(* What is shown of a command's output is what the filters written behind  *)
(* it let pass, one after the other, and a count counts what reached it    *)
(* (cli.c:797-879, 1939-1965, 2103-2253), whatever is printed and however  *)
(* many filters there are.                                                 *)
THEOREM OutputIsFiltered == Spec => []OutputFiltered
<1>1. Init => OutputFiltered  BY DEF Init, OutputFiltered, Nothing
<1>2. ASSUME OutputFiltered, [Next]_vars PROVE OutputFiltered'
  <2>1. CASE UNCHANGED vars  BY <1>2, <2>1 DEF vars, OutputFiltered
  <2>2. ASSUME last'.ran = 0 PROVE OutputFiltered'  BY <2>2 DEF OutputFiltered
  <2>3. CASE Accept  BY <2>2, <2>3 DEF Accept, Nothing
  <2>4. CASE Prompt  BY <2>2, <2>4 DEF Prompt, Nothing
  <2>5. ASSUME NEW line \in Lines, Tab(line) PROVE OutputFiltered'
    BY <2>2, <2>5 DEF Tab, Nothing
  <2> QED  BY <1>2, <2>1, <2>3, <2>4, <2>5, RunFilters DEF Next
<1> QED  BY <1>1, <1>2, PTL DEF Spec
=============================================================================
