-------------------------- MODULE LineEditorProofs --------------------------
(***************************************************************************)
(* Theorems about the line editor, for every size of the buffer and of the *)
(* history: nothing outside of them is touched while the line is short,    *)
(* text and length stay in step, and help gives the line back.             *)
(***************************************************************************)
EXTENDS LineEditor, ListLemmas

\* A line the cursor is inside of.
Fitting(e) == e \in Line /\ e.cursor =< e.l

\* Nothing follows the line, nothing is missing in it.
Zeroed(e) == \A i \in Cells : i >= e.l => e.cmd[i] = NUL
Full(e)   == \A i \in Cells : i < e.l => e.cmd[i] # NUL

\* What a key leaves as it was, if the line was well kept.
Kept(e, f) == /\ Zeroed(e) => Zeroed(f)
              /\ Zeroed(e) /\ Full(e) => Full(f)

\* What the history may hold.
Entries == {s \in Seq(Chars) : Len(s) =< MaxLine}

(* The sizes of the buffer and of the history.                             *)
LEMMA Sizes ==
  /\ MaxLine \in Nat /\ MaxLine > 3 /\ MaxHistory \in Nat /\ MaxHistory > 0
  /\ NUL \notin Chars
<1>1. MaxLine \in Nat /\ MaxLine > 3 /\ MaxHistory \in Nat \ {0} /\ NUL \notin Chars
  BY LineEditorAssumption, Zenon
<1>2. MaxHistory > 0  BY <1>1
<1> QED  BY <1>1, <1>2

(* What the parts of a line are.                                           *)
LEMMA LineParts ==
  ASSUME NEW e, Fitting(e)
  PROVE  /\ e.l \in Nat /\ e.cursor \in Nat /\ e.cursor =< e.l /\ e.l =< MaxLine
         /\ e.cmd \in [Cells -> Chars \cup {NUL}]
         /\ e = [cmd |-> e.cmd, l |-> e.l, cursor |-> e.cursor]
BY Sizes DEF Fitting, Line

(* How a line is put together.                                             *)
LEMMA LineMade ==
  ASSUME NEW cmd \in [Cells -> Chars \cup {NUL}], NEW l \in Nat, NEW c \in Nat,
         c =< l, l =< MaxLine
  PROVE  Fitting([cmd |-> cmd, l |-> l, cursor |-> c])
BY Sizes DEF Fitting, Line

(* cli_loop copies a text into the buffer and zeroes the rest.             *)
LEMMA HoldingFits ==
  ASSUME NEW s \in Entries
  PROVE  /\ Fitting(Holding(s)) /\ Zeroed(Holding(s)) /\ Full(Holding(s))
         /\ Holding(s).l = Len(s)
<1> DEFINE cmd == [i \in Cells |-> IF i < Len(s) THEN s[i + 1] ELSE NUL]
<1>1. s \in Seq(Chars) /\ Len(s) \in Nat /\ Len(s) =< MaxLine  BY DEF Entries
<1>2. \A i \in Cells : i < Len(s) => s[i + 1] \in Chars
  BY <1>1, Sizes DEF Cells
<1>3. cmd \in [Cells -> Chars \cup {NUL}]  BY <1>2
<1>4. Holding(s) = [cmd |-> cmd, l |-> Len(s), cursor |-> Len(s)]  BY DEF Holding
<1>5. Fitting(Holding(s))  BY <1>1, <1>3, <1>4, LineMade
<1>6. Zeroed(Holding(s))
  BY <1>1, <1>4, Sizes DEF Zeroed, Cells
<1>7. Full(Holding(s))  BY <1>2, <1>4, Sizes DEF Full
<1> QED  BY <1>4, <1>5, <1>6, <1>7

(* The empty line.                                                         *)
LEMMA FreshFits == Fitting(Fresh) /\ Zeroed(Fresh) /\ Full(Fresh) /\ Fresh.l = 0
<1>1. << >> \in Entries  BY Sizes DEF Entries
<1> QED  BY <1>1, HoldingFits DEF Fresh

(* The text of a buffer that ends somewhere.                               *)
LEMMA TextIsEntry ==
  ASSUME NEW e, Fitting(e), Terminated(e)
  PROVE  Text(e) \in Entries
<1> DEFINE P(n) == /\ \A i \in 0 .. n - 1 : e.cmd[i] # NUL
                   /\ n < MaxLine => e.cmd[n] = NUL
           I == {i \in Cells : e.cmd[i] = NUL}
           n == CHOOSE n \in 0 .. MaxLine : P(n)
<1>1. \E m \in 0 .. MaxLine : P(m)
  <2>1. I \in SUBSET Nat /\ I # {}  BY DEF Terminated, Cells
  <2>2. PICK m \in I : \A x \in I : m =< x  BY <2>1, LeastExists
  <2>3. m \in 0 .. MaxLine - 1 /\ e.cmd[m] = NUL  BY <2>2 DEF Cells
  <2>4. \A i \in 0 .. m - 1 : i \in Cells /\ i < m  BY <2>3, Sizes DEF Cells
  <2>5. \A i \in 0 .. m - 1 : e.cmd[i] # NUL
    <3> SUFFICES ASSUME NEW i \in 0 .. m - 1, e.cmd[i] = NUL PROVE FALSE  OBVIOUS
    <3>1. i \in I /\ i < m /\ i \in Nat /\ m \in Nat  BY <2>3, <2>4 DEF Cells
    <3> QED  BY <2>2, <3>1
  <2> QED  BY <2>3, <2>5, Sizes
<1>2. n \in 0 .. MaxLine /\ P(n)  BY <1>1
<1>3. Text(e) = [i \in 1 .. n |-> e.cmd[i - 1]]  BY DEF Text
<1> HIDE DEF n
<1>4. \A i \in 1 .. n : e.cmd[i - 1] \in Chars
  <2>1. \A i \in 1 .. n : i - 1 \in Cells /\ i - 1 \in 0 .. n - 1
    BY <1>2, Sizes DEF Cells
  <2> QED  BY <1>2, <2>1, LineParts
<1>5. Text(e) \in Seq(Chars) /\ Len(Text(e)) = n
  BY <1>2, <1>3, <1>4
<1> QED  BY <1>2, <1>5, Sizes DEF Entries

(* The text of a line that is a string is as long as the line.             *)
LEMMA TextOfString ==
  ASSUME NEW e, Fitting(e), Zeroed(e), Full(e)
  PROVE  Len(Text(e)) = e.l
<1> DEFINE P(n) == /\ \A i \in 0 .. n - 1 : e.cmd[i] # NUL
                   /\ n < MaxLine => e.cmd[n] = NUL
           n == CHOOSE n \in 0 .. MaxLine : P(n)
<1>1. e.l \in Nat /\ e.l =< MaxLine /\ MaxLine \in Nat  BY LineParts, Sizes
<1>2. P(e.l)  BY <1>1 DEF Zeroed, Full, Cells
<1>3. n \in 0 .. MaxLine /\ P(n)
  <2>1. e.l \in 0 .. MaxLine  BY <1>1
  <2> QED  BY <1>2, <2>1
<1>4. Text(e) = [i \in 1 .. n |-> e.cmd[i - 1]]  BY DEF Text
<1> HIDE DEF n
<1>5. ~ n < e.l
  <2> SUFFICES ASSUME n < e.l PROVE FALSE  OBVIOUS
  <2>1. n \in 0 .. e.l - 1 /\ n < MaxLine  BY <1>1, <1>3
  <2> QED  BY <1>2, <1>3, <2>1
<1>6. ~ e.l < n
  <2> SUFFICES ASSUME e.l < n PROVE FALSE  OBVIOUS
  <2>1. e.l \in 0 .. n - 1 /\ e.l < MaxLine  BY <1>1, <1>3
  <2> QED  BY <1>2, <1>3, <2>1
<1>7. n = e.l  BY <1>1, <1>3, <1>5, <1>6
<1>8. Len(Text(e)) = n  BY <1>3, <1>4, Sizes
<1> QED  BY <1>7, <1>8
-----------------------------------------------------------------------------
(* A character at the end of the line.                                     *)
LEMMA AppendedFits ==
  ASSUME NEW e, Fitting(e), NEW c \in Chars, e.cursor = e.l, e.l < MaxLine
  PROVE  /\ Fitting(Appended(e, c))
         /\ Appended(e, c).l = e.l + (IF Room(e) THEN 1 ELSE 0)
         /\ Appended(e, c).cursor = Appended(e, c).l
         /\ Room(e) => Kept(e, Appended(e, c))
         /\ \A i \in Cells : i # e.l => Appended(e, c).cmd[i] = e.cmd[i]
<1>1. /\ e.l \in Nat /\ MaxLine \in Nat /\ e.cmd \in [Cells -> Chars \cup {NUL}]
      /\ NUL \notin Chars
  BY LineParts, Sizes
<1> DEFINE cmd == [e.cmd EXCEPT ![e.cursor] = c]
           m   == e.l + (IF Room(e) THEN 1 ELSE 0)
<1>2. cmd \in [Cells -> Chars \cup {NUL}] /\ \A i \in Cells : cmd[i] = IF i = e.l THEN c ELSE e.cmd[i]
  BY <1>1
<1>3. m \in Nat /\ m =< MaxLine /\ (Room(e) => m = e.l + 1)  BY <1>1 DEF Room
<1>4. Appended(e, c) = [cmd |-> cmd, l |-> m, cursor |-> m]  BY DEF Appended
<1> HIDE DEF cmd, m
<1>5. Fitting(Appended(e, c))  BY <1>2, <1>3, <1>4, LineMade
<1>6. ASSUME Room(e) PROVE Kept(e, Appended(e, c))
  <2>1. Zeroed(e) => Zeroed(Appended(e, c))
    BY <1>1, <1>2, <1>3, <1>4, <1>6 DEF Zeroed, Cells
  <2>2. Full(e) => Full(Appended(e, c))
    BY <1>1, <1>2, <1>3, <1>4, <1>6 DEF Full, Cells
  <2> QED  BY <2>1, <2>2 DEF Kept
<1> QED  BY <1>2, <1>4, <1>5, <1>6 DEF m

(* A character in the middle of the line.                                  *)
LEMMA InsertedFits ==
  ASSUME NEW e, Fitting(e), NEW c \in Chars, e.cursor < e.l, e.l < MaxLine
  PROVE  /\ Fitting(Inserted(e, c))
         /\ Inserted(e, c).l = (IF Rim(e) THEN e.l ELSE e.l + 1)
         /\ Inserted(e, c).cursor = e.cursor + 1
         /\ ~ Rim(e) => Kept(e, Inserted(e, c))
<1>1. /\ e.l \in Nat /\ e.cursor \in Nat /\ MaxLine \in Nat
      /\ e.cmd \in [Cells -> Chars \cup {NUL}] /\ NUL \notin Chars
  BY LineParts, Sizes
<1> DEFINE n   == IF Rim(e) THEN e.l - 1 ELSE e.l
           cmd == [i \in Cells |-> CASE i = e.cursor -> c
                                     [] i \in e.cursor + 1 .. n + 1 -> e.cmd[i - 1]
                                     [] OTHER -> e.cmd[i]]
<1>2. n \in Nat /\ n + 1 = (IF Rim(e) THEN e.l ELSE e.l + 1) /\ n + 1 =< MaxLine
      /\ e.cursor =< n
  BY <1>1 DEF Rim
<1>3. Inserted(e, c) = [cmd |-> cmd, l |-> n + 1, cursor |-> e.cursor + 1]
  BY DEF Inserted
<1> HIDE DEF n
<1>4. \A i \in Cells :
        /\ i = e.cursor => cmd[i] = c
        /\ i < e.cursor \/ i > n + 1 => cmd[i] = e.cmd[i]
        /\ i > e.cursor /\ i =< n + 1 => cmd[i] = e.cmd[i - 1] /\ i - 1 \in Cells
  BY <1>1, <1>2 DEF Cells
<1>5. cmd \in [Cells -> Chars \cup {NUL}]
  <2>1. \A i \in Cells : i = e.cursor \/ i < e.cursor \/ i > n + 1 \/ (i > e.cursor /\ i =< n + 1)
    BY <1>1, <1>2 DEF Cells
  <2>2. \A i \in Cells : cmd[i] \in Chars \cup {NUL}  BY <1>1, <1>4, <2>1
  <2> QED  BY <2>2
<1> HIDE DEF cmd
<1>6. Fitting(Inserted(e, c))  BY <1>1, <1>2, <1>3, <1>5, LineMade
<1>7. ASSUME ~ Rim(e) PROVE Kept(e, Inserted(e, c))
  <2>1. n = e.l  BY <1>7 DEF n
  <2>2. Zeroed(e) => Zeroed(Inserted(e, c))
    BY <1>1, <1>2, <1>3, <1>4, <2>1, SMTT(30) DEF Zeroed, Cells
  <2>3. Full(e) => Full(Inserted(e, c))
    <3> SUFFICES ASSUME Full(e), NEW i \in Cells, i < e.l + 1 PROVE cmd[i] # NUL
      BY <1>2, <1>3, <2>1 DEF Full
    <3>1. i \in Nat  BY <1>1 DEF Cells
    <3>2. CASE i = e.cursor  BY <1>1, <1>4, <3>2
    <3>3. CASE i < e.cursor  BY <1>1, <1>4, <3>1, <3>3 DEF Full
    <3>4. CASE i > e.cursor
      <4>1. cmd[i] = e.cmd[i - 1] /\ i - 1 \in Cells /\ i - 1 < e.l
        BY <1>1, <1>4, <2>1, <3>1, <3>4
      <4> QED  BY <4>1 DEF Full
    <3> QED  BY <1>1, <3>1, <3>2, <3>3, <3>4
  <2> QED  BY <2>2, <2>3 DEF Kept
<1> QED  BY <1>2, <1>3, <1>6, <1>7

(* Characters taken back.                                                  *)
LEMMA ErasedFits ==
  ASSUME NEW e, Fitting(e), NEW n \in 0 .. e.cursor,
         e.cursor = e.l \/ e.l < MaxLine - 1 \/ n = 0
  PROVE  /\ Fitting(ErasedBack(e, n)) /\ ErasedBack(e, n).l = e.l - n
         /\ Kept(e, ErasedBack(e, n))
<1>1. /\ e.l \in Nat /\ e.cursor \in Nat /\ e.cursor =< e.l /\ e.l =< MaxLine
      /\ e.cmd \in [Cells -> Chars \cup {NUL}]
      /\ MaxLine \in Nat /\ NUL \notin Chars
  BY LineParts, Sizes
<1>2. n \in Nat /\ n =< e.cursor /\ e.cursor - n \in Nat /\ e.l - n \in Nat  BY <1>1
<1> DEFINE back == e.cursor - n
           from(i) == IF i + n =< e.l THEN i + n ELSE e.l + 1
           cmd == [i \in Cells |->
                     CASE e.cursor = e.l /\ i \in back .. e.l - 1 -> NUL
                       [] e.cursor # e.l /\ i \in back .. e.l -> e.cmd[from(i)]
                       [] OTHER -> e.cmd[i]]
<1>3. ErasedBack(e, n) = [cmd |-> cmd, l |-> e.l - n, cursor |-> back]
  BY DEF ErasedBack
<1>4. CASE e.cursor = e.l
  <2>1. \A i \in Cells : cmd[i] = IF i >= back /\ i < e.l THEN NUL ELSE e.cmd[i]
    BY <1>1, <1>2, <1>4 DEF Cells
  <2>2. cmd \in [Cells -> Chars \cup {NUL}]  BY <1>1, <2>1
  <2> HIDE DEF cmd
  <2>3. Fitting(ErasedBack(e, n))  BY <1>1, <1>2, <1>3, <2>2, LineMade
  <2>4. Zeroed(e) => Zeroed(ErasedBack(e, n))
    BY <1>1, <1>2, <1>3, <1>4, <2>1 DEF Zeroed, Cells
  <2>5. Full(e) => Full(ErasedBack(e, n))
    BY <1>1, <1>2, <1>3, <1>4, <2>1 DEF Full, Cells
  <2> QED  BY <1>3, <2>3, <2>4, <2>5 DEF Kept
<1>5. CASE e.cursor # e.l
  <2>1. \A i \in Cells : from(i) \in Nat /\ (i >= e.l - n => from(i) >= e.l)
                        /\ (i < e.l - n => from(i) < e.l /\ from(i) = i + n)
    BY <1>1, <1>2, SMTT(30) DEF Cells
  <2>2. \A i \in Cells : i >= back /\ i =< e.l => from(i) \in Cells
    BY <1>1, <1>2, <1>5, SMTT(30) DEF Cells
  <2>3. \A i \in Cells : cmd[i] = IF i >= back /\ i =< e.l THEN e.cmd[from(i)] ELSE e.cmd[i]
    BY <1>1, <1>2, <1>5 DEF Cells
  <2>4. cmd \in [Cells -> Chars \cup {NUL}]
    <3>1. \A i \in Cells : cmd[i] \in Chars \cup {NUL}  BY <1>1, <2>2, <2>3
    <3> QED  BY <3>1
  <2> HIDE DEF cmd, from
  <2>5. Fitting(ErasedBack(e, n))  BY <1>1, <1>2, <1>3, <2>4, LineMade
  <2>6. Zeroed(e) => Zeroed(ErasedBack(e, n))
    <3> SUFFICES ASSUME Zeroed(e), NEW i \in Cells, i >= e.l - n PROVE cmd[i] = NUL
      BY <1>3 DEF Zeroed
    <3>1. i \in Nat  BY <1>1 DEF Cells
    <3>2. CASE i >= back /\ i =< e.l
      <4>1. cmd[i] = e.cmd[from(i)] /\ from(i) \in Cells /\ from(i) >= e.l
        BY <2>1, <2>2, <2>3, <3>2
      <4> QED  BY <4>1 DEF Zeroed
    <3>3. CASE ~ (i >= back /\ i =< e.l)
      <4>1. i >= e.l  BY <1>1, <1>2, <3>1, <3>3
      <4> QED  BY <2>3, <3>3, <4>1 DEF Zeroed
    <3> QED  BY <3>2, <3>3
  <2>7. Full(e) => Full(ErasedBack(e, n))
    <3> SUFFICES ASSUME Full(e), NEW i \in Cells, i < e.l - n PROVE cmd[i] # NUL
      BY <1>3 DEF Full
    <3>1. i \in Nat  BY <1>1 DEF Cells
    <3>2. CASE i >= back /\ i =< e.l
      <4>1. cmd[i] = e.cmd[from(i)] /\ from(i) \in Cells /\ from(i) < e.l
        BY <2>1, <2>2, <2>3, <3>2
      <4> QED  BY <4>1 DEF Full
    <3>3. CASE ~ (i >= back /\ i =< e.l)
      <4>1. i < e.l  BY <1>1, <1>2, <3>1
      <4> QED  BY <2>3, <3>3, <4>1 DEF Full
    <3> QED  BY <3>2, <3>3
  <2> QED  BY <1>3, <2>5, <2>6, <2>7 DEF Kept
<1> QED  BY <1>4, <1>5

(* Where a word begins is not behind the cursor.                           *)
LEMMA WordStartsBefore ==
  ASSUME NEW e, Fitting(e)
  PROVE  WordStart(e) \in 0 .. e.cursor
<1> DEFINE Blanks(b) == \A i \in b .. e.cursor - 1 : e.cmd[i] = Space
           Word(n, b) == \A i \in n .. b - 1 : e.cmd[i] # Space
           P(n) == \E b \in n .. e.cursor :
                     /\ Blanks(b) /\ (b > 0 => e.cmd[b - 1] # Space)
                     /\ Word(n, b) /\ (n > 0 => e.cmd[n - 1] = Space)
<1>1. e.cursor \in Nat  BY LineParts
<1>2. PICK b \in 0 .. e.cursor : Blanks(b) /\ \A x \in 0 .. e.cursor : Blanks(x) => b =< x
  <2> DEFINE B == {x \in 0 .. e.cursor : Blanks(x)}
  <2>1. Blanks(e.cursor)  BY <1>1
  <2> HIDE DEF Blanks
  <2>2. B \in SUBSET Nat /\ e.cursor \in B  BY <1>1, <2>1
  <2> QED  BY <2>2, LeastExists
<1>3. b > 0 => e.cmd[b - 1] # Space
  <2> SUFFICES ASSUME b > 0, e.cmd[b - 1] = Space PROVE FALSE  OBVIOUS
  <2>0. b \in Nat /\ b =< e.cursor  BY <1>1, <1>2
  <2>1. b - 1 \in 0 .. e.cursor /\ ~ b =< b - 1  BY <1>1, <2>0
  <2>2. \A i \in b - 1 .. e.cursor - 1 : i = b - 1 \/ i \in b .. e.cursor - 1
    BY <1>1, <2>0
  <2>3. Blanks(b - 1)  BY <1>2, <2>2
  <2> QED  BY <1>2, <2>1, <2>3
<1>4. PICK n \in 0 .. b : Word(n, b) /\ \A x \in 0 .. b : Word(x, b) => n =< x
  <2> DEFINE B == {x \in 0 .. b : Word(x, b)}
  <2>1. b \in Nat /\ Word(b, b)  BY <1>1, <1>2
  <2> HIDE DEF Word
  <2>2. B \in SUBSET Nat /\ b \in B  BY <2>1
  <2> QED  BY <2>2, LeastExists
<1>5. n > 0 => e.cmd[n - 1] = Space
  <2> SUFFICES ASSUME n > 0, e.cmd[n - 1] # Space PROVE FALSE  OBVIOUS
  <2>0. b \in Nat /\ n \in Nat /\ n =< b  BY <1>1, <1>2, <1>4
  <2>1. n - 1 \in 0 .. b /\ ~ n =< n - 1  BY <2>0
  <2>2. \A i \in n - 1 .. b - 1 : i = n - 1 \/ i \in n .. b - 1  BY <2>0
  <2>3. Word(n - 1, b)  BY <1>4, <2>2
  <2> QED  BY <1>4, <2>1, <2>3
<1>6. n \in 0 .. e.cursor /\ b \in n .. e.cursor  BY <1>1, <1>2, <1>4
<1>7. P(n)  BY <1>2, <1>3, <1>4, <1>5, <1>6
<1> HIDE DEF P
<1>8. WordStart(e) = CHOOSE x \in 0 .. e.cursor : P(x)  BY DEF WordStart, P
<1> QED  BY <1>6, <1>7, <1>8

(* Where the last word begins is inside the line.                          *)
LEMMA LastWordInLine ==
  ASSUME NEW e, Fitting(e)
  PROVE  LastWord(e) \in 0 .. e.l
<1> DEFINE Word(n) == \A i \in n .. e.l - 1 : e.cmd[i] \notin {Space, "|"}
           P(n) == Word(n) /\ (n > 0 => e.cmd[n - 1] \in {Space, "|"})
<1>1. e.l \in Nat  BY LineParts
<1>2. PICK n \in 0 .. e.l : Word(n) /\ \A x \in 0 .. e.l : Word(x) => n =< x
  <2> DEFINE B == {x \in 0 .. e.l : Word(x)}
  <2>1. Word(e.l)  BY <1>1
  <2> HIDE DEF Word
  <2>2. B \in SUBSET Nat /\ e.l \in B  BY <1>1, <2>1
  <2> QED  BY <2>2, LeastExists
<1>3. n > 0 => e.cmd[n - 1] \in {Space, "|"}
  <2> SUFFICES ASSUME n > 0, e.cmd[n - 1] \notin {Space, "|"} PROVE FALSE  OBVIOUS
  <2>0. n \in Nat /\ n =< e.l  BY <1>1, <1>2
  <2>1. n - 1 \in 0 .. e.l /\ ~ n =< n - 1  BY <1>1, <2>0
  <2>2. \A i \in n - 1 .. e.l - 1 : i = n - 1 \/ i \in n .. e.l - 1  BY <1>1, <2>0
  <2>3. Word(n - 1)  BY <1>2, <2>2
  <2> QED  BY <1>2, <2>1, <2>3
<1>4. P(n)  BY <1>2, <1>3
<1> HIDE DEF P
<1>5. LastWord(e) = CHOOSE x \in 0 .. e.l : P(x)  BY DEF LastWord, P
<1> QED  BY <1>2, <1>4, <1>5

(* ^K, and what ^U and ^Z make of the buffer.                              *)
LEMMA ClearedFits ==
  ASSUME NEW e, Fitting(e)
  PROVE  /\ Fitting(Killed(e)) /\ Killed(e).l = e.cursor /\ Kept(e, Killed(e))
         /\ Fitting(Wiped(e)) /\ Wiped(e).l = e.l
         /\ Zeroed(e) => Zeroed(Wiped(e))
         /\ LET u == [cmd |-> Wiped(e).cmd, l |-> 0, cursor |-> 0]
            IN  Fitting(u) /\ u.l = 0 /\ Full(u) /\ (Zeroed(e) => Zeroed(u))
<1>1. /\ e.l \in Nat /\ e.cursor \in Nat /\ e.cursor =< e.l /\ e.l =< MaxLine
      /\ e.cmd \in [Cells -> Chars \cup {NUL}] /\ MaxLine \in Nat
  BY LineParts, Sizes
<1> DEFINE killed == [i \in Cells |-> IF i \in e.cursor .. e.l - 1 THEN NUL ELSE e.cmd[i]]
           wiped  == [i \in Cells |-> IF i < 3 * e.l THEN NUL ELSE e.cmd[i]]
           u      == [cmd |-> Wiped(e).cmd, l |-> 0, cursor |-> 0]
<1>2. killed \in [Cells -> Chars \cup {NUL}] /\ wiped \in [Cells -> Chars \cup {NUL}]
  BY <1>1
<1>3. /\ Killed(e) = [cmd |-> killed, l |-> e.cursor, cursor |-> e.cursor]
      /\ Wiped(e) = [cmd |-> wiped, l |-> e.l, cursor |-> e.cursor]
      /\ u = [cmd |-> wiped, l |-> 0, cursor |-> 0]
  <2> HIDE DEF killed, wiped
  <2>1. e \in Line  BY DEF Fitting
  <2>2. Killed(e) = [e EXCEPT !.cmd = killed, !.l = e.cursor]  BY DEF Killed, killed
  <2>3. Wiped(e) = [e EXCEPT !.cmd = wiped]  BY DEF Wiped, ClearLength, wiped
  <2>4. Killed(e) = [cmd |-> killed, l |-> e.cursor, cursor |-> e.cursor]
    BY <2>1, <2>2 DEF Line
  <2>5. Wiped(e) = [cmd |-> wiped, l |-> e.l, cursor |-> e.cursor]
    BY <2>1, <2>3 DEF Line
  <2>6. u = [cmd |-> wiped, l |-> 0, cursor |-> 0]  BY <2>5
  <2> QED  BY <2>4, <2>5, <2>6
<1>4. \A i \in Cells : /\ i \in Nat
                       /\ killed[i] = IF i >= e.cursor /\ i < e.l THEN NUL ELSE e.cmd[i]
                       /\ wiped[i] = IF i < 3 * e.l THEN NUL ELSE e.cmd[i]
  BY <1>1 DEF Cells
<1> HIDE DEF killed, wiped, u
<1>5. Fitting(Killed(e)) /\ Fitting(Wiped(e)) /\ Fitting(u)
  BY <1>1, <1>2, <1>3, LineMade
<1>6. Kept(e, Killed(e))  BY <1>1, <1>3, <1>4 DEF Kept, Zeroed, Full
<1>7. Zeroed(e) => Zeroed(Wiped(e)) /\ Zeroed(u)
  BY <1>1, <1>3, <1>4 DEF Zeroed
<1>8. Full(u)  BY <1>3, <1>4 DEF Full
<1> QED  BY <1>3, <1>5, <1>6, <1>7, <1>8 DEF u

(* A completion that fits into the buffer.                                 *)
LEMMA CompletedFits ==
  ASSUME NEW e, Fitting(e), NEW w \in Seq(Chars), LastWord(e) + Len(w) < MaxLine,
         e.l - LastWord(e) =< Len(w)
  PROVE  /\ Fitting(Completed(e, w)) /\ Kept(e, Completed(e, w))
<1>1. /\ e.l \in Nat /\ e.cmd \in [Cells -> Chars \cup {NUL}] /\ MaxLine \in Nat
      /\ NUL \notin Chars /\ LastWord(e) \in Nat /\ LastWord(e) =< e.l /\ Len(w) \in Nat
  BY LineParts, LastWordInLine, Sizes
<1> DEFINE b   == LastWord(e)
           n   == b + Len(w)
           cmd == [i \in Cells |-> CASE i \in b .. n - 1 -> w[i - b + 1]
                                     [] i = n -> Space
                                     [] OTHER -> e.cmd[i]]
<1>2. Completed(e, w) = [cmd |-> cmd, l |-> n + 1, cursor |-> n + 1]  BY DEF Completed
<1>3. n \in Nat /\ n < MaxLine /\ b =< n /\ e.l =< n /\ b \in Nat /\ b =< e.l
      /\ Len(w) = n - b
  BY <1>1
<1> HIDE DEF b, n
<1>4. Space \in Chars  BY LineEditorAssumption, Zenon
<1>5. \A i \in Cells : /\ i \in Nat
                       /\ i >= b /\ i < n => cmd[i] = w[i - b + 1] /\ i - b + 1 \in 1 .. Len(w)
                       /\ i = n => cmd[i] = Space
                       /\ i < b \/ i > n => cmd[i] = e.cmd[i]
  <2> SUFFICES ASSUME NEW i \in Cells
               PROVE  /\ i \in Nat
                      /\ i >= b /\ i < n => cmd[i] = w[i - b + 1] /\ i - b + 1 \in 1 .. Len(w)
                      /\ i = n => cmd[i] = Space
                      /\ i < b \/ i > n => cmd[i] = e.cmd[i]
    OBVIOUS
  <2>1. i \in Nat  BY <1>1 DEF Cells
  <2>2. (i \in b .. n - 1) <=> (i >= b /\ i < n)  BY <1>3, <2>1
  <2>3. i >= b /\ i < n => i - b + 1 \in 1 .. Len(w)  BY <1>3, <2>1
  <2>4. cmd[i] = CASE i \in b .. n - 1 -> w[i - b + 1] [] i = n -> Space [] OTHER -> e.cmd[i]
    OBVIOUS
  <2> HIDE DEF cmd
  <2> QED  BY <1>3, <2>1, <2>2, <2>3, <2>4
<1> HIDE DEF cmd
<1>6. \A i \in Cells : /\ i >= b /\ i =< n => cmd[i] \in Chars
                       /\ i < b \/ i > n => cmd[i] = e.cmd[i]
  <2> SUFFICES ASSUME NEW i \in Cells, i >= b, i =< n PROVE cmd[i] \in Chars
    BY <1>5
  <2>1. CASE i = n  BY <1>4, <1>5, <2>1
  <2>2. CASE i < n  BY <1>5, <2>2
  <2> QED  BY <1>3, <1>5, <2>1, <2>2
<1>7. cmd \in [Cells -> Chars \cup {NUL}]
  <2>1. ASSUME NEW i \in Cells PROVE cmd[i] \in Chars \cup {NUL}
    <3>1. i \in Nat /\ e.cmd[i] \in Chars \cup {NUL}  BY <1>1, <1>5
    <3>2. CASE i >= b /\ i =< n  BY <1>6, <3>2
    <3>3. CASE i < b \/ i > n  BY <1>6, <3>1, <3>3
    <3> QED  BY <1>3, <3>1, <3>2, <3>3
  <2>2. cmd = [i \in Cells |-> cmd[i]]  BY DEF cmd
  <2> QED  BY <2>1, <2>2
<1>8. Fitting(Completed(e, w))  BY <1>1, <1>2, <1>3, <1>7, LineMade
<1>9. Zeroed(e) => Zeroed(Completed(e, w))
  <2> SUFFICES ASSUME Zeroed(e), NEW i \in Cells, i >= n + 1 PROVE cmd[i] = NUL
    BY <1>2 DEF Zeroed
  <2>1. i \in Nat  BY <1>5
  <2>2. i > n /\ i >= e.l  BY <1>1, <1>3, <2>1
  <2> QED  BY <1>6, <2>2 DEF Zeroed
<1>10. Full(e) => Full(Completed(e, w))
  BY <1>1, <1>2, <1>3, <1>5, <1>6, SMTT(30) DEF Full
<1> QED  BY <1>8, <1>9, <1>10 DEF Kept

(* The line without its last character.                                    *)
LEMMA ResumedFits ==
  ASSUME NEW e, Fitting(e), e.l > 0
  PROVE  /\ Fitting(Resumed(e)) /\ Kept(e, Resumed(e)) /\ Resumed(e).l = e.l - 1
<1>1. /\ e.l \in Nat /\ e.cmd \in [Cells -> Chars \cup {NUL}] /\ MaxLine \in Nat
      /\ e.l =< MaxLine
  BY LineParts, Sizes
<1> DEFINE cmd == [e.cmd EXCEPT ![e.l - 1] = NUL]
<1>2. \A i \in Cells : i \in Nat /\ cmd[i] = IF i = e.l - 1 THEN NUL ELSE e.cmd[i]
  BY <1>1 DEF Cells
<1>3. cmd \in [Cells -> Chars \cup {NUL}]  BY <1>1, <1>2
<1>4. Resumed(e) = [cmd |-> cmd, l |-> e.l - 1, cursor |-> e.l - 1]  BY DEF Resumed
<1> HIDE DEF cmd
<1>5. Fitting(Resumed(e))  BY <1>1, <1>3, <1>4, LineMade
<1>6. Kept(e, Resumed(e))  BY <1>1, <1>2, <1>4 DEF Kept, Zeroed, Full
<1> QED  BY <1>4, <1>5, <1>6

(* The history never holds more than it has room for.                      *)
LEMMA HistoryFits ==
  ASSUME NEW h \in Seq(Entries), Len(h) =< MaxHistory, NEW s \in Entries
  PROVE  /\ HistoryAdded(h, s) \in Seq(Entries) /\ Len(HistoryAdded(h, s)) =< MaxHistory
         /\ Len(HistoryAdded(h, s)) > 0
<1>1. Len(h) \in Nat /\ MaxHistory \in Nat /\ MaxHistory > 0  BY Sizes
<1>2. CASE Len(h) = MaxHistory
  <2>1. h # << >>  BY <1>1, <1>2
  <2>2. Tail(h) \in Seq(Entries) /\ Len(Tail(h)) = Len(h) - 1  BY <2>1
  <2>3. HistoryAdded(h, s) = Append(Tail(h), s)  BY <1>2 DEF HistoryAdded
  <2> QED  BY <1>1, <1>2, <2>2, <2>3
<1>3. CASE Len(h) # MaxHistory /\ h # << >> /\ Last(h) = s
  <2>1. HistoryAdded(h, s) = h /\ Len(h) > 0  BY <1>3 DEF HistoryAdded
  <2> QED  BY <1>1, <2>1
<1>4. CASE Len(h) # MaxHistory /\ ~ (h # << >> /\ Last(h) = s)
  <2>1. HistoryAdded(h, s) = Append(h, s)  BY <1>4, Zenon DEF HistoryAdded
  <2> QED  BY <1>1, <1>4, <2>1
<1> QED  BY <1>2, <1>3, <1>4
-----------------------------------------------------------------------------
\* The line: a string unless it is ragged, followed by zeros unless it was
\* long once.
LineGood ==
  /\ Fitting(line)
  /\ ~ ragged => Zeroed(line) /\ Full(line)
  /\ ~ long => Zeroed(line) /\ 3 * line.l =< MaxLine

\* The history and where in it the operator is.
Browsing ==
  /\ history \in Seq(Entries) /\ Len(history) =< MaxHistory
  /\ inHistory \in -1 .. MaxHistory + 1
  /\ history # << >> => inHistory \in 0 .. Len(history) - 1

Flags ==
  /\ telnet \in BOOLEAN /\ esc \in {"none", "ESC", "["}
  /\ open \in BOOLEAN /\ config \in BOOLEAN /\ outside \in BOOLEAN
  /\ long \in BOOLEAN /\ ragged \in BOOLEAN
  /\ outside => open

(* The inductive invariant.                                                *)
Inv == LineGood /\ Browsing /\ Flags /\ StaysInside

(* The parts of the invariant after a step.                                *)
LEMMA InvNext ==
  /\ LineGood' <=> /\ Fitting(line')
                   /\ ~ ragged' => Zeroed(line') /\ Full(line')
                   /\ ~ long' => Zeroed(line') /\ 3 * line'.l =< MaxLine
  /\ Inv' <=> LineGood' /\ Browsing' /\ Flags' /\ StaysInside'
<1>1. LineGood' <=> /\ Fitting(line')
                    /\ ~ ragged' => Zeroed(line') /\ Full(line')
                    /\ ~ long' => Zeroed(line') /\ 3 * line'.l =< MaxLine
  BY DEF LineGood, Fitting, Zeroed, Full, Line, Cells
<1> QED  BY <1>1 DEF Inv

(* A line that was never long is far from the end of the buffer.           *)
LEMMA ShortHasRoom ==
  ASSUME Inv, ~ long
  PROVE  /\ Room(line) /\ ~ Rim(line) /\ line.l < MaxLine - 1 /\ ~ line.l = MaxLine
         /\ ~ ClearLength(line) > MaxLine /\ Zeroed(line) /\ Terminated(line)
<1>1. Fitting(line) /\ Zeroed(line) /\ 3 * line.l =< MaxLine  BY DEF Inv, LineGood
<1>2. line.l \in Nat /\ MaxLine \in Nat /\ MaxLine > 3  BY <1>1, LineParts, Sizes
<1>3. line.l < MaxLine - 2  BY <1>1, <1>2
<1>4. line.l \in Cells /\ line.cmd[line.l] = NUL
  BY <1>1, <1>2, <1>3 DEF Cells, Zeroed
<1> QED  BY <1>1, <1>2, <1>3, <1>4 DEF Room, Rim, ClearLength, Terminated

(* A key leaves the escape sequence and the negotiation.                   *)
LEMMA KeyReached ==
  ASSUME NEW k, Reach(k)
  PROVE  Serving /\ telnet' \in BOOLEAN /\ esc' \in {"none", "ESC", "["}
BY DEF Reach

(* What a key does to the line.                                            *)
LEMMA EditStep ==
  ASSUME Inv, NEW e, NEW overrun \in BOOLEAN, Edit(e, overrun), ragged' \in BOOLEAN,
         ~ overrun => /\ Fitting(e)
                      /\ ~ ragged' => Zeroed(e) /\ Full(e)
                      /\ ~ long => Zeroed(e),
         overrun /\ ~ ragged' => ~ ragged
  PROVE  /\ LineGood' /\ outside' = overrun /\ long' \in BOOLEAN
         /\ long => long'
<1>1. /\ line' = IF overrun THEN line ELSE e
      /\ outside' = overrun
      /\ long' = (long \/ (~ overrun /\ 3 * e.l > MaxLine))
  BY DEF Edit
<1>2. LineGood /\ long \in BOOLEAN  BY DEF Inv, Flags
<1>3. CASE overrun
  <2>1. line' = line /\ long' = long  BY <1>1, <1>2, <1>3
  <2>2. LineGood'  BY <1>2, <1>3, <2>1, InvNext DEF LineGood
  <2> QED  BY <1>1, <1>2, <2>1, <2>2
<1>4. CASE ~ overrun
  <2>1. line' = e /\ Fitting(e)  BY <1>1, <1>4
  <2>2. e.l \in Nat /\ MaxLine \in Nat  BY <2>1, LineParts, Sizes
  <2>3. long' \in BOOLEAN /\ (long => long') /\ (~ long' => ~ long /\ ~ 3 * e.l > MaxLine)
    BY <1>1, <1>2, <1>4
  <2>4. ~ long' => Zeroed(e) /\ 3 * e.l =< MaxLine  BY <1>4, <2>2, <2>3
  <2>5. LineGood'  BY <1>4, <2>1, <2>4, InvNext
  <2> QED  BY <1>1, <2>3, <2>5
<1> QED  BY <1>3, <1>4

(* A key that works on the line only keeps the invariant.                  *)
LEMMA EditKey ==
  ASSUME Inv, NEW k, Reach(k), NEW e, NEW overrun \in BOOLEAN, Edit(e, overrun),
         ragged' \in BOOLEAN, config' \in BOOLEAN,
         UNCHANGED <<inHistory, history, open>>,
         ~ overrun => /\ Fitting(e)
                      /\ ~ ragged' => Zeroed(e) /\ Full(e)
                      /\ ~ long => Zeroed(e),
         overrun => long,
         overrun /\ ~ ragged' => ~ ragged
  PROVE  Inv'
<1>1. LineGood' /\ outside' = overrun /\ long' \in BOOLEAN /\ (long => long')
  BY EditStep
<1>2. Serving /\ telnet' \in BOOLEAN /\ esc' \in {"none", "ESC", "["}  BY KeyReached
<1>3. Browsing'  BY DEF Inv, Browsing
<1>4. Flags'  BY <1>1, <1>2 DEF Inv, Flags, Serving
<1>5. StaysInside'  BY <1>1 DEF StaysInside
<1> QED  BY <1>1, <1>3, <1>4, <1>5, InvNext

(* The start of a connection.                                              *)
LEMMA StartGood ==
  ASSUME Start, outside' = FALSE, open' \in BOOLEAN
  PROVE  Inv'
<1>1. /\ line' = Fresh /\ telnet' = FALSE /\ esc' = "none" /\ inHistory' = 0
      /\ history' = << >> /\ config' = FALSE /\ long' = FALSE /\ ragged' = FALSE
  BY DEF Start
<1>2. LineGood'
  <2>1. 3 * Fresh.l =< MaxLine  BY FreshFits, Sizes
  <2> QED  BY <1>1, <2>1, FreshFits, InvNext
<1>3. Browsing'
  <2>1. << >> \in Seq(Entries) /\ Len(<< >>) = 0  OBVIOUS
  <2>2. MaxHistory \in Nat /\ 0 \in -1 .. MaxHistory + 1 /\ 0 =< MaxHistory  BY Sizes
  <2> QED  BY <1>1, <2>1, <2>2 DEF Browsing
<1>4. Flags'  BY <1>1 DEF Flags
<1>5. StaysInside'  BY DEF StaysInside
<1> QED  BY <1>2, <1>3, <1>4, <1>5, InvNext

(* A command that runs leaves a line and a history in order.               *)
LEMMA RunStep ==
  ASSUME Inv, Serving, NEW s, NEW next, NEW rg \in BOOLEAN, Run(s, next, rg),
         Fitting(next), ~ rg => Zeroed(next) /\ Full(next),
         ~ long => Zeroed(next) /\ 3 * next.l =< MaxLine,
         open' => history' \in Seq(Entries) /\ Len(history') =< MaxHistory
  PROVE  Inv'
<1>1. open = TRUE /\ outside = FALSE /\ long \in BOOLEAN /\ config \in BOOLEAN
  BY DEF Serving, Inv, Flags
<1>2. CASE open' = FALSE /\ Start /\ UNCHANGED outside
  BY <1>1, <1>2, StartGood
<1>3. CASE /\ config' \in IF Blank(s) THEN {config} ELSE BOOLEAN
           /\ line' = next /\ inHistory' = 0 /\ ragged' = rg
           /\ telnet' = FALSE /\ esc' = "none"
           /\ UNCHANGED <<open, outside, long>>
  <2>1. LineGood'  BY <1>3, InvNext
  <2>2. Browsing'
    <3>1. history' \in Seq(Entries) /\ Len(history') =< MaxHistory  BY <1>1, <1>3
    <3>2. 0 \in -1 .. MaxHistory + 1  BY Sizes
    <3>3. history' # << >> => 0 \in 0 .. Len(history') - 1  BY <3>1
    <3> QED  BY <1>3, <3>1, <3>2, <3>3 DEF Browsing
  <2>3. Flags'  BY <1>1, <1>3 DEF Flags
  <2>4. StaysInside'  BY <1>1, <1>3 DEF StaysInside
  <2> QED  BY <2>1, <2>2, <2>3, <2>4, InvNext
<1> QED  BY <1>2, <1>3 DEF Run
-----------------------------------------------------------------------------
(* A key that leaves the line alone.                                       *)
LEMMA LineKept ==
  ASSUME Inv, Serving, UNCHANGED <<line, outside, long, ragged, inHistory, history, open>>,
         telnet' \in BOOLEAN, esc' \in {"none", "ESC", "["}, config' \in BOOLEAN
  PROVE  Inv'
<1>1. LineGood'  BY InvNext DEF Inv, LineGood
<1>2. Browsing'  BY DEF Inv, Browsing
<1>3. Flags'  BY DEF Inv, Flags
<1>4. StaysInside'  BY DEF Inv, StaysInside
<1> QED  BY <1>1, <1>2, <1>3, <1>4, InvNext

(* ^D.                                                                     *)
LEMMA EndOfTextStep == ASSUME Inv, EndOfText PROVE Inv'
<1>1. CASE Reach("^D") /\ InLine /\ UNCHANGED <<line, outside, long, ragged>>
  <2>1. config' \in BOOLEAN  BY <1>1 DEF InLine, Inv, Flags
  <2> QED  BY <1>1, <2>1, KeyReached, LineKept DEF InLine
<1>2. CASE Serving /\ open' = FALSE /\ Start /\ UNCHANGED outside
  BY <1>2, StartGood DEF Serving, Inv, Flags
<1> QED  BY <1>1, <1>2 DEF EndOfText

(* The return key.                                                         *)
LEMMA EnterStep == ASSUME Inv, Enter PROVE Inv'
<1>1. Serving  BY DEF Enter
<1>2. Fitting(line) /\ history \in Seq(Entries) /\ Len(history) =< MaxHistory
  BY DEF Inv, LineGood, Browsing
<1>3. CASE line.l > 0 /\ ~ Terminated(line)
  <2>1. /\ outside' = TRUE /\ InLine /\ UNCHANGED <<line, telnet, esc, long, ragged>>
    BY <1>3 DEF Enter
  <2>2. long  BY <1>3, ShortHasRoom
  <2>3. LineGood'  BY <2>1, InvNext DEF Inv, LineGood
  <2>4. Browsing'  BY <2>1 DEF Inv, Browsing, InLine
  <2>5. Flags'  BY <1>1, <2>1 DEF Inv, Flags, InLine, Serving
  <2>6. StaysInside'  BY <2>1, <2>2 DEF StaysInside
  <2> QED  BY <2>3, <2>4, <2>5, <2>6, InvNext
<1>4. CASE ~ (line.l > 0 /\ ~ Terminated(line))
  <2> DEFINE s == IF line.l = 0 THEN << >> ELSE Text(line)
  <2>1. /\ Run(s, Fresh, FALSE)
        /\ open' => history' = history \/ history' = HistoryAdded(history, s)
    BY <1>4 DEF Enter
  <2>2. s \in Entries
    <3>1. << >> \in Entries  BY Sizes DEF Entries
    <3>2. line.l = 0 \/ Terminated(line)  BY <1>2, <1>4, LineParts
    <3> QED  BY <1>2, <3>1, <3>2, TextIsEntry
  <2> HIDE DEF s
  <2>3. open' => history' \in Seq(Entries) /\ Len(history') =< MaxHistory
    BY <1>2, <2>1, <2>2, HistoryFits
  <2>4. 3 * Fresh.l =< MaxLine  BY FreshFits, Sizes
  <2> QED  BY <1>1, <2>1, <2>3, <2>4, FreshFits, RunStep
<1> QED  BY <1>3, <1>4

(* A character; a question mark may run the line.                          *)
LEMMA TypeStep == ASSUME Inv, NEW c \in Chars, Type(c) PROVE Inv'
<1> DEFINE atEnd   == line.cursor = line.l
           e       == IF atEnd THEN Appended(line, c) ELSE Inserted(line, c)
           overrun == line.l = MaxLine
           rim     == IF atEnd THEN ~ Room(line) ELSE Rim(line)
           help    == c = "?" /\ ~ overrun /\ e.cursor = e.l /\ (atEnd => Room(line))
<1>1. /\ Reach(c) /\ Serving
      /\ \/ /\ ~ help
            /\ Edit(e, overrun)
            /\ ragged' = (ragged \/ rim) /\ InLine
         \/ /\ help /\ ~ Terminated(e)
            /\ outside' = TRUE /\ InLine /\ UNCHANGED <<line, long, ragged>>
         \/ /\ help /\ Terminated(e)
            /\ Run(Text(e), Resumed(e), ragged \/ rim)
            /\ open' => history' = history
  BY KeyReached DEF Type
<1>2. /\ Fitting(line) /\ ragged \in BOOLEAN /\ long \in BOOLEAN /\ config \in BOOLEAN
      /\ ~ ragged => Zeroed(line) /\ Full(line)
      /\ ~ long => Zeroed(line) /\ 3 * line.l =< MaxLine /\ ~ rim /\ ~ overrun
                   /\ line.l < MaxLine - 1
  BY ShortHasRoom DEF Inv, LineGood, Flags
<1>3. /\ line.l \in Nat /\ line.cursor \in Nat /\ line.cursor =< line.l
      /\ line.l =< MaxLine /\ MaxLine \in Nat
  BY <1>2, LineParts, Sizes
<1>4. ASSUME ~ overrun
      PROVE  /\ Fitting(e) /\ e.l =< line.l + 1
             /\ ~ rim => Kept(line, e)
             /\ e.l > 0 \/ (atEnd /\ ~ Room(line))
  <2>1. CASE atEnd
    <3>1. /\ Fitting(Appended(line, c)) /\ (Room(line) => Kept(line, Appended(line, c)))
          /\ Appended(line, c).l = line.l + (IF Room(line) THEN 1 ELSE 0)
      BY <1>2, <1>3, <1>4, <2>1, AppendedFits
    <3> QED  BY <1>3, <2>1, <3>1
  <2>2. CASE ~ atEnd
    <3>1. /\ Fitting(Inserted(line, c)) /\ (~ Rim(line) => Kept(line, Inserted(line, c)))
          /\ Inserted(line, c).l = (IF Rim(line) THEN line.l ELSE line.l + 1)
      BY <1>2, <1>3, <1>4, <2>2, InsertedFits
    <3> QED  BY <1>3, <2>2, <3>1
  <2> QED  BY <2>1, <2>2
<1>5. ASSUME ~ overrun, ~ rim PROVE Kept(line, e)  BY <1>4, <1>5
<1>6. rim \in BOOLEAN /\ overrun \in BOOLEAN
  <2>1. Rim(line) \in BOOLEAN /\ (~ Room(line)) \in BOOLEAN  BY DEF Room, Rim
  <2>2. rim = (~ Room(line)) \/ rim = Rim(line)  BY Zenon
  <2> HIDE DEF rim
  <2> QED  BY <2>1, <2>2
<1>7. help => ~ overrun /\ (atEnd => Room(line))  OBVIOUS
<1> HIDE DEF e, overrun, rim, help, atEnd
<1>8. CASE /\ Edit(e, overrun)
           /\ ragged' = (ragged \/ rim) /\ InLine
  <2>1. ragged' \in BOOLEAN /\ (~ ragged' => ~ ragged /\ ~ rim)  BY <1>2, <1>6, <1>8
  <2>2. ~ overrun => /\ Fitting(e)
                     /\ ~ ragged' => Zeroed(e) /\ Full(e)
                     /\ ~ long => Zeroed(e)
    BY <1>2, <1>4, <2>1 DEF Kept
  <2>3. config' \in BOOLEAN /\ UNCHANGED <<inHistory, history, open>>
    BY <1>2, <1>8 DEF InLine
  <2>4. overrun => long  BY <1>2
  <2> QED  BY <1>1, <1>6, <1>8, <2>1, <2>2, <2>3, <2>4, EditKey
<1>9. CASE /\ help /\ ~ Terminated(e)
           /\ outside' = TRUE /\ InLine /\ UNCHANGED <<line, long, ragged>>
  <2>1. long
    <3> SUFFICES ASSUME ~ long PROVE Terminated(e)  BY <1>9
    <3>1. Fitting(e) /\ Zeroed(e) /\ e.l =< line.l + 1
      BY <1>2, <1>4 DEF Kept
    <3>2. e.l \in Nat /\ e.l < MaxLine  BY <1>2, <1>3, <3>1, LineParts
    <3>3. e.l \in Cells  BY <1>3, <3>2 DEF Cells
    <3> QED  BY <3>1, <3>2, <3>3 DEF Terminated, Zeroed
  <2>2. LineGood'  BY <1>9, InvNext DEF Inv, LineGood
  <2>3. Browsing'  BY <1>9 DEF Inv, Browsing, InLine
  <2>4. Flags'  BY <1>1, <1>9, KeyReached DEF Inv, Flags, InLine, Serving
  <2>5. StaysInside'  BY <1>9, <2>1 DEF StaysInside
  <2> QED  BY <2>2, <2>3, <2>4, <2>5, InvNext
<1>10. CASE /\ help /\ Run(Text(e), Resumed(e), ragged \/ rim)
            /\ open' => history' = history
  <2>1. Fitting(e) /\ e.l > 0 /\ e.l =< line.l + 1  BY <1>4, <1>7, <1>10
  <2>2. /\ Fitting(Resumed(e)) /\ Kept(e, Resumed(e)) /\ Resumed(e).l = e.l - 1
    BY <2>1, ResumedFits
  <2>3. e.l \in Nat  BY <2>1, LineParts
  <2>4. ~ long => Zeroed(Resumed(e)) /\ 3 * Resumed(e).l =< MaxLine
    BY <1>2, <1>3, <1>4, <2>1, <2>2, <2>3 DEF Kept
  <2>5. ~ (ragged \/ rim) => Zeroed(Resumed(e)) /\ Full(Resumed(e))
    BY <1>2, <1>4, <1>7, <1>10, <2>2 DEF Kept
  <2>6. open' => history' \in Seq(Entries) /\ Len(history') =< MaxHistory
    BY <1>10 DEF Inv, Browsing
  <2>7. (ragged \/ rim) \in BOOLEAN  OBVIOUS
  <2> QED  BY <1>1, <1>10, <2>2, <2>4, <2>5, <2>6, <2>7, RunStep
<1> QED  BY <1>1, <1>8, <1>9, <1>10

(* Backspace, delete and ^W.                                               *)
LEMMA EraseStep == ASSUME Inv, Erase PROVE Inv'
<1>1. PICK k \in {"DEL", "^W"} :
        LET n == IF line.cursor = 0 THEN 0 ELSE IF k = "DEL" THEN 1
                                           ELSE line.cursor - WordStart(line)
            middle == n > 0 /\ line.cursor < line.l
        IN  /\ Reach(k)
            /\ Edit(ErasedBack(line, n),
                    middle /\ (line.l >= MaxLine - 1 \/ ~ Terminated(ErasedBack(line, n))))
            /\ UNCHANGED ragged /\ InLine
  BY DEF Erase
<1> DEFINE n == IF line.cursor = 0 THEN 0 ELSE IF k = "DEL" THEN 1
                                          ELSE line.cursor - WordStart(line)
           e == ErasedBack(line, n)
           overrun == n > 0 /\ line.cursor < line.l
                      /\ (line.l >= MaxLine - 1 \/ ~ Terminated(e))
<1>2. Reach(k) /\ Edit(e, overrun) /\ UNCHANGED ragged /\ InLine  BY <1>1
<1>3. /\ Fitting(line) /\ ragged \in BOOLEAN /\ config \in BOOLEAN
      /\ ~ ragged => Zeroed(line) /\ Full(line)
      /\ ~ long => Zeroed(line) /\ line.l < MaxLine - 1
  BY ShortHasRoom DEF Inv, LineGood, Flags
<1>4. /\ line.l \in Nat /\ line.cursor \in Nat /\ line.cursor =< line.l /\ MaxLine \in Nat
  BY <1>3, LineParts, Sizes
<1>5. n \in 0 .. line.cursor
  <2>1. WordStart(line) \in 0 .. line.cursor  BY <1>3, WordStartsBefore
  <2> QED  BY <1>4, <2>1
<1> HIDE DEF n
<1>6. line.cursor = line.l \/ line.l < MaxLine - 1 \/ n = 0 =>
        Fitting(e) /\ Kept(line, e) /\ e.l = line.l - n
  BY <1>3, <1>5, ErasedFits
<1>7. ~ overrun => Fitting(e) /\ Kept(line, e)
  BY <1>4, <1>5, <1>6
<1>8. overrun => long
  <2> SUFFICES ASSUME ~ long PROVE ~ overrun  OBVIOUS
  <2>1. Fitting(e) /\ Zeroed(e) /\ e.l = line.l - n  BY <1>3, <1>6 DEF Kept
  <2>2. e.l \in Cells /\ e.l >= e.l  BY <1>3, <1>4, <1>5, <2>1 DEF Cells
  <2>3. Terminated(e)
    <3> HIDE DEF e
    <3> QED  BY <2>1, <2>2 DEF Terminated, Zeroed
  <2> QED  BY <1>3, <1>4, <2>3
<1>9. overrun \in BOOLEAN  OBVIOUS
<1> HIDE DEF e, overrun
<1>10. /\ ~ overrun => /\ Fitting(e)
                       /\ ~ ragged' => Zeroed(e) /\ Full(e)
                       /\ ~ long => Zeroed(e)
       /\ ragged' \in BOOLEAN /\ config' \in BOOLEAN
       /\ UNCHANGED <<inHistory, history, open>>
  BY <1>2, <1>3, <1>7 DEF Kept, InLine
<1> QED  BY <1>2, <1>8, <1>9, <1>10, EditKey

(* ^U and ^K.                                                              *)
LEMMA ClearStep == ASSUME Inv, Clear PROVE Inv'
<1>1. /\ Fitting(line) /\ ragged \in BOOLEAN /\ config \in BOOLEAN
      /\ ~ ragged => Zeroed(line) /\ Full(line)
      /\ ~ long => Zeroed(line) /\ ~ ClearLength(line) > MaxLine
  BY ShortHasRoom DEF Inv, LineGood, Flags
<1>2. CASE Reach("^U") /\ Edit([cmd |-> Wiped(line).cmd, l |-> 0, cursor |-> 0],
                               ClearLength(line) > MaxLine)
           /\ UNCHANGED ragged /\ InLine
  <2> DEFINE e == [cmd |-> Wiped(line).cmd, l |-> 0, cursor |-> 0]
             overrun == ClearLength(line) > MaxLine
  <2>1. Fitting(e) /\ Full(e) /\ (Zeroed(line) => Zeroed(e))  BY <1>1, ClearedFits
  <2>2. Reach("^U") /\ Edit(e, overrun)  BY <1>2
  <2>3. overrun \in BOOLEAN /\ (overrun => long)  BY <1>1
  <2> HIDE DEF e, overrun
  <2>4. /\ ~ overrun => /\ Fitting(e)
                        /\ ~ ragged' => Zeroed(e) /\ Full(e)
                        /\ ~ long => Zeroed(e)
        /\ ragged' \in BOOLEAN /\ config' \in BOOLEAN /\ (~ ragged' => ~ ragged)
        /\ UNCHANGED <<inHistory, history, open>>
    BY <1>1, <1>2, <2>1 DEF InLine
  <2> QED  BY <2>2, <2>3, <2>4, EditKey
<1>3. CASE Reach("^K") /\ Edit(Killed(line), FALSE) /\ UNCHANGED ragged /\ InLine
  <2> DEFINE e == Killed(line)
  <2>1. Fitting(e) /\ Kept(line, e)  BY <1>1, ClearedFits
  <2>2. Reach("^K") /\ Edit(e, FALSE)  BY <1>3
  <2> HIDE DEF e
  <2>3. /\ Fitting(e)
        /\ ~ ragged' => Zeroed(e) /\ Full(e)
        /\ ~ long => Zeroed(e)
        /\ ragged' \in BOOLEAN /\ config' \in BOOLEAN
        /\ UNCHANGED <<inHistory, history, open>>
    BY <1>1, <1>3, <2>1 DEF InLine, Kept
  <2> QED  BY <2>2, <2>3, EditKey
<1> QED  BY <1>2, <1>3 DEF Clear

(* The cursor keys.                                                        *)
LEMMA MoveStep == ASSUME Inv, Move PROVE Inv'
<1>1. PICK m \in {<<"^B", IF line.cursor = 0 THEN 0 ELSE line.cursor - 1>>,
                  <<"^F", IF line.cursor < line.l THEN line.cursor + 1 ELSE line.l>>,
                  <<"^A", 0>>, <<"^E", line.l>>, <<"^L", line.cursor>>} :
        /\ Reach(m[1])
        /\ Edit([line EXCEPT !.cursor = m[2]], FALSE)
        /\ UNCHANGED ragged /\ InLine
  BY DEF Move
<1>2. /\ Fitting(line) /\ ragged \in BOOLEAN /\ config \in BOOLEAN
      /\ ~ ragged => Zeroed(line) /\ Full(line)
      /\ ~ long => Zeroed(line)
  BY DEF Inv, LineGood, Flags
<1>3. line.l \in Nat /\ line.cursor \in Nat /\ line.cursor =< line.l /\ line.l =< MaxLine
  BY <1>2, LineParts
<1>4. m[2] \in Nat /\ m[2] =< line.l  BY <1>1, <1>3
<1> DEFINE c == m[2]
           e == [line EXCEPT !.cursor = c]
<1>5. c \in Nat /\ c =< line.l /\ Edit(e, FALSE)  BY <1>1, <1>4
<1> HIDE DEF c
<1>6. e = [cmd |-> line.cmd, l |-> line.l, cursor |-> c]
  <2>1. line \in Line  BY <1>2 DEF Fitting
  <2> QED  BY <2>1 DEF Line
<1> HIDE DEF e
<1>7. Fitting(e) /\ Kept(line, e)
  <2>1. Fitting(e)  BY <1>2, <1>3, <1>5, <1>6, LineMade, LineParts
  <2> QED  BY <1>6, <2>1 DEF Kept, Zeroed, Full
<1>8. /\ ~ ragged' => Zeroed(e) /\ Full(e)
      /\ ~ long => Zeroed(e)
      /\ ragged' \in BOOLEAN /\ config' \in BOOLEAN
      /\ UNCHANGED <<inHistory, history, open>>
  BY <1>1, <1>2, <1>7 DEF InLine, Kept
<1> QED  BY <1>1, <1>5, <1>7, <1>8, EditKey

(* ^Z.                                                                     *)
LEMMA LeaveModeStep == ASSUME Inv, LeaveMode PROVE Inv'
<1>1. /\ Fitting(line) /\ ragged \in BOOLEAN /\ config \in BOOLEAN
      /\ ~ ragged => Zeroed(line) /\ Full(line)
      /\ ~ long => Zeroed(line) /\ ~ ClearLength(line) > MaxLine
  BY ShortHasRoom DEF Inv, LineGood, Flags
<1>2. Reach("^Z") /\ UNCHANGED <<inHistory, history, open>>  BY DEF LeaveMode
<1>3. CASE config
  <2> DEFINE e == Wiped(line)
             overrun == ClearLength(line) > MaxLine
  <2>1. Edit(e, overrun) /\ config' = FALSE /\ ragged' = (ragged \/ line.l > 0)
    BY <1>3 DEF LeaveMode
  <2>2. Fitting(e) /\ e.l = line.l /\ (Zeroed(line) => Zeroed(e))
    BY <1>1, ClearedFits
  <2>3. overrun \in BOOLEAN /\ (overrun => long)  BY <1>1
  <2>4. ragged' \in BOOLEAN /\ (~ ragged' => ~ ragged /\ line.l = 0)
    <3>1. line.l \in Nat  BY <1>1, LineParts
    <3>2. (line.l > 0) \in BOOLEAN /\ (~ line.l > 0 => line.l = 0)  BY <3>1
    <3> QED  BY <1>1, <2>1, <3>2
  <2> HIDE DEF e, overrun
  <2>5. e.l = 0 => Full(e)  BY DEF Full, Cells
  <2>6. ~ overrun => /\ Fitting(e)
                     /\ ~ ragged' => Zeroed(e) /\ Full(e)
                     /\ ~ long => Zeroed(e)
    BY <1>1, <2>2, <2>4, <2>5
  <2> QED  BY <1>2, <2>1, <2>3, <2>4, <2>6, EditKey
<1>4. CASE ~ config
  <2>1. UNCHANGED <<line, outside, long, config, ragged>>  BY <1>4 DEF LeaveMode
  <2> QED  BY <1>1, <1>2, <2>1, KeyReached, LineKept
<1> QED  BY <1>3, <1>4

(* TAB.                                                                    *)
LEMMA CompleteStep == ASSUME Inv, Complete PROVE Inv'
<1>1. /\ Fitting(line) /\ ragged \in BOOLEAN /\ config \in BOOLEAN
      /\ ~ ragged => Zeroed(line) /\ Full(line)
      /\ ~ long => Zeroed(line) /\ 3 * line.l =< MaxLine
  BY DEF Inv, LineGood, Flags
<1>2. Reach("^I") /\ UNCHANGED ragged /\ InLine  BY DEF Complete
<1>3. CASE UNCHANGED <<line, outside, long>>
  <2>1. config' \in BOOLEAN  BY <1>1, <1>2 DEF InLine
  <2> QED  BY <1>2, <1>3, <2>1, KeyReached, LineKept DEF InLine
<1>4. CASE /\ line.cursor = line.l /\ line.l < MaxLine
           /\ \E w \in Words :
                /\ IsPrefix([i \in 1 .. line.l - LastWord(line) |->
                               line.cmd[LastWord(line) + i - 1]], w)
                /\ Edit(Completed(line, w), LastWord(line) + Len(w) >= MaxLine)
  <2>1. PICK w \in Words :
          /\ IsPrefix([i \in 1 .. line.l - LastWord(line) |->
                         line.cmd[LastWord(line) + i - 1]], w)
          /\ Edit(Completed(line, w), LastWord(line) + Len(w) >= MaxLine)
    BY <1>4
  <2>2. w \in Seq(Chars) /\ 2 * Len(w) < MaxLine  BY <2>1, LineEditorAssumption, Zenon
  <2>3. /\ line.l \in Nat /\ LastWord(line) \in Nat /\ LastWord(line) =< line.l
        /\ MaxLine \in Nat /\ Len(w) \in Nat
    BY <1>1, <2>2, LineParts, LastWordInLine, Sizes
  <2>4. line.l - LastWord(line) =< Len(w)
    <3> DEFINE p == [i \in 1 .. line.l - LastWord(line) |-> line.cmd[LastWord(line) + i - 1]]
    <3>1. Len(p) = line.l - LastWord(line)  BY <2>3
    <3> HIDE DEF p
    <3>2. Len(p) =< Len(w)  BY <2>1 DEF IsPrefix, p
    <3> QED  BY <3>1, <3>2
  <2> DEFINE e == Completed(line, w)
             overrun == LastWord(line) + Len(w) >= MaxLine
  <2>5. ~ overrun => Fitting(e) /\ Kept(line, e)
    BY <1>1, <2>2, <2>3, <2>4, CompletedFits
  <2>6. overrun \in BOOLEAN /\ (overrun => long)  BY <1>1, <2>2, <2>3
  <2>7. Edit(e, overrun)  BY <2>1
  <2> HIDE DEF e, overrun
  <2>8. /\ ~ overrun => /\ Fitting(e)
                        /\ ~ ragged' => Zeroed(e) /\ Full(e)
                        /\ ~ long => Zeroed(e)
        /\ ragged' \in BOOLEAN /\ config' \in BOOLEAN
        /\ UNCHANGED <<inHistory, history, open>>
    BY <1>1, <1>2, <2>5 DEF InLine, Kept
  <2> QED  BY <1>2, <2>6, <2>7, <2>8, EditKey
<1> QED  BY <1>3, <1>4 DEF Complete

(* An entry of the history, or what is taken for one, is shown.            *)
LEMMA ShowStep ==
  ASSUME Inv, NEW j \in Nat, Show(j), j < MaxHistory => j < Len(history)
  PROVE  /\ LineGood' /\ long' \in BOOLEAN /\ ragged' \in BOOLEAN /\ outside' \in BOOLEAN
         /\ outside' => long' \/ j >= MaxHistory
         /\ j >= MaxHistory => outside'
<1> DEFINE overrun == j >= MaxHistory \/ ClearLength(line) > MaxLine
           e == IF overrun THEN line ELSE Holding(history[j + 1])
<1>1. Edit(e, overrun) /\ ragged' = (ragged /\ overrun)  BY DEF Show
<1>2. /\ history \in Seq(Entries) /\ ragged \in BOOLEAN /\ MaxHistory \in Nat
      /\ ~ long => ~ ClearLength(line) > MaxLine
  BY ShortHasRoom, Sizes DEF Inv, Browsing, Flags
<1>3. overrun \in BOOLEAN /\ (overrun => long \/ j >= MaxHistory)
      /\ (j >= MaxHistory => overrun)
  BY <1>2
<1>4. ~ overrun => Fitting(e) /\ Zeroed(e) /\ Full(e)
  <2> SUFFICES ASSUME ~ overrun PROVE Fitting(e) /\ Zeroed(e) /\ Full(e)  OBVIOUS
  <2>1. j < MaxHistory  BY <1>2
  <2>2. history[j + 1] \in Entries  BY <1>2, <2>1
  <2>3. e = Holding(history[j + 1])  OBVIOUS
  <2> QED  BY <2>2, <2>3, HoldingFits
<1> HIDE DEF e, overrun
<1>5. ragged' \in BOOLEAN /\ (overrun /\ ~ ragged' => ~ ragged)  BY <1>1, <1>2, <1>3
<1>6. LineGood' /\ outside' = overrun /\ long' \in BOOLEAN /\ (long => long')
  BY <1>1, <1>3, <1>4, <1>5, EditStep
<1> QED  BY <1>3, <1>5, <1>6

(* Browsing back and forth: what Up and Down have in common.               *)
LEMMA BrowseStep ==
  ASSUME Inv, NEW k, Reach(k), NEW j \in Int,
         UNCHANGED <<line, outside, long, ragged>> \/ (j \in Nat /\ Show(j)),
         inHistory' = IF outside' THEN inHistory ELSE j,
         UNCHANGED <<history, open, config>>,
         j \in -1 .. MaxHistory + 1,
         history # << >> => j \in 0 .. Len(history) - 1,
         history = << >> /\ j >= MaxHistory => UNCHANGED outside \/ inHistory > MaxHistory,
         history = << >> /\ j < MaxHistory => UNCHANGED <<line, outside, long, ragged>>
  PROVE  Inv'
<1>1. /\ outside = FALSE /\ open = TRUE /\ telnet' \in BOOLEAN /\ esc' \in {"none", "ESC", "["}
  BY KeyReached DEF Serving, Inv, Flags
<1>2. history \in Seq(Entries) /\ Len(history) =< MaxHistory /\ MaxHistory \in Nat
      /\ inHistory \in -1 .. MaxHistory + 1
      /\ (history # << >> => inHistory \in 0 .. Len(history) - 1)
  BY Sizes DEF Inv, Browsing
<1>3. /\ LineGood' /\ long' \in BOOLEAN /\ ragged' \in BOOLEAN /\ outside' \in BOOLEAN
      /\ outside' => long' \/ inHistory' > MaxHistory
  <2>1. CASE UNCHANGED <<line, outside, long, ragged>>
    <3>1. LineGood'  BY <2>1, InvNext DEF Inv, LineGood
    <3> QED  BY <1>1, <2>1, <3>1 DEF Inv, Flags
  <2>2. CASE ~ UNCHANGED <<line, outside, long, ragged>>
    <3>1. j \in Nat /\ Show(j)  BY <2>2
    <3>2. j < MaxHistory => j < Len(history)
      <4>1. CASE history = << >>  BY <2>2, <4>1
      <4>2. CASE history # << >>  BY <1>2, <4>2
      <4> QED  BY <4>1, <4>2
    <3>3. /\ LineGood' /\ long' \in BOOLEAN /\ ragged' \in BOOLEAN /\ outside' \in BOOLEAN
          /\ outside' => long' \/ j >= MaxHistory
          /\ j >= MaxHistory => outside'
      BY <3>1, <3>2, ShowStep
    <3>4. outside' /\ ~ long' => inHistory' > MaxHistory
      <4> SUFFICES ASSUME outside', ~ long' PROVE inHistory' > MaxHistory  OBVIOUS
      <4>1. j >= MaxHistory /\ inHistory' = inHistory  BY <3>3
      <4>2. history = << >>  BY <1>2, <4>1
      <4> QED  BY <1>1, <4>1, <4>2
    <3> QED  BY <3>3, <3>4
  <2> QED  BY <2>1, <2>2
<1>4. Browsing'
  <2>1. inHistory' = inHistory \/ inHistory' = j  OBVIOUS
  <2> QED  BY <1>2, <2>1 DEF Browsing
<1>5. Flags'  BY <1>1, <1>3 DEF Inv, Flags
<1>6. StaysInside'  BY <1>3 DEF StaysInside
<1> QED  BY <1>3, <1>4, <1>5, <1>6, InvNext

(* Up.                                                                     *)
LEMMA UpStep == ASSUME Inv, Up PROVE Inv'
<1> DEFINE i == inHistory - 1
           j == IF i < 0 THEN Len(history) - 1 ELSE i
           nothing == j < 0 \/ (j < MaxHistory /\ j >= Len(history))
<1>1. /\ Reach("^P")
      /\ IF nothing THEN UNCHANGED <<line, outside, long, ragged>> ELSE Show(j)
      /\ inHistory' = IF outside' THEN inHistory ELSE j
      /\ UNCHANGED <<history, open, config>>
  BY DEF Up
<1>2. Len(history) \in Nat /\ Len(history) =< MaxHistory /\ MaxHistory \in Nat
      /\ inHistory \in -1 .. MaxHistory + 1
      /\ (history # << >> => inHistory \in 0 .. Len(history) - 1)
      /\ (history = << >> <=> Len(history) = 0)
  BY Sizes DEF Inv, Browsing
<1>3. /\ j \in -1 .. MaxHistory + 1
      /\ history # << >> => j \in 0 .. Len(history) - 1
      /\ ~ nothing => j \in Nat
      /\ history = << >> /\ j >= MaxHistory => inHistory > MaxHistory
      /\ history = << >> /\ j < MaxHistory => nothing
  BY <1>2
<1> HIDE DEF j, nothing
<1>4. UNCHANGED <<line, outside, long, ragged>> \/ (j \in Nat /\ Show(j))
  BY <1>1, <1>3
<1> QED  BY <1>1, <1>3, <1>4, BrowseStep

(* Down.                                                                   *)
LEMMA DownStep == ASSUME Inv, Down PROVE Inv'
<1> DEFINE i == inHistory + 1
           j == IF ~ Past(i) THEN i ELSE IF history # << >> THEN 0 ELSE i
<1>1. /\ Reach("^N") /\ i =< MaxHistory + 1
      /\ IF history = << >> THEN UNCHANGED <<line, outside, long, ragged>> ELSE Show(j)
      /\ inHistory' = IF outside' THEN inHistory ELSE j
      /\ UNCHANGED <<history, open, config>>
  BY DEF Down
<1>2. Len(history) \in Nat /\ Len(history) =< MaxHistory /\ MaxHistory \in Nat
      /\ inHistory \in -1 .. MaxHistory + 1
      /\ (history # << >> => inHistory \in 0 .. Len(history) - 1)
      /\ (history = << >> <=> Len(history) = 0)
  BY Sizes DEF Inv, Browsing
<1>3. /\ j \in -1 .. MaxHistory + 1 /\ j \in Nat
      /\ history # << >> => j \in 0 .. Len(history) - 1
  BY <1>1, <1>2 DEF Past
<1> HIDE DEF j
<1>4. /\ UNCHANGED <<line, outside, long, ragged>> \/ Show(j)
      /\ history = << >> => UNCHANGED <<line, outside, long, ragged>>
  BY <1>1
<1> QED  BY <1>1, <1>3, <1>4, BrowseStep
-----------------------------------------------------------------------------
(* The first connection is not there yet.                                  *)
LEMMA InitInv == Init => Inv
<1> SUFFICES ASSUME Init PROVE Inv  OBVIOUS
<1>1. LineGood
  <2>1. 3 * Fresh.l =< MaxLine  BY FreshFits, Sizes
  <2> QED  BY <2>1, FreshFits DEF Init, LineGood
<1>2. Browsing
  <2>1. << >> \in Seq(Entries) /\ Len(<< >>) = 0  OBVIOUS
  <2>2. MaxHistory \in Nat /\ 0 \in -1 .. MaxHistory + 1 /\ 0 =< MaxHistory  BY Sizes
  <2> QED  BY <2>1, <2>2 DEF Browsing, Init
<1>3. Flags /\ StaysInside  BY DEF Init, Flags, StaysInside
<1> QED  BY <1>1, <1>2, <1>3 DEF Inv

(* Every byte and every event keeps the invariant.                         *)
LEMMA NextStep == Inv /\ [Next]_vars => Inv'
<1> SUFFICES ASSUME Inv, [Next]_vars PROVE Inv'  OBVIOUS
<1>1. CASE UNCHANGED vars
  <2>1. UNCHANGED <<line, outside, long, ragged, inHistory, history, open, telnet, esc, config>>
    BY <1>1 DEF vars, session
  <2>2. LineGood'  BY <2>1, InvNext DEF Inv, LineGood
  <2>3. Browsing'  BY <2>1 DEF Inv, Browsing
  <2>4. Flags' /\ StaysInside'  BY <2>1 DEF Inv, Flags, StaysInside
  <2> QED  BY <2>2, <2>3, <2>4, InvNext
<1>2. CASE Halted  BY <1>1, <1>2 DEF Halted
<1>3. CASE Accept
  <2>1. Start /\ outside' = FALSE /\ open' = TRUE  BY <1>3 DEF Accept, Inv, Flags
  <2> QED  BY <2>1, StartGood
<1>4. CASE HangUp
  <2>1. Start /\ outside' = FALSE /\ open' = FALSE
    BY <1>4 DEF HangUp, Serving, Inv, Flags
  <2> QED  BY <2>1, StartGood
<1>5. CASE Swallow
  <2>1. Serving /\ UNCHANGED <<line, inHistory, history, open, config, outside, long, ragged>>
    BY <1>5 DEF Swallow
  <2>2. telnet' \in BOOLEAN /\ esc' \in {"none", "ESC", "["}
    <3>1. PICK c \in Bytes :
            \/ telnet' = (c \in {"IAC", "OPT"}) /\ UNCHANGED esc
            \/ telnet' = FALSE /\ esc' \in {"none", "ESC", "["}
      BY <1>5, Zenon DEF Swallow
    <3>2. esc \in {"none", "ESC", "["}  BY DEF Inv, Flags
    <3>3. CASE telnet' = (c \in {"IAC", "OPT"}) /\ UNCHANGED esc
      <4>1. (c \in {"IAC", "OPT"}) \in BOOLEAN  OBVIOUS
      <4>2. telnet' \in BOOLEAN  BY <3>3, <4>1
      <4> QED  BY <3>2, <3>3, <4>2
    <3>4. CASE telnet' = FALSE /\ esc' \in {"none", "ESC", "["}
      BY <3>4
    <3> QED  BY <3>1, <3>3, <3>4
  <2>3. config' \in BOOLEAN  BY <2>1 DEF Inv, Flags
  <2> QED  BY <2>1, <2>2, <2>3, LineKept
<1>6. CASE EndOfText  BY <1>6, EndOfTextStep
<1>7. CASE Enter  BY <1>7, EnterStep
<1>8. CASE Erase  BY <1>8, EraseStep
<1>9. CASE Clear  BY <1>9, ClearStep
<1>10. CASE Move  BY <1>10, MoveStep
<1>11. CASE LeaveMode  BY <1>11, LeaveModeStep
<1>12. CASE Complete  BY <1>12, CompleteStep
<1>13. CASE Up  BY <1>13, UpStep
<1>14. CASE Down  BY <1>14, DownStep
<1>15. CASE \E c \in Chars : Type(c)  BY <1>15, TypeStep
<1> QED
  BY <1>1, <1>2, <1>3, <1>4, <1>5, <1>6, <1>7, <1>8, <1>9, <1>10, <1>11, <1>12,
     <1>13, <1>14, <1>15 DEF Next

(* The invariant holds in every reachable state.                           *)
LEMMA Invariance == Spec => []Inv
BY InitInv, NextStep, PTL DEF Spec

(* The cursor is inside the line and the line inside the buffer, whatever  *)
(* is typed (cli.c:1376-1734); the history holds at most what it has room  *)
(* for and is browsed at an entry that exists.                             *)
THEOREM LineEditorTypeCorrect == Spec => []TypeOK
<1>1. Inv => TypeOK  BY DEF Inv, TypeOK, LineGood, Fitting, Browsing, Flags
<1> QED  BY <1>1, Invariance, PTL

(* The text in the buffer is as long as the program thinks, but where a    *)
(* character was put on the rim of the buffer or ^Z cleared a text without *)
(* its length (cli.c:1376-1734).                                           *)
THEOREM TextAndLengthAgree == Spec => []LineIsString
<1>1. Inv => LineIsString  BY TextOfString DEF Inv, LineGood, LineIsString
<1> QED  BY <1>1, Invariance, PTL

(* No key touches memory outside of the buffer and the history as long as  *)
(* no line is longer than a third of the buffer (cli_clear_line sends      *)
(* three characters for each one, cli.c:1038-1044) and Down is not pressed *)
(* more than MAX_HISTORY times without a history (cli.c:1586-1632).        *)
THEOREM EditorStaysInside == Spec => []StaysInside
<1>1. Inv => StaysInside  BY DEF Inv
<1> QED  BY <1>1, Invariance, PTL

(* A question mark at the end of the line that does not fill the buffer    *)
(* gives the line and the history back as they were (cli.c:1738-1743,      *)
(* 1164-1171).                                                             *)
LEMMA HelpGivesBack ==
  ASSUME Inv, Type("?"), open', ~ outside', ~ ragged, ~ ragged', line.cursor = line.l
  PROVE  line' = line /\ history' = history
<1> DEFINE c == "?"
           e == Appended(line, c)
           overrun == line.l = MaxLine
           help == ~ overrun /\ e.cursor = e.l /\ Room(line)
<1>1. /\ Serving
      /\ \/ /\ ~ help
            /\ Edit(e, overrun)
            /\ ragged' = (ragged \/ ~ Room(line))
         \/ /\ help /\ outside' = TRUE
         \/ /\ help /\ Terminated(e)
            /\ Run(Text(e), Resumed(e), ragged \/ ~ Room(line))
            /\ open' => history' = history
  BY KeyReached DEF Type
<1>2. /\ Fitting(line) /\ Zeroed(line) /\ c \in Chars
  <2>1. c \in Chars  BY LineEditorAssumption, Zenon
  <2> QED  BY <2>1 DEF Inv, LineGood
<1>3. /\ line.l \in Nat /\ line.l =< MaxLine /\ MaxLine \in Nat
      /\ line.cmd \in [Cells -> Chars \cup {NUL}]
      /\ line = [cmd |-> line.cmd, l |-> line.l, cursor |-> line.cursor]
  BY <1>2, LineParts, Sizes
<1>4. e.cursor = e.l \/ overrun  BY <1>2, <1>3, AppendedFits
<1> HIDE DEF e, c
<1>5. overrun \in BOOLEAN  OBVIOUS
<1>6. help /\ Run(Text(e), Resumed(e), ragged \/ ~ Room(line)) /\ history' = history
  BY <1>1, <1>4, <1>5 DEF Edit
<1>7. line' = Resumed(e)  BY <1>6 DEF Run
<1>8. Room(line) /\ line.l \in Cells  BY <1>3, <1>6 DEF Cells
<1>9. e = [cmd |-> [line.cmd EXCEPT ![line.l] = c], l |-> line.l + 1, cursor |-> line.l + 1]
  BY <1>8 DEF Appended, e
<1>10. Resumed(e) = [cmd |-> [[line.cmd EXCEPT ![line.l] = c] EXCEPT ![line.l] = NUL],
                     l |-> line.l, cursor |-> line.l]
  <2>1. e.cmd = [line.cmd EXCEPT ![line.l] = c] /\ e.l = line.l + 1  BY <1>9
  <2>2. e.l - 1 = line.l  BY <1>3, <2>1
  <2>3. Resumed(e) = [cmd |-> [e.cmd EXCEPT ![e.l - 1] = NUL], l |-> e.l - 1,
                      cursor |-> e.l - 1]
    BY Zenon DEF Resumed
  <2> QED  BY ONLY <2>1, <2>2, <2>3, Zenon
<1>11. [[line.cmd EXCEPT ![line.l] = c] EXCEPT ![line.l] = NUL] = line.cmd
  <2>1. line.cmd[line.l] = NUL  BY <1>2, <1>3, <1>8 DEF Zeroed
  <2> DEFINE cmd == line.cmd
             l   == line.l
  <2>2. cmd \in [Cells -> Chars \cup {NUL}] /\ l \in Cells /\ cmd[l] = NUL
    BY <1>3, <1>8, <2>1
  <2> HIDE DEF cmd, l
  <2>3. [[cmd EXCEPT ![l] = c] EXCEPT ![l] = NUL] = cmd  BY <2>2
  <2> QED  BY <2>3 DEF cmd, l
<1> QED  BY <1>3, <1>6, <1>7, <1>10, <1>11

(* Asking for help in the middle of typing loses nothing, and the line     *)
(* that was run for it is not remembered.                                  *)
THEOREM HelpRestoresTheLine == Spec => HelpRestores
<1>1. Inv /\ [Next]_vars =>
        [/\ Type("?") /\ open' /\ ~ outside'
         /\ ~ ragged /\ ~ ragged' /\ line.cursor = line.l
         => line' = line /\ history' = history]_vars
  BY HelpGivesBack
<1> QED  BY <1>1, Invariance, PTL DEF Spec, HelpRestores
=============================================================================
