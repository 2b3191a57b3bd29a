--------------------------- MODULE HashMapProofs ----------------------------
(***************************************************************************)
(* Theorems about the hash map, for every set of keys, number of buckets   *)
(* and hash function: the chained buckets implement a map, and a walk      *)
(* visits every entry once even if its callback removes it.                *)
(***************************************************************************)
EXTENDS HashMap, ListLemmas

\* A list as hash_map_put leaves it: no key twice.
Unique(s) ==
  /\ s \in Seq(Pair)
  /\ \A i, j \in DOMAIN s : s[i].key = s[j].key => i = j

\* What hash_map_get finds in a list.
Lookup(s, k) == IF Found(s, k) THEN s[Position(s, k)].val ELSE NoVal

\* Where a key stands in a list.
IndexOf(s, k) == CHOOSE i \in DOMAIN s : s[i].key = k

\* The keys from the one with key k on.
KeysFrom(s, k) ==
  IF k = Nil THEN {} ELSE {s[i].key : i \in IndexOf(s, k) .. Len(s)}

\* Every entry is in the bucket its key hashes to, and no key is there twice.
TableOK ==
  /\ table \in [Buckets -> Seq(Pair)]
  /\ \A b \in Buckets : Unique(table[b])
  /\ \A b \in Buckets : \A k \in KeysOf(table[b]) : Hash[k] = b

\* A walk stands at an entry of the bucket it has come to.
WalkStands ==
  /\ walk \in Walks
  /\ walk.on /\ walk.head # Nil =>
       walk.bucket \in Buckets /\ walk.head \in KeysOf(table[walk.bucket])

Visited == {walk.visited[i] : i \in DOMAIN walk.visited}

\* What a walk has still to visit.
Remaining ==
  (IF walk.bucket \in Buckets THEN KeysFrom(table[walk.bucket], walk.head) ELSE {})
    \cup UNION {KeysOf(table[b]) : b \in walk.bucket + 1 .. Capacity - 1}

\* A walk has visited some of what it found once each, and will visit the rest.
WalkSplit ==
  walk.on =>
    /\ Visited \cup Remaining = walk.start
    /\ Visited \cap Remaining = {}
    /\ \A i, j \in DOMAIN walk.visited :
         walk.visited[i] = walk.visited[j] => i = j

(* The inductive invariant.                                                *)
Inv == TableOK /\ WalkStands /\ WalkSplit
-----------------------------------------------------------------------------
(* A comparison along a list stops at the only entry of its key.           *)
LEMMA EntryIsFound ==
  ASSUME NEW s, Unique(s), NEW i \in DOMAIN s
  PROVE  /\ Found(s, s[i].key)
         /\ Position(s, s[i].key) = i
         /\ IndexOf(s, s[i].key) = i
         /\ Lookup(s, s[i].key) = s[i].val
         /\ s[i] \in Pair /\ s[i].key \in Keys /\ s[i].val \in Vals
<1> DEFINE P == Pair
<1>0. s \in Seq(P)  BY DEF Unique
<1> HIDE DEF P
<1>9. s[i] \in P  BY <1>0
<1>1. s \in Seq(Pair) /\ s[i] \in Pair /\ s[i].key \in Keys /\ s[i].val \in Vals
  BY <1>0, <1>9 DEF P, Pair
<1>2. \A j \in DOMAIN s : s[j].key = s[i].key => j = i  BY DEF Unique
<1>3. DOMAIN s = 1 .. Len(s) /\ Len(s) \in Nat  BY <1>1
<1>4. \A j \in 1 .. i - 1 : j \in DOMAIN s /\ j # i  BY <1>3
<1>5. Position(s, s[i].key) = i  BY <1>2, <1>4 DEF Position
<1>6. IndexOf(s, s[i].key) = i  BY <1>2 DEF IndexOf
<1>7. Found(s, s[i].key)  BY DEF Found, KeysOf
<1> QED  BY <1>1, <1>5, <1>6, <1>7 DEF Lookup

(* A key that is found is the key of one entry.                            *)
LEMMA FoundHasEntry ==
  ASSUME NEW s, Unique(s), NEW k, k \in KeysOf(s)
  PROVE  \E i \in 1 .. Len(s) :
           /\ s[i].key = k /\ Position(s, k) = i /\ IndexOf(s, k) = i
           /\ \A j \in 1 .. Len(s) : s[j].key = k => j = i
<1>1. PICK i \in DOMAIN s : s[i].key = k  BY DEF KeysOf
<1>2. s \in Seq(Pair)  BY DEF Unique
<1>3. DOMAIN s = 1 .. Len(s)  BY <1>2
<1> QED  BY <1>1, <1>3, EntryIsFound DEF Unique

(* The value of a key that is found is a value, never NoVal.               *)
LEMMA LookupType ==
  ASSUME NEW s, Unique(s), NEW k
  PROVE  /\ Found(s, k) => Lookup(s, k) \in Vals /\ k \in Keys
         /\ Found(s, k) <=> Lookup(s, k) # NoVal
<1>1. ASSUME Found(s, k) PROVE Lookup(s, k) \in Vals /\ k \in Keys
  <2>1. PICK i \in DOMAIN s : s[i].key = k  BY <1>1 DEF Found, KeysOf
  <2> QED  BY <2>1, EntryIsFound
<1>2. ~ Found(s, k) => Lookup(s, k) = NoVal  BY DEF Lookup
<1> QED  BY <1>1, <1>2, HashMapAssumption

(* Replacing a value leaves every key where it is.                         *)
LEMMA PutReplaces ==
  ASSUME NEW s, Unique(s), NEW k \in Keys, NEW v \in Vals, Found(s, k)
  PROVE  /\ Unique(PutIn(s, k, v))
         /\ KeysOf(PutIn(s, k, v)) = KeysOf(s) \cup {k}
         /\ \A k2 : Lookup(PutIn(s, k, v), k2) =
                      IF k2 = k THEN v ELSE Lookup(s, k2)
<1> DEFINE r == PutIn(s, k, v)
<1>1. PICK i \in 1 .. Len(s) :
        /\ s[i].key = k /\ Position(s, k) = i
        /\ \A j \in 1 .. Len(s) : s[j].key = k => j = i
  BY FoundHasEntry DEF Found
<1>2. s \in Seq(Pair) /\ DOMAIN s = 1 .. Len(s)  BY DEF Unique
<1>3. r = [s EXCEPT ![i] = [s[i] EXCEPT !.val = v]]
  BY <1>1, <1>2 DEF PutIn
<1>4. \A j \in 1 .. Len(s) : s[j] \in Pair  BY <1>2
<1>5. /\ [s[i] EXCEPT !.val = v] \in Pair
      /\ [s[i] EXCEPT !.val = v].key = k /\ [s[i] EXCEPT !.val = v].val = v
  BY <1>1, <1>4 DEF Pair
<1>6. r \in Seq(Pair) /\ DOMAIN r = DOMAIN s
  BY <1>2, <1>3, <1>5
<1>7. \A j \in DOMAIN s : r[j].key = s[j].key
                        /\ r[j].val = IF j = i THEN v ELSE s[j].val
  BY <1>1, <1>2, <1>3, <1>5
<1> HIDE DEF r
<1>8. Unique(r)  BY <1>6, <1>7 DEF Unique
<1>9. KeysOf(r) = KeysOf(s) /\ k \in KeysOf(s)
  BY <1>6, <1>7 DEF KeysOf, Found
<1>10. ASSUME NEW k2
       PROVE  Lookup(r, k2) = IF k2 = k THEN v ELSE Lookup(s, k2)
  <2>1. CASE k2 \in KeysOf(s)
    <3>1. PICK j \in DOMAIN s : s[j].key = k2  BY <2>1 DEF KeysOf
    <3>2. Lookup(s, k2) = s[j].val  BY <3>1, EntryIsFound
    <3>3. Lookup(r, k2) = r[j].val  BY <1>6, <1>7, <1>8, <3>1, EntryIsFound
    <3>4. j = i <=> k2 = k  BY <1>1, <1>2, <3>1
    <3> QED  BY <1>7, <3>1, <3>2, <3>3, <3>4
  <2>2. CASE k2 \notin KeysOf(s)
    BY <1>9, <2>2 DEF Lookup, Found
  <2> QED  BY <2>1, <2>2
<1> QED  BY <1>8, <1>9, <1>10 DEF r

(* A new entry goes before the ones that are there.                        *)
LEMMA PutPrepends ==
  ASSUME NEW s, Unique(s), NEW k \in Keys, NEW v \in Vals, ~ Found(s, k)
  PROVE  /\ Unique(PutIn(s, k, v))
         /\ KeysOf(PutIn(s, k, v)) = KeysOf(s) \cup {k}
         /\ \A k2 : Lookup(PutIn(s, k, v), k2) =
                      IF k2 = k THEN v ELSE Lookup(s, k2)
<1> DEFINE e == [key |-> k, val |-> v]
           r == <<e>> \o s
<1>1. PutIn(s, k, v) = r  BY DEF PutIn
<1>2. s \in Seq(Pair) /\ DOMAIN s = 1 .. Len(s) /\ Len(s) \in Nat
  BY DEF Unique
<1>3. e \in Pair /\ e.key = k /\ e.val = v  BY DEF Pair
<1> HIDE DEF e
<1>4. r \in Seq(Pair) /\ Len(r) = Len(s) + 1
  BY <1>2, <1>3
<1>5. r[1] = e /\ \A j \in 1 .. Len(s) : r[j + 1] = s[j]
  BY <1>2, <1>3
<1> HIDE DEF r
<1>6. DOMAIN r = 1 .. Len(s) + 1  BY <1>4
<1>7. \A i \in DOMAIN r : i = 1 \/ (i - 1 \in DOMAIN s /\ r[i] = s[i - 1])
  <2> SUFFICES ASSUME NEW i \in DOMAIN r, i # 1
               PROVE  i - 1 \in DOMAIN s /\ r[i] = s[i - 1]
    OBVIOUS
  <2>1. i - 1 \in 1 .. Len(s) /\ (i - 1) + 1 = i  BY <1>2, <1>6
  <2> QED  BY <1>2, <1>5, <2>1
<1>8. \A j \in DOMAIN s : s[j].key # k  BY DEF Found, KeysOf
<1>9. Unique(r)
  <2>1. ASSUME NEW i \in DOMAIN r, NEW j \in DOMAIN r, r[i].key = r[j].key
        PROVE  i = j
    <3>1. CASE i = 1 /\ j = 1  BY <3>1
    <3>2. CASE i = 1 /\ j # 1  BY <1>3, <1>5, <1>7, <1>8, <2>1, <3>2
    <3>3. CASE i # 1 /\ j = 1  BY <1>3, <1>5, <1>7, <1>8, <2>1, <3>3
    <3>4. CASE i # 1 /\ j # 1
      <4>1. i - 1 = j - 1  BY <1>7, <2>1, <3>4 DEF Unique
      <4> QED  BY <1>2, <1>6, <4>1
    <3> QED  BY <3>1, <3>2, <3>3, <3>4
  <2> QED  BY <1>4, <2>1 DEF Unique
<1>10. \A j \in DOMAIN s : j + 1 \in DOMAIN r /\ r[j + 1] = s[j]
  BY <1>2, <1>5, <1>6
<1>11. 1 \in DOMAIN r  BY <1>2, <1>6
<1>12. KeysOf(r) = KeysOf(s) \cup {k}
  BY <1>3, <1>5, <1>7, <1>10, <1>11 DEF KeysOf
<1>13. ASSUME NEW k2
       PROVE  Lookup(r, k2) = IF k2 = k THEN v ELSE Lookup(s, k2)
  <2>1. CASE k2 = k  BY <1>3, <1>5, <1>9, <1>11, <2>1, EntryIsFound
  <2>2. CASE k2 # k /\ k2 \in KeysOf(s)
    <3>1. PICK j \in DOMAIN s : s[j].key = k2  BY <2>2 DEF KeysOf
    <3>2. Lookup(s, k2) = s[j].val  BY <3>1, EntryIsFound
    <3>3. Lookup(r, k2) = s[j].val  BY <1>9, <1>10, <3>1, EntryIsFound
    <3> QED  BY <2>2, <3>2, <3>3
  <2>3. CASE k2 # k /\ k2 \notin KeysOf(s)
    BY <1>12, <2>3 DEF Lookup, Found
  <2> QED  BY <2>1, <2>2, <2>3
<1> QED  BY <1>1, <1>9, <1>12, <1>13

(* hash_map_put on a list: the key has the value, the others keep theirs.  *)
LEMMA PutInList ==
  ASSUME NEW s, Unique(s), NEW k \in Keys, NEW v \in Vals
  PROVE  /\ Unique(PutIn(s, k, v))
         /\ KeysOf(PutIn(s, k, v)) = KeysOf(s) \cup {k}
         /\ \A k2 : Lookup(PutIn(s, k, v), k2) =
                      IF k2 = k THEN v ELSE Lookup(s, k2)
BY PutReplaces, PutPrepends

(* hash_map_remove on a list: the key is gone, the others keep theirs.     *)
LEMMA RemoveFromList ==
  ASSUME NEW s, Unique(s), NEW k \in Keys
  PROVE  /\ Unique(RemoveFrom(s, k))
         /\ KeysOf(RemoveFrom(s, k)) = KeysOf(s) \ {k}
         /\ \A k2 : Lookup(RemoveFrom(s, k), k2) =
                      IF k2 = k THEN NoVal ELSE Lookup(s, k2)
<1>1. CASE ~ Found(s, k)
  BY <1>1 DEF RemoveFrom, Found, Lookup
<1>2. CASE Found(s, k)
  <2> DEFINE r == RemoveFrom(s, k)
  <2>1. PICK i \in 1 .. Len(s) :
          /\ s[i].key = k /\ Position(s, k) = i
          /\ \A j \in 1 .. Len(s) : s[j].key = k => j = i
    BY <1>2, FoundHasEntry DEF Found
  <2>2. s \in Seq(Pair) /\ DOMAIN s = 1 .. Len(s) /\ Len(s) \in Nat
    BY DEF Unique
  <2>3. r = RemoveAt(s, i)  BY <1>2, <2>1 DEF RemoveFrom
  <2> HIDE DEF r
  <2>4. r \in Seq(Pair) /\ Len(r) = Len(s) - 1 /\ Skips(r, s, i)
    BY <2>2, <2>3, RemoveAtSkips
  <2>5. DOMAIN r = 1 .. Len(r)  BY <2>4
  <2>6. PICK up \in [1 .. Len(r) -> 1 .. Len(s)] :
          /\ \A j \in 1 .. Len(r) : r[j] = s[up[j]] /\ up[j] # i
          /\ \A j, m \in 1 .. Len(r) : j < m => up[j] < up[m]
          /\ \A m \in 1 .. Len(s) : m # i => \E j \in 1 .. Len(r) : up[j] = m
    BY <2>4 DEF Skips
  <2>7. Unique(r)
    <3>1. ASSUME NEW j \in 1 .. Len(r), NEW m \in 1 .. Len(r), r[j].key = r[m].key
          PROVE  j = m
      <4>0. up[j] \in DOMAIN s /\ up[m] \in DOMAIN s /\ s[up[j]].key = s[up[m]].key
        BY <2>2, <2>6, <3>1
      <4>1. up[j] = up[m]  BY <4>0 DEF Unique
      <4>2. up[j] \in Int /\ j \in Int /\ m \in Int  BY <2>2, <2>6
      <4>3. ~ (j < m) /\ ~ (m < j)  BY <2>6, <4>1, <4>2
      <4> QED  BY <4>2, <4>3
    <3> QED  BY <2>4, <2>5, <3>1 DEF Unique
  <2>8. KeysOf(r) = KeysOf(s) \ {k}
    <3>1. ASSUME NEW j \in DOMAIN r PROVE r[j].key \in KeysOf(s) \ {k}
      BY <2>1, <2>2, <2>5, <2>6 DEF KeysOf
    <3>2. ASSUME NEW m \in DOMAIN s, s[m].key # k PROVE s[m].key \in KeysOf(r)
      <4>1. m # i  BY <2>1, <3>2
      <4>2. PICK j \in 1 .. Len(r) : up[j] = m  BY <2>2, <2>6, <4>1
      <4> QED  BY <2>5, <2>6, <4>2 DEF KeysOf
    <3> QED  BY <3>1, <3>2 DEF KeysOf
  <2>9. ASSUME NEW k2
        PROVE  Lookup(r, k2) = IF k2 = k THEN NoVal ELSE Lookup(s, k2)
    <3>1. CASE k2 \in KeysOf(r)
      <4>1. PICK j \in 1 .. Len(r) : r[j].key = k2  BY <2>5, <3>1 DEF KeysOf
      <4>2. Lookup(r, k2) = r[j].val  BY <2>5, <2>7, <4>1, EntryIsFound
      <4>3. Lookup(s, k2) = s[up[j]].val /\ r[j] = s[up[j]]
        <5>1. up[j] \in DOMAIN s /\ r[j] = s[up[j]]  BY <2>2, <2>6
        <5>2. s[up[j]].key = k2  BY <4>1, <5>1
        <5> QED  BY <5>1, <5>2, EntryIsFound
      <4> QED  BY <2>8, <3>1, <4>2, <4>3
    <3>2. CASE k2 \notin KeysOf(r)  BY <2>8, <3>2 DEF Lookup, Found
    <3> QED  BY <3>1, <3>2
  <2> QED  BY <2>7, <2>8, <2>9 DEF r
<1> QED  BY <1>1, <1>2
-----------------------------------------------------------------------------
(* The node after an entry, before and after the entry is removed: the     *)
(* rest of the list is the same.                                           *)
LEMMA AfterInList ==
  ASSUME NEW s, Unique(s), NEW k, k \in KeysOf(s)
  PROVE  /\ k \in Keys /\ k \in KeysFrom(s, k)
         /\ After(s, k) # Nil =>
              /\ After(s, k) \in KeysOf(s)
              /\ After(s, k) \in KeysOf(RemoveFrom(s, k))
         /\ KeysFrom(s, After(s, k)) = KeysFrom(s, k) \ {k}
         /\ KeysFrom(RemoveFrom(s, k), After(s, k)) = KeysFrom(s, k) \ {k}
         /\ After(s, k) \in Keys \cup {Nil}
<1> DEFINE n == After(s, k)
           r == RemoveFrom(s, k)
<1>1. PICK i \in 1 .. Len(s) :
        /\ s[i].key = k /\ Position(s, k) = i /\ IndexOf(s, k) = i
        /\ \A j \in 1 .. Len(s) : s[j].key = k => j = i
  BY FoundHasEntry
<1>2. s \in Seq(Pair) /\ DOMAIN s = 1 .. Len(s) /\ Len(s) \in Nat
  BY DEF Unique
<1>3. k \in Keys /\ k # Nil
  BY <1>1, <1>2, EntryIsFound, HashMapAssumption
<1>0. Len(s) \in Int /\ i \in Int /\ 1 <= i /\ i <= Len(s)
  BY <1>2
<1>4. KeysFrom(s, k) = {s[j].key : j \in i .. Len(s)}
  BY <1>1, <1>3 DEF KeysFrom
<1>5. r = RemoveAt(s, i)
  BY <1>1 DEF RemoveFrom, Found
<1>6. Unique(r) /\ KeysOf(r) = KeysOf(s) \ {k}
  BY <1>3, RemoveFromList
<1>7. n = IF i < Len(s) THEN s[i + 1].key ELSE Nil
  BY <1>1 DEF After, IndexOf
<1>8. /\ Len(r) = Len(s) - 1 /\ r \in Seq(Pair)
      /\ \A j \in 1 .. Len(s) - 1 : r[j] = IF j < i THEN s[j] ELSE s[j + 1]
  BY <1>2, <1>5, RemoveAtElements
<1> HIDE DEF n, r
<1>9. k \in KeysFrom(s, k)
  <2>1. i \in i .. Len(s)  BY <1>2
  <2> QED  BY <1>1, <1>4, <2>1
<1>10. CASE i = Len(s)
  <2>1. n = Nil  BY <1>2, <1>7, <1>10
  <2>2. KeysFrom(s, n) = {} /\ KeysFrom(r, n) = {}  BY <2>1 DEF KeysFrom
  <2>3. \A j \in i .. Len(s) : j = i  BY <1>0, <1>10
  <2>4. KeysFrom(s, k) \ {k} = {}  BY <1>1, <1>4, <2>3
  <2> QED  BY <1>3, <1>9, <2>1, <2>2, <2>4 DEF n, r
<1>11. CASE i < Len(s)
  <2>1. i + 1 \in DOMAIN s /\ n = s[i + 1].key  BY <1>2, <1>7, <1>11
  <2>2. n \in Keys /\ n # Nil /\ n \in KeysOf(s) /\ IndexOf(s, n) = i + 1
    BY <2>1, EntryIsFound, HashMapAssumption DEF KeysOf
  <2>3. n # k  BY <1>1, <1>2, <2>1
  <2>4. i \in DOMAIN r /\ r[i] = s[i + 1]
    BY <1>2, <1>8, <1>11
  <2>5. IndexOf(r, n) = i  BY <1>6, <2>1, <2>4, EntryIsFound
  <2>6. KeysFrom(s, n) = {s[j].key : j \in i + 1 .. Len(s)}
    BY <2>2 DEF KeysFrom
  <2>7. KeysFrom(r, n) = {r[j].key : j \in i .. Len(s) - 1}
    BY <1>8, <2>2, <2>5 DEF KeysFrom
  <2>8. KeysFrom(s, n) = KeysFrom(s, k) \ {k}
    <3>1. \A j \in i + 1 .. Len(s) :
            j \in i .. Len(s) /\ j \in 1 .. Len(s) /\ j # i
      BY <1>2
    <3>2. \A j \in i .. Len(s) : j = i \/ j \in i + 1 .. Len(s)
      BY <1>2
    <3> QED  BY <1>1, <1>4, <2>6, <3>1, <3>2
  <2>9. KeysFrom(r, n) = KeysFrom(s, n)
    <3>1. \A j \in i .. Len(s) - 1 :
            j + 1 \in i + 1 .. Len(s) /\ r[j] = s[j + 1]
      BY <1>2, <1>8
    <3>2. \A j \in i + 1 .. Len(s) :
            j - 1 \in i .. Len(s) - 1 /\ r[j - 1] = s[j]
      <4> SUFFICES ASSUME NEW j \in i + 1 .. Len(s)
                   PROVE  j - 1 \in i .. Len(s) - 1 /\ r[j - 1] = s[j]
        OBVIOUS
      <4>1. j - 1 \in i .. Len(s) - 1 /\ (j - 1) + 1 = j  BY <1>2
      <4> QED  BY <3>1, <4>1
    <3> QED  BY <2>6, <2>7, <3>1, <3>2
  <2> QED  BY <1>3, <1>6, <1>9, <2>2, <2>3, <2>8, <2>9 DEF n, r
<1> QED  BY <1>0, <1>10, <1>11

(* A list is walked from its first node.                                   *)
LEMMA HeadInList ==
  ASSUME TableOK, NEW b \in 0 .. Capacity
  PROVE  /\ HeadOf(b) \in Keys \cup {Nil}
         /\ HeadOf(b) # Nil => b \in Buckets /\ HeadOf(b) \in KeysOf(table[b])
         /\ b \in Buckets => KeysFrom(table[b], HeadOf(b)) = KeysOf(table[b])
<1>1. CASE b \notin Buckets
  <2>1. ~ (b < Capacity)  BY <1>1, HashMapAssumption DEF Buckets
  <2> QED  BY <1>1, <2>1 DEF HeadOf
<1>2. CASE b \in Buckets
  <2> DEFINE s == table[b]
  <2>1. Unique(s)  BY <1>2 DEF TableOK
  <2>2. b < Capacity  BY <1>2, HashMapAssumption DEF Buckets
  <2>3. HeadOf(b) = IF s = <<>> THEN Nil ELSE s[1].key  BY <2>2 DEF HeadOf
  <2> HIDE DEF s
  <2>4. s \in Seq(Pair) /\ DOMAIN s = 1 .. Len(s) /\ Len(s) \in Nat
    BY <2>1 DEF Unique
  <2>5. CASE s = <<>>
    <3>1. DOMAIN s = {}  BY <2>5
    <3>2. KeysOf(s) = {}  BY <3>1 DEF KeysOf
    <3> QED  BY <2>3, <2>5, <3>2 DEF KeysFrom, s
  <2>6. CASE s # <<>>
    <3>1. 1 \in DOMAIN s  BY <2>4, <2>6
    <3>2. s[1].key \in Keys /\ s[1].key # Nil /\ IndexOf(s, s[1].key) = 1
      BY <2>1, <3>1, EntryIsFound, HashMapAssumption
    <3>3. KeysFrom(s, s[1].key) = KeysOf(s)
      BY <2>4, <3>2 DEF KeysFrom, KeysOf
    <3>4. s[1].key \in KeysOf(s)  BY <3>1 DEF KeysOf
    <3> QED  BY <1>2, <2>3, <2>6, <3>2, <3>3, <3>4 DEF s
  <2> QED  BY <2>5, <2>6
<1> QED  BY <1>1, <1>2

(* The value of a key, as a map.                                           *)
LEMMA ContentsAreLookups ==
  /\ Contents = [k \in Keys |-> Lookup(table[Hash[k]], k)]
  /\ Contents' = [k \in Keys |-> Lookup(table[Hash[k]], k)']
BY DEF Contents, Lookup

(* A change of one key in the bucket it hashes to changes the map there.   *)
LEMMA BucketStep ==
  ASSUME TableOK, NEW k \in Keys, NEW w, NEW s, Unique(s),
         KeysOf(s) \subseteq KeysOf(table[Hash[k]]) \cup {k},
         \A k2 : Lookup(s, k2) = IF k2 = k THEN w ELSE Lookup(table[Hash[k]], k2),
         table' = [table EXCEPT ![Hash[k]] = s]
  PROVE  TableOK' /\ Contents' = [Contents EXCEPT ![k] = w]
<1>1. table \in [Buckets -> Seq(Pair)] /\ s \in Seq(Pair)  BY DEF TableOK, Unique
<1>2. Hash[k] \in Buckets /\ \A k2 \in Keys : Hash[k2] \in Buckets
  BY HashMapAssumption
<1>3. \A b \in Buckets : table'[b] = IF b = Hash[k] THEN s ELSE table[b]
  BY <1>1
<1>4. TableOK'
  <2>1. table' \in [Buckets -> Seq(Pair)]  BY <1>1, <1>2
  <2>2. \A b \in Buckets : Unique(table'[b])  BY <1>3 DEF TableOK
  <2>3. ASSUME NEW b \in Buckets, NEW x \in KeysOf(table'[b]) PROVE Hash[x] = b
    <3>1. CASE b = Hash[k]
      <4>1. x \in KeysOf(table[b]) \/ x = k  BY <1>3, <2>3, <3>1
      <4> QED  BY <3>1, <4>1 DEF TableOK
    <3>2. CASE b # Hash[k]  BY <1>3, <2>3, <3>2 DEF TableOK
    <3> QED  BY <3>1, <3>2
  <2> QED  BY <2>1, <2>2, <2>3 DEF TableOK, Unique, KeysOf
<1>5. \A k2 \in Keys : Lookup(table'[Hash[k2]], k2) =
                        IF k2 = k THEN w ELSE Lookup(table[Hash[k2]], k2)
  BY <1>2, <1>3
<1>6. Contents' = [k2 \in Keys |-> Lookup(table'[Hash[k2]], k2)]
  BY DEF Contents, Lookup, Found, KeysOf, Position
<1>7. Contents = [k2 \in Keys |-> Lookup(table[Hash[k2]], k2)]
  BY DEF Contents, Lookup
<1>8. [Contents EXCEPT ![k] = w] =
        [k2 \in Keys |-> IF k2 = k THEN w ELSE Lookup(table[Hash[k2]], k2)]
  BY <1>7
<1> QED  BY <1>4, <1>5, <1>6, <1>8
-----------------------------------------------------------------------------
(* The empty map, and nothing walks it.                                    *)
LEMMA InitInv == Init => Inv
<1> SUFFICES ASSUME Init PROVE Inv  OBVIOUS
<1>1. \A b \in Buckets : table[b] = <<>>  BY DEF Init
<1>2. DOMAIN << >> = {} /\ << >> \in Seq(Pair)  OBVIOUS
<1>3. Unique(<< >>) /\ KeysOf(<< >>) = {}  BY <1>2 DEF Unique, KeysOf
<1>4. TableOK  BY <1>1, <1>2, <1>3 DEF Init, TableOK
<1>5. walk \in Walks /\ walk.on = FALSE
  BY HashMapAssumption DEF Init, Walks
<1> QED  BY <1>4, <1>5 DEF Inv, WalkStands, WalkSplit

(* An operation between two walks need only keep the table in order.       *)
LEMMA NoWalk ==
  ASSUME Inv, Idle, walk' = walk, TableOK'
  PROVE  Inv'
BY DEF Inv, Idle, WalkStands, WalkSplit

(* hash_map_put.                                                           *)
LEMMA PutStep ==
  ASSUME Inv, NEW k \in Keys, NEW v \in Vals, Put(k, v)
  PROVE  Inv' /\ Contents' = [Contents EXCEPT ![k] = v]
<1> DEFINE s == table[Hash[k]]
<1>1. TableOK /\ Idle /\ walk' = walk /\ Hash[k] \in Buckets
  BY HashMapAssumption DEF Inv, Put
<1>2. Unique(s)  BY <1>1 DEF TableOK
<1>3. table' = [table EXCEPT ![Hash[k]] = PutIn(s, k, v)]
  BY DEF Put
<1>4. /\ Unique(PutIn(s, k, v))
      /\ KeysOf(PutIn(s, k, v)) = KeysOf(s) \cup {k}
      /\ \A k2 : Lookup(PutIn(s, k, v), k2) = IF k2 = k THEN v ELSE Lookup(s, k2)
  BY <1>2, PutInList
<1>5. TableOK' /\ Contents' = [Contents EXCEPT ![k] = v]
  BY <1>1, <1>3, <1>4, BucketStep
<1> QED  BY <1>1, <1>5, NoWalk

(* What hash_map_remove does to the table, called from a walk or not.      *)
LEMMA RemoveTable ==
  ASSUME TableOK, NEW k \in Keys,
         table' = [table EXCEPT ![Hash[k]] = RemoveFrom(@, k)]
  PROVE  TableOK' /\ Contents' = [Contents EXCEPT ![k] = NoVal]
<1> DEFINE s == table[Hash[k]]
<1>1. Hash[k] \in Buckets  BY HashMapAssumption
<1>2. Unique(s)  BY <1>1 DEF TableOK
<1>3. table' = [table EXCEPT ![Hash[k]] = RemoveFrom(s, k)]
  OBVIOUS
<1>4. /\ Unique(RemoveFrom(s, k))
      /\ KeysOf(RemoveFrom(s, k)) = KeysOf(s) \ {k}
      /\ \A k2 : Lookup(RemoveFrom(s, k), k2) = IF k2 = k THEN NoVal ELSE Lookup(s, k2)
  BY <1>2, RemoveFromList
<1> QED  BY <1>3, <1>4, BucketStep

(* hash_map_work starts: everything that is there remains to be visited.   *)
LEMMA StartStep ==
  ASSUME Inv, NEW r \in BOOLEAN, StartWalk(r)
  PROVE  Inv'
<1> DEFINE all == UNION {KeysOf(table[b]) : b \in Buckets}
<1>1. TableOK /\ table' = table  BY DEF Inv, StartWalk
<1>2. walk' = [on |-> TRUE, removing |-> r, bucket |-> 0, head |-> HeadOf(0),
               start |-> all, visited |-> <<>>]
  BY DEF StartWalk
<1>3. 0 \in Buckets /\ 0 \in 0 .. Capacity  BY HashMapAssumption DEF Buckets
<1>4. /\ HeadOf(0) \in Keys \cup {Nil}
      /\ HeadOf(0) # Nil => HeadOf(0) \in KeysOf(table[0])
      /\ KeysFrom(table[0], HeadOf(0)) = KeysOf(table[0])
  BY <1>1, <1>3, HeadInList
<1>5. all \subseteq Keys
  <2>1. ASSUME NEW b \in Buckets, NEW k \in KeysOf(table[b]) PROVE k \in Keys
    <3>1. Unique(table[b])  BY <1>1 DEF TableOK
    <3>2. PICK i \in DOMAIN table[b] : table[b][i].key = k  BY DEF KeysOf
    <3> QED  BY <3>1, <3>2, EntryIsFound
  <2> QED  BY <2>1
<1>6. TableOK'  BY <1>1 DEF TableOK, Unique, KeysOf
<1> HIDE DEF all
<1>7. WalkStands'
  <2>1. walk' \in Walks
    BY <1>2, <1>3, <1>4, <1>5 DEF Walks
  <2> QED  BY <1>1, <1>2, <1>3, <1>4, <2>1 DEF WalkStands, KeysOf
<1>8. Visited' = {}
  <2>1. DOMAIN walk'.visited = {}  BY <1>2
  <2> QED  BY <2>1 DEF Visited
<1>9. Remaining' = all
  <2>1. Remaining' = KeysOf(table[0]) \cup UNION {KeysOf(table[b]) : b \in 1 .. Capacity - 1}
    <3>1. walk'.bucket = 0 /\ walk'.head = HeadOf(0) /\ 0 + 1 = 1  BY <1>2
    <3>2. Remaining' = (IF 0 \in Buckets THEN KeysFrom(table[0], HeadOf(0)) ELSE {})
                         \cup UNION {KeysOf(table[b]) : b \in 0 + 1 .. Capacity - 1}
      BY <1>1, <3>1 DEF Remaining, KeysFrom, KeysOf, IndexOf
    <3> QED  BY <1>3, <1>4, <3>1, <3>2
  <2>2. \A b : b \in Buckets <=> b = 0 \/ b \in 1 .. Capacity - 1
    BY HashMapAssumption DEF Buckets
  <2> QED  BY <2>1, <2>2 DEF all
<1>10. WalkSplit'
  <2>1. walk'.start = all /\ DOMAIN walk'.visited = {}  BY <1>2
  <2> QED  BY <1>8, <1>9, <2>1 DEF WalkSplit
<1> QED  BY <1>6, <1>7, <1>10 DEF Inv

(* One callback: the entry is visited, and perhaps removed.                *)
LEMMA VisitStep ==
  ASSUME Inv, Visit
  PROVE  /\ Inv'
         /\ walk.head \in Keys
         /\ Contents' = IF walk.removing THEN [Contents EXCEPT ![walk.head] = NoVal]
                                         ELSE Contents
<1> DEFINE k == walk.head
           b == walk.bucket
           s == table[b]
           n == After(s, k)
<1>1. /\ TableOK /\ walk \in Walks /\ walk.on /\ k # Nil
      /\ b \in Buckets /\ k \in KeysOf(s)
  BY DEF Inv, WalkStands, Visit
<1>2. Unique(s) /\ Hash[k] = b  BY <1>1 DEF TableOK
<1>3. /\ k \in Keys /\ k \in KeysFrom(s, k)
      /\ n # Nil => n \in KeysOf(s) /\ n \in KeysOf(RemoveFrom(s, k))
      /\ KeysFrom(s, n) = KeysFrom(s, k) \ {k}
      /\ KeysFrom(RemoveFrom(s, k), n) = KeysFrom(s, k) \ {k}
      /\ n \in Keys \cup {Nil}
  BY <1>1, <1>2, AfterInList
<1>4. walk' = [walk EXCEPT !.head = n, !.visited = Append(walk.visited, k)]
  BY DEF Visit, NextNode
<1>5. /\ walk'.on = walk.on /\ walk'.bucket = b /\ walk'.head = n
      /\ walk'.start = walk.start /\ walk'.visited = Append(walk.visited, k)
      /\ walk' \in Walks
  <2>1. walk.visited \in Seq(Keys)  BY <1>1 DEF Walks
  <2>2. Append(walk.visited, k) \in Seq(Keys)  BY <1>3, <2>1
  <2> QED  BY <1>1, <1>3, <1>4, <2>2 DEF Walks
<1>6. /\ TableOK'
      /\ Contents' = IF walk.removing THEN [Contents EXCEPT ![k] = NoVal] ELSE Contents
      /\ table'[b] = s \/ table'[b] = RemoveFrom(s, k)
      /\ \A c \in Buckets : c # b => table'[c] = table[c]
  <2>1. CASE walk.removing
    <3>1. table' = [table EXCEPT ![Hash[k]] = RemoveFrom(@, k)]
      BY <2>1 DEF Visit
    <3>2. TableOK' /\ Contents' = [Contents EXCEPT ![k] = NoVal]
      BY <1>1, <1>3, <3>1, RemoveTable
    <3>3. table \in [Buckets -> Seq(Pair)]  BY <1>1 DEF TableOK
    <3> QED  BY <1>1, <1>2, <2>1, <3>1, <3>2, <3>3
  <2>2. CASE ~ walk.removing
    <3>1. table' = table  BY <2>2 DEF Visit
    <3> QED  BY <1>1, <2>2, <3>1 DEF TableOK, Unique, KeysOf, Contents, Found, Position
  <2> QED  BY <2>1, <2>2
<1> HIDE DEF k, b, n
<1>7. /\ n # Nil => n \in KeysOf(table'[b])
      /\ KeysFrom(table'[b], n) = KeysFrom(s, k) \ {k}
  BY <1>3, <1>6
<1>8. WalkStands'
  BY <1>1, <1>5, <1>7 DEF WalkStands, KeysOf
<1>9. k \in Remaining /\ Remaining' = Remaining \ {k}
  <2> DEFINE rest == UNION {KeysOf(table[c]) : c \in b + 1 .. Capacity - 1}
             rest1 == UNION {KeysOf(table'[c]) : c \in b + 1 .. Capacity - 1}
  <2>1. Remaining = KeysFrom(s, k) \cup rest
    BY <1>1 DEF Remaining, k, b
  <2>2. Remaining' = KeysFrom(table'[b], n) \cup rest1
    BY <1>1, <1>5 DEF Remaining, KeysFrom, KeysOf, IndexOf
  <2>3. \A c \in b + 1 .. Capacity - 1 : c \in Buckets /\ c # b
    BY <1>1, HashMapAssumption DEF Buckets
  <2>4. rest1 = rest  BY <1>6, <2>3
  <2>5. k \notin rest  BY <1>1, <1>2, <2>3 DEF TableOK
  <2> HIDE DEF rest, rest1
  <2> QED  BY <1>3, <1>7, <2>1, <2>2, <2>4, <2>5
<1>10. WalkSplit'
  <2> DEFINE v == walk.visited
             m == Len(v)
  <2>1. v \in Seq(Keys) /\ m \in Nat /\ DOMAIN v = 1 .. m
    BY <1>1 DEF Walks
  <2>2. /\ DOMAIN walk'.visited = 1 .. m + 1
        /\ walk'.visited[m + 1] = k
        /\ \A i \in 1 .. m : walk'.visited[i] = v[i]
    BY <1>3, <1>5, <2>1
  <2>3. /\ Visited \cup Remaining = walk.start
        /\ Visited \cap Remaining = {}
        /\ \A i, j \in 1 .. m : v[i] = v[j] => i = j
    BY <1>1, <2>1 DEF Inv, WalkSplit
  <2>4. Visited = {v[i] : i \in 1 .. m}  BY <2>1 DEF Visited
  <2> HIDE DEF v, m
  <2>5. \A i : i \in 1 .. m + 1 <=> i \in 1 .. m \/ i = m + 1
    BY <2>1
  <2>6. Visited' = Visited \cup {k}
    <3>1. Visited' = {walk'.visited[i] : i \in 1 .. m + 1}  BY <2>2 DEF Visited
    <3> QED  BY <2>2, <2>4, <2>5, <3>1
  <2>7. \A i \in 1 .. m : v[i] # k  BY <1>9, <2>3, <2>4
  <2>8. \A i, j \in 1 .. m + 1 : walk'.visited[i] = walk'.visited[j] => i = j
    BY <2>2, <2>3, <2>5, <2>7
  <2>9. /\ Visited' \cup Remaining' = walk'.start
        /\ Visited' \cap Remaining' = {}
    BY <1>5, <1>9, <2>3, <2>6
  <2> QED  BY <2>2, <2>8, <2>9 DEF WalkSplit
<1> QED  BY <1>3, <1>6, <1>8, <1>10 DEF Inv, k

(* From the end of a list to the next bucket, or to the end of the walk.   *)
LEMMA NextBucketStep ==
  ASSUME Inv, NextBucket
  PROVE  Inv'
<1> DEFINE b == walk.bucket
<1>1. /\ TableOK /\ walk \in Walks /\ walk.on /\ walk.head = Nil
      /\ table' = table /\ b \in 0 .. Capacity
  BY DEF Inv, WalkStands, NextBucket, Walks
<1>2. TableOK'  BY <1>1 DEF TableOK, Unique, KeysOf
<1>3. CASE b < Capacity
  <2>1. walk' = [walk EXCEPT !.bucket = b + 1, !.head = HeadOf(b + 1)]
    BY <1>3 DEF NextBucket
  <2>2. b + 1 \in 0 .. Capacity  BY <1>1, <1>3, HashMapAssumption
  <2>3. /\ HeadOf(b + 1) \in Keys \cup {Nil}
        /\ HeadOf(b + 1) # Nil =>
             b + 1 \in Buckets /\ HeadOf(b + 1) \in KeysOf(table[b + 1])
        /\ b + 1 \in Buckets =>
             KeysFrom(table[b + 1], HeadOf(b + 1)) = KeysOf(table[b + 1])
    BY <1>1, <2>2, HeadInList
  <2>4. /\ walk'.on = walk.on /\ walk'.bucket = b + 1 /\ walk'.head = HeadOf(b + 1)
        /\ walk'.start = walk.start /\ walk'.visited = walk.visited
        /\ walk' \in Walks
    BY <1>1, <2>1, <2>2, <2>3 DEF Walks
  <2> HIDE DEF b
  <2>5. WalkStands'
    BY <1>1, <2>3, <2>4 DEF WalkStands, KeysOf
  <2>6. Remaining' = Remaining
    <3> DEFINE rest == UNION {KeysOf(table[c]) : c \in b + 1 .. Capacity - 1}
               rest1 == UNION {KeysOf(table[c]) : c \in b + 1 + 1 .. Capacity - 1}
    <3>1. Remaining = rest  BY <1>1 DEF Remaining, KeysFrom, b
    <3>2. Remaining' = (IF b + 1 \in Buckets THEN KeysOf(table[b + 1]) ELSE {}) \cup rest1
      <4>1. Remaining' = (IF b + 1 \in Buckets THEN KeysFrom(table[b + 1], HeadOf(b + 1))
                                                ELSE {}) \cup rest1
        BY <1>1, <2>4 DEF Remaining, KeysFrom, KeysOf, IndexOf
      <4> QED  BY <2>3, <4>1
    <3>3. CASE b + 1 \in Buckets
      <4>1. \A c : c \in b + 1 .. Capacity - 1 <=>
                      c = b + 1 \/ c \in b + 1 + 1 .. Capacity - 1
        BY <1>1, <3>3, HashMapAssumption DEF Buckets
      <4> QED  BY <3>1, <3>2, <3>3, <4>1
    <3>4. CASE b + 1 \notin Buckets
      <4>1. b + 1 .. Capacity - 1 = {} /\ b + 1 + 1 .. Capacity - 1 = {}
        BY <1>1, <3>4, HashMapAssumption DEF Buckets
      <4> QED  BY <3>1, <3>2, <3>4, <4>1
    <3> QED  BY <3>3, <3>4
  <2>7. Visited' = Visited  BY <2>4 DEF Visited
  <2>8. WalkSplit'  BY <1>1, <2>4, <2>6, <2>7 DEF Inv, WalkSplit
  <2> QED  BY <1>2, <2>5, <2>8 DEF Inv
<1>4. CASE ~ (b < Capacity)
  <2>1. walk' = [walk EXCEPT !.on = FALSE, !.bucket = 0]  BY <1>4 DEF NextBucket
  <2>2. 0 \in 0 .. Capacity  BY HashMapAssumption
  <2>3. walk' \in Walks /\ ~ walk'.on
    BY <1>1, <2>1, <2>2 DEF Walks
  <2> QED  BY <1>2, <2>3 DEF Inv, WalkStands, WalkSplit
<1> QED  BY <1>3, <1>4

(* The queries leave everything but the result alone.                      *)
LEMMA StutterInv ==
  ASSUME Inv, table' = table, walk' = walk
  PROVE  Inv' /\ Contents' = Contents
<1>1. TableOK'  BY DEF Inv, TableOK, Unique, KeysOf
<1>2. WalkStands'  BY DEF Inv, WalkStands, KeysOf
<1>3. Remaining' = Remaining /\ Visited' = Visited
  BY DEF Remaining, Visited, KeysFrom, KeysOf, IndexOf
<1>4. WalkSplit'  BY <1>3 DEF Inv, WalkSplit
<1>5. Contents' = Contents  BY DEF Contents, Found, KeysOf, Position
<1> QED  BY <1>1, <1>2, <1>4, <1>5 DEF Inv
-----------------------------------------------------------------------------
(* The initial table is the empty map.                                     *)
LEMMA InitRefines == Init => Abstract!Init
<1> SUFFICES ASSUME Init PROVE Abstract!Init  OBVIOUS
<1>1. DOMAIN << >> = {}  OBVIOUS
<1>2. \A k \in Keys : ~ Found(table[Hash[k]], k)
  BY <1>1, HashMapAssumption DEF Init, Found, KeysOf
<1>3. Contents = [k \in Keys |-> NoVal]  BY <1>2 DEF Contents
<1> QED  BY <1>3 DEF Init, Abstract!Init

(* Every step keeps the invariant and is a step of the map or none.        *)
LEMMA NextRefines ==
  ASSUME Inv, [Next]_vars
  PROVE  Inv' /\ [Abstract!Next]_(Abstract!vars)
<1>1. ASSUME NEW k \in Keys, NEW v \in Vals, Put(k, v)
      PROVE  Inv' /\ Abstract!Put(k, v)
  BY <1>1, PutStep DEF Put, Abstract!Put
<1>2. ASSUME NEW k \in Keys, Get(k)
      PROVE  Inv' /\ Abstract!Get(k)
  <2>1. Inv' /\ Contents' = Contents  BY <1>2, StutterInv DEF Get
  <2>2. res' = Contents[k]  BY <1>2 DEF Get, Contents
  <2> QED  BY <1>2, <2>1, <2>2 DEF Get, Abstract!Get
<1>3. ASSUME NEW k \in Keys, ContainsKey(k)
      PROVE  Inv' /\ Abstract!ContainsKey(k)
  <2>1. Inv' /\ Contents' = Contents  BY <1>3, StutterInv DEF ContainsKey
  <2>2. Hash[k] \in Buckets /\ Unique(table[Hash[k]])
    BY HashMapAssumption DEF Inv, TableOK
  <2>3. Found(table[Hash[k]], k) <=> Contents[k] # NoVal
    BY <2>2, LookupType DEF Contents, Lookup
  <2>4. Found(table[Hash[k]], k) = (Contents[k] # NoVal)  BY <2>3 DEF Found
  <2> QED  BY <1>3, <2>1, <2>4 DEF ContainsKey, Abstract!ContainsKey
<1>4. ASSUME NEW k \in Keys, RemoveKey(k)
      PROVE  Inv' /\ Abstract!Remove(k)
  <2>1. /\ TableOK /\ Idle /\ walk' = walk
        /\ table' = [table EXCEPT ![Hash[k]] = RemoveFrom(@, k)]
    BY <1>4 DEF RemoveKey, Inv
  <2>2. TableOK' /\ Contents' = [Contents EXCEPT ![k] = NoVal]
    BY <2>1, RemoveTable
  <2>3. Inv'  BY <2>1, <2>2, NoWalk
  <2> QED  BY <1>4, <2>2, <2>3 DEF RemoveKey, Abstract!Remove
<1>5. ASSUME NEW r \in BOOLEAN, StartWalk(r)
      PROVE  Inv' /\ Contents' = Contents /\ UNCHANGED <<call, res>>
  <2>1. Inv'  BY <1>5, StartStep
  <2>2. table' = table /\ UNCHANGED <<call, res>>  BY <1>5 DEF StartWalk
  <2> QED  BY <2>1, <2>2 DEF Contents, Found, KeysOf, Position
<1>6. CASE Visit
  <2>1. /\ Inv' /\ walk.head \in Keys
        /\ Contents' = IF walk.removing THEN [Contents EXCEPT ![walk.head] = NoVal]
                                        ELSE Contents
    BY <1>6, VisitStep
  <2>2. res' = res /\ call' = IF walk.removing THEN <<"remove", walk.head>> ELSE call
    BY <1>6 DEF Visit
  <2>3. CASE walk.removing
    <3>1. Abstract!Remove(walk.head)  BY <2>1, <2>2, <2>3 DEF Abstract!Remove
    <3> QED  BY <2>1, <3>1 DEF Abstract!Next
  <2>4. CASE ~ walk.removing
    BY <2>1, <2>2, <2>4 DEF Abstract!vars
  <2> QED  BY <2>3, <2>4
<1>7. CASE NextBucket
  <2>1. Inv'  BY <1>7, NextBucketStep
  <2>2. table' = table /\ UNCHANGED <<call, res>>  BY <1>7 DEF NextBucket
  <2>3. Contents' = Contents  BY <2>2 DEF Contents, Found, KeysOf, Position
  <2> QED  BY <2>1, <2>2, <2>3 DEF Abstract!vars
<1>8. CASE UNCHANGED vars
  BY <1>8, StutterInv DEF vars, Abstract!vars
<1> QED
  BY <1>1, <1>2, <1>3, <1>4, <1>5, <1>6, <1>7, <1>8
  DEF Next, Abstract!Next, Abstract!vars

(* Chained buckets, replacement in place, removal by relinking and a walk  *)
(* that removes what it visits behave as a map from keys to values: every  *)
(* query returns what was last put under its key and not removed since,    *)
(* whatever the hash function does to the keys (hash_map.c:70-228).        *)
THEOREM HashMapIsAMap == Spec => ImplementsMap
<1>1. Init => Inv /\ Abstract!Init  BY InitInv, InitRefines
<1>2. Inv /\ [Next]_vars => Inv' /\ [Abstract!Next]_(Abstract!vars)
  BY NextRefines
<1> QED  BY <1>1, <1>2, PTL DEF Spec, ImplementsMap, Abstract!Spec

(* Visiting without repetition takes as many callbacks as there are keys.  *)
LEMMA CountVisited ==
  ASSUME NEW v \in Seq(Keys), \A i, j \in DOMAIN v : v[i] = v[j] => i = j
  PROVE  Len(v) = Cardinality({v[i] : i \in DOMAIN v})
<1> DEFINE S == {v[i] : i \in 1 .. Len(v)}
           f == [i \in 1 .. Len(v) |-> v[i]]
<1>1. DOMAIN v = 1 .. Len(v) /\ Len(v) \in Nat  OBVIOUS
<1> HIDE DEF f
<1>5. f \in [1 .. Len(v) -> S] /\ \A i \in 1 .. Len(v) : f[i] = v[i]
  BY DEF f
<1>6. \A i, j \in 1 .. Len(v) : f[i] = f[j] => i = j
  BY <1>1, <1>5
<1>7. \A x \in S : \E i \in 1 .. Len(v) : f[i] = x
  BY <1>5
<1>2. f \in Bijection(1 .. Len(v), S)
  BY <1>5, <1>6, <1>7 DEF Bijection, Injection, Surjection, IsInjective
<1>3. ExistsBijection(1 .. Len(v), S)  BY <1>2 DEF ExistsBijection
<1>4. Cardinality(S) = Len(v)  BY <1>1, <1>3, FS_CountingElements
<1> QED  BY <1>1, <1>4

(* A walk that ends has nothing left to visit.                             *)
LEMMA EndOfWalk ==
  ASSUME Inv, [Next]_vars, walk.on, ~ walk'.on
  PROVE  /\ {walk.visited[i] : i \in DOMAIN walk.visited} = walk.start
         /\ Len(walk.visited) = Cardinality(walk.start)
<1>1. walk' # walk  OBVIOUS
<1>2. ~ (\E k \in Keys : (\E v \in Vals : Put(k, v)) \/ Get(k) \/ ContainsKey(k) \/ RemoveKey(k))
  BY <1>1 DEF Put, Get, ContainsKey, RemoveKey
<1>3. ~ (\E r \in BOOLEAN : StartWalk(r))  BY DEF StartWalk, Idle
<1>4. ~ Visit
  <2>1. Visit => walk'.on = walk.on
    BY DEF Visit, Inv, WalkStands, Walks
  <2> QED  BY <2>1
<1>5. NextBucket  BY <1>1, <1>2, <1>3, <1>4 DEF Next, vars
<1>6. walk \in Walks /\ walk.head = Nil /\ walk.bucket \in 0 .. Capacity
  BY <1>5 DEF Inv, WalkStands, NextBucket, Walks
<1>7. ~ (walk.bucket < Capacity)
  <2>1. walk.bucket < Capacity => walk'.on = walk.on
    BY <1>5, <1>6 DEF NextBucket, Walks
  <2> QED  BY <2>1
<1>8. Remaining = {}
  <2>1. walk.bucket + 1 .. Capacity - 1 = {} /\ walk.bucket \notin Buckets
    BY <1>6, <1>7, HashMapAssumption DEF Buckets
  <2> QED  BY <2>1 DEF Remaining
<1>9. /\ Visited = walk.start
      /\ \A i, j \in DOMAIN walk.visited : walk.visited[i] = walk.visited[j] => i = j
  BY <1>8 DEF Inv, WalkSplit
<1>10. walk.visited \in Seq(Keys)  BY <1>6 DEF Walks
<1>11. Len(walk.visited) = Cardinality(Visited)
  BY <1>9, <1>10, CountVisited DEF Visited
<1> QED  BY <1>9, <1>11 DEF Visited

(* A walk over the map calls back exactly once for every entry that was    *)
(* there when it started, even if each callback frees the entry the walk   *)
(* stands at: the next node is read first (hash_map.c:219-228).            *)
THEOREM WalksAreComplete == Spec => WalkComplete
<1>1. Init => Inv  BY InitInv
<1>2. Inv /\ [Next]_vars => Inv'  BY NextRefines
<1>3. Inv /\ [Next]_vars
      => (walk.on /\ ~ walk'.on
          => /\ {walk.visited[i] : i \in DOMAIN walk.visited} = walk.start
             /\ Len(walk.visited) = Cardinality(walk.start))
  BY EndOfWalk
<1> QED  BY <1>1, <1>2, <1>3, PTL DEF Spec, WalkComplete
=============================================================================
