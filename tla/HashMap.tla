------------------------------ MODULE HashMap -------------------------------
(***************************************************************************)
(* The hash map under every table of the edge library (src/lib/hash_map.c  *)
(* with src/lib/linked_list.c): chained buckets, insertion at the front,   *)
(* removal, and a walk whose callback may remove the entry it stands at.   *)
(*                                                                         *)
(* A call runs to its end before the next one begins, except that a walk   *)
(* is split into its callbacks.  Memory is available (safe_malloc ends the *)
(* program otherwise).  Keys compare equal only if they are equal: int_cmp *)
(* compares numbers, str_cmp identities of one length.                     *)
(***************************************************************************)
EXTENDS Integers, Sequences, FiniteSets, SequencesExt

CONSTANTS
  Keys, Vals, NoVal,
  Capacity,  \* number of buckets
  Hash,      \* hash_func
  Nil        \* the null pointer at the end of a list

VARIABLES
  table,    \* the entries of each bucket, from the head of its list
  made,     \* buckets whose list has been allocated
  size,     \* map->size
  call,     \* the last call of an operation (history)
  res,      \* what the last query returned
  walk      \* hash_map_work: the bucket, the node it stands at, what is next

vars == <<table, made, size, call, res, walk>>

Buckets == 0 .. Capacity - 1
Pair == [key : Keys, val : Vals]

\* A walk.  What it found at the start and what it has visited is history.
Walks == [on : BOOLEAN, removing : BOOLEAN, bucket : 0 .. Capacity,
          head : Keys \cup {Nil}, start : SUBSET Keys, visited : Seq(Keys)]

ASSUME HashMapAssumption ==
  /\ Capacity \in Nat \ {0}
  /\ Hash \in [Keys -> Buckets]
  /\ NoVal \notin Vals /\ Nil \notin Keys
-----------------------------------------------------------------------------
\* The keys of a list.
KeysOf(s) == {s[i].key : i \in DOMAIN s}

\* Comparing along a list finds the first entry of the key.
Found(s, k) == k \in KeysOf(s)

Position(s, k) ==
  CHOOSE i \in DOMAIN s : s[i].key = k /\ \A j \in 1 .. i - 1 : s[j].key # k

Idle == ~ walk.on

Init ==
  /\ table = [b \in Buckets |-> <<>>] /\ made = {} /\ size = 0
  /\ call = <<>> /\ res = NoVal
  /\ walk = [on |-> FALSE, removing |-> FALSE, bucket |-> 0, head |-> Nil,
             start |-> {}, visited |-> <<>>]

\* hash_map_get and hash_map_contains_key.
Get(k) ==
  /\ Idle
  /\ call' = <<"get", k>>
  /\ LET s == table[Hash[k]] IN
     res' = IF Found(s, k) THEN s[Position(s, k)].val ELSE NoVal
  /\ UNCHANGED <<table, made, size, walk>>

ContainsKey(k) ==
  /\ Idle
  /\ call' = <<"contains", k>>
  /\ res' = Found(table[Hash[k]], k)
  /\ UNCHANGED <<table, made, size, walk>>

\* hash_map_put on one list: the value is replaced, or an entry is prepended.
PutIn(s, k, v) ==
  IF Found(s, k)
  THEN [s EXCEPT ![Position(s, k)] = [@ EXCEPT !.val = v]]
  ELSE <<[key |-> k, val |-> v]>> \o s

\* What hash_map_put adds to map->size.
Grown(s, k) == IF Found(s, k) THEN 0 ELSE 1

Put(k, v) ==
  /\ Idle
  /\ call' = <<"put", k, v>>
  /\ LET b == Hash[k] IN
     /\ table' = [table EXCEPT ![b] = PutIn(@, k, v)]
     /\ made' = made \cup {b}
     /\ size' = size + Grown(table[b], k)
  /\ UNCHANGED <<res, walk>>

\* Mutant: what follows the removed entry is not relinked.
RemoveFromRest(s, k) == IF Found(s, k) THEN SubSeq(s, 1, Position(s, k) - 1) ELSE s

\* hash_map_remove on one list.
RemoveFrom(s, k) == IF Found(s, k) THEN RemoveAt(s, Position(s, k)) ELSE s

\* A list that was emptied is still there, and its first node is read without
\* a test: only a key that is there may be removed from such a bucket, and
\* every caller looks its key up first.
MayRemove(k) == Hash[k] \in made => table[Hash[k]] # <<>>

\* hash_map_remove.
RemoveKey(k) ==
  /\ Idle
  /\ MayRemove(k)
  /\ call' = <<"remove", k>>
  /\ LET b == Hash[k] IN
     /\ table' = [table EXCEPT ![b] = RemoveFrom(@, k)]
     /\ size' = IF Found(table[b], k) THEN size - 1 ELSE size
  /\ UNCHANGED <<made, res, walk>>

\* The first node of a bucket.
HeadOf(b) == IF b < Capacity /\ table[b] # <<>> THEN table[b][1].key ELSE Nil

\* hash_map_work is called, with a callback that removes or one that does not.
StartWalk(r) ==
  /\ Idle
  /\ walk' = [on |-> TRUE, removing |-> r, bucket |-> 0, head |-> HeadOf(0),
              start |-> UNION {KeysOf(table[b]) : b \in Buckets}, visited |-> <<>>]
  /\ UNCHANGED <<table, made, size, call, res>>

\* The node after the one with key k.
After(s, k) ==
  LET i == CHOOSE i \in DOMAIN s : s[i].key = k
  IN  IF i < Len(s) THEN s[i + 1].key ELSE Nil

\* Mutant: next is read after the callback, from a node that may be gone.
NextNodeLate(s, k, r) == IF r THEN Nil ELSE After(s, k)

\* next is read before the callback.
NextNode(s, k, r) == After(s, k)

\* One callback.
Visit ==
  /\ walk.on /\ walk.head # Nil
  /\ LET k == walk.head
         b == walk.bucket
     IN  /\ walk' = [walk EXCEPT !.head = NextNode(table[b], k, walk.removing),
                                 !.visited = Append(@, k)]
         /\ IF walk.removing
            THEN /\ call' = <<"remove", k>>
                 /\ table' = [table EXCEPT ![Hash[k]] = RemoveFrom(@, k)]
                 /\ size' = size - 1
            ELSE UNCHANGED <<call, table, size>>
  /\ UNCHANGED <<made, res>>

\* The end of a list: the next bucket, or the end of the walk.
NextBucket ==
  /\ walk.on /\ walk.head = Nil
  /\ walk' = IF walk.bucket < Capacity
             THEN [walk EXCEPT !.bucket = @ + 1, !.head = HeadOf(walk.bucket + 1)]
             ELSE [walk EXCEPT !.on = FALSE, !.bucket = 0]
  /\ UNCHANGED <<table, made, size, call, res>>

Next ==
  \/ \E k \in Keys :
       \/ \E v \in Vals : Put(k, v)
       \/ Get(k) \/ ContainsKey(k) \/ RemoveKey(k)
  \/ \E r \in BOOLEAN : StartWalk(r)
  \/ Visit \/ NextBucket

Spec == Init /\ [][Next]_vars
-----------------------------------------------------------------------------
\* The table seen as a map: refinement mapping to module Map.
Contents ==
  [k \in Keys |->
     LET s == table[Hash[k]] IN
     IF Found(s, k) THEN s[Position(s, k)].val ELSE NoVal]

Abstract == INSTANCE Map WITH map <- Contents

\* Chained buckets, replacement in place and removal by relinking behave as a
\* map, whatever the hash function does to the keys (hash_map.c:70-207).
ImplementsMap == Abstract!Spec

\* A walk calls back once for every entry that was there at its start, even if
\* the callback frees the entry it stands at (hash_map.c:219-228).
WalkComplete ==
  [][walk.on /\ ~ walk'.on
     => /\ {walk.visited[i] : i \in DOMAIN walk.visited} = walk.start
        /\ Len(walk.visited) = Cardinality(walk.start)]_vars
=============================================================================
