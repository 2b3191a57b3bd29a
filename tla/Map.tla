-------------------------------- MODULE Map ---------------------------------
(* What src/inc/hash_map.h promises: a map from keys to values.             *)
CONSTANTS Keys, Vals, NoVal

VARIABLES
  map,   \* the value of each key, NoVal for a key that is not there
  call,  \* the last call
  res    \* what the last query returned

vars == <<map, call, res>>

Results == Vals \cup {NoVal} \cup BOOLEAN

Calls ==
  {<<>>} \cup {"put"} \X Keys \X Vals \cup {"remove", "get", "contains"} \X Keys

Init == map = [k \in Keys |-> NoVal] /\ call = <<>> /\ res = NoVal

Put(k, v) ==
  /\ call' = <<"put", k, v>>
  /\ map' = [map EXCEPT ![k] = v]
  /\ UNCHANGED res

\* A key for which there is no mapping: nothing happens.
Remove(k) ==
  /\ call' = <<"remove", k>>
  /\ map' = [map EXCEPT ![k] = NoVal]
  /\ UNCHANGED res

Get(k) ==
  /\ call' = <<"get", k>>
  /\ res' = map[k]
  /\ UNCHANGED map

ContainsKey(k) ==
  /\ call' = <<"contains", k>>
  /\ res' = (map[k] # NoVal)
  /\ UNCHANGED map

Next == \E k \in Keys :
  \/ \E v \in Vals : Put(k, v)
  \/ Remove(k) \/ Get(k) \/ ContainsKey(k)

Spec == Init /\ [][Next]_vars
=============================================================================
