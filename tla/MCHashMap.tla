----------------------------- MODULE MCHashMap ------------------------------
(* Constants of the runs of HashMap.                                        *)
EXTENDS HashMap, TLC

CONSTANTS k1, k2, k3

\* Two keys share a bucket.
MCHash == k1 :> 0 @@ k2 :> 0 @@ k3 :> 1
=============================================================================
