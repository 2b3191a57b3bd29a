----------------------------- MODULE MCDevices ------------------------------
(* Small registries: several devices, or one device with its values.        *)
EXTENDS Devices, TLC

MCSymmetry == Permutations(Oids)

\* Three devices that come, go and fall silent, without values, or one
\* device of a product that stays, whose values are reported, for a shorter
\* time: long enough for a report that is due to be missed.
MCScope ==
  \/ mode = "PKT" /\ \A o \in Registered, t \in Topics : dev[o].attrs[t] = NoAttr
  \/ /\ mode # "PKT" /\ now <= 4
     /\ Cardinality(Registered) <= 1 /\ \A o \in Registered : dev[o].pdt # Freed
     /\ products = Pdts
=============================================================================
