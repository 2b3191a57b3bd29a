----------------------------- MODULE MCCatalog ------------------------------
(* Small catalogues: products that share attributes, or one product with    *)
(* several formats.                                                         *)
EXTENDS Catalog

CONSTANT p1

MCSizes == {2, 3}
MCSymmetry == Permutations(Keys) \cup Permutations(Topics)

\* At most three references in all, which is enough for a topic that a format
\* holds twice: several products with one format of two bytes each, or one
\* product with a format of three bytes under each key.
MCScope ==
  LET sizes == {fmt[pk[1]][pk[2]].size :
                  pk \in {x \in Pdts \X Keys : fmt[x[1]][x[2]] # NoFmt}}
      used  == {k \in Keys : \E p \in Pdts : fmt[p][k] # NoFmt}
  IN  /\ MapThenSumSet(LAMBDA t : attr[t].ref, Topics) <= 3
      /\ \/ pdts \subseteq {p1} /\ sizes \subseteq {3}
         \/ /\ sizes \subseteq {2} /\ Cardinality(used) <= 1
            /\ \A t \in Topics : attr[t].ref <= 2
=============================================================================
