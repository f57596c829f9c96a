------------------------------ MODULE MCKHash ------------------------------
(* Model-checking instances of KHash: four pointers, two pairs of which    *)
(* collide in tables of four and of eight buckets; the probes of the first *)
(* pair wrap round, so that a rehash meets elements that have not moved.   *)
EXTENDS KHash

CONSTANTS k1, k2, k3, k4

MCKeys == {k1, k2, k3, k4}
MCHash == [k \in MCKeys |->
             CASE k = k1 -> 3 [] k = k2 -> 11 [] k = k3 -> 0 [] OTHER -> 8]
=============================================================================
