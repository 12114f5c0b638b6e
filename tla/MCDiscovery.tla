----------------------------- MODULE MCDiscovery -----------------------------
(* Discovery for TLC: the scores of two indexers, of which the better one leaves
   the list at times. *)
EXTENDS Discovery

CONSTANTS i1, i2

Scores == [i \in Candidate |-> CASE i = i1 -> 2 [] i = i2 -> 1 [] OTHER -> 3]
Lists == {{i1, i2}, {i2}}
=============================================================================
