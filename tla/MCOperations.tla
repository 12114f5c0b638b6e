---------------------------- MODULE MCOperations ----------------------------
(* Operations for TLC: the first document, and the symmetry of the keys to come. *)
EXTENDS Operations, TLC

CONSTANTS k0, i0

FirstDocument == [id |-> i0, key |-> k0]

Symmetry == Permutations(Key \ {k0}) \cup Permutations(Version) \cup Permutations(Client)
=============================================================================
