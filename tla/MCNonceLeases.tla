---------------------------- MODULE MCNonceLeases ----------------------------
(* NonceLeases for TLC: the writes are interchangeable. *)
EXTENDS NonceLeases, TLC

Symmetry == Permutations(Write)
=============================================================================
