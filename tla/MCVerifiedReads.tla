--------------------------- MODULE MCVerifiedReads ---------------------------
(* VerifiedReads for TLC: the honest endpoints are interchangeable. *)
EXTENDS VerifiedReads, TLC

Symmetry == Permutations(Honest)
=============================================================================
