--------------------------- MODULE MCVerifiableRpc ---------------------------
(* VerifiableRpc for TLC: the tasks are interchangeable. *)
EXTENDS VerifiableRpc, TLC

Symmetry == Permutations(Task)
=============================================================================
