---------------------------- MODULE MCSubmission ----------------------------
(* Submission for TLC: the writes are interchangeable. *)
EXTENDS Submission, TLC

Symmetry == Permutations(Write)
=============================================================================
