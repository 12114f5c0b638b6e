---------------------------- MODULE MCHeaderStore ----------------------------
(***************************************************************************)
(* HeaderStore for TLC: a chain of three blocks, another block at height   *)
(* 2, of other validators and with too few signatures, and an answer that  *)
(* carries no block. The blocks' times are a unit apart.                   *)
(***************************************************************************)
EXTENDS HeaderStore, TLC

Signed == [power |-> 1, kind |-> "valid"]
Forged == [power |-> 1, kind |-> "wrong"]

Chained(h, votes, validators) ==
  [ ours |-> TRUE, height |-> h, time |-> h - 1, votes |-> votes, total |-> 3,
    validators |-> validators, nextValidators |-> 1 ]

NoBlock == [ ours |-> FALSE, height |-> 0, time |-> 0, votes |-> <<>>, total |-> 0,
             validators |-> 0, nextValidators |-> 0 ]

Blocks ==
  { Chained(h, <<Signed, Forged, Signed>>, 1) : h \in 1 .. 3 }
  \cup { Chained(2, <<Signed, Forged>>, 2), NoBlock }

Trusted == { Chained(1, <<Signed, Forged, Signed>>, 1) }
Heights == 1 .. 3
Symmetry == Permutations(Task)
=============================================================================
