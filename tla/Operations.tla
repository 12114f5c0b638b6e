----------------------------- MODULE Operations -----------------------------
(***************************************************************************)
(* The operations of one DID's owner at once: rotations of its key, and    *)
(* uploads, downloads and deletions of a file, over one chain, which       *)
(* refuses what a retired key signed.                                      *)
(***************************************************************************)
EXTENDS Rotation, FileStorage

CONSTANT MaxBegun   \* bound: the runs of the tool and the uses of the file, together

vars == <<ledgerVars, rotationVars, fileVars>>

OperationsTypeOK == LedgerTypeOK /\ RotationTypeOK /\ FileTypeOK

OperationsInit == LedgerInit /\ RotationInit /\ FileInit

Chain == \E tx \in pool : Execute(tx) \/ Evict(tx)

OperationsNext ==
  /\ \/ Chain /\ UNCHANGED <<rotationVars, fileVars>>
     \/ RotationStep /\ UNCHANGED fileVars
     \/ FileStep /\ UNCHANGED rotationVars
  /\ runs' + uses' <= MaxBegun

OperationsSpec == OperationsInit /\ [][OperationsNext]_vars
=============================================================================
