------------------------------ MODULE EthState ------------------------------
(***************************************************************************)
(* Verifiable Ethereum state reads (src/eth_state.rs): an indexer answers  *)
(* with proofs of accounts and of their storage, against a state root it   *)
(* names.                                                                  *)
(*                                                                         *)
(* alloy's walk of a Merkle-Patricia proof is a library's: it lands on the *)
(* value asked for only where the trie with that root holds it, and a slot *)
(* of zero is in no trie.                                                  *)
(***************************************************************************)
EXTENDS Integers, Sequences, SequencesExt

CONSTANTS
  Address, Slot, StateRoot, StorageHash, Word, BlockNumber,
  Accounts,    \* the state trie of each root: the storage hash of each account
  Storage      \* the storage trie of each storage hash: the values of its slots but the zeros

ASSUME StateAssumption ==
  /\ Address # {} /\ BlockNumber # {}
  /\ Accounts \in [StateRoot -> [Address -> StorageHash]]
  /\ \A h \in StorageHash : DOMAIN Storage[h] \subseteq Slot

VARIABLES
  read   \* a state read or a call

Mode == {"Strict", "AnchorOnly", "Disabled"}

SlotProof(slot, value, nodes) == [slot |-> slot, value |-> value, nodes |-> nodes]

\* nodes: the trie nodes sent are those of the walk.
SlotProofs == [slot : Slot, value : Word, nodes : BOOLEAN]

StateProofs ==
  [ address : Address, block : BlockNumber, root : StateRoot,
    storageHash : StorageHash,     \* account_state
    nodes : BOOLEAN,
    storage : Seq(SlotProofs) ]

NoRead ==
  [ at |-> "idle", kind |-> "state", mode |-> "Strict",
    address |-> <<>>, slots |-> <<>>, block |-> <<>>,   \* what is asked
    root |-> <<>>, proofs |-> <<>>,                     \* the response
    walked |-> 0,                                       \* the proofs walked
    value |-> <<>> ]                                    \* the value decoded

EthTypeOK ==
  /\ read.at \in {"idle", "fetched", "walking", "returned", "refused", "decoded"}
  /\ read.kind \in {"state", "call"} /\ read.mode \in Mode
  /\ read.proofs \in Seq(StateProofs)
  /\ read.walked \in 0 .. Len(read.proofs)

EthInit == read = NoRead

-----------------------------------------------------------------------------
(* verify_state_proof() *)

\* verify_one() of the account: its leaf under the proof's own state root.
VerifyAccount(p) == p.nodes /\ Accounts[p.root][p.address] = p.storageHash

\* verify_storage(), under the storage hash of the account.
VerifyStorage(p, s) ==
  /\ s.nodes
  /\ s.slot \in DOMAIN Storage[p.storageHash]
  /\ Storage[p.storageHash][s.slot] = s.value

VerifyStateProof(p) ==
  VerifyAccount(p) /\ \A i \in DOMAIN p.storage : VerifyStorage(p, p.storage[i])

-----------------------------------------------------------------------------
(* get_state() and get_call() *)

\* fetch_state(), whose response may hold anything.
FetchState(mode, address, slots, block, root, proofs) ==
  /\ read.at = "idle"
  /\ read' = [NoRead EXCEPT !.at = "fetched", !.mode = mode, !.address = address,
                            !.slots = slots, !.block = block, !.root = root, !.proofs = proofs]

\* fetch_call(); the state it touches is the indexer's to say.
FetchCall(mode, block, root, proofs) ==
  /\ read.at = "idle"
  /\ read' = [NoRead EXCEPT !.at = "fetched", !.kind = "call", !.mode = mode,
                            !.block = block, !.root = root, !.proofs = proofs]

FetchFails == read.at = "idle" /\ read' = [NoRead EXCEPT !.at = "refused"]

\* Mutant: only as many slots as asked.
MutSlotsAsked(p) == Len(p.storage) = Len(read.slots)

\* check_read_is_the_one_asked()
SlotsAsked(p) == [i \in DOMAIN p.storage |-> p.storage[i].slot] = read.slots
ReadIsTheOneAsked ==
  /\ Len(read.proofs) = 1
  /\ LET p == read.proofs[1]
     IN /\ p.address = read.address
        /\ p.block = read.block
        /\ p.root = read.root
        /\ SlotsAsked(p)

\* A state read has a proof, which is of what was asked unless verification is disabled;
\* a call's are taken as they come.
Check ==
  /\ read.at = "fetched"
  /\ LET good == read.kind = "state" => /\ read.proofs # <<>>
                                        /\ read.mode # "Disabled" => ReadIsTheOneAsked
     IN read' = [read EXCEPT !.at = IF good THEN "walking" ELSE "refused"]

\* Strict walks every proof a call carries, and the one of a state read.
ToWalk == IF read.mode = "Strict" THEN Len(read.proofs) ELSE 0

Walk ==
  /\ read.at = "walking" /\ read.walked < ToWalk
  /\ read' = IF VerifyStateProof(read.proofs[read.walked + 1])
             THEN [read EXCEPT !.walked = @ + 1]
             ELSE [read EXCEPT !.at = "refused"]

Return ==
  /\ read.at = "walking" /\ read.walked = ToWalk
  /\ read' = [read EXCEPT !.at = "returned"]

\* The readers of tokens, owners and reserves ask one slot, and decode its value.
First(storage) == storage[1].value

DecodeSlot ==
  /\ read.at = "returned" /\ read.kind = "state"
  /\ Len(read.slots) = 1
  /\ read' = IF read.proofs[1].storage = <<>> THEN [read EXCEPT !.at = "refused"]
             ELSE [read EXCEPT !.at = "decoded", !.value = First(read.proofs[1].storage)]

EthStep == Check \/ Walk \/ Return \/ DecodeSlot

-----------------------------------------------------------------------------
\* The value a slot has in the state with a root. A slot that its trie does not hold has
\* none to prove, and a strict read of it is refused.
StateHolds(root, address, slot, value) ==
  LET trie == Storage[Accounts[root][address]]
  IN slot \in DOMAIN trie /\ trie[slot] = value

Strictly(kind) == read.at \in {"returned", "decoded"} /\ read.mode = "Strict" /\ read.kind = kind

\* A strict state read returns, for exactly the slots asked and in their order, the values
\* the account asked has in the state with the root the response names, at the block
\* asked; and of a call, each read of state it shows is true at the root that read names.
\* Proofs of another account, block, slot or root, of another order, or with a storage
\* hash that is not the account's, are refused (check_read_is_the_one_asked,
\* verify_state_proof).  What is decoded of one slot is that slot's value.
StateProved ==
  /\ Strictly("state") /\ read.at = "decoded" =>
       StateHolds(read.root, read.address, read.slots[1], read.value)
  /\ Strictly("state") =>
       LET p == read.proofs[1]
       IN /\ <<p.address, p.block, p.root>> = <<read.address, read.block, read.root>>
          /\ Len(p.storage) = Len(read.slots)
          /\ \A i \in DOMAIN read.slots :
               StateHolds(read.root, read.address, read.slots[i], p.storage[i].value)
  /\ Strictly("call") =>
       \A i \in DOMAIN read.proofs : LET p == read.proofs[i] IN
         \A k \in DOMAIN p.storage :
           StateHolds(p.root, p.address, p.storage[k].slot, p.storage[k].value)
=============================================================================
