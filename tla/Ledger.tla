------------------------------- MODULE Ledger -------------------------------
(***************************************************************************)
(* One DID's part of the chain as its owner's operations use it: the       *)
(* document that says which key signs for the DID, the nonces spent, and   *)
(* the transactions on their way into a block, with the consensus client's *)
(* reads, broadcasts and waits (src/consensus.rs). How a broadcast is      *)
(* retried and its nonce chosen is the subject of Submission; here it is   *)
(* accepted, refused, or of unknown outcome.                               *)
(***************************************************************************)
EXTENDS Integers, FiniteSets

CONSTANTS
  Key,          \* keys that may sign for the DID
  Id,           \* the names a document may give its key
  FirstDoc,     \* its first document
  Version,      \* contents of the file the DID owns
  NoFile,
  MaxNonce,     \* bound: nonces are 1 .. MaxNonce
  MaxPolls      \* max_attempts of a wait, one round of requests being a poll

Nonce == 1 .. MaxNonce

\* A document authenticates one key, under an id. (rotated_document() makes no other.)
Document == [ id : Id, key : Key ]

\* What the transactions of the operations hold that the chain acts on. They are
\* signed with a key, and name the id of the key that is to verify them.
Tx == [ kind : {"rotate"}, nonce : Nonce, by : Document, to : Document ]
      \cup [ kind : {"manifest"}, nonce : Nonce, by : Document, file : Version ]
      \cup [ kind : {"delete"}, nonce : Nonce, by : Document ]

ASSUME LedgerAssumption ==
  /\ FirstDoc \in Document
  /\ NoFile \notin Version \cup Tx
  /\ MaxNonce \in Nat /\ MaxPolls \in Nat

VARIABLES
  doc,      \* the document on chain
  docs,     \* history: those that have been
  file,     \* the transaction whose manifest is on chain
  spent,    \* the nonces spent
  pool,     \* the transactions that may still be executed
  done,     \* those executed in a block, successfully
  failed    \* those refused in a block

ledgerVars == <<doc, docs, file, spent, pool, done, failed>>

LedgerTypeOK ==
  /\ doc \in docs /\ docs \subseteq Document
  /\ file \in Tx \cup {NoFile}
  /\ spent \subseteq Nonce
  /\ pool \subseteq Tx /\ done \subseteq Tx /\ failed \subseteq Tx

LedgerInit ==
  /\ doc = FirstDoc /\ docs = {FirstDoc}
  /\ file = NoFile
  /\ spent = {} /\ pool = {} /\ done = {} /\ failed = {}

-----------------------------------------------------------------------------
(* The chain *)

\* A transaction is executed in a block if its nonce is free and the document has
\* the key that signed it, by the id it names, by then; it spends its nonce in any
\* case.
Execute(tx) ==
  /\ tx \in pool
  /\ pool' = pool \ {tx}
  /\ spent' = spent \cup {tx.nonce}
  /\ IF tx.nonce \notin spent /\ tx.by = doc
     THEN /\ done' = done \cup {tx}
          /\ doc' = IF tx.kind = "rotate" THEN tx.to ELSE doc
          /\ docs' = docs \cup {doc'}
          /\ file' = CASE tx.kind = "manifest" -> tx
                       [] tx.kind = "delete" -> NoFile
                       [] OTHER -> file
          /\ UNCHANGED failed
     ELSE /\ failed' = failed \cup {tx}
          /\ UNCHANGED <<doc, docs, file, done>>

Evict(tx) ==
  /\ tx \in pool
  /\ pool' = pool \ {tx}
  /\ UNCHANGED <<doc, docs, file, spent, done, failed>>

-----------------------------------------------------------------------------
(* The consensus client *)

\* get_next_nonce(): one that is not spent. (A node behind the chain may name one that
\* is; what is sent under it the chain refuses, and Submission has it.)
Free == Nonce \ spent

\* The broadcast of a transaction: "accepted" by CheckTx, "refused", or an error
\* that leaves open whether it may still be executed. A node behind the chain may
\* accept what the chain will refuse.
Broadcast(tx, told) ==
  /\ IF told = "refused" THEN UNCHANGED pool
     ELSE IF told = "accepted" THEN pool' = pool \cup ({tx} \ (done \cup failed))
     ELSE pool' \in {pool, pool \cup ({tx} \ (done \cup failed))}
  /\ UNCHANGED <<doc, docs, file, spent, done, failed>>

\* Mutated forms: a transaction in no block yet reads as a success (of code 0,
\* which the node leaves out), or as a failure.
MutOutcomesEarly(tx) == {"none"} \cup IF tx \in failed THEN {"refused"} ELSE {"executed"}
MutOutcomesFailing(tx) == {"none"} \cup IF tx \in done THEN {"executed"} ELSE {"refused"}

\* What one poll of a wait for a block may learn (parse_tx_outcome): only an
\* answer with a height counts, and no answer may come of a node that is behind or
\* does not answer.
Outcomes(tx) ==
  {"none"} \cup IF tx \in done THEN {"executed"} ELSE {}
           \cup IF tx \in failed THEN {"refused"} ELSE {}

\* get_did_document(): the document as some node has it, unproven.
DocumentsRead == docs
=============================================================================
