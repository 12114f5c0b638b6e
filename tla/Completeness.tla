---------------------------- MODULE Completeness ----------------------------
(***************************************************************************)
(* A block's completeness (src/completeness.rs): the logs an indexer       *)
(* serves are hashed and compared with the commitment the chain keeps,     *)
(* read from a consensus node (src/consensus.rs, events_commitment).       *)
(*                                                                         *)
(* keccak-256 is a library's: the hash of a preimage is the preimage.      *)
(***************************************************************************)
EXTENDS Integers, Sequences, SequencesExt

CONSTANTS
  Cell,       \* the addresses, topics and bytes of data
  Matched,    \* the log sets a block may have, each a sequence of logs
  Served      \* and those an indexer may serve

Logs == [address : Cell, topics : Seq(Cell), data : Seq(Cell)]

ASSUME CompletenessAssumption == Matched \subseteq Served /\ Served \subseteq Seq(Logs)

VARIABLES
  truth,   \* the block's filter-matched logs, as the chain executed them
  check    \* the check of that block

completenessVars == <<truth, check>>

\* An address, a topic, a byte of data and a length are each one cell of a preimage.
Log(address, topics, data) == [address |-> address, topics |-> topics, data |-> data]

\* Mutant: the topics are hashed without their number.
MutLogBytes(log) == <<log.address>> \o log.topics \o <<Len(log.data)>> \o log.data

\* canonical_event_set_hash(): each list behind its length, in order.
LogBytes(log) ==
  <<log.address, Len(log.topics)>> \o log.topics \o <<Len(log.data)>> \o log.data

CanonicalHash(block, logs) ==
  <<"WILLOW_CRYPTO_EVENTS_V1", block, Len(logs)>>
    \o FlattenSeq([i \in DOMAIN logs |-> LogBytes(logs[i])])

Block == {"asked", "another"}

CheckResult == {"none", "complete", "incomplete", "error"}

NoCheck == [at |-> "idle", commitment |-> <<>>, served |-> <<>>, result |-> "none"]

CompletenessTypeOK ==
  /\ truth \in Matched \cup {<<>>}
  /\ check.at \in {"idle", "anchor", "serve", "done"}
  /\ check.result \in CheckResult

CompletenessInit == truth = <<>> /\ check = NoCheck

Verdict(r) == check' = [check EXCEPT !.at = "done", !.result = r]

BeginCheck(logs) ==
  /\ check.at = "idle"
  /\ truth' = logs
  /\ check' = [check EXCEPT !.at = "anchor"]

\* Mutant: another block's anchor is taken.
MutNamesTheAsked(block) == TRUE

\* The anchor's answer: it must name the subgrove and block asked.
NamesTheAsked(block) == block = "asked"

\* events_commitment(): the node answers the anchor of a block, not always of the one asked.
Anchor(block) == CanonicalHash(block, IF block = "asked" THEN truth ELSE <<>>)

ReadAnchor(block) ==
  /\ check.at = "anchor"
  /\ IF NamesTheAsked(block)
     THEN check' = [check EXCEPT !.at = "serve", !.commitment = Anchor(block)]
     ELSE Verdict("error")
  /\ UNCHANGED truth

\* No consensus URL is set, the block has no anchor, or the node doesn't answer.
NoAnchor == check.at = "anchor" /\ Verdict("error") /\ UNCHANGED truth

\* verify_served_events() of the logs an indexer serves.
VerifyServedEvents(logs) == CanonicalHash("asked", logs) = check.commitment

ServeLogs(logs) ==
  /\ check.at = "serve"
  /\ check' = [check EXCEPT !.at = "done", !.served = logs,
                            !.result = IF VerifyServedEvents(logs) THEN "complete" ELSE "incomplete"]
  /\ UNCHANGED truth

\* No indexer is configured, it has no such logs, or its answer is no log set.
NotServed == check.at = "serve" /\ Verdict("error") /\ UNCHANGED truth

CompletenessStep ==
  \/ \E block \in Block : ReadAnchor(block)
  \/ NoAnchor
  \/ \E logs \in Served : ServeLogs(logs)
  \/ NotServed

-----------------------------------------------------------------------------
\* A block called complete was served with exactly the logs the chain matched, no log,
\* topic or byte of data added, dropped, moved from one log to the next or from a topic to
\* the data; and an indexer that served them is never called incomplete
\* (canonical_event_set_hash() has no separators, only lengths).
VerdictIsTrue ==
  /\ check.result = "complete" => check.served = truth
  /\ check.result = "incomplete" => check.served # truth
=============================================================================
