----------------------------- MODULE Submission -----------------------------
(***************************************************************************)
(* ConsensusClient's submissions (src/consensus.rs) over HTTP to a         *)
(* CometBFT node. Each attempt is one call that is delivered, delayed past *)
(* the client's timeout, or lost with its answer; the node checks the      *)
(* bytes, keeps them in its mempool and cache, and runs them in a block.   *)
(* Each step on the client's side is a step of NonceLeases.                *)
(*                                                                         *)
(* The node is external: it is modelled from the replies src/consensus.rs  *)
(* and src/nonces.rs tell apart and what they say causes them.             *)
(***************************************************************************)
EXTENDS NonceLeases

VARIABLES
  call,       \* each write's current HTTP call: none, sent, or the node's reply
  strays,     \* copies of a write still on their way after its call gave up on them
  pool,       \* writes pending in the node's mempool
  cache,      \* writes whose bytes the node's mempool cache remembers
  admitted,   \* history: writes the node ever admitted
  ran         \* how often each write ran in a block

nodeVars == <<pool, cache, admitted, ran>>
subVars == <<leaseVars, call, strays, nodeVars>>

Reply == {"admitted", "cached", "full", "held", "used", "refused"}

SubTypeOK ==
  /\ LeaseTypeOK
  /\ call \in [Write -> {"none", "sent"} \cup Reply]
  /\ strays \in [Write -> 0 .. MaxRetries + 1]
  /\ pool \subseteq cache /\ cache \subseteq admitted /\ admitted \subseteq Write
  /\ ran \in [Write -> Nat]

SubInit ==
  /\ LeaseInit
  /\ call = [w \in Write |-> "none"]
  /\ strays = [w \in Write |-> 0]
  /\ pool = {}
  /\ cache = {}
  /\ admitted = {}
  /\ ran = [w \in Write |-> 0]

-----------------------------------------------------------------------------
\* Mutated forms.

\* Every failed send taken for one that sent nothing.
MutLose(w) ==
  /\ call[w] # "none"
  /\ NotSent(w) \/ NotResent(w)
  /\ call' = [call EXCEPT ![w] = "none"]
  /\ strays' = IF call[w] = "sent" THEN [strays EXCEPT ![w] = @ + 1] ELSE strays
  /\ UNCHANGED nodeVars

\* A rebroadcast the mempool does not admit gives its nonce back.
MutReceive(w) ==
  /\ call[w] = "full"
  /\ phase' = [phase EXCEPT ![w] = IF retries[w] = 0 THEN "failed" ELSE "unknown"]
  /\ Release(nonce[w])
  /\ since' = [since EXCEPT ![w] = IF retries[w] = 0 THEN Absent ELSE @]
  /\ call' = [call EXCEPT ![w] = "none"]
  /\ UNCHANGED <<chainVars, nonce, seen, retries, reclaimed, strays, nodeVars>>
-----------------------------------------------------------------------------
(* The node *)

\* broadcast_tx_sync: CometBFT refuses the bytes before CheckTx when its mempool
\* is full or already remembers them; CheckTx refuses a nonce that is used, held
\* by a pending transaction or out of the window, or the transaction itself.
CheckTx(w, reply) ==
  LET n == nonce[w] IN
  \/ /\ reply = "full"
     /\ UNCHANGED nodeVars
  \/ /\ reply = "cached"
     /\ w \in cache
     /\ UNCHANGED nodeVars
  \/ /\ w \notin cache
     /\ \/ reply = "used" /\ Spent(n)
        \/ reply = "held" /\ ~Spent(n)
        \/ reply = "refused"
     /\ UNCHANGED nodeVars
  \/ /\ reply = "admitted"
     /\ w \notin cache
     /\ ~Spent(n) /\ n <= chainBase + Window
     /\ pool' = pool \cup {w}
     /\ cache' = cache \cup {w}
     /\ admitted' = admitted \cup {w}
     /\ UNCHANGED ran

\* A pending write is executed, which spends its nonce whether or not its
\* execution succeeds.
Land(w) ==
  /\ w \in pool
  /\ Spend(nonce[w])
  /\ pool' = pool \ {w}
  /\ ran' = [ran EXCEPT ![w] = @ + 1]
  /\ UNCHANGED <<account, phase, nonce, seen, since, retries, reclaimed, call, strays, cache, admitted>>

\* A pending write leaves the mempool without running, remembered or not.
Drop(w) ==
  /\ w \in pool
  /\ pool' = pool \ {w}
  /\ cache' \in {cache, cache \ {w}}
  /\ UNCHANGED <<leaseVars, call, strays, admitted, ran>>

\* The cache forgets a write that is no longer pending.
Forget(w) ==
  /\ w \in cache \ pool
  /\ cache' = cache \ {w}
  /\ UNCHANGED <<leaseVars, call, strays, pool, admitted, ran>>

-----------------------------------------------------------------------------
(* A write's calls *)

\* submit_under() and send_signed() of a new write.
Submit(w) ==
  /\ Send(w) \/ SendGiven(w)
  /\ call' = [call EXCEPT ![w] = "sent"]
  /\ UNCHANGED <<strays, nodeVars>>

Resend(w) ==
  /\ Rebroadcast(w)
  /\ call' = [call EXCEPT ![w] = "sent"]
  /\ UNCHANGED <<strays, nodeVars>>

Deliver(w) ==
  /\ call[w] = "sent"
  /\ \E reply \in Reply :
       /\ CheckTx(w, reply)
       /\ call' = [call EXCEPT ![w] = reply]
  /\ UNCHANGED <<leaseVars, strays>>

\* A copy from an attempt that timed out reaches the node; nobody waits for the
\* reply.
DeliverStray(w) ==
  /\ strays[w] > 0
  /\ strays' = [strays EXCEPT ![w] = @ - 1]
  /\ \E reply \in Reply : CheckTx(w, reply)
  /\ UNCHANGED <<leaseVars, call>>

\* send_bytes() and refusal_outcome(): what each reply says of the nonce.
OutcomeOf(reply) ==
  CASE reply \in {"admitted", "cached"} -> "Accepted"
    [] reply = "held" -> "Held"
    [] reply = "used" -> "Used"
    [] reply = "refused" -> "Free"

Receive(w) ==
  /\ call[w] \in Reply
  /\ IF call[w] = "full"
       THEN NotSent(w) \/ NotResent(w)
       ELSE Answered(w, OutcomeOf(call[w]))
  /\ call' = [call EXCEPT ![w] = "none"]
  /\ UNCHANGED <<strays, nodeVars>>

\* The connection fails before anything is sent.
CannotConnect(w) ==
  /\ call[w] = "sent"
  /\ NotSent(w) \/ NotResent(w)
  /\ call' = [call EXCEPT ![w] = "none"]
  /\ UNCHANGED <<strays, nodeVars>>

\* The answer is lost, late, unreadable or an RPC error: SubmissionUnknown. What
\* was not delivered yet is lost, or arrives later.
Lose(w) ==
  /\ call[w] # "none"
  /\ Answered(w, "Unknown")
  /\ call' = [call EXCEPT ![w] = "none"]
  /\ \/ UNCHANGED strays
     \/ call[w] = "sent" /\ strays' = [strays EXCEPT ![w] = @ + 1]
  /\ UNCHANGED nodeVars

\* The steps of NonceLeases that involve no call.
Local(w) ==
  /\ Ask(w) \/ TakeNonce(w) \/ WindowFull(w) \/ BuildFails(w)
  /\ UNCHANGED <<call, strays, nodeVars>>

Surroundings ==
  /\ Tick \/ Query \/ \E n \in Nonce : ChainSpends(n)
  /\ UNCHANGED <<call, strays, nodeVars>>

SubNext ==
  \/ \E w \in Write :
       \/ Local(w)
       \/ Submit(w) \/ Resend(w) \/ Receive(w) \/ CannotConnect(w) \/ Lose(w)
       \/ Deliver(w) \/ DeliverStray(w) \/ Land(w) \/ Drop(w) \/ Forget(w)
  \/ Surroundings

SubSpec == SubInit /\ [][SubNext]_subVars
-----------------------------------------------------------------------------
(* Properties *)

\* What the caller of each write has been told. An error that is final (the
\* write was never sent, not admitted, or refused at CheckTx, in its first
\* attempt) means it never runs; the errors of a rebroadcast leave that open.
ToldOf(w) ==
  CASE phase[w] = "accepted" -> "accepted"
    [] phase[w] \in {"failed", "held", "spent"} /\ retries[w] = 0 -> "neverRuns"
    [] phase[w] = "unknown" \/ retries[w] > 0 -> "mayRun"
    [] OTHER -> "nothing"

Promise == INSTANCE WritePromise WITH
  told <- [w \in Write |-> ToldOf(w)],
  taken <- admitted,
  runs <- ran

\* The submissions keep what the client promises its callers: at most one run
\* however often a write is sent, none of a write that failed for good
\* (send_signed, send_bytes, rebroadcast).
KeepsPromise == Promise!PromiseSpec

\* The nonce of a write pending in the mempool stays out of reach for the hold:
\* unless another write came by the same nonce, the tracker keeps the stamp of a
\* pending write's nonce or knows it used (send_signed keeps the nonce of a
\* rebroadcast that was not admitted, since the earlier attempt may be pending).
PendingHeld ==
  \A w \in pool :
    /\ Claims(w) /\ Current(w)
    /\ \A v \in Write \ {w} : nonce[v] # nonce[w]
    => account.handed[nonce[w]] # Absent \/ Dead(account, nonce[w])
=============================================================================
