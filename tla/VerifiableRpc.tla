---------------------------- MODULE VerifiableRpc ----------------------------
(***************************************************************************)
(* Queries of one subgrove through src/verifiable_rpc.rs, by tasks that    *)
(* share one client. The indexer's answer is checked against the last root *)
(* the client saw under a read lock, verified by the client's mode, and    *)
(* recorded under a later write lock. Nothing holds the entry in between,  *)
(* so tasks on several threads interleave at each step.                    *)
(*                                                                         *)
(* A response is a state root at a block (its tip), and the checks its     *)
(* proofs would pass. Indexers answer anything.                            *)
(***************************************************************************)
EXTENDS Integers

CONSTANTS
  Task,        \* the tasks that query
  Root,        \* state roots
  MaxTip,      \* bound: the last block an indexer answers for
  Sequential   \* whether a task asks only while no other query is under way

ASSUME RpcAssumption ==
  /\ MaxTip \in Nat
  /\ Root # {}
  /\ Sequential \in BOOLEAN

VARIABLES
  cache,      \* the subgrove's entry in state_root_cache: {} or {a claim}
  mode,       \* the client's VerifyMode
  phase,      \* where each task is
  resp,       \* the response it works on
  modeRead,   \* the mode its query read
  returned,   \* history: claims returned since the cache was last cleared
  before      \* history: those returned before the task asked

rpcVars == <<cache, mode, phase, resp, modeRead, returned, before>>

Mode == {"Strict", "GroveDbOnly", "Disabled"}

\* What a response claims: a state root, and the block it is the root of.
Claim == [tip : 0 .. MaxTip, root : Root]

\* With it, which of its proofs hold: none, GroveDB's, or GKR's as well. An
\* answer reported absent proves nothing.
Response == [claim : Claim, proofs : {"none", "grove", "gkr"}]

\* "refused" is a continuity error, "unverified" a proof error.
Phase == {"idle", "asked", "replied", "moded", "checked", "verified",
          "answered", "refused", "unverified"}
Ended == {"idle", "answered", "refused", "unverified"}

RpcTypeOK ==
  /\ cache \in SUBSET Claim /\ \A p, q \in cache : p = q
  /\ mode \in Mode
  /\ phase \in [Task -> Phase]
  /\ resp \in [Task -> Response]
  /\ modeRead \in [Task -> Mode]
  /\ returned \in SUBSET Claim
  /\ before \in [Task -> SUBSET Claim]

NoResponse == CHOOSE r \in Response : TRUE

RpcInit ==
  /\ cache = {}
  /\ mode = "Strict"
  /\ phase = [t \in Task |-> "idle"]
  /\ resp = [t \in Task |-> NoResponse]
  /\ modeRead = [t \in Task |-> "Strict"]
  /\ returned = {}
  /\ before = [t \in Task |-> {}]

\* The query ends; its own variables are gone.
End(t, ending) ==
  /\ phase' = [phase EXCEPT ![t] = ending]
  /\ resp' = [resp EXCEPT ![t] = NoResponse]
  /\ modeRead' = [modeRead EXCEPT ![t] = "Strict"]
  /\ before' = [before EXCEPT ![t] = {}]

-----------------------------------------------------------------------------
\* Mutated forms.

\* Only a fork is refused, not an earlier block.
MutCheckContinuity(t) ==
  /\ phase[t] = "moded"
  /\ \/ /\ \A p \in cache : resp[t].claim.tip # p.tip \/ resp[t].claim = p
        /\ phase' = [phase EXCEPT ![t] = "checked"]
        /\ UNCHANGED <<resp, modeRead, before>>
     \/ /\ \E p \in cache : resp[t].claim.tip = p.tip /\ resp[t].claim # p
        /\ End(t, "refused")
  /\ UNCHANGED <<cache, mode, returned>>

\* The root recorded before the proofs are verified.
MutVerify(t) ==
  /\ phase[t] = "checked"
  /\ \/ /\ resp[t].proofs # "none"
        /\ phase' = [phase EXCEPT ![t] = "verified"]
        /\ UNCHANGED <<resp, modeRead, before>>
     \/ resp[t].proofs = "none" /\ End(t, "unverified")
  /\ cache' = {resp[t].claim}
  /\ UNCHANGED <<mode, returned>>

\* The root added to those seen, not put in their place.
MutRecord(t) ==
  /\ phase[t] = "verified"
  /\ cache' = cache \cup {resp[t].claim}
  /\ returned' = returned \cup {resp[t].claim}
  /\ End(t, "answered")
  /\ UNCHANGED mode
-----------------------------------------------------------------------------
\* After a claim seen before: a later block, or the same root of the same block.
Follows(c, p) == c.tip > p.tip \/ c = p

Passes(r, m) ==
  CASE m = "Disabled" -> TRUE
    [] m = "GroveDbOnly" -> r.proofs # "none"
    [] m = "Strict" -> r.proofs = "gkr"

\* query() awaits the indexer's response.
Ask(t) ==
  /\ phase[t] \in Ended
  /\ Sequential => \A u \in Task : phase[u] \in Ended
  /\ phase' = [phase EXCEPT ![t] = "asked"]
  /\ before' = [before EXCEPT ![t] = returned]
  /\ UNCHANGED <<cache, mode, resp, modeRead, returned>>

Reply(t) ==
  /\ phase[t] = "asked"
  /\ \E r \in Response : resp' = [resp EXCEPT ![t] = r]
  /\ phase' = [phase EXCEPT ![t] = "replied"]
  /\ UNCHANGED <<cache, mode, modeRead, returned, before>>

\* query_raw() fails: no connection, an HTTP error, or a malformed response.
ReplyFails(t) ==
  /\ phase[t] = "asked"
  /\ End(t, "idle")
  /\ UNCHANGED <<cache, mode, returned>>

ReadMode(t) ==
  /\ phase[t] = "replied"
  /\ modeRead' = [modeRead EXCEPT ![t] = mode]
  /\ phase' = [phase EXCEPT ![t] = "moded"]
  /\ UNCHANGED <<cache, mode, resp, returned, before>>

\* check_continuity(), under the cache's read lock.
Continuous(t) == \A p \in cache : Follows(resp[t].claim, p)

CheckContinuity(t) ==
  /\ phase[t] = "moded"
  /\ \/ /\ Continuous(t)
        /\ phase' = [phase EXCEPT ![t] = "checked"]
        /\ UNCHANGED <<resp, modeRead, before>>
     \/ ~Continuous(t) /\ End(t, "refused")
  /\ UNCHANGED <<cache, mode, returned>>

Verify(t) ==
  /\ phase[t] = "checked"
  /\ \/ /\ Passes(resp[t], modeRead[t])
        /\ phase' = [phase EXCEPT ![t] = "verified"]
        /\ UNCHANGED <<resp, modeRead, before>>
     \/ ~Passes(resp[t], modeRead[t]) /\ End(t, "unverified")
  /\ UNCHANGED <<cache, mode, returned>>

\* record_seen_root(), under the write lock, whatever the cache holds by now; the
\* answer is returned.
Record(t) ==
  /\ phase[t] = "verified"
  /\ cache' = {resp[t].claim}
  /\ returned' = returned \cup {resp[t].claim}
  /\ End(t, "answered")
  /\ UNCHANGED mode

\* clear_root_cache(): what was returned before no longer binds.
ClearRootCache ==
  /\ cache' = {}
  /\ returned' = {}
  /\ before' = [t \in Task |-> {}]
  /\ UNCHANGED <<mode, phase, resp, modeRead>>

SetVerifyMode ==
  /\ mode' \in Mode
  /\ UNCHANGED <<cache, phase, resp, modeRead, returned, before>>

\* A query under way.
QueryStep(t) ==
  \/ Reply(t) \/ ReplyFails(t) \/ ReadMode(t)
  \/ CheckContinuity(t) \/ Verify(t) \/ Record(t)

RpcNext ==
  \/ \E t \in Task : Ask(t) \/ QueryStep(t)
  \/ ClearRootCache
  \/ SetVerifyMode

RpcSpec == RpcInit /\ [][RpcNext]_rpcVars

\* Every query ends: its request may time out, the rest awaits nothing.
FairRpcSpec == RpcSpec /\ \A t \in Task : WF_rpcVars(QueryStep(t))
-----------------------------------------------------------------------------
(* Properties *)

\* An answer is never behind, nor a fork of, one returned before it was asked
\* for: a later response of an earlier block, or of another root at the same
\* block, is rejected (verifiable_rpc.rs, "State continuity").
NeverBackward ==
  [][ \A t \in Task :
        phase[t] = "verified" /\ phase'[t] = "answered" =>
          \A p \in before[t] : Follows(resp[t].claim, p) ]_rpcVars

\* A continuity error is never a false one: an answer returned since the cache
\* was last cleared contradicts the refused response. In particular a response
\* whose proofs fail leaves no trace (record_seen_root runs last).
RefusalsJustified ==
  [][ \A t \in Task :
        phase[t] = "moded" /\ phase'[t] = "refused" =>
          \E p \in returned : ~Follows(resp[t].claim, p) ]_rpcVars
=============================================================================
