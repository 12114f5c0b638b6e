----------------------------- MODULE NonceLeases -----------------------------
(***************************************************************************)
(* The writes of one client taking nonces from its tracker and giving them *)
(* back (the write paths of src/consensus.rs), against a chain that spends *)
(* nonces in any order. The node's replies are left open here, except that *)
(* it calls a nonce used only when it is; module Submission says which     *)
(* reply a node gives.                                                     *)
(*                                                                         *)
(* A write goes idle -> asked -> leased -> flying -> an outcome. Between   *)
(* `asked' and the take, the answer it read can go stale: reading the      *)
(* chain awaits, and the tracker's mutex is not held across an await.      *)
(***************************************************************************)
EXTENDS NonceTracker

CONSTANTS
  Write,          \* the write calls of one client signing for one DID
  Punctual,       \* whether every write uses its nonce before its hold lapses
  OwnNonces,      \* whether callers may also pass nonces they did not take
  MaxSpent,       \* bound: no nonce above this one is spent on the chain
  MaxRetries,     \* bound: how often one write is rebroadcast
  MaxResent       \* bound: and all of them together

ASSUME LeasesAssumption ==
  /\ Punctual \in BOOLEAN
  /\ OwnNonces \in BOOLEAN
  /\ MaxSpent \in Nat
  /\ MaxSpent < MaxNonce
  /\ MaxRetries \in Nat

VARIABLES
  chainBase,    \* the chain's base: every nonce up to it is spent
  chainUsed,    \* the nonces spent above the base
  answers,      \* what a node may answer for the account, the lagging ones included
  phase,        \* where each write call is
  nonce,        \* the nonce it took, 0 before
  seen,         \* the answer it read, between the await and the take
  since,        \* how long ago it stamped the nonce it claims, Absent without a claim
  retries,      \* how often it was rebroadcast
  reclaimed     \* history: nonces sent under again after they were given back

leaseVars ==
  <<account, chainBase, chainUsed, answers, phase, nonce, seen, since, retries, reclaimed>>
chainVars == <<chainBase, chainUsed, answers>>

Phase == {"idle", "asked", "leased", "flying",
          "unknown", "accepted", "held", "spent", "failed"}

StateOf(b, u) == [base |-> b, bits |-> { i \in 0 .. Window - 1 : b + 1 + i \in u }]
NoAnswer == StateOf(0, {})

\* The types, and that every method of the tracker leaves its account pruned.
LeaseTypeOK ==
  /\ Pruned(account)
  /\ chainBase \in 0 .. MaxSpent
  /\ chainUsed \in SUBSET (1 .. MaxSpent)
  /\ answers \in SUBSET ChainState
  /\ phase \in [Write -> Phase]
  /\ nonce \in [Write -> 0 .. MaxNonce]
  /\ seen \in [Write -> ChainState]
  /\ since \in [Write -> Age]
  /\ retries \in [Write -> 0 .. MaxRetries]
  /\ reclaimed \subseteq Nonce

Spent(n) == n <= chainBase \/ n \in chainUsed

\* A write that has taken a nonce and neither given it back nor seen it spent.
Claims(w) == phase[w] \in {"leased", "flying", "unknown", "accepted", "held"}
Current(w) == since[w] < Hold
InTime(w) == Punctual => Current(w)

\* The caller of w has its signed bytes, which an error handed out (SubmissionUnknown),
\* and none of its calls is under way.
HasBytes(w) ==
  \/ phase[w] = "unknown"
  \/ phase[w] \in {"accepted", "held", "spent", "failed"} /\ retries[w] > 0

-----------------------------------------------------------------------------
\* Mutated forms.

MutBuildFails(w) ==
  /\ phase[w] = "leased"
  /\ phase' = [phase EXCEPT ![w] = "failed"]
  /\ since' = [since EXCEPT ![w] = Absent]
  /\ UNCHANGED <<account, chainVars, nonce, seen, retries, reclaimed>>
-----------------------------------------------------------------------------
LeaseInit ==
  /\ TrackerInit
  /\ chainBase = 0
  /\ chainUsed = {}
  /\ answers = {NoAnswer}
  /\ phase = [w \in Write |-> "idle"]
  /\ nonce = [w \in Write |-> 0]
  /\ seen = [w \in Write |-> NoAnswer]
  /\ since = [w \in Write |-> Absent]
  /\ retries = [w \in Write |-> 0]
  /\ reclaimed = {}

\* account_nonce_state(): some node's answer, which may be an old one, or the
\* base alone when the ABCI query fails.
AskFor(w, s) ==
  /\ phase[w] = "idle"
  /\ s \in answers
  /\ seen' = [seen EXCEPT ![w] = s]
  /\ phase' = [phase EXCEPT ![w] = "asked"]
  /\ UNCHANGED <<account, chainVars, nonce, since, retries, reclaimed>>

Ask(w) == \E s \in answers : AskFor(w, s)

AskUpToDate(w) == \E s \in answers : s.base = chainBase /\ AskFor(w, s)

\* get_next_nonce() resumes: take the lowest free nonce of the window.
TakeNonce(w) ==
  /\ phase[w] = "asked"
  /\ \E n \in Nonce, lag \in Lag :
       /\ Take(seen[w], n, lag)
       /\ nonce' = [nonce EXCEPT ![w] = n]
       /\ since' = [since EXCEPT ![w] = lag]
  /\ phase' = [phase EXCEPT ![w] = "leased"]
  /\ seen' = [seen EXCEPT ![w] = NoAnswer]
  /\ UNCHANGED <<chainVars, retries, reclaimed>>

\* NonceWindowFull: the call fails, and its caller may try again.
WindowFull(w) ==
  /\ phase[w] = "asked"
  /\ \E lag \in Lag : TakeFull(seen[w], lag)
  /\ phase' = [phase EXCEPT ![w] = "idle"]
  /\ seen' = [seen EXCEPT ![w] = NoAnswer]
  /\ UNCHANGED <<chainVars, nonce, since, retries, reclaimed>>

\* The caller comes with a nonce of its own choice.
BringNonce(w, n) ==
  /\ OwnNonces
  /\ phase[w] = "idle"
  /\ nonce' = [nonce EXCEPT ![w] = n]
  /\ phase' = [phase EXCEPT ![w] = "leased"]
  /\ UNCHANGED <<account, chainVars, seen, since, retries, reclaimed>>

\* The transaction is refused or cannot be built before it is sent.
BuildFails(w) ==
  /\ phase[w] = "leased"
  /\ InTime(w)
  /\ Release(nonce[w])
  /\ phase' = [phase EXCEPT ![w] = "failed"]
  /\ since' = [since EXCEPT ![w] = Absent]
  /\ UNCHANGED <<chainVars, nonce, seen, retries, reclaimed>>

\* submit_with_nonce() sends under the nonce it just took.
Send(w) ==
  /\ phase[w] = "leased"
  /\ InTime(w)
  /\ phase' = [phase EXCEPT ![w] = "flying"]
  /\ UNCHANGED <<account, chainVars, nonce, seen, since, retries, reclaimed>>

\* submit_with_given_nonce() stamps the nonce it was passed and sends.
SendGiven(w) ==
  /\ phase[w] = "leased"
  /\ InTime(w)
  /\ \E lag \in Lag :
       /\ HoldNonce(nonce[w], lag)
       /\ since' = [since EXCEPT ![w] = lag]
  /\ phase' = [phase EXCEPT ![w] = "flying"]
  /\ UNCHANGED <<chainVars, nonce, seen, retries, reclaimed>>

\* rebroadcast(): the same bytes under the same nonce, stamped again. It asks
\* nothing of the nonce, which an earlier rebroadcast may have given back. A
\* punctual caller is in time with a nonce it still claims.
Rebroadcast(w) ==
  /\ HasBytes(w)
  /\ Claims(w) => InTime(w)
  /\ retries[w] < MaxRetries
  /\ Cardinality({r \in Write \X (1 .. MaxRetries) : r[2] <= retries[r[1]]}) < MaxResent
  /\ \E lag \in Lag :
       /\ HoldNonce(nonce[w], lag)
       /\ since' = [since EXCEPT ![w] = lag]
  /\ phase' = [phase EXCEPT ![w] = "flying"]
  /\ retries' = [retries EXCEPT ![w] = @ + 1]
  /\ reclaimed' = IF phase[w] = "failed" THEN reclaimed \cup {nonce[w]} ELSE reclaimed
  /\ UNCHANGED <<chainVars, nonce, seen>>

AfterOutcome(outcome) ==
  CASE outcome = "Accepted" -> "accepted"
    [] outcome = "Held" -> "held"
    [] outcome = "Unknown" -> "unknown"
    [] outcome = "Free" -> "failed"
    [] outcome = "Used" -> "spent"

\* The call ends with an outcome, and settles its nonce by it.
Answered(w, outcome) ==
  /\ phase[w] = "flying"
  /\ outcome = "Used" => Spent(nonce[w])
  /\ \E lag \in Lag :
       /\ Settle(nonce[w], outcome, lag)
       /\ since' = [since EXCEPT ![w] = IF outcome \in {"Free", "Used"} THEN Absent ELSE lag]
  /\ phase' = [phase EXCEPT ![w] = AfterOutcome(outcome)]
  /\ UNCHANGED <<chainVars, nonce, seen, retries, reclaimed>>

\* Nothing was sent, or the mempool took none of it, in a write's first attempt.
NotSent(w) ==
  /\ phase[w] = "flying"
  /\ retries[w] = 0
  /\ Release(nonce[w])
  /\ phase' = [phase EXCEPT ![w] = "failed"]
  /\ since' = [since EXCEPT ![w] = Absent]
  /\ UNCHANGED <<chainVars, nonce, seen, retries, reclaimed>>

\* The same in a rebroadcast: the earlier attempt may still land.
NotResent(w) ==
  /\ phase[w] = "flying"
  /\ retries[w] > 0
  /\ phase' = [phase EXCEPT ![w] = "unknown"]
  /\ UNCHANGED <<account, chainVars, nonce, seen, since, retries, reclaimed>>

\* is_held(), which drops lapsed holds as it answers.
Query ==
  /\ \E lag \in Lag : IsHeld(lag)
  /\ UNCHANGED <<chainVars, phase, nonce, seen, since, retries, reclaimed>>

\* The chain executes a transaction under n: this client's, or another's. The
\* base advances over spent nonces with no gap.
Spend(n) ==
  /\ n \in chainBase + 1 .. chainBase + Window
  /\ n <= MaxSpent
  /\ n \notin chainUsed
  /\ LET spent == chainUsed \cup {n} IN
       \E b \in chainBase .. chainBase + Window :
         /\ chainBase + 1 .. b \subseteq spent
         /\ b + 1 \notin spent
         /\ chainBase' = b
         /\ chainUsed' = { m \in spent : m > b }
         /\ answers' = answers \cup {StateOf(b, spent), StateOf(b, {})}

ChainSpends(n) ==
  /\ Spend(n)
  /\ UNCHANGED <<account, phase, nonce, seen, since, retries, reclaimed>>

\* Time passes. The requests of punctual writes time out (30 s by default) well
\* within the hold.
Tick ==
  /\ Punctual => \A w \in Write : phase[w] = "flying" => since[w] + 1 < Hold
  /\ Elapse
  /\ since' = [w \in Write |-> Older(since[w])]
  /\ UNCHANGED <<chainVars, phase, nonce, seen, retries, reclaimed>>

WriteStep(w) ==
  \/ Ask(w) \/ TakeNonce(w) \/ WindowFull(w)
  \/ \E n \in Nonce : BringNonce(w, n)
  \/ BuildFails(w) \/ Send(w) \/ SendGiven(w) \/ Rebroadcast(w)
  \/ \E outcome \in Outcome : Answered(w, outcome)
  \/ NotSent(w) \/ NotResent(w)

LeaseNext ==
  \/ \E w \in Write : WriteStep(w)
  \/ \E n \in Nonce : ChainSpends(n)
  \/ Query
  \/ Tick

LeaseSpec == LeaseInit /\ [][LeaseNext]_leaseVars

\* Every call ends, the clock runs, and a caller refused for a full window tries
\* again; a caller that asks for ever does not get outdated answers for ever.
LeaseFairness ==
  /\ WF_leaseVars(Tick)
  /\ \A w \in Write :
       /\ SF_leaseVars(AskUpToDate(w))
       /\ WF_leaseVars(TakeNonce(w) \/ WindowFull(w))
       /\ WF_leaseVars(NotResent(w) \/ \E outcome \in Outcome : Answered(w, outcome))

FairLeaseSpec == LeaseSpec /\ LeaseFairness
-----------------------------------------------------------------------------
(* Properties *)

\* No two writes hold one nonce at a time: of two writes with a claim to the
\* same nonce, at most one stamped it within the hold (the lock in take(), and
\* the holds settle() keeps). The exception is a nonce that a caller sent under
\* again after it was given back: rebroadcast() does not ask whether another
\* write took it meanwhile.
LeasesDistinct ==
  \A v, w \in Write :
    /\ v # w
    /\ Claims(v) /\ Claims(w)
    /\ Current(v) /\ Current(w)
    /\ nonce[v] \notin reclaimed
    => nonce[v] # nonce[w]

\* take() hands out no nonce that another write of the client took or stamped
\* within the hold and has not given back (README.md, "Nonces"), with the same
\* exception.
TakesFresh ==
  [][ \A v, w \in Write :
        /\ phase[w] = "asked" /\ phase'[w] = "leased"
        /\ v # w /\ Claims(v) /\ Current(v)
        /\ nonce[v] \notin reclaimed
        => nonce[v] # nonce'[w] ]_leaseVars

\* What the tracker believes used is used: a nonce wrongly believed used would
\* block the chain's base below it for good (Merge, and settle() on Used).
KnowledgeSound ==
  \A n \in Nonce : Dead(account, n) => Spent(n)

\* What the tracker once knew used it knows for good: no lagging answer and no
\* outcome brings a used nonce back into the window.
KnowledgeKept ==
  [][ \A n \in Nonce : Dead(account, n) => Dead(account, n)' ]_leaseVars

\* Every nonce in a write's hands is one the node can accept, now or once it
\* has caught up: none lies past the chain's own window.
WithinWindow ==
  \A w \in Write : Claims(w) /\ ~OwnNonces => nonce[w] <= chainBase + Window

\* No stamp outlives its write: a nonce that is neither used nor free is in
\* the hands of a write that stamped it that long ago (every error path gives
\* its nonce back).
NoLeak ==
  \A n \in Nonce :
    account.handed[n] # Absent =>
      \/ Dead(account, n)
      \/ \E w \in Write : Claims(w) /\ nonce[w] = n /\ since[w] = account.handed[n]

\* NonceWindowFull is answered only when each nonce of the window is spent on
\* the chain or claimed by a write that stamped it within the hold (or within
\* the lag of the clock reading).
FullIsJustified ==
  [][ \A w \in Write :
        phase[w] = "asked" /\ phase'[w] = "idle" =>
          \A n \in SatAdd(account'.base, 1) .. SatAdd(account'.base, Window) :
            Spent(n) \/ \E v \in Write : Claims(v) /\ nonce[v] = n /\ since[v] < Cap ]_leaseVars

\* A caller that keeps asking gets a nonce: holds that are never given back
\* lapse, and the window frees.
Served == \A w \in Write : phase[w] = "idle" ~> phase[w] \notin {"idle", "asked"}
=============================================================================
