------------------------- MODULE VerifiableRpc_proofs -------------------------
(***************************************************************************)
(* What VerifiableRpc keeps for any tasks, roots and blocks. Types and     *)
(* justified refusals need nothing; that answers never go back is proved   *)
(* for queries made one at a time, and fails for overlapping ones.         *)
(***************************************************************************)
EXTENDS VerifiableRpc, TLAPS

LEMMA NoResponseType == NoResponse \in Response
<1>1. PICK r \in Root : TRUE
  BY RpcAssumption
<1>2. [claim |-> [tip |-> 0, root |-> r], proofs |-> "none"] \in Response
  BY <1>1, RpcAssumption DEF Response, Claim
<1> QED
  BY <1>2 DEF NoResponse

\* Claims are ordered: what follows a follower follows.
LEMMA FollowsTransitive ==
  ASSUME NEW a \in Claim, NEW b \in Claim, NEW c \in Claim,
         Follows(a, b), Follows(b, c)
  PROVE  Follows(a, c)
<1>1. a.tip \in Int /\ b.tip \in Int /\ c.tip \in Int
  BY RpcAssumption DEF Claim
<1> QED
  BY <1>1 DEF Follows

-----------------------------------------------------------------------------
(* Types, and that the cache holds only what was returned *)

CInv ==
  /\ RpcTypeOK
  /\ cache \subseteq returned

LEMMA CInvInit == RpcInit => CInv
  BY NoResponseType DEF RpcInit, CInv, RpcTypeOK, Mode, Phase

LEMMA CInvStep == CInv /\ [RpcNext]_rpcVars => CInv'
<1> SUFFICES ASSUME CInv, [RpcNext]_rpcVars PROVE CInv'
  OBVIOUS
<1> USE DEF CInv, RpcTypeOK
<1>1. ASSUME NEW t \in Task, Ask(t) PROVE CInv'
  BY <1>1 DEF Ask, Phase
<1>2. ASSUME NEW t \in Task, Reply(t) PROVE CInv'
  BY <1>2 DEF Reply, Phase
<1>3. ASSUME NEW t \in Task, ReplyFails(t) PROVE CInv'
  BY <1>3, NoResponseType DEF ReplyFails, End, Phase, Mode
<1>4. ASSUME NEW t \in Task, ReadMode(t) PROVE CInv'
  BY <1>4 DEF ReadMode, Phase
<1>5. ASSUME NEW t \in Task, CheckContinuity(t) PROVE CInv'
  BY <1>5, NoResponseType DEF CheckContinuity, End, Phase, Mode
<1>6. ASSUME NEW t \in Task, Verify(t) PROVE CInv'
  BY <1>6, NoResponseType DEF Verify, End, Phase, Mode
<1>7. ASSUME NEW t \in Task, Record(t) PROVE CInv'
  <2>1. resp[t].claim \in Claim
    BY DEF Response
  <2> QED
    BY <1>7, <2>1, NoResponseType DEF Record, End, Phase, Mode
<1>8. CASE ClearRootCache
  BY <1>8 DEF ClearRootCache
<1>9. CASE SetVerifyMode
  BY <1>9 DEF SetVerifyMode
<1>10. CASE UNCHANGED rpcVars
  BY <1>10 DEF rpcVars
<1> QED
  BY <1>1, <1>2, <1>3, <1>4, <1>5, <1>6, <1>7, <1>8, <1>9, <1>10 DEF RpcNext, QueryStep

\* Every variable of the queries has its type (client.rs, state_root_cache: one
\* entry per subgrove).
THEOREM RpcTyping == RpcSpec => []RpcTypeOK
<1>1. CInv => RpcTypeOK
  BY DEF CInv
<1> QED
  BY <1>1, CInvInit, CInvStep, PTL DEF RpcSpec

\* A continuity error is never a false one, however queries overlap
\* (check_continuity compares with what record_seen_root left of an answer).
THEOREM NoFalseRefusal == RpcSpec => RefusalsJustified
<1>1. ASSUME CInv, [RpcNext]_rpcVars, NEW t \in Task, phase[t] = "moded", phase'[t] = "refused"
      PROVE  \E p \in returned : ~Follows(resp[t].claim, p)
  <2> USE DEF CInv, RpcTypeOK
  <2>1. ~Continuous(t)
    <3>1. ASSUME NEW u \in Task, Ask(u) \/ Reply(u) \/ ReplyFails(u) \/ ReadMode(u) \/ Verify(u) \/ Record(u)
          PROVE  FALSE
      BY <1>1, <3>1 DEF Ask, Reply, ReplyFails, ReadMode, Verify, Record, End
    <3>2. ASSUME NEW u \in Task, CheckContinuity(u) PROVE ~Continuous(t)
      BY <1>1, <3>2 DEF CheckContinuity, End
    <3>3. ~ClearRootCache /\ ~SetVerifyMode /\ ~UNCHANGED rpcVars
      BY <1>1 DEF ClearRootCache, SetVerifyMode, rpcVars
    <3> QED
      BY <1>1, <3>1, <3>2, <3>3 DEF RpcNext, QueryStep
  <2> QED
    BY <1>1, <2>1 DEF Continuous
<1>2. CInv /\ [RpcNext]_rpcVars =>
        [\A t \in Task :
           phase[t] = "moded" /\ phase'[t] = "refused" =>
             \E p \in returned : ~Follows(resp[t].claim, p)]_rpcVars
  BY <1>1
<1> QED
  BY <1>2, CInvInit, CInvStep, PTL DEF RpcSpec, RefusalsJustified

-----------------------------------------------------------------------------
(* Queries made one at a time *)

\* One query at a time; the cache holds the last of the answers; a response that
\* was checked still follows it; and what a query saw returned is still returned.
SInv ==
  /\ \A t, u \in Task : phase[t] \notin Ended /\ phase[u] \notin Ended => t = u
  /\ \A p \in returned : \E c \in cache : Follows(c, p)
  /\ \A t \in Task : phase[t] \in {"checked", "verified"} => Continuous(t)
  /\ \A t \in Task : before[t] \subseteq returned

LEMMA SInvInit == RpcInit => SInv
  BY DEF RpcInit, SInv, Ended

\* A step of a query that keeps what the others and the cache are.
LEMMA SInvQuiet ==
  ASSUME CInv, SInv, NEW t \in Task,
         phase[t] \notin Ended, UNCHANGED <<cache, returned>>,
         \A u \in Task \ {t} : phase'[u] = phase[u] /\ resp'[u] = resp[u],
         phase'[t] \in {"checked", "verified"} => Continuous(t)',
         \A u \in Task : before'[u] = before[u] \/ before'[u] = {}
  PROVE  SInv'
<1>1. \A u \in Task : phase'[u] \notin Ended => u = t
  BY DEF SInv
<1>2. \A u \in Task \ {t} : phase'[u] \notin {"checked", "verified"}
  BY DEF SInv, Ended
<1> QED
  BY <1>1, <1>2 DEF SInv

LEMMA SInvStep ==
  ASSUME Sequential
  PROVE  CInv /\ SInv /\ [RpcNext]_rpcVars => SInv'
<1> SUFFICES ASSUME CInv, SInv, [RpcNext]_rpcVars PROVE SInv'
  OBVIOUS
<1> USE DEF CInv, RpcTypeOK
<1>1. ASSUME NEW t \in Task, Ask(t) PROVE SInv'
  BY <1>1 DEF Ask, SInv, Ended, Continuous
<1>2. ASSUME NEW t \in Task, Reply(t) PROVE SInv'
  BY <1>2, SInvQuiet DEF Reply, Ended
<1>3. ASSUME NEW t \in Task, ReplyFails(t) PROVE SInv'
  BY <1>3, SInvQuiet DEF ReplyFails, End, Ended
<1>4. ASSUME NEW t \in Task, ReadMode(t) PROVE SInv'
  BY <1>4, SInvQuiet DEF ReadMode, Ended
<1>5. ASSUME NEW t \in Task, CheckContinuity(t) PROVE SInv'
  <2>1. phase'[t] \in {"checked", "verified"} => Continuous(t)'
    BY <1>5 DEF CheckContinuity, End, Continuous
  <2> QED
    BY <1>5, <2>1, SInvQuiet DEF CheckContinuity, End, Ended
<1>6. ASSUME NEW t \in Task, Verify(t) PROVE SInv'
  <2>1. Continuous(t)
    BY <1>6 DEF Verify, SInv
  <2>2. phase'[t] \in {"checked", "verified"} => Continuous(t)'
    BY <1>6, <2>1 DEF Verify, End, Continuous
  <2> QED
    BY <1>6, <2>2, SInvQuiet DEF Verify, End, Ended
<1>7. ASSUME NEW t \in Task, Record(t) PROVE SInv'
  <2>1. \A u \in Task : phase'[u] \in Ended
    BY <1>7 DEF Record, End, SInv, Ended
  <2>2. resp[t].claim \in Claim /\ cache' = {resp[t].claim}
    BY <1>7 DEF Record, Response
  <2>3. \A p \in returned : Follows(resp[t].claim, p)
    <3> TAKE p \in returned
    <3>1. PICK c \in cache : Follows(c, p)
      BY DEF SInv
    <3>2. Follows(resp[t].claim, c)
      BY <1>7, <3>1 DEF Record, SInv, Continuous
    <3> QED
      BY <2>2, <3>1, <3>2, FollowsTransitive
  <2>4. Follows(resp[t].claim, resp[t].claim)
    BY DEF Follows
  <2>5. \A p \in returned' : \E c \in cache' : Follows(c, p)
    BY <1>7, <2>2, <2>3, <2>4 DEF Record
  <2>6. \A u \in Task : before'[u] \subseteq returned'
    BY <1>7 DEF Record, End, SInv
  <2> QED
    BY <2>1, <2>5, <2>6 DEF SInv, Ended
<1>8. CASE ClearRootCache
  BY <1>8 DEF ClearRootCache, SInv, Continuous
<1>9. CASE SetVerifyMode
  BY <1>9 DEF SetVerifyMode, SInv, Continuous
<1>10. CASE UNCHANGED rpcVars
  BY <1>10 DEF rpcVars, SInv, Continuous
<1> QED
  BY <1>1, <1>2, <1>3, <1>4, <1>5, <1>6, <1>7, <1>8, <1>9, <1>10 DEF RpcNext, QueryStep

\* Answers never go back, nor fork from one returned before, when queries are
\* made one at a time (check_continuity, then record_seen_root).
THEOREM AnswersAdvance ==
  ASSUME Sequential
  PROVE  RpcSpec => NeverBackward
<1>1. ASSUME CInv, SInv, [RpcNext]_rpcVars, NEW t \in Task,
             phase[t] = "verified", NEW p \in before[t]
      PROVE  Follows(resp[t].claim, p)
  <2>1. PICK c \in cache : Follows(c, p)
    BY <1>1 DEF SInv
  <2>2. Follows(resp[t].claim, c)
    BY <1>1, <2>1 DEF SInv, Continuous
  <2>3. resp[t].claim \in Claim /\ c \in Claim /\ p \in Claim
    BY <1>1, <2>1 DEF CInv, RpcTypeOK, Response
  <2> QED
    BY <2>1, <2>2, <2>3, FollowsTransitive
<1>2. CInv /\ SInv /\ [RpcNext]_rpcVars =>
        [\A t \in Task :
           phase[t] = "verified" /\ phase'[t] = "answered" =>
             \A p \in before[t] : Follows(resp[t].claim, p)]_rpcVars
  BY <1>1
<1> QED
  BY <1>2, CInvInit, CInvStep, SInvInit, SInvStep, PTL DEF RpcSpec, NeverBackward
=============================================================================
