-------------------------- MODULE Submission_proofs --------------------------
(***************************************************************************)
(* Every step of a submission is a step of NonceLeases or leaves it alone, *)
(* so what is proved of the leases holds of the submissions. And whatever  *)
(* the node, the network and the client's own retries do to a write, the   *)
(* caller is told nothing that turns out false (WritePromise).             *)
(***************************************************************************)
EXTENDS Submission, NonceLeases_proofs

USE TrackerAssumption, LeasesAssumption DEF Nonce

\* What the client does with a nonce in a submission is a step of NonceLeases.
LEMMA StepSimulation ==
  ASSUME KInv, SubNext
  PROVE  [LeaseNext]_leaseVars
<1>. USE DEF LeaseNext, WriteStep
<1>1. ASSUME NEW w \in Write, Local(w)
      PROVE  LeaseNext
  BY <1>1 DEF Local
<1>2. ASSUME NEW w \in Write, Submit(w)
      PROVE  LeaseNext
  BY <1>2 DEF Submit
<1>3. ASSUME NEW w \in Write, Resend(w)
      PROVE  LeaseNext
  BY <1>3 DEF Resend
<1>4. ASSUME NEW w \in Write, Receive(w)
      PROVE  LeaseNext
  <2>1. CASE call[w] = "full"
    BY <1>4, <2>1 DEF Receive
  <2>2. CASE call[w] # "full"
    <3>1. OutcomeOf(call[w]) \in Outcome
      BY <1>4, <2>2 DEF Receive, Reply, OutcomeOf, Outcome
    <3>. QED
      BY <1>4, <2>2, <3>1 DEF Receive
  <2>. QED
    BY <2>1, <2>2
<1>5. ASSUME NEW w \in Write, CannotConnect(w)
      PROVE  LeaseNext
  BY <1>5 DEF CannotConnect
<1>6. ASSUME NEW w \in Write, Lose(w)
      PROVE  LeaseNext
  BY <1>6 DEF Lose, Outcome
<1>7. ASSUME NEW w \in Write, Deliver(w) \/ DeliverStray(w) \/ Drop(w) \/ Forget(w)
      PROVE  UNCHANGED leaseVars
  BY <1>7 DEF Deliver, DeliverStray, Drop, Forget
<1>8. ASSUME NEW w \in Write, Land(w)
      PROVE  LeaseNext
  <2>1. chainBase \in Nat
    BY BaseBound
  <2>2. nonce[w] \in Nonce
    BY <1>8, <2>1 DEF Land, Spend
  <2>3. ChainSpends(nonce[w])
    BY <1>8 DEF Land, ChainSpends
  <2>. QED
    BY <2>2, <2>3
<1>9. CASE Surroundings
  BY <1>9 DEF Surroundings
<1>. QED
  BY <1>1, <1>2, <1>3, <1>4, <1>5, <1>6, <1>7, <1>8, <1>9 DEF SubNext

-----------------------------------------------------------------------------
(* What is on its way, and where a write can still be admitted *)

Calls ==
  /\ call \in [Write -> {"none", "sent"} \cup Reply]
  /\ strays \in [Write -> Nat]
  /\ ran \in [Write -> Nat]
  /\ pool \subseteq cache /\ cache \subseteq admitted /\ admitted \subseteq Write

\* A call is pending exactly while its write is in flight, and every copy on
\* its way belongs to one of the write's attempts.
CallOf(w) ==
  /\ call[w] # "none" <=> phase[w] = "flying"
  /\ strays[w] <= retries[w] + 1
  /\ call[w] # "none" => strays[w] <= retries[w]

\* Until a write's first attempt is over, and for good when that attempt failed
\* for good, no copy of it is under way but the one of the call.
OneCopy(w) ==
  /\ phase[w] \in {"idle", "asked", "leased"} => retries[w] = 0
  /\ retries[w] = 0 /\ phase[w] \notin {"unknown", "accepted"} =>
    /\ strays[w] = 0
    /\ call[w] \notin {"admitted", "cached"} => w \notin admitted

\* The node took in what the client calls accepted; what ran was taken in, and
\* spent its nonce.
TakenIn(w) ==
  /\ call[w] \in {"admitted", "cached"} \/ phase[w] = "accepted" => w \in admitted
  /\ ran[w] > 0 => w \in admitted /\ Spent(nonce[w])

SInv ==
  /\ KInv
  /\ Calls
  /\ \A w \in Write : CallOf(w) /\ OneCopy(w) /\ TakenIn(w)

\* No step of the chain gives a spent nonce back.
LEMMA SpentKept ==
  ASSUME KInv, [LeaseNext]_leaseVars
  PROVE  \A m \in 0 .. MaxNonce : Spent(m) => Spent(m)'
<1>1. CASE UNCHANGED <<chainBase, chainUsed>>
  BY <1>1 DEF Spent
<1>2. CASE \E n \in Nonce : ChainSpends(n)
  <2>1. /\ chainBase \in 0 .. MaxSpent /\ chainBase' \in 0 .. MaxSpent
        /\ chainBase <= chainBase'
        /\ \A m \in Nonce : Spent(m) => Spent(m)'
    BY <1>2, SpendLemma DEF ChainSpends, KInv, LeaseTypeOK
  <2>2. Spent(0)'
    BY <2>1 DEF Spent
  <2>. QED
    BY <2>1, <2>2
<1>3. CASE \E w \in Write : WriteStep(w)
  BY <1>1, <1>3, WriteStepKind
     DEF KInv, Kind, Passes, Takes, FindsFull, Restamps, Reclaims, GivesUp, OnlyMoves, chainVars
<1>4. CASE Query \/ Tick \/ UNCHANGED leaseVars
  BY <1>1, <1>4 DEF Query, Tick, leaseVars, chainVars
<1>. QED
  BY <1>2, <1>3, <1>4 DEF LeaseNext

\* What CheckTx changes of a node's mempool.
LEMMA CheckTxLemma ==
  ASSUME Calls, NEW w \in Write, NEW reply \in Reply, CheckTx(w, reply)
  PROVE  /\ pool' \subseteq cache' /\ cache' \subseteq admitted' /\ admitted' \subseteq Write
         /\ ran' = ran
         /\ admitted \subseteq admitted' /\ admitted' \subseteq admitted \cup {w}
         /\ reply \in {"admitted", "cached"} => w \in admitted'
         /\ reply # "admitted" => admitted' = admitted
BY DEF CheckTx, Calls, nodeVars, Reply

\* A step that moves nothing of w keeps what SInv says of w.
LEMMA UntouchedWrite ==
  ASSUME SInv, NEW w \in Write,
         phase'[w] = phase[w], retries'[w] = retries[w], nonce'[w] = nonce[w],
         call'[w] = call[w], strays'[w] = strays[w], ran'[w] = ran[w],
         w \in admitted' <=> w \in admitted,
         Spent(nonce[w]) => Spent(nonce[w])'
  PROVE  (CallOf(w) /\ OneCopy(w) /\ TakenIn(w))'
BY DEF SInv, CallOf, OneCopy, TakenIn, Spent

LEMMA SInvInit == SubInit => SInv
<1>1. SubInit => KInv
  BY KInvInit DEF SubInit
<1>. QED
  BY <1>1 DEF SubInit, LeaseInit, SInv, Calls, CallOf, OneCopy, TakenIn

\* A call of w moves the other writes nowhere.
OthersStay(w) ==
  \A v \in Write \ {w} :
    /\ phase'[v] = phase[v] /\ retries'[v] = retries[v] /\ nonce'[v] = nonce[v]
    /\ call'[v] = call[v] /\ strays'[v] = strays[v] /\ ran'[v] = ran[v]
    /\ v \in admitted' <=> v \in admitted

\* Each action of a write moves that write only, keeps the calls' types, and
\* leaves the write as SInv says.
LEMMA WriteKeeps ==
  ASSUME SInv, NEW w \in Write,
         \A m \in 0 .. MaxNonce : Spent(m) => Spent(m)',
         \/ Local(w) \/ Submit(w) \/ Resend(w) \/ Receive(w) \/ CannotConnect(w) \/ Lose(w)
         \/ Deliver(w) \/ DeliverStray(w) \/ Land(w) \/ Drop(w) \/ Forget(w)
  PROVE  /\ Calls' /\ OthersStay(w)
         /\ (CallOf(w) /\ OneCopy(w) /\ TakenIn(w))'
<1>1. /\ phase \in [Write -> Phase] /\ retries \in [Write -> 0 .. MaxRetries]
      /\ nonce \in [Write -> 0 .. MaxNonce]
      /\ Calls /\ CallOf(w) /\ OneCopy(w) /\ TakenIn(w)
      /\ nonce'[w] = nonce[w] /\ Spent(nonce[w]) => Spent(nonce[w])'
  <2>1. nonce[w] \in 0 .. MaxNonce
    BY DEF SInv, KInv, LeaseTypeOK
  <2>2. nonce'[w] = nonce[w] /\ Spent(nonce[w]) => Spent(nonce[w])'
    BY <2>1 DEF Spent
  <2>. QED
    BY <2>2 DEF SInv, KInv, LeaseTypeOK
<1>. USE DEF Phase, Reply, nodeVars
<1>2. CASE Local(w)
  <2>1. /\ UNCHANGED <<call, strays, pool, cache, admitted, ran, retries>>
        /\ phase[w] \in {"idle", "asked", "leased"}
        /\ phase'[w] \in {"idle", "asked", "leased", "failed"}
        /\ nonce'[w] = nonce[w] \/ phase[w] = "asked"
        /\ \A v \in Write \ {w} : phase'[v] = phase[v] /\ nonce'[v] = nonce[v]
    BY <1>1, <1>2 DEF Local, Ask, AskFor, TakeNonce, WindowFull, BuildFails
  <2>2. Calls' /\ OthersStay(w)
    BY <1>1, <2>1 DEF Calls, OthersStay
  <2>3. call[w] = "none" /\ w \notin admitted /\ ran[w] = 0
    BY <1>1, <2>1 DEF Calls, CallOf, OneCopy, TakenIn
  <2>. QED
    BY <1>1, <2>1, <2>2, <2>3 DEF CallOf, OneCopy, TakenIn
<1>3. CASE Submit(w)
  <2>1. /\ UNCHANGED <<strays, pool, cache, admitted, ran, retries, nonce>>
        /\ phase[w] = "leased"
        /\ phase' = [phase EXCEPT ![w] = "flying"]
        /\ call' = [call EXCEPT ![w] = "sent"]
    BY <1>3 DEF Submit, Send, SendGiven
  <2>2. Calls' /\ OthersStay(w)
    BY <1>1, <2>1 DEF Calls, OthersStay
  <2>. QED
    BY <1>1, <2>1, <2>2 DEF Calls, CallOf, OneCopy, TakenIn, Spent
<1>4. CASE Resend(w)
  <2>1. /\ UNCHANGED <<strays, pool, cache, admitted, ran, nonce>>
        /\ phase[w] \in {"unknown", "accepted", "held", "spent", "failed"}
        /\ phase[w] = "unknown" \/ retries[w] > 0
        /\ retries[w] < MaxRetries
        /\ phase' = [phase EXCEPT ![w] = "flying"]
        /\ retries' = [retries EXCEPT ![w] = retries[w] + 1]
        /\ call' = [call EXCEPT ![w] = "sent"]
    BY <1>4 DEF Resend, Rebroadcast, HasBytes
  <2>2. Calls' /\ OthersStay(w)
    BY <1>1, <2>1 DEF Calls, OthersStay
  <2>. QED
    BY <1>1, <2>1, <2>2 DEF Calls, CallOf, OneCopy, TakenIn, Spent
<1>5. CASE Receive(w)
  <2>1. /\ UNCHANGED <<strays, pool, cache, admitted, ran, nonce, retries>>
        /\ phase[w] = "flying"
        /\ call[w] \in Reply
        /\ call' = [call EXCEPT ![w] = "none"]
        /\ \/ phase' = [phase EXCEPT ![w] = "failed"]
           \/ phase' = [phase EXCEPT ![w] = "unknown"]
           \/ phase' = [phase EXCEPT ![w] = AfterOutcome(OutcomeOf(call[w]))]
    BY <1>5 DEF Receive, NotSent, NotResent, Answered
  <2>2. \/ phase'[w] \in {"failed", "spent", "held"} /\ call[w] \notin {"admitted", "cached"}
        \/ phase'[w] = "unknown"
        \/ phase'[w] = "accepted" /\ call[w] \in {"admitted", "cached"}
    <3>1. CASE call[w] = "full"
      BY <1>1, <1>5, <3>1 DEF Receive, NotSent, NotResent
    <3>2. CASE call[w] # "full"
      BY <1>1, <1>5, <3>2 DEF Receive, Answered, AfterOutcome, OutcomeOf
    <3>. QED
      BY <3>1, <3>2
  <2>3. Calls' /\ OthersStay(w)
    BY <1>1, <2>1 DEF Calls, OthersStay
  <2>. QED
    BY <1>1, <2>1, <2>2, <2>3 DEF Calls, CallOf, OneCopy, TakenIn, Spent
<1>6. CASE CannotConnect(w)
  <2>1. /\ UNCHANGED <<strays, pool, cache, admitted, ran, nonce, retries>>
        /\ phase[w] = "flying"
        /\ call[w] = "sent"
        /\ call' = [call EXCEPT ![w] = "none"]
        /\ \/ phase' = [phase EXCEPT ![w] = "failed"]
           \/ phase' = [phase EXCEPT ![w] = "unknown"]
    BY <1>6 DEF CannotConnect, NotSent, NotResent
  <2>2. Calls' /\ OthersStay(w)
    BY <1>1, <2>1 DEF Calls, OthersStay
  <2>. QED
    BY <1>1, <2>1, <2>2 DEF Calls, CallOf, OneCopy, TakenIn, Spent
<1>7. CASE Lose(w)
  <2>1. /\ UNCHANGED <<pool, cache, admitted, ran, nonce, retries>>
        /\ phase[w] = "flying"
        /\ call[w] # "none"
        /\ call' = [call EXCEPT ![w] = "none"]
        /\ phase' = [phase EXCEPT ![w] = "unknown"]
        /\ strays' = strays \/ strays' = [strays EXCEPT ![w] = strays[w] + 1]
    BY <1>7 DEF Lose, Answered, AfterOutcome
  <2>2. Calls' /\ OthersStay(w)
    BY <1>1, <2>1 DEF Calls, OthersStay
  <2>. QED
    BY <1>1, <2>1, <2>2 DEF Calls, CallOf, OneCopy, TakenIn, Spent
<1>8. CASE Deliver(w)
  <2>1. PICK reply \in Reply : CheckTx(w, reply) /\ call' = [call EXCEPT ![w] = reply]
    BY <1>8 DEF Deliver
  <2>2. UNCHANGED <<strays, phase, retries, nonce, chainBase, chainUsed>> /\ call[w] = "sent"
    BY <1>8 DEF Deliver, leaseVars
  <2>3. /\ pool' \subseteq cache' /\ cache' \subseteq admitted' /\ admitted' \subseteq Write
        /\ ran' = ran
        /\ admitted \subseteq admitted' /\ admitted' \subseteq admitted \cup {w}
        /\ reply \in {"admitted", "cached"} => w \in admitted'
        /\ reply # "admitted" => admitted' = admitted
    BY <1>1, <2>1, CheckTxLemma
  <2>4. Calls' /\ OthersStay(w)
    BY <1>1, <2>1, <2>2, <2>3 DEF Calls, OthersStay
  <2>. QED
    BY <1>1, <2>1, <2>2, <2>3, <2>4 DEF Calls, CallOf, OneCopy, TakenIn, Spent
<1>9. CASE DeliverStray(w)
  <2>1. PICK reply \in Reply : CheckTx(w, reply)
    BY <1>9 DEF DeliverStray
  <2>2. /\ UNCHANGED <<call, phase, retries, nonce, chainBase, chainUsed>>
        /\ strays[w] > 0 /\ strays' = [strays EXCEPT ![w] = strays[w] - 1]
    BY <1>9 DEF DeliverStray, leaseVars
  <2>3. /\ pool' \subseteq cache' /\ cache' \subseteq admitted' /\ admitted' \subseteq Write
        /\ ran' = ran
        /\ admitted \subseteq admitted' /\ admitted' \subseteq admitted \cup {w}
    BY <1>1, <2>1, CheckTxLemma
  <2>4. Calls' /\ OthersStay(w)
    BY <1>1, <2>2, <2>3 DEF Calls, OthersStay
  <2>. QED
    BY <1>1, <2>2, <2>3, <2>4 DEF Calls, CallOf, OneCopy, TakenIn, Spent
<1>10. CASE Land(w)
  <2>1. /\ UNCHANGED <<phase, retries, nonce, call, strays, cache, admitted>>
        /\ w \in pool /\ pool' = pool \ {w}
        /\ ran' = [ran EXCEPT ![w] = ran[w] + 1]
    BY <1>10 DEF Land
  <2>2. Spent(nonce[w])'
    <3>1. PICK b \in chainBase .. chainBase + Window :
            chainBase' = b /\ chainUsed' = { m \in chainUsed \cup {nonce[w]} : m > b }
      BY <1>10 DEF Land, Spend
    <3>. QED
      BY <1>1, <2>1, <3>1 DEF Spent, SInv, KInv, LeaseTypeOK
  <2>3. Calls' /\ OthersStay(w)
    BY <1>1, <2>1 DEF Calls, OthersStay
  <2>. QED
    BY <1>1, <2>1, <2>2, <2>3 DEF Calls, CallOf, OneCopy, TakenIn
<1>11. CASE Drop(w) \/ Forget(w)
  <2>1. /\ UNCHANGED <<phase, retries, nonce, call, strays, admitted, ran, chainBase, chainUsed>>
        /\ pool' \subseteq cache' /\ cache' \subseteq cache
    BY <1>1, <1>11 DEF Drop, Forget, leaseVars, Calls
  <2>2. Calls' /\ OthersStay(w)
    BY <1>1, <2>1 DEF Calls, OthersStay
  <2>. QED
    BY <1>1, <2>1, <2>2 DEF CallOf, OneCopy, TakenIn, Spent
<1>. QED
  BY <1>2, <1>3, <1>4, <1>5, <1>6, <1>7, <1>8, <1>9, <1>10, <1>11

LEMMA SInvStep ==
  ASSUME SInv, [SubNext]_subVars
  PROVE  SInv'
<1>1. [LeaseNext]_leaseVars
  BY StepSimulation DEF subVars, SInv
<1>2. /\ KInv'
      /\ \A m \in 0 .. MaxNonce : Spent(m) => Spent(m)'
  BY <1>1, KInvStep, SpentKept DEF SInv
<1>3. nonce \in [Write -> 0 .. MaxNonce]
  BY DEF SInv, KInv, LeaseTypeOK
<1>4. ASSUME NEW w \in Write,
             \/ Local(w) \/ Submit(w) \/ Resend(w) \/ Receive(w) \/ CannotConnect(w) \/ Lose(w)
             \/ Deliver(w) \/ DeliverStray(w) \/ Land(w) \/ Drop(w) \/ Forget(w)
      PROVE  SInv'
  <2>1. /\ Calls' /\ OthersStay(w)
        /\ (CallOf(w) /\ OneCopy(w) /\ TakenIn(w))'
    BY <1>2, <1>4, WriteKeeps
  <2>2. ASSUME NEW v \in Write \ {w}
        PROVE  (CallOf(v) /\ OneCopy(v) /\ TakenIn(v))'
    <3>1. /\ phase'[v] = phase[v] /\ retries'[v] = retries[v] /\ nonce'[v] = nonce[v]
          /\ call'[v] = call[v] /\ strays'[v] = strays[v] /\ ran'[v] = ran[v]
          /\ v \in admitted' <=> v \in admitted
      BY <2>1 DEF OthersStay
    <3>2. Spent(nonce[v]) => Spent(nonce[v])'
      BY <1>2, <1>3, <3>1 DEF Spent
    <3>. QED
      BY <3>1, <3>2, UntouchedWrite
  <2>. QED
    BY <1>2, <2>1, <2>2 DEF SInv
<1>5. CASE Surroundings \/ UNCHANGED subVars
  <2>1. UNCHANGED <<phase, nonce, retries, call, strays, pool, cache, admitted, ran>>
    BY <1>5 DEF Surroundings, Tick, Query, ChainSpends, subVars, leaseVars, nodeVars
  <2>2. \A v \in Write : Spent(nonce[v]) => Spent(nonce[v])'
    BY <1>2, <1>3, <2>1 DEF Spent
  <2>3. \A v \in Write : (CallOf(v) /\ OneCopy(v) /\ TakenIn(v))'
    BY <2>1, <2>2, UntouchedWrite
  <2>4. Calls'
    BY <2>1 DEF SInv, Calls
  <2>. QED
    BY <1>2, <2>3, <2>4 DEF SInv
<1>. QED
  BY <1>4, <1>5 DEF SubNext

\* The types of a submission, the bound on the copies under way included: one
\* for each attempt.
THEOREM SubmissionTyping == SubSpec => []SubTypeOK
<1>1. SInv => SubTypeOK
  <2>. SUFFICES ASSUME SInv PROVE SubTypeOK
    OBVIOUS
  <2>1. LeaseTypeOK /\ Calls /\ retries \in [Write -> 0 .. MaxRetries]
    BY DEF SInv, KInv, LeaseTypeOK
  <2>2. \A w \in Write : strays[w] \in 0 .. MaxRetries + 1
    BY <2>1 DEF SInv, CallOf, Calls
  <2>. QED
    BY <2>1, <2>2 DEF SubTypeOK, Calls
<1>2. SInv /\ [SubNext]_subVars => SInv'
  BY SInvStep
<1>. QED
  BY SInvInit, <1>1, <1>2, PTL DEF SubSpec

-----------------------------------------------------------------------------
(* The promise to the callers *)

toldNow == [w \in Write |-> ToldOf(w)]

\* A step that tells at most one caller something true, and changes nothing of
\* what the node took in or ran, is a step of the promise.
LEMMA TellStep ==
  ASSUME NEW w \in Write,
         UNCHANGED <<admitted, ran>>,
         \A v \in Write \ {w} : ToldOf(v)' = ToldOf(v),
         \/ ToldOf(w)' = ToldOf(w)
         \/ ToldOf(w) # "neverRuns" /\ ToldOf(w)' \in {"nothing", "mayRun"}
         \/ ToldOf(w) # "neverRuns" /\ ToldOf(w)' = "accepted" /\ w \in admitted
         \/ ToldOf(w) # "neverRuns" /\ ToldOf(w)' = "neverRuns" /\ w \notin admitted
  PROVE  [Promise!PromiseNext]_(Promise!promiseVars)
<1>1. toldNow' = [toldNow EXCEPT ![w] = ToldOf(w)']
  BY DEF toldNow
<1>2. CASE ToldOf(w)' = ToldOf(w)
  <2>1. toldNow' = toldNow
    BY <1>2 DEF toldNow
  <2>. QED
    BY <2>1 DEF Promise!promiseVars, toldNow
<1>3. CASE ToldOf(w)' # ToldOf(w)
  <2>1. Promise!Tell(w, ToldOf(w)')
    BY <1>1, <1>3 DEF Promise!Tell, toldNow
  <2>2. ToldOf(w)' \in Promise!Told
    BY <1>3 DEF Promise!Told
  <2>. QED
    BY <2>1, <2>2 DEF Promise!PromiseNext
<1>. QED
  BY <1>2, <1>3

\* Every step of a submission is a step of the promise or changes nothing the
\* promise speaks of.
LEMMA PromiseStep ==
  ASSUME SInv, [SubNext]_subVars
  PROVE  [Promise!PromiseNext]_(Promise!promiseVars)
<1>1. /\ SInv' /\ Calls
      /\ phase \in [Write -> Phase] /\ retries \in [Write -> 0 .. MaxRetries]
      /\ phase' \in [Write -> Phase] /\ retries' \in [Write -> 0 .. MaxRetries]
      /\ \A m \in 0 .. MaxNonce : Spent(m) => Spent(m)'
  <2>1. [LeaseNext]_leaseVars
    BY StepSimulation DEF subVars, SInv
  <2>. QED
    BY <2>1, SInvStep, SpentKept DEF SInv, KInv, LeaseTypeOK
<1>2. ASSUME UNCHANGED <<admitted, ran>>,
             \A v \in Write : phase'[v] = phase[v] /\ retries'[v] = retries[v]
      PROVE  UNCHANGED Promise!promiseVars
  <2>1. \A v \in Write : ToldOf(v)' = ToldOf(v)
    BY <1>2 DEF ToldOf
  <2>. QED
    BY <1>2, <2>1 DEF Promise!promiseVars
<1>3. ASSUME NEW w \in Write,
             \/ Local(w) \/ Submit(w) \/ Resend(w) \/ Receive(w) \/ CannotConnect(w) \/ Lose(w)
             \/ Deliver(w) \/ DeliverStray(w) \/ Land(w) \/ Drop(w) \/ Forget(w)
      PROVE  [Promise!PromiseNext]_(Promise!promiseVars)
  <2>1. /\ OthersStay(w)
        /\ CallOf(w) /\ OneCopy(w) /\ TakenIn(w)
        /\ (CallOf(w) /\ OneCopy(w) /\ TakenIn(w))'
    BY <1>1, <1>3, WriteKeeps DEF SInv
  <2>2. \A v \in Write \ {w} : ToldOf(v)' = ToldOf(v)
    BY <2>1 DEF OthersStay, ToldOf
  <2>. USE DEF Phase
  \* The calls that return to the caller.
  <2>3. CASE Local(w) \/ Submit(w) \/ Resend(w) \/ Receive(w) \/ CannotConnect(w) \/ Lose(w)
    <3>1. /\ UNCHANGED <<admitted, ran>>
          /\ \/ phase[w] \in {"idle", "asked", "leased"}
             \/ phase[w] = "flying"
             \/ retries'[w] = retries[w] + 1
      <4>1. CASE Local(w)
        BY <4>1 DEF Local, nodeVars, Ask, AskFor, TakeNonce, WindowFull, BuildFails
      <4>2. CASE Submit(w)
        BY <4>2 DEF Submit, nodeVars, Send, SendGiven
      <4>3. CASE Resend(w)
        BY <1>1, <4>3 DEF Resend, nodeVars, Rebroadcast
      <4>4. CASE Receive(w) \/ CannotConnect(w) \/ Lose(w)
        BY <4>4 DEF Receive, CannotConnect, Lose, nodeVars, NotSent, NotResent, Answered
      <4>. QED
        BY <2>3, <4>1, <4>2, <4>3, <4>4
    <3>2. CASE ToldOf(w) = "neverRuns"
      <4>1. phase[w] \in {"failed", "held", "spent"} /\ retries[w] = 0
        BY <3>2 DEF ToldOf
      <4>2. ~Local(w) /\ ~Submit(w) /\ ~Receive(w) /\ ~CannotConnect(w) /\ ~Lose(w) /\ ~Resend(w)
        BY <4>1 DEF Local, Ask, AskFor, TakeNonce, WindowFull, BuildFails, Submit, Send,
                    SendGiven, Receive, CannotConnect, Lose, NotSent, NotResent, Answered,
                    Resend, Rebroadcast, HasBytes
      <4>. QED
        BY <2>3, <4>2
    <3>3. CASE ToldOf(w) # "neverRuns"
      <4>1. ToldOf(w)' \in {"nothing", "mayRun", "accepted", "neverRuns"}
        BY DEF ToldOf
      <4>2. ToldOf(w)' = "accepted" => w \in admitted
        BY <2>1, <3>1 DEF ToldOf, TakenIn
      <4>3. ToldOf(w)' = "neverRuns" => w \notin admitted
        <5>1. ToldOf(w)' = "neverRuns" =>
                phase'[w] \in {"failed", "held", "spent"} /\ retries'[w] = 0
          BY DEF ToldOf
        <5>. QED
          BY <2>1, <3>1, <5>1 DEF OneCopy, CallOf
      <4>. QED
        BY <2>2, <3>1, <3>3, <4>1, <4>2, <4>3, TellStep
    <3>. QED
      BY <3>2, <3>3
  \* The node looks at a copy.
  <2>4. CASE Deliver(w) \/ DeliverStray(w)
    <3>1. /\ UNCHANGED <<phase, retries>>
          /\ call[w] = "sent" \/ strays[w] > 0
          /\ \E reply \in Reply : CheckTx(w, reply)
      BY <2>4 DEF Deliver, DeliverStray, leaseVars
    <3>2. ran' = ran /\ (admitted' = admitted \/ admitted' = admitted \cup {w})
      BY <3>1 DEF CheckTx, nodeVars
    <3>3. CASE admitted' = admitted
      BY <1>2, <3>1, <3>2, <3>3
    <3>4. CASE admitted' = admitted \cup {w}
      <4>1. ToldOf(w) # "neverRuns"
        <5>1. CASE call[w] = "sent"
          BY <2>1, <5>1 DEF CallOf, ToldOf
        <5>2. CASE strays[w] > 0
          BY <2>1, <5>2 DEF OneCopy, ToldOf
        <5>. QED
          BY <3>1, <5>1, <5>2
      <4>2. \A v \in Write : ToldOf(v)' = ToldOf(v)
        BY <3>1 DEF ToldOf
      <4>3. Promise!Admit(w)
        BY <3>2, <3>4, <4>1, <4>2 DEF Promise!Admit
      <4>. QED
        BY <4>3 DEF Promise!PromiseNext
    <3>. QED
      BY <3>2, <3>3, <3>4
  \* A pending write runs: its nonce was not spent, so it is its first run.
  <2>5. CASE Land(w)
    <3>1. /\ UNCHANGED <<phase, retries, admitted>>
          /\ w \in admitted
          /\ ~Spent(nonce[w])
          /\ ran' = [ran EXCEPT ![w] = ran[w] + 1]
      BY <1>1, <2>5 DEF Land, Spend, Spent, Calls, SInv, KInv, LeaseTypeOK
    <3>2. ran[w] = 0
      BY <1>1, <2>1, <3>1 DEF TakenIn, Calls
    <3>3. \A v \in Write : ToldOf(v)' = ToldOf(v)
      BY <3>1 DEF ToldOf
    <3>4. Promise!Run(w)
      BY <3>1, <3>2, <3>3 DEF Promise!Run
    <3>. QED
      BY <3>4 DEF Promise!PromiseNext
  <2>6. CASE Drop(w) \/ Forget(w)
    BY <1>2, <2>6 DEF Drop, Forget, leaseVars
  <2>. QED
    BY <1>3, <2>3, <2>4, <2>5, <2>6
<1>4. CASE Surroundings \/ UNCHANGED subVars
  <2>1. UNCHANGED <<phase, retries, admitted, ran>>
    BY <1>4 DEF Surroundings, Tick, Query, ChainSpends, subVars, leaseVars, nodeVars
  <2>. QED
    BY <1>2, <2>1
<1>. QED
  BY <1>3, <1>4 DEF SubNext

\* A write runs at most once however often it is sent again, and never when its
\* caller was told that it failed for good (rebroadcast(), send_signed(),
\* refusal_outcome()).
THEOREM PromiseKept == SubSpec => KeepsPromise
<1>1. SubInit => Promise!PromiseInit
  BY DEF SubInit, LeaseInit, Promise!PromiseInit, ToldOf
<1>2. SInv /\ [SubNext]_subVars => SInv'
  BY SInvStep
<1>3. SInv /\ [SubNext]_subVars => [Promise!PromiseNext]_(Promise!promiseVars)
  BY PromiseStep
<1>. QED
  BY SInvInit, <1>1, <1>2, <1>3, PTL DEF SubSpec, KeepsPromise, Promise!PromiseSpec
-----------------------------------------------------------------------------
(* The nonce of a write pending in the mempool *)

\* The nonce of a pending write stays out of reach for the hold, if no other write
\* came by it: send_signed gives a nonce back only when no copy of the write can
\* be pending, and a lapse, a release or a take elsewhere leaves its stamp alone.
THEOREM PendingWritesHeld == SubSpec => []PendingHeld
<1>1. SubInit => GInv
  BY GInvInit DEF SubInit
<1>2. SInv /\ GInv /\ [SubNext]_subVars => GInv'
  BY StepSimulation, GInvStep DEF SInv, subVars
<1>3. SInv /\ [SubNext]_subVars => SInv'
  BY SInvStep
<1>4. SInv /\ GInv => PendingHeld
  <2>. SUFFICES ASSUME SInv, GInv, NEW w \in pool,
                       Claims(w), Current(w),
                       \A v \in Write \ {w} : nonce[v] # nonce[w]
                PROVE  account.handed[nonce[w]] # Absent \/ Dead(account, nonce[w])
    BY DEF PendingHeld
  <2>1. w \in Write
    BY DEF SInv, Calls
  <2>2. since[w] # Absent
    BY DEF Current, Absent, Cap, Lag
  <2>. QED
    BY <2>1, <2>2 DEF GInv, Stamped, Apart
<1>. QED
  BY SInvInit, <1>1, <1>2, <1>3, <1>4, PTL DEF SubSpec
=============================================================================
