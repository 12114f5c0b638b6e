--------------------------- MODULE Discovery_proofs ---------------------------
(***************************************************************************)
(* Proofs about discovery, the subscription and the queries that share a   *)
(* list of indexers: for every set of queries, of indexers and of scores,  *)
(* every life of the list, number of attempts and capacity.                *)
(***************************************************************************)
EXTENDS Discovery, TLAPS

USE IndexersAssumption, SubscriptionsAssumption, QueryAssumption

-----------------------------------------------------------------------------
(* Type correctness *)

LookupType == [state : LookupStates, data : SUBSET Candidate]

\* A lookup whose answer is read holds what the API answered, one that failed holds
\* nothing.
LookupOK(l) ==
  /\ l \in LookupType
  /\ l.state = "read" => l.data \subseteq Indexer
  /\ l.state = "failed" => l.data = {}

CacheType == [held : BOOLEAN, data : SUBSET Indexer, age : 0 .. TTL]

LookupsOK ==
  /\ lookup \in [User -> LookupType]
  /\ \A u \in User : LookupOK(lookup[u])

IndexersOK ==
  /\ registered \in Registries /\ override \in BOOLEAN
  /\ cache \in CacheType
  /\ LookupsOK
  /\ listed \subseteq Indexer /\ blamed \subseteq Candidate

LEMMA NoCacheTyped == NoCache \in CacheType
  BY DEF NoCache, CacheType

\* A lookup replaced by one that is right.
LEMMA SetLookup ==
  ASSUME LookupsOK, NEW u \in User, NEW l, LookupOK(l), lookup' = [lookup EXCEPT ![u] = l]
  PROVE  LookupsOK'
  BY DEF LookupsOK, LookupOK

LEMMA LookUpTyped ==
  ASSUME IndexersOK, NEW u \in User, LookUp(u)
  PROVE  LookupsOK'
  <1> DEFINE l == IF override THEN Found({Explicit})
                  ELSE IF cache.held THEN Found(cache.data)
                  ELSE [state |-> "asking", data |-> {}]
  <1>1. LookupOK(l)
    BY DEF IndexersOK, LookupOK, LookupType, LookupStates, Found, Candidate, CacheType
  <1>2. lookup' = [lookup EXCEPT ![u] = l]
    BY DEF LookUp
  <1> HIDE DEF l
  <1> QED BY <1>1, <1>2, SetLookup DEF IndexersOK

LEMMA ForgetTyped ==
  ASSUME IndexersOK, NEW u \in User, Forget(u)
  PROVE  LookupsOK'
  <1>1. LookupOK(NoLookup)
    BY DEF NoLookup, LookupOK, LookupType, LookupStates
  <1> QED BY <1>1, SetLookup DEF Forget, IndexersOK

LEMMA EvictTyped ==
  ASSUME IndexersOK, NEW i, Evict(i)
  PROVE  cache' \in CacheType
  BY DEF IndexersOK, CacheType, Evict

LEMMA ListStepTyped ==
  ASSUME IndexersOK, NEW u \in User, ListStep(u)
  PROVE  IndexersOK'
  <1>1. lookup[u] \in LookupType /\ (lookup[u].state = "read" => lookup[u].data \subseteq Indexer)
    BY DEF IndexersOK, LookupsOK, LookupOK
  <1>2. CASE ReadList(u)
    <2>1. LookupOK([state |-> "read", data |-> registered])
      BY DEF IndexersOK, LookupOK, LookupType, LookupStates, Candidate
    <2>2. LookupsOK'
      BY <1>2, <2>1, SetLookup DEF ReadList, IndexersOK
    <2> QED BY <1>2, <2>2 DEF IndexersOK, ReadList
  <1>3. CASE StoreList(u)
    <2> DEFINE l == [lookup[u] EXCEPT !.state = "found"]
    <2>1. LookupOK(l)
      BY <1>1 DEF LookupOK, LookupType, LookupStates
    <2>2. lookup' = [lookup EXCEPT ![u] = l]
      BY <1>3 DEF StoreList
    <2> HIDE DEF l
    <2>3. LookupsOK'
      BY <2>1, <2>2, SetLookup DEF IndexersOK
    <2>4. lookup[u].data \subseteq Indexer
      BY <1>1, <1>3 DEF StoreList
    <2>5. cache' \in CacheType
      BY <1>3, <2>4, NoCacheTyped DEF StoreList, CacheType
    <2>6. listed' \subseteq Indexer /\ UNCHANGED <<registered, override, blamed>>
      BY <1>3, <2>4 DEF StoreList
    <2> QED BY <2>3, <2>5, <2>6 DEF IndexersOK
  <1>4. CASE FetchFails(u)
    <2>1. LookupOK([state |-> "failed", data |-> {}])
      BY DEF LookupOK, LookupType, LookupStates
    <2>2. LookupsOK'
      BY <1>4, <2>1, SetLookup DEF FetchFails, IndexersOK
    <2> QED BY <1>4, <2>2 DEF IndexersOK, FetchFails
  <1> QED BY <1>2, <1>3, <1>4 DEF ListStep

LEMMA DirectoryTyped ==
  ASSUME IndexersOK, Directory
  PROVE  IndexersOK'
  <1>1. CASE Invalidate
    BY <1>1, NoCacheTyped DEF IndexersOK, Invalidate, LookupsOK
  <1>2. CASE Age
    <2>1. cache' \in CacheType
      BY <1>2, NoCacheTyped DEF IndexersOK, Age, CacheType
    <2> QED BY <1>2, <2>1 DEF IndexersOK, Age, LookupsOK
  <1>3. CASE \E S \in Registries : Registration(S)
    BY <1>3 DEF IndexersOK, Registration, LookupsOK
  <1> QED BY <1>1, <1>2, <1>3 DEF Directory

-----------------------------------------------------------------------------
(* The attempts of a subscription, and why it ends *)

\* The states in which the task has its socket.
OnSocket == {"pump", "deliver", "pong", "closing"}

\* A connection over which no payload came counts as one attempt.
Counted ==
  /\ sub.pc = "backoff" => sub.attempts = barren + 1
  /\ sub.delivered => barren = 0 /\ sub.pc \in OnSocket
  /\ sub.pc \notin {"backoff", "ended"} /\ ~sub.delivered => sub.attempts = barren

\* Until the first connection the caller has no handle, and nothing was tried again.
BeforeHandle ==
  /\ handle = "none" => sub.pc \in {"idle", "lookup", "connect"} /\ barren = 0 /\ ~stayed
  /\ sub.pc = "idle" => handle = "none"

\* Why the task ended, by what its caller did and the attempts it made.
Justified ==
  /\ sub.why # "none" => sub.pc = "ended"
  /\ sub.signal => handle \in {"unsubscribed", "dropped"}
  /\ sub.pc = "closing" => sub.signal
  /\ sub.why = "cancelled" => handle \in {"unsubscribed", "dropped"}
  /\ sub.why = "dropped" => handle = "dropped"
  /\ sub.why = "disconnected" => ~sub.reconnect
  /\ sub.why = "exhausted" => sub.reconnect /\ barren = MaxAttempts

SubInv == SubTypeOK /\ Counted /\ BeforeHandle /\ Justified

LEMMA NoSubTyped ==
  /\ NoSub \in SubFields
  /\ NoSub.pc = "idle" /\ NoSub.attempts = 0 /\ NoSub.current = NoOne /\ ~NoSub.delivered
  /\ ~NoSub.signal /\ NoSub.why = "none"
  BY DEF NoSub, SubFields, SubPc, Reason

LEMMA EndingOK ==
  ASSUME SubInv, NEW why \in Reason \ {"none"}, End(why),
         handle' = handle, queue' \in 0 .. Capacity, barren' \in {0, barren}, stayed' = stayed,
         handle # "none",
         why = "cancelled" => handle \in {"unsubscribed", "dropped"},
         why = "dropped" => handle = "dropped",
         why = "disconnected" => ~sub.reconnect,
         why = "exhausted" => sub.reconnect /\ barren' = MaxAttempts
  PROVE  SubInv' /\ sub'.pc = "ended" /\ sub'.current = NoOne
  <1>0. sub.reconnect \in BOOLEAN /\ "ended" \in SubPc
    BY DEF SubFields, SubInv, SubTypeOK, SubPc
  <1>1. /\ sub' \in SubFields
        /\ sub'.pc = "ended" /\ sub'.why = why /\ sub'.reconnect = sub.reconnect
        /\ sub'.current = NoOne /\ ~sub'.delivered /\ ~sub'.signal
    BY <1>0, NoSubTyped DEF End, SubFields
  <1>2. SubTypeOK'
    BY <1>1 DEF SubInv, SubTypeOK
  <1> QED BY <1>1, <1>2 DEF SubInv, Counted, BeforeHandle, Justified, OnSocket

\* Between a connection and the next.
LEMMA RetryOK ==
  ASSUME SubInv, handle # "none", sub.pc \notin {"idle", "ended"}, Retry(barren),
         UNCHANGED <<handle, queue, barren, stayed>>
  PROVE  /\ SubInv'
         /\ sub'.pc \in {"ended", "backoff"}
         /\ sub'.current = NoOne \/ sub'.current = sub.current
  <1> DEFINE again == [sub EXCEPT !.pc = "backoff", !.attempts = barren + 1, !.delivered = FALSE]
  <1>1. barren \in 0 .. MaxAttempts /\ queue \in 0 .. Capacity
    BY DEF SubInv, SubTypeOK
  <1>2. CASE End("disconnected") /\ ~sub.reconnect
    BY <1>1, <1>2, EndingOK DEF Reason
  <1>3. CASE End("exhausted") /\ sub.reconnect /\ barren >= MaxAttempts
    BY <1>1, <1>3, EndingOK DEF Reason
  <1>4. CASE sub' = again /\ barren < MaxAttempts
    <2>0. sub \in SubFields /\ barren + 1 \in 0 .. MaxAttempts /\ "backoff" \in SubPc
      BY <1>1, <1>4 DEF SubInv, SubTypeOK, SubPc
    <2>1. /\ sub' \in SubFields
          /\ sub'.pc = "backoff" /\ sub'.attempts = barren + 1 /\ ~sub'.delivered
          /\ sub'.why = sub.why /\ sub'.signal = sub.signal /\ sub'.current = sub.current
      BY <2>0, <1>4 DEF SubFields
    <2>2. SubTypeOK'
      BY <2>1 DEF SubInv, SubTypeOK
    <2> QED BY <2>1, <2>2 DEF SubInv, Counted, BeforeHandle, Justified, OnSocket
  <1>5. sub.reconnect \in BOOLEAN
    BY DEF SubInv, SubTypeOK, SubFields
  <1> QED BY <1>1, <1>2, <1>3, <1>4, <1>5 DEF Retry

LEMMA AttemptFailsOK ==
  ASSUME SubInv, sub.pc \in {"lookup", "connect"}, AttemptFails,
         UNCHANGED <<handle, queue, barren, stayed>>
  PROVE  /\ SubInv'
         /\ sub'.pc \in {"idle", "ended", "backoff"}
         /\ sub'.current = NoOne \/ sub'.current = sub.current
  <1>1. CASE handle = "none"
    <2>1. sub' = NoSub
      BY <1>1 DEF AttemptFails
    <2>2. SubTypeOK'
      BY <2>1, NoSubTyped DEF SubInv, SubTypeOK
    <2> QED BY <1>1, <2>1, <2>2, NoSubTyped DEF SubInv, Counted, BeforeHandle, Justified, OnSocket
  <1>2. CASE handle # "none"
    <2>1. sub.attempts = barren
      BY DEF SubInv, Counted, OnSocket
    <2> QED BY <1>2, <2>1, RetryOK DEF AttemptFails
  <1> QED BY <1>1, <1>2

LEMMA DeliverOK ==
  ASSUME SubInv, sub.pc \in {"pump", "deliver"}, Deliver, UNCHANGED <<handle, stayed>>
  PROVE  SubInv' /\ (sub'.pc = "pump" \/ sub'.current = NoOne)
  <1>1. /\ sub \in SubFields /\ queue \in 0 .. Capacity /\ handle # "none"
    BY DEF SubInv, SubTypeOK, BeforeHandle
  <1>2. CASE handle = "dropped" /\ End("cancelled") /\ UNCHANGED <<queue, barren>>
    BY <1>1, <1>2, EndingOK DEF Reason
  <1>3. CASE /\ handle # "dropped" /\ queue < Capacity
             /\ sub' = [sub EXCEPT !.pc = "pump", !.delivered = TRUE]
             /\ queue' = queue + 1 /\ barren' = 0
    <2>1. /\ sub' \in SubFields
          /\ sub'.pc = "pump" /\ sub'.delivered
          /\ sub'.why = sub.why /\ sub'.signal = sub.signal
      BY <1>1, <1>3 DEF SubFields, SubPc
    <2>2. SubTypeOK'
      BY <1>1, <1>3, <2>1 DEF SubInv, SubTypeOK
    <2> QED BY <1>1, <1>3, <2>1, <2>2 DEF SubInv, Counted, BeforeHandle, Justified, OnSocket
  <1> QED BY <1>2, <1>3 DEF Deliver

\* A step that moves the task on and changes neither its attempts nor its caller's
\* side.
LEMMA MovesOK ==
  ASSUME SubInv, NEW pc \in {"connect", "lookup", "resolve"}, sub'.pc = pc, sub' \in SubFields,
         sub.pc \in {"lookup", "resolve", "evict"},
         sub'.attempts = sub.attempts, sub'.delivered = sub.delivered,
         sub'.why = sub.why, sub'.signal = sub.signal,
         UNCHANGED <<handle, queue, barren>>,
         handle = "none" => sub.pc = "lookup" /\ pc = "connect" /\ stayed' = stayed,
         stayed' \in BOOLEAN
  PROVE  SubInv'
  <1>1. SubTypeOK'
    BY DEF SubInv, SubTypeOK
  <1> QED BY <1>1 DEF SubInv, Counted, BeforeHandle, Justified, OnSocket

\* Between connections, the indexer connected to last is one that was lost.
LostOne == sub.pc \notin OnSocket => sub.current \in blamed \cup {NoOne}

TaskInv == SubInv /\ LostOne

LEMMA SubFacts ==
  ASSUME SubInv
  PROVE  /\ sub \in SubFields /\ queue \in 0 .. Capacity /\ barren \in 0 .. MaxAttempts
         /\ stayed \in BOOLEAN
         /\ handle \in {"none", "open", "unsubscribed", "dropped"}
         /\ sub.attempts \in 0 .. MaxAttempts /\ sub.current \in Candidate \cup {NoOne}
         /\ sub.target \in Candidate \cup {NoOne} /\ sub.indexed \in BOOLEAN
         /\ sub.delivered \in BOOLEAN /\ sub.reconnect \in BOOLEAN
  <1>1. sub \in SubFields
    BY DEF SubInv, SubTypeOK
  <1>2. /\ sub.attempts \in 0 .. MaxAttempts /\ sub.current \in Candidate \cup {NoOne}
        /\ sub.target \in Candidate \cup {NoOne} /\ sub.indexed \in BOOLEAN
        /\ sub.delivered \in BOOLEAN /\ sub.reconnect \in BOOLEAN
    BY <1>1 DEF SubFields
  <1> QED BY <1>1, <1>2 DEF SubInv, SubTypeOK

LEMMA SubscribeOK ==
  ASSUME TaskInv, NEW indexed \in BOOLEAN, NEW reconnect \in BOOLEAN, Subscribe(indexed, reconnect)
  PROVE  TaskInv'
  <1>1. /\ UNCHANGED <<handle, queue, barren, stayed, blamed>>
        /\ sub.pc = "idle" /\ SubInv /\ LostOne
    BY DEF Subscribe, TaskInv
  <1>2. /\ sub' \in SubFields
        /\ sub'.pc \in {"lookup", "connect"} /\ sub'.attempts = 0 /\ sub'.current = NoOne
        /\ ~sub'.delivered /\ ~sub'.signal /\ sub'.why = "none"
    <2>1. "lookup" \in SubPc /\ "connect" \in SubPc
      BY DEF SubPc
    <2>2. CASE indexed
      BY <2>1, <2>2, NoSubTyped DEF Subscribe, SubFields
    <2>3. CASE ~indexed
      BY <2>1, <2>3, NoSubTyped DEF Subscribe, SubFields
    <2> QED BY <2>2, <2>3
  <1>3. barren = 0 /\ handle = "none"
    BY <1>1 DEF SubInv, BeforeHandle
  <1>4. SubTypeOK'
    BY <1>1, <1>2 DEF SubInv, SubTypeOK
  <1> QED BY <1>1, <1>2, <1>3, <1>4
          DEF TaskInv, SubInv, LostOne, Counted, BeforeHandle, Justified, OnSocket

LEMMA ResolvedOK ==
  ASSUME IndexersOK, TaskInv, Resolved
  PROVE  TaskInv'
  <1>1. /\ SubInv /\ LostOne /\ sub.pc = "lookup"
        /\ UNCHANGED <<handle, queue, barren, stayed, blamed>>
    BY DEF TaskInv, Resolved
  <1>2. CASE AttemptFails
    BY <1>1, <1>2, AttemptFailsOK DEF TaskInv, LostOne, OnSocket
  <1>3. ASSUME NEW i \in Best(lookup[Sub].data),
               sub' = [sub EXCEPT !.pc = "connect", !.target = i]
        PROVE  TaskInv'
    <2>1. i \in Candidate
      BY <1>3 DEF IndexersOK, LookupsOK, LookupType, Best
    <2>2. sub \in SubFields /\ "connect" \in SubPc
      BY <1>1, SubFacts DEF SubPc
    <2>3. /\ sub' \in SubFields /\ sub'.pc = "connect" /\ sub'.attempts = sub.attempts
          /\ sub'.delivered = sub.delivered /\ sub'.why = sub.why /\ sub'.signal = sub.signal
          /\ sub'.current = sub.current
      BY <1>3, <2>1, <2>2 DEF SubFields
    <2> QED BY <1>1, <2>3, MovesOK, SubFacts DEF TaskInv, LostOne, OnSocket
  <1> QED BY <1>2, <1>3 DEF Resolved

LEMMA ConnectedOK ==
  ASSUME TaskInv, Connected
  PROVE  TaskInv'
  <1>1. /\ SubInv /\ LostOne /\ sub.pc = "connect"
        /\ UNCHANGED <<queue, barren, stayed, blamed>>
        /\ handle' = IF handle = "none" THEN "open" ELSE handle
    BY DEF TaskInv, Connected, indexersVars
  <1>2. sub \in SubFields /\ sub.target \in Candidate \cup {NoOne} /\ "pump" \in SubPc
    BY <1>1, SubFacts DEF SubPc
  <1>3. /\ sub' \in SubFields /\ sub'.pc = "pump" /\ sub'.attempts = sub.attempts
        /\ sub'.delivered = sub.delivered /\ sub'.why = sub.why /\ sub'.signal = sub.signal
    BY <1>2 DEF Connected, SubFields
  <1>4. SubTypeOK'
    BY <1>1, <1>3 DEF SubInv, SubTypeOK
  <1> QED BY <1>1, <1>3, <1>4
          DEF TaskInv, SubInv, LostOne, Counted, BeforeHandle, Justified, OnSocket

\* A step of the task that keeps its socket.
LEMMA OnSocketOK ==
  ASSUME TaskInv, NEW pc \in OnSocket, sub' = [sub EXCEPT !.pc = pc],
         sub.pc \in OnSocket, pc = "closing" => sub.signal,
         UNCHANGED <<handle, queue, barren, stayed, blamed>>
  PROVE  TaskInv'
  <1>1. SubInv /\ LostOne /\ sub \in SubFields /\ pc \in SubPc
    BY SubFacts DEF TaskInv, OnSocket, SubPc
  <1>2. /\ sub' \in SubFields /\ sub'.pc = pc /\ sub'.attempts = sub.attempts
        /\ sub'.delivered = sub.delivered /\ sub'.why = sub.why /\ sub'.signal = sub.signal
    BY <1>1 DEF SubFields
  <1>3. SubTypeOK'
    BY <1>1, <1>2 DEF SubInv, SubTypeOK
  <1> QED BY <1>1, <1>2, <1>3
          DEF TaskInv, SubInv, LostOne, Counted, BeforeHandle, Justified, OnSocket

LEMMA PumpOK ==
  ASSUME TaskInv, ServerNext \/ Unblocked \/ Pinged \/ Complete \/ Cancelled \/ Written
  PROVE  TaskInv'
  <1>1. /\ SubInv /\ LostOne /\ UNCHANGED <<handle, stayed, blamed>>
        /\ sub.pc \in OnSocket \cup {"backoff"} /\ handle # "none"
    BY DEF TaskInv, SubInv, BeforeHandle, ServerNext, Unblocked, Pinged, Complete, Cancelled,
           Heeds, Written, OnSocket, indexersVars
  <1>2. CASE sub.pc \in {"pump", "deliver"} /\ Deliver
    BY <1>1, <1>2, DeliverOK DEF TaskInv, LostOne, OnSocket
  <1>3. ASSUME NEW pc \in OnSocket, sub' = [sub EXCEPT !.pc = pc], sub.pc \in OnSocket,
               pc = "closing" => sub.signal, UNCHANGED <<queue, barren>>
        PROVE  TaskInv'
    BY <1>1, <1>3, OnSocketOK
  <1>4. CASE End("complete") /\ UNCHANGED <<queue, barren>>
    BY <1>1, <1>4, EndingOK, SubFacts DEF TaskInv, LostOne, OnSocket, Reason
  <1>5. CASE sub.signal /\ End("cancelled") /\ UNCHANGED <<queue, barren>>
    <2>1. handle \in {"unsubscribed", "dropped"}
      BY <1>1, <1>5 DEF SubInv, Justified
    <2> QED BY <1>1, <1>5, <2>1, EndingOK, SubFacts DEF TaskInv, LostOne, OnSocket, Reason
  <1>6. CASE ServerNext
    BY <1>2, <1>3, <1>6 DEF ServerNext, OnSocket
  <1>7. CASE Unblocked
    BY <1>2, <1>7 DEF Unblocked
  <1>8. CASE Pinged
    BY <1>3, <1>8 DEF Pinged, OnSocket
  <1>9. CASE Complete
    BY <1>4, <1>9 DEF Complete
  <1>10. CASE Cancelled
    BY <1>3, <1>5, <1>10 DEF Cancelled, OnSocket
  <1>11. CASE Written
    <2>1. CASE sub.pc = "pong"
      BY <1>3, <1>11, <2>1 DEF Written, OnSocket
    <2>2. CASE sub.pc = "closing"
      <3>1. sub.signal
        BY <1>1, <2>2 DEF SubInv, Justified
      <3> QED BY <1>5, <1>11, <2>2, <3>1 DEF Written
    <2> QED BY <1>11, <2>1, <2>2 DEF Written
  <1> QED BY <1>6, <1>7, <1>8, <1>9, <1>10, <1>11

\* A connection lost is the one attempt more that its payloads leave.
LEMMA DisconnectedOK ==
  ASSUME TaskInv, Disconnected
  PROVE  TaskInv'
  <1>1. /\ SubInv /\ LostOne /\ UNCHANGED <<handle, queue, barren, stayed>> /\ sub.pc = "pump"
        /\ handle # "none" /\ blamed' = blamed \cup ({sub.current} \ {NoOne})
    BY DEF TaskInv, SubInv, BeforeHandle, Disconnected
  <1>2. AttemptsAfter = barren
    BY <1>1 DEF AttemptsAfter, SubInv, Counted
  <1>3. Retry(barren)
    BY <1>2 DEF Disconnected
  <1>4. SubInv' /\ (sub'.current = NoOne \/ sub'.current = sub.current)
    BY <1>1, <1>3, RetryOK
  <1> QED BY <1>1, <1>4 DEF TaskInv, LostOne, OnSocket

LEMMA NextAttemptOK ==
  ASSUME IndexersOK, TaskInv, NotConnected \/ Awake \/ EvictLast \/ LookUpNext \/ Aborted
  PROVE  TaskInv'
  <1>1. SubInv /\ LostOne /\ sub \in SubFields /\ blamed' = blamed
    BY SubFacts DEF TaskInv, NotConnected, Awake, EvictLast, LookUpNext, Aborted, indexersVars
  <1>2. CASE NotConnected
    BY <1>1, <1>2, AttemptFailsOK DEF TaskInv, LostOne, OnSocket, NotConnected
  <1>3. CASE Awake
    <2>1. /\ sub.pc = "backoff" /\ barren' = barren + 1 /\ UNCHANGED <<handle, queue, stayed>>
          /\ sub.attempts = barren + 1 /\ handle # "none"
      BY <1>1, <1>3 DEF Awake, SubInv, Counted, BeforeHandle
    <2>2. "evict" \in SubPc /\ "connect" \in SubPc
      BY DEF SubPc
    <2>3. /\ sub' \in SubFields /\ sub'.pc \in {"evict", "connect"} /\ sub'.attempts = sub.attempts
          /\ sub'.delivered = sub.delivered /\ sub'.why = sub.why /\ sub'.signal = sub.signal
          /\ sub'.current = sub.current
      BY <1>1, <1>3, <2>2 DEF Awake, SubFields
    <2>4. barren' \in 0 .. MaxAttempts
      BY <1>1, <2>1, SubFacts
    <2>5. SubTypeOK'
      BY <1>1, <2>1, <2>3, <2>4 DEF SubInv, SubTypeOK
    <2> QED BY <1>1, <2>1, <2>3, <2>5
            DEF TaskInv, SubInv, LostOne, Counted, BeforeHandle, Justified, OnSocket
  <1>4. CASE EvictLast \/ LookUpNext
    <2>1. "resolve" \in SubPc /\ "lookup" \in SubPc
      BY DEF SubPc
    <2>2. /\ sub' \in SubFields /\ sub'.pc \in {"resolve", "lookup"} /\ sub'.attempts = sub.attempts
          /\ sub'.delivered = sub.delivered /\ sub'.why = sub.why /\ sub'.signal = sub.signal
          /\ sub'.current = sub.current
      BY <1>1, <1>4, <2>1 DEF EvictLast, LookUpNext, SubFields
    <2>3. sub.pc \in {"evict", "resolve"} /\ handle # "none" /\ UNCHANGED <<handle, queue, barren>>
      BY <1>1, <1>4 DEF EvictLast, LookUpNext, SubInv, BeforeHandle
    <2>4. stayed' \in BOOLEAN
      BY <1>1, <1>4, SubFacts DEF EvictLast, LookUpNext, IndexersOK, CacheType
    <2> QED BY <1>1, <2>2, <2>3, <2>4, MovesOK DEF TaskInv, LostOne, OnSocket
  <1>5. CASE Aborted
    BY <1>1, <1>5, EndingOK, SubFacts DEF TaskInv, LostOne, OnSocket, Aborted, Reason
  <1> QED BY <1>2, <1>3, <1>4, <1>5

LEMMA HandleOK ==
  ASSUME TaskInv, Recv \/ Unsubscribe \/ DropHandle
  PROVE  TaskInv'
  <1>1. SubInv /\ LostOne /\ sub \in SubFields /\ queue \in 0 .. Capacity /\ blamed' = blamed
    BY SubFacts DEF TaskInv, Recv, Unsubscribe, DropHandle, indexersVars
  <1>2. CASE Recv
    <2>1. UNCHANGED <<sub, handle, barren, stayed>> /\ queue' \in 0 .. Capacity
      BY <1>1, <1>2 DEF Recv
    <2> QED BY <1>1, <2>1
            DEF TaskInv, SubInv, SubTypeOK, LostOne, Counted, BeforeHandle, Justified, OnSocket
  <1>3. CASE Unsubscribe \/ DropHandle
    <2>1. /\ sub' \in SubFields /\ sub'.pc = sub.pc /\ sub'.attempts = sub.attempts
          /\ sub'.delivered = sub.delivered /\ sub'.why = sub.why /\ sub'.current = sub.current
          /\ sub'.reconnect = sub.reconnect /\ sub'.signal
      <3>1. sub' = [sub EXCEPT !.signal = TRUE]
        BY <1>3 DEF Unsubscribe, DropHandle
      <3> QED BY <1>1, <3>1 DEF SubFields
    <2>2. /\ handle # "none" /\ handle' \in {"unsubscribed", "dropped"}
          /\ handle' = "dropped" \/ handle # "dropped"
          /\ queue' \in 0 .. Capacity /\ UNCHANGED <<barren, stayed>>
      BY <1>1, <1>3 DEF Unsubscribe, DropHandle
    <2>3. SubTypeOK'
      BY <1>1, <2>1, <2>2 DEF SubInv, SubTypeOK
    <2> QED BY <1>1, <2>1, <2>2, <2>3
            DEF TaskInv, SubInv, LostOne, Counted, BeforeHandle, Justified, OnSocket
  <1> QED BY <1>2, <1>3

-----------------------------------------------------------------------------
(* The queries *)

LEMMA QueryFacts ==
  ASSUME QueryTypeOK, NEW q \in Query
  PROVE  /\ query[q] \in QueryFields /\ query[q].rest \in SUBSET Candidate
         /\ query[q].source \in Source
  BY DEF QueryTypeOK, QueryFields

LEMMA DoneTyped == ASSUME QueryTypeOK, NEW q \in Query, Done(q) PROVE QueryTypeOK'
  BY DEF QueryTypeOK, Done, NoQuery, QueryFields, QueryPc, Source

LEMMA LeftTyped ==
  ASSUME QueryTypeOK, NEW q \in Query, NEW rest \in SUBSET Candidate, Left(q, rest)
  PROVE  QueryTypeOK'
  <1> DEFINE trying == [query[q] EXCEPT !.pc = "trying", !.rest = rest]
             asking == [query[q] EXCEPT !.pc = "validator", !.rest = {}]
  <1>1. trying \in QueryFields /\ asking \in QueryFields
    BY QueryFacts DEF QueryFields, QueryPc
  <1>2. CASE query' = [query EXCEPT ![q].pc = "trying", ![q].rest = rest]
    <2>1. query' = [query EXCEPT ![q] = trying]
      BY <1>2 DEF QueryTypeOK
    <2> HIDE DEF trying
    <2> QED BY <1>1, <2>1 DEF QueryTypeOK
  <1>3. CASE query' = [query EXCEPT ![q].pc = "validator", ![q].rest = {}]
    <2>1. query' = [query EXCEPT ![q] = asking]
      BY <1>3 DEF QueryTypeOK
    <2> HIDE DEF asking
    <2> QED BY <1>1, <2>1 DEF QueryTypeOK
  <1> QED BY <1>2, <1>3, DoneTyped DEF Left

LEMMA QueryTyped ==
  ASSUME IndexersOK, QueryTypeOK, NEW q \in Query,
         QueryStep(q) \/ \E source \in Source : Ask(q, source)
  PROVE  QueryTypeOK'
  <1>1. ASSUME NEW source \in Source, Ask(q, source)
        PROVE  QueryTypeOK'
    <2>1. /\ [pc |-> "validator", source |-> source, rest |-> {}] \in QueryFields
          /\ [pc |-> "looking", source |-> source, rest |-> {}] \in QueryFields
      BY DEF QueryFields, QueryPc
    <2>2. \E r \in QueryFields : query' = [query EXCEPT ![q] = r]
      BY <1>1, <2>1 DEF Ask
    <2> QED BY <2>2 DEF QueryTypeOK
  <1>2. CASE LookedUp(q)
    <2>1. lookup[q].data \in SUBSET Candidate
      BY DEF IndexersOK, LookupsOK, LookupType
    <2> QED BY <1>2, <2>1, LeftTyped DEF LookedUp
  <1>3. CASE TryNext(q)
    <2>1. PICK i \in Best(query[q].rest) : Done(q) \/ Left(q, query[q].rest \ {i})
      BY <1>3 DEF TryNext
    <2>2. query[q].rest \ {i} \in SUBSET Candidate
      BY QueryFacts
    <2> QED BY <2>1, <2>2, DoneTyped, LeftTyped
  <1>4. CASE CallValidator(q)
    BY <1>4, DoneTyped DEF CallValidator
  <1> QED BY <1>1, <1>2, <1>3, <1>4 DEF QueryStep

-----------------------------------------------------------------------------
(* All steps keep the types, and the task's invariant *)

TypedInv == IndexersOK /\ QueryTypeOK /\ TaskInv

\* Evictions, and blame for them, come from the one that failed.
LEMMA BlameTyped ==
  ASSUME IndexersOK,
         cache' \in CacheType, LookupsOK', blamed' \subseteq Candidate,
         UNCHANGED <<registered, override, listed>>
  PROVE  IndexersOK'
  BY DEF IndexersOK

LEMMA SubStepTyped ==
  ASSUME IndexersOK, TaskInv,
         SubStep \/ \E indexed, reconnect \in BOOLEAN : Subscribe(indexed, reconnect)
  PROVE  IndexersOK'
  <1>1. /\ cache \in CacheType /\ LookupsOK /\ blamed \subseteq Candidate
        /\ sub.current \in Candidate \cup {NoOne}
    BY SubFacts DEF IndexersOK, TaskInv
  <1>2. ASSUME NEW indexed \in BOOLEAN, NEW reconnect \in BOOLEAN, Subscribe(indexed, reconnect)
        PROVE  IndexersOK'
    <2>1. LookupsOK'
      BY <1>1, <1>2, LookUpTyped DEF Subscribe, LookupsOK
    <2> QED BY <1>1, <1>2, <2>1, BlameTyped DEF Subscribe
  <1>3. CASE Resolved \/ Aborted
    <2>1. LookupsOK'
      BY <1>3, ForgetTyped DEF Resolved, Aborted
    <2> QED BY <1>1, <1>3, <2>1, BlameTyped DEF Resolved, Aborted
  <1>4. CASE LookUpNext
    <2>1. LookupsOK'
      BY <1>4, LookUpTyped DEF LookUpNext
    <2> QED BY <1>1, <1>4, <2>1, BlameTyped DEF LookUpNext
  <1>5. CASE EvictLast
    <2>1. cache' \in CacheType
      BY <1>5, EvictTyped DEF EvictLast
    <2>2. LookupsOK'
      BY <1>1, <1>5 DEF EvictLast, LookupsOK
    <2> QED BY <1>1, <1>5, <2>1, <2>2, BlameTyped DEF EvictLast
  <1>6. CASE Disconnected
    <2>1. LookupsOK' /\ blamed' \subseteq Candidate
      BY <1>1, <1>6 DEF Disconnected, LookupsOK
    <2> QED BY <1>1, <1>6, <2>1, BlameTyped DEF Disconnected
  <1>7. CASE \/ Connected \/ NotConnected \/ Unblocked \/ Awake \/ ServerNext \/ Pinged
             \/ Complete \/ Cancelled \/ Written \/ Recv \/ Unsubscribe \/ DropHandle
    <2>1. UNCHANGED indexersVars
      BY <1>7 DEF Connected, NotConnected, Unblocked, Awake, ServerNext, Pinged, Complete,
                  Cancelled, Written, Recv, Unsubscribe, DropHandle
    <2> QED BY <2>1 DEF indexersVars, IndexersOK, LookupsOK
  <1> QED BY <1>2, <1>3, <1>4, <1>5, <1>6, <1>7 DEF SubStep, TaskStep

LEMMA QueryStepTyped ==
  ASSUME IndexersOK, QueryTypeOK, NEW q \in Query,
         QueryStep(q) \/ \E source \in Source : Ask(q, source)
  PROVE  IndexersOK'
  <1>1. cache \in CacheType /\ LookupsOK /\ blamed \subseteq Candidate /\ q \in User
    BY DEF IndexersOK
  <1>2. ASSUME NEW source \in Source, Ask(q, source)
        PROVE  IndexersOK'
    <2>1. LookupsOK'
      BY <1>1, <1>2, LookUpTyped DEF Ask, LookupsOK
    <2> QED BY <1>1, <1>2, <2>1, BlameTyped DEF Ask
  <1>3. CASE LookedUp(q)
    <2>1. LookupsOK'
      BY <1>1, <1>3, ForgetTyped DEF LookedUp
    <2> QED BY <1>1, <1>3, <2>1, BlameTyped DEF LookedUp
  <1>4. CASE TryNext(q)
    <2>1. PICK i \in Best(query[q].rest) :
            /\ Evict(i) \/ UNCHANGED cache
            /\ blamed' \subseteq blamed \cup {i}
      BY <1>4 DEF TryNext
    <2>2. i \in Candidate
      BY QueryFacts DEF Best
    <2>3. cache' \in CacheType /\ blamed' \subseteq Candidate
      BY <1>1, <2>1, <2>2, EvictTyped
    <2>4. LookupsOK' /\ UNCHANGED <<registered, override, listed>>
      BY <1>1, <1>4 DEF TryNext, LookupsOK
    <2> QED BY <2>3, <2>4, BlameTyped
  <1>5. CASE CallValidator(q)
    BY <1>5 DEF CallValidator, indexersVars, IndexersOK, LookupsOK
  <1> QED BY <1>2, <1>3, <1>4, <1>5 DEF QueryStep

\* Blame only grows, so a step that leaves the subscription alone leaves its
\* invariant.
LEMMA TaskStays ==
  ASSUME TaskInv, UNCHANGED <<sub, handle, queue, barren>>, stayed' \in {stayed, FALSE},
         blamed \subseteq blamed'
  PROVE  TaskInv'
  <1>1. SubInv /\ LostOne
    BY DEF TaskInv
  <1>2. SubTypeOK'
    BY <1>1 DEF SubInv, SubTypeOK
  <1>3. Counted' /\ Justified'
    BY <1>1 DEF SubInv, Counted, Justified
  <1>4. BeforeHandle'
    <2>1. stayed' => stayed
      OBVIOUS
    <2> QED BY <1>1, <2>1 DEF SubInv, BeforeHandle
  <1>5. LostOne'
    BY <1>1 DEF LostOne, OnSocket
  <1> QED BY <1>2, <1>3, <1>4, <1>5 DEF TaskInv, SubInv

LEMMA SubStepOK ==
  ASSUME IndexersOK, TaskInv,
         SubStep \/ \E indexed, reconnect \in BOOLEAN : Subscribe(indexed, reconnect)
  PROVE  TaskInv'
  BY SubscribeOK, ResolvedOK, ConnectedOK, PumpOK, DisconnectedOK, NextAttemptOK, HandleOK
     DEF SubStep, TaskStep

LEMMA TypedNext == TypedInv /\ [DiscoveryNext]_vars => TypedInv'
  <1> SUFFICES ASSUME TypedInv, [DiscoveryNext]_vars PROVE TypedInv'
    OBVIOUS
  <1>1. IndexersOK /\ QueryTypeOK /\ TaskInv
    BY DEF TypedInv
  <1>2. ASSUME NEW u \in User, ListStep(u)
        PROVE  TypedInv'
    <2>1. /\ UNCHANGED <<sub, handle, queue, barren, query, blamed>>
          /\ stayed' \in {stayed, FALSE}
      BY <1>2 DEF ListStep, ReadList, StoreList, FetchFails
    <2>2. IndexersOK'
      BY <1>1, <1>2, ListStepTyped
    <2>3. TaskInv'
      BY <1>1, <2>1, TaskStays
    <2> QED BY <1>1, <2>1, <2>2, <2>3 DEF TypedInv, QueryTypeOK
  <1>3. CASE Directory /\ UNCHANGED <<subVars, query>>
    <2>1. /\ UNCHANGED <<sub, handle, queue, barren, stayed, query>>
          /\ blamed' = blamed
      BY <1>3 DEF subVars, Directory, Invalidate, Age, Registration
    <2>2. IndexersOK'
      BY <1>1, <1>3, DirectoryTyped
    <2>3. TaskInv'
      BY <1>1, <2>1, TaskStays
    <2> QED BY <1>1, <2>1, <2>2, <2>3 DEF TypedInv, QueryTypeOK
  <1>4. CASE /\ SubStep \/ \E indexed, reconnect \in BOOLEAN : Subscribe(indexed, reconnect)
             /\ UNCHANGED query
    BY <1>1, <1>4, SubStepTyped, SubStepOK DEF TypedInv, QueryTypeOK
  <1>5. ASSUME NEW q \in Query, QueryStep(q) \/ \E source \in Source : Ask(q, source),
               UNCHANGED subVars
        PROVE  TypedInv'
    <2>1. UNCHANGED <<sub, handle, queue, barren, stayed>> /\ blamed \subseteq blamed'
      BY <1>5 DEF subVars, QueryStep, LookedUp, TryNext, CallValidator, Ask, indexersVars
    <2>2. IndexersOK' /\ QueryTypeOK'
      BY <1>1, <1>5, QueryStepTyped, QueryTyped
    <2> QED BY <1>1, <2>1, <2>2, TaskStays DEF TypedInv
  <1>6. CASE UNCHANGED vars
    <2>1. UNCHANGED <<sub, handle, queue, barren, stayed, query, registered, override, cache,
                      lookup, listed, blamed>>
      BY <1>6 DEF vars, subVars, indexersVars
    <2>2. TaskInv'
      BY <1>1, <2>1, TaskStays
    <2> QED BY <1>1, <2>1, <2>2 DEF TypedInv, IndexersOK, LookupsOK, QueryTypeOK
  <1> QED BY <1>2, <1>3, <1>4, <1>5, <1>6 DEF DiscoveryNext

LEMMA TypedInit == DiscoveryInit => TypedInv
  <1> SUFFICES ASSUME DiscoveryInit PROVE TypedInv
    OBVIOUS
  <1>1. LookupOK(NoLookup)
    BY DEF NoLookup, LookupOK, LookupType, LookupStates
  <1>2. IndexersOK
    BY <1>1, NoCacheTyped DEF DiscoveryInit, IndexersInit, IndexersOK, LookupsOK, LookupOK
  <1>3. QueryTypeOK
    BY DEF DiscoveryInit, QueryInit, QueryTypeOK, NoQuery, QueryFields, QueryPc, Source
  <1>4. SubTypeOK
    <2>1. sub \in SubFields /\ handle = "none" /\ stayed = FALSE
      BY NoSubTyped DEF DiscoveryInit, SubInit
    <2>2. queue = 0 /\ barren = 0 /\ 0 \in 0 .. Capacity /\ 0 \in 0 .. MaxAttempts
      BY DEF DiscoveryInit, SubInit
    <2> QED BY <2>1, <2>2 DEF SubTypeOK
  <1>5. TaskInv
    BY <1>4, NoSubTyped
       DEF DiscoveryInit, SubInit, TaskInv, SubInv, LostOne, Counted, BeforeHandle, Justified,
           OnSocket
  <1> QED BY <1>2, <1>3, <1>5 DEF TypedInv

LEMMA DiscoveryInvariance == DiscoverySpec => []TypedInv
  BY TypedInit, TypedNext, PTL DEF DiscoverySpec

\* The state is what its declarations say. Of the list and of what the users were
\* answered this says that no made-up entry gets into the list.
THEOREM DiscoveryTyping == DiscoverySpec => []DiscoveryTypeOK
  <1>1. TypedInv => DiscoveryTypeOK
    BY DEF TypedInv, TaskInv, SubInv, IndexersOK, IndexersTypeOK, LookupsOK, LookupOK, LookupType,
           CacheType, DiscoveryTypeOK
  <1> QED BY <1>1, DiscoveryInvariance, PTL

\* A subscription ends for one of the reasons recv() documents, and tries again
\* no more than its maximum between two payloads, whatever the maximum is and
\* however its server, its caller and the lookups behave.
THEOREM EndsAreJustified == DiscoverySpec => []EndsJustified
  <1>1. TypedInv => EndsJustified
    <2>1. TypedInv => barren <= MaxAttempts /\ Justified
      BY SubFacts DEF TypedInv, TaskInv, SubInv
    <2> QED BY <2>1 DEF Justified, EndsJustified
  <1> QED BY <1>1, DiscoveryInvariance, PTL

-----------------------------------------------------------------------------
(* Who is put out of the list *)

LEMMA EvictionsNext == TypedInv /\ EvictionsDeserved /\ [DiscoveryNext]_vars => EvictionsDeserved'
  <1> SUFFICES ASSUME TypedInv, EvictionsDeserved, [DiscoveryNext]_vars
               PROVE  EvictionsDeserved'
    OBVIOUS
  <1>1. /\ listed \subseteq Indexer /\ sub.current \in Candidate \cup {NoOne} /\ LostOne
        /\ cache.held \in BOOLEAN /\ cache \in CacheType
    BY SubFacts DEF TypedInv, TaskInv, IndexersOK, CacheType
  <1>2. ASSUME UNCHANGED <<cache, listed>>, blamed \subseteq blamed'
        PROVE  EvictionsDeserved'
    BY <1>2 DEF EvictionsDeserved
  <1>3. ASSUME NEW i, Evict(i), i \in blamed' \cup {NoOne}, listed' = listed,
               blamed \subseteq blamed'
        PROVE  EvictionsDeserved'
    <2>1. cache'.held = cache.held /\ cache'.data = cache.data \ {i}
      BY <1>1, <1>3 DEF Evict, CacheType
    <2>2. NoOne \notin listed
      BY <1>1 DEF Candidate
    <2> QED BY <1>3, <2>1, <2>2 DEF EvictionsDeserved
  <1>4. ASSUME NEW u \in User, ListStep(u)
        PROVE  EvictionsDeserved'
    <2>1. CASE StoreList(u)
      BY <2>1 DEF StoreList, EvictionsDeserved, NoCache
    <2>2. CASE ReadList(u) \/ FetchFails(u)
      BY <1>2, <2>2 DEF ReadList, FetchFails
    <2> QED BY <1>4, <2>1, <2>2 DEF ListStep
  <1>5. CASE Directory
    <2>1. CASE Invalidate
      BY <2>1 DEF Invalidate, EvictionsDeserved, NoCache
    <2>2. CASE Age
      BY <2>2, <1>1 DEF Age, EvictionsDeserved, NoCache, CacheType
    <2>3. CASE \E S \in Registries : Registration(S)
      BY <1>2, <2>3 DEF Registration
    <2> QED BY <1>5, <2>1, <2>2, <2>3 DEF Directory
  <1>6. CASE EvictLast
    <2>1. EvictedOne \in blamed' \cup {NoOne}
      BY <1>1, <1>6 DEF EvictLast, LostOne, OnSocket, EvictedOne
    <2> QED BY <1>3, <1>6, <2>1 DEF EvictLast
  <1>7. ASSUME NEW q \in Query, TryNext(q)
        PROVE  EvictionsDeserved'
    <2>1. PICK i \in Best(query[q].rest), status \in {"ok", "server error", "other error"} :
            /\ IF PutsOut(status) THEN Evict(i) ELSE UNCHANGED cache
            /\ blamed' = IF status = "server error" THEN blamed \cup {i} ELSE blamed
      BY <1>7 DEF TryNext
    <2> QED BY <1>2, <1>3, <1>7, <2>1 DEF TryNext, PutsOut
  <1>8. CASE \/ \E q \in Query : LookedUp(q) \/ CallValidator(q) \/ \E source \in Source : Ask(q, source)
             \/ \E indexed, reconnect \in BOOLEAN : Subscribe(indexed, reconnect)
             \/ UNCHANGED vars
    BY <1>2, <1>8 DEF LookedUp, CallValidator, Ask, Subscribe, vars, indexersVars
  <1>9. CASE \/ Resolved \/ Aborted \/ LookUpNext \/ Connected \/ NotConnected \/ Unblocked \/ Awake
             \/ ServerNext \/ Pinged \/ Complete \/ Disconnected \/ Cancelled \/ Written
             \/ Recv \/ Unsubscribe \/ DropHandle
    BY <1>2, <1>9 DEF Resolved, Aborted, LookUpNext, Connected, NotConnected, Unblocked, Awake,
       ServerNext, Pinged, Complete, Disconnected, Cancelled, Written, Recv, Unsubscribe, DropHandle,
       indexersVars
  <1> QED BY <1>4, <1>5, <1>6, <1>7, <1>8, <1>9
          DEF DiscoveryNext, SubStep, TaskStep, QueryStep

\* However queries, subscriptions and answers of the API interleave, an indexer that
\* is no longer offered failed a query with a server error, or a connection to it
\* was lost.
THEOREM EvictionsAreDeserved == DiscoverySpec => []EvictionsDeserved
  <1>1. DiscoveryInit => EvictionsDeserved
    BY DEF DiscoveryInit, IndexersInit, EvictionsDeserved, NoCache
  <1> QED BY <1>1, EvictionsNext, DiscoveryInvariance, PTL DEF DiscoverySpec

-----------------------------------------------------------------------------
(* Failing over *)

\* After an eviction that nobody has undone, the next attempt does not find the
\* indexer that was lost.
Avoids ==
  stayed /\ sub.pc \in {"resolve", "lookup"} =>
    /\ ~override
    /\ cache.held => sub.current \notin cache.data
    /\ sub.pc = "lookup" /\ lookup[Sub].state \in {"found", "failed"} =>
         sub.current \notin lookup[Sub].data

\* A step of another user, or of the caller's, that neither adds to the list nor
\* answers the lookup.
LEMMA AvoidsStays ==
  ASSUME Avoids,
         stayed' => stayed, override' = override,
         sub'.pc = sub.pc, sub'.current = sub.current, lookup'[Sub] = lookup[Sub],
         cache'.held => cache.held /\ cache'.data \subseteq cache.data
  PROVE  Avoids'
  BY DEF Avoids

\* Where a task is after a connection that was lost or not made.
LEMMA AfterRetry ==
  ASSUME sub \in SubFields, (\E n : Retry(n)) \/ AttemptFails \/ (\E why : End(why)) \/ Deliver
  PROVE  sub'.pc \in {"idle", "ended", "backoff", "pump"}
  <1>1. ASSUME NEW why, End(why)
        PROVE  sub'.pc = "ended"
    BY <1>1 DEF End, NoSub
  <1>2. ASSUME NEW n, Retry(n)
        PROVE  sub'.pc \in {"ended", "backoff"}
    <2>1. [sub EXCEPT !.pc = "backoff", !.attempts = n + 1, !.delivered = FALSE].pc = "backoff"
      BY DEF SubFields
    <2> QED BY <1>1, <1>2, <2>1 DEF Retry
  <1>3. CASE AttemptFails
    BY <1>2, <1>3, NoSubTyped DEF AttemptFails
  <1>4. CASE Deliver
    BY <1>1, <1>4 DEF Deliver, SubFields
  <1> QED BY <1>1, <1>2, <1>3, <1>4

LEMMA AvoidsNext == TypedInv /\ Avoids /\ [DiscoveryNext]_vars => Avoids'
  <1> SUFFICES ASSUME TypedInv, Avoids, [DiscoveryNext]_vars PROVE Avoids'
    OBVIOUS
  <1>1. /\ sub \in SubFields /\ SubInv /\ cache \in CacheType /\ lookup \in [User -> LookupType]
        /\ stayed \in BOOLEAN
    BY SubFacts DEF TypedInv, TaskInv, IndexersOK, LookupsOK
  <1>2. ASSUME NEW u \in User, ListStep(u)
        PROVE  Avoids'
    <2>1. CASE stayed' = FALSE
      BY <2>1 DEF Avoids
    <2>2. CASE u # Sub /\ (ReadList(u) \/ FetchFails(u)) /\ UNCHANGED stayed
      BY <1>1, <1>2, <2>2, AvoidsStays DEF ListStep, ReadList, FetchFails
    <2>3. CASE u = Sub /\ (ReadList(u) \/ FetchFails(u)) /\ UNCHANGED stayed
      <3>1. lookup'[Sub].state = "read" \/ lookup'[Sub].data = {}
        BY <1>1, <2>3 DEF ReadList, FetchFails
      <3> QED BY <1>2, <2>3, <3>1 DEF ListStep, ReadList, FetchFails, Avoids
    <2> QED BY <1>2, <2>1, <2>2, <2>3 DEF ListStep
  <1>3. CASE Directory /\ UNCHANGED subVars
    <2>1. UNCHANGED <<sub, stayed, override, lookup>>
      BY <1>3 DEF Directory, Invalidate, Age, Registration, subVars
    <2>2. cache'.held => cache.held /\ cache'.data \subseteq cache.data
      BY <1>1, <1>3 DEF Directory, Invalidate, Age, Registration, NoCache, CacheType
    <2> QED BY <2>1, <2>2, AvoidsStays
  <1>4. ASSUME NEW q \in Query, QueryStep(q) \/ \E source \in Source : Ask(q, source),
               UNCHANGED subVars
        PROVE  Avoids'
    <2>1. q # Sub /\ q \in User
      BY DiscoveryAssumption
    <2>2. lookup'[Sub] = lookup[Sub]
      BY <1>1, <1>4, <2>1 DEF QueryStep, LookedUp, TryNext, CallValidator, Ask, LookUp, Forget,
                              indexersVars
    <2>3. UNCHANGED <<sub, stayed, override>>
      BY <1>4 DEF QueryStep, LookedUp, TryNext, CallValidator, Ask, subVars, indexersVars
    <2>4. cache'.held => cache.held /\ cache'.data \subseteq cache.data
      <3>1. cache' = cache \/ \E i : Evict(i)
        BY <1>4 DEF QueryStep, LookedUp, TryNext, CallValidator, Ask, indexersVars
      <3> QED BY <1>1, <3>1 DEF Evict, CacheType
    <2> QED BY <2>2, <2>3, <2>4, AvoidsStays
  <1>5. ASSUME NEW indexed \in BOOLEAN, NEW reconnect \in BOOLEAN, Subscribe(indexed, reconnect)
        PROVE  Avoids'
    BY <1>1, <1>5 DEF Subscribe, SubInv, BeforeHandle, Avoids
  <1>6. CASE EvictLast
    <2>1. /\ cache'.data = cache.data \ {sub.current} /\ cache'.held = cache.held
          /\ sub'.pc = "resolve" /\ sub'.current = sub.current
      BY <1>1, <1>6 DEF EvictLast, Evict, EvictedOne, CacheType, SubFields
    <2>2. stayed' => ~override'
      BY <1>6 DEF EvictLast
    <2> QED BY <2>1, <2>2 DEF Avoids
  <1>7. CASE LookUpNext
    <2>1. /\ sub.pc = "resolve" /\ sub'.current = sub.current /\ UNCHANGED <<stayed, override, cache>>
      BY <1>1, <1>7 DEF LookUpNext, SubFields
    <2>2. ~override => /\ cache.held => lookup'[Sub].data = cache.data
                       /\ ~cache.held => lookup'[Sub].state = "asking"
      BY <1>1, <1>7 DEF LookUpNext, LookUp, Found
    <2> QED BY <2>1, <2>2 DEF Avoids
  <1>8. CASE Recv \/ Unsubscribe \/ DropHandle
    <2>1. /\ UNCHANGED <<stayed, override, lookup, cache>>
          /\ sub'.pc = sub.pc /\ sub'.current = sub.current
      BY <1>1, <1>8 DEF Recv, Unsubscribe, DropHandle, indexersVars, SubFields
    <2> QED BY <2>1, AvoidsStays
  <1>9. CASE \/ Resolved \/ Aborted \/ Connected \/ NotConnected \/ Unblocked \/ Awake
             \/ ServerNext \/ Pinged \/ Complete \/ Disconnected \/ Cancelled \/ Written
    <2>1. sub'.pc \notin {"resolve", "lookup"}
      <3>1. CASE Connected \/ Awake \/ Pinged
        <4>1. Connected => sub'.pc = "pump"
          BY <1>1 DEF Connected, SubFields
        <4>2. Pinged => sub'.pc = "pong"
          BY <1>1 DEF Pinged, SubFields
        <4>3. Awake => sub'.pc \in {"evict", "connect"}
          BY <1>1 DEF Awake, SubFields
        <4> QED BY <3>1, <4>1, <4>2, <4>3
      <3>2. CASE Resolved
        <4>1. ASSUME NEW i, sub' = [sub EXCEPT !.pc = "connect", !.target = i]
              PROVE  sub'.pc = "connect"
          BY <1>1, <4>1 DEF SubFields
        <4> QED BY <1>1, <3>2, <4>1, AfterRetry DEF Resolved
      <3>3. CASE ServerNext \/ Unblocked
        BY <1>1, <3>3, AfterRetry DEF ServerNext, Unblocked, SubFields
      <3>4. CASE Aborted \/ NotConnected \/ Complete \/ Disconnected
        BY <1>1, <3>4, AfterRetry DEF Aborted, NotConnected, Complete, Disconnected
      <3>5. CASE Cancelled \/ Written
        BY <1>1, <3>5, AfterRetry DEF Cancelled, Written, SubFields
      <3> QED BY <1>9, <3>1, <3>2, <3>3, <3>4, <3>5
    <2> QED BY <2>1 DEF Avoids
  <1>10. CASE UNCHANGED vars
    <2>1. UNCHANGED <<sub, stayed, override, lookup, cache>>
      BY <1>10 DEF vars, subVars, indexersVars
    <2> QED BY <2>1, AvoidsStays
  <1> QED BY <1>2, <1>3, <1>4, <1>5, <1>6, <1>7, <1>8, <1>9, <1>10
          DEF DiscoveryNext, SubStep, TaskStep

\* When a connection is lost and the list it came from is still good, the next
\* attempt goes to another indexer unless the list was stored anew meanwhile,
\* however many queries evict from it and however it ages.
THEOREM FailOver == DiscoverySpec => FailsOver
  <1> DEFINE Other == sub.pc = "lookup" /\ sub'.pc = "connect" /\ stayed => sub'.target # sub.current
  <1>1. DiscoveryInit => Avoids
    BY NoSubTyped DEF DiscoveryInit, SubInit, Avoids
  <1>2. TypedInv /\ Avoids /\ [DiscoveryNext]_vars => [Other]_vars
    <2> SUFFICES ASSUME TypedInv, Avoids, DiscoveryNext,
                        sub.pc = "lookup", sub'.pc = "connect", stayed
                 PROVE  sub'.target # sub.current
      OBVIOUS
    <2>1. sub \in SubFields
      BY SubFacts DEF TypedInv, TaskInv
    <2>2. Resolved
      <3>1. sub' # sub
        OBVIOUS
      <3>2. SubStep
        BY <3>1 DEF DiscoveryNext, ListStep, Subscribe, subVars
      <3>3. ~(LookUpNext \/ EvictLast \/ Aborted \/ Recv \/ Unsubscribe \/ DropHandle)
        BY <2>1, AfterRetry DEF LookUpNext, EvictLast, Aborted, Recv, Unsubscribe, DropHandle, SubFields
      <3> QED BY <3>2, <3>3 DEF SubStep, TaskStep, Connected, NotConnected, Unblocked, Awake,
                 ServerNext, Pinged, Complete, Disconnected, Cancelled, Written, Heeds
    <2>3. ~AttemptFails
      BY <2>1, AfterRetry
    <2>4. PICK i \in Best(lookup[Sub].data) : sub'.target = i
      BY <2>1, <2>2, <2>3 DEF Resolved, SubFields
    <2> QED BY <2>2, <2>4 DEF Avoids, Best, Resolved
  <1> QED BY <1>1, <1>2, AvoidsNext, DiscoveryInvariance, PTL DEF DiscoverySpec, FailsOver

=============================================================================
