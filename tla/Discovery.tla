------------------------------ MODULE Discovery ------------------------------
(***************************************************************************)
(* A subscription and queries of one client, which share its list of       *)
(* indexers: each evicts, asks for the list and stores it under the others. *)
(***************************************************************************)
EXTENDS Subscriptions, QueryRoute

vars == <<indexersVars, subVars, query>>

ASSUME DiscoveryAssumption == User = Query \cup {Sub} /\ Sub \notin Query

DiscoveryTypeOK == IndexersTypeOK /\ SubTypeOK /\ QueryTypeOK

DiscoveryInit == IndexersInit /\ SubInit /\ QueryInit

\* A list stored ends what the eviction before it achieved.
ListStep(u) ==
  /\ \/ ReadList(u) /\ UNCHANGED stayed
     \/ StoreList(u) /\ stayed' = FALSE
     \/ FetchFails(u) /\ UNCHANGED stayed
  /\ UNCHANGED <<sub, handle, queue, barren, query>>

Directory == Invalidate \/ Age \/ \E S \in Registries : Registration(S)

DiscoveryNext ==
  \/ \E u \in User : ListStep(u)
  \/ Directory /\ UNCHANGED <<subVars, query>>
  \/ (\E indexed, reconnect \in BOOLEAN : Subscribe(indexed, reconnect)) /\ UNCHANGED query
  \/ SubStep /\ UNCHANGED query
  \/ (\E q \in Query, source \in Source : Ask(q, source)) /\ UNCHANGED subVars
  \/ (\E q \in Query : QueryStep(q)) /\ UNCHANGED subVars

\* A task that can run is run, a lookup ends, and select! takes a branch that is
\* ready again and again.
DiscoverySpec ==
  /\ DiscoveryInit /\ [][DiscoveryNext]_vars
  /\ WF_vars(TaskStep /\ UNCHANGED query)
  /\ WF_vars(ListStep(Sub))
  /\ SF_vars(Cancelled /\ UNCHANGED query)

-----------------------------------------------------------------------------
(* Properties *)

\* When a connection is lost, and the list it came from is still good, the next
\* attempts go to other indexers, unless another user stores the list anew before
\* they look at it. (Of a list that has expired, and one of a subscription older
\* than cache_ttl has, the eviction undoes nothing: the list is asked for again,
\* with the indexer that was lost in it.)
FailsOver ==
  [][sub.pc = "lookup" /\ sub'.pc = "connect" /\ stayed => sub'.target # sub.current]_vars

\* The task waits for room in a channel that no one receives from, or for a server
\* that does not read, and its handle is still held.
Stuck ==
  /\ handle = "unsubscribed"
  /\ sub.pc \in {"pong", "closing"} \/ (sub.pc = "deliver" /\ queue = Capacity)

\* A subscription that is dropped ends; one that is cancelled ends too, whatever
\* its attempts and the other users do, unless its caller keeps the handle and
\* leaves the channel full, or its server leaves what is written to it unread
\* (pump_socket looks for the cancellation while it reads, not while it writes).
CancelEnds == handle \in {"unsubscribed", "dropped"} ~> (sub.pc = "ended" \/ []Stuck)
=============================================================================
