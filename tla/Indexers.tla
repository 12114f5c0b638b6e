------------------------------ MODULE Indexers ------------------------------
(***************************************************************************)
(* Indexer discovery (src/indexers.rs): the list of the indexers of one    *)
(* subgrove that the users of a client share, how long it lasts, and how   *)
(* an indexer that fails is put out of it. The lock on the list is not     *)
(* held while the list is asked for.                                       *)
(***************************************************************************)
EXTENDS Integers, FiniteSets

CONSTANTS
  User,        \* who looks indexers up: queries and subscriptions
  Indexer,
  Explicit,    \* the entry made up for a configured indexer_url
  Score,       \* performance_score
  TTL,         \* cache_ttl, in ticks
  Registries   \* bound: the lists the API may have

Candidate == Indexer \cup {Explicit}

ASSUME IndexersAssumption ==
  /\ Explicit \notin Indexer
  /\ Score \in [Candidate -> Nat]
  /\ TTL \in Nat
  /\ Registries \subseteq SUBSET Indexer

VARIABLES
  registered,  \* the active indexers of the subgrove that the API knows of
  override,    \* an indexer_url is configured
  cache,       \* the list held, and its age; a list past its life is none
  lookup,      \* how far the lookup of each user is
  listed,      \* history: the list held, as it was answered
  blamed       \* history: the indexers that failed a query or lost a connection

indexersVars == <<registered, override, cache, lookup, listed, blamed>>

NoCache == [held |-> FALSE, data |-> {}, age |-> 0]

LookupStates == {"none", "asking", "read", "found", "failed"}

NoLookup == [state |-> "none", data |-> {}]
Found(data) == [state |-> "found", data |-> data]

IndexersTypeOK ==
  /\ registered \in Registries
  /\ override \in BOOLEAN
  /\ cache \in [held : BOOLEAN, data : SUBSET Indexer, age : 0 .. TTL]
  /\ lookup \in [User -> [state : LookupStates, data : SUBSET Candidate]]
  /\ \A u \in User : lookup[u].state = "read" => lookup[u].data \subseteq Indexer
  /\ listed \subseteq Indexer /\ blamed \subseteq Candidate

IndexersInit ==
  /\ registered \in Registries
  /\ override \in BOOLEAN
  /\ cache = NoCache
  /\ lookup = [u \in User |-> NoLookup]
  /\ listed = {} /\ blamed = {}

-----------------------------------------------------------------------------
(* Steps of the users *)

\* for_subgrove(), as far as it goes without an answer of the API.
LookUp(u) ==
  lookup' = [lookup EXCEPT ![u] =
    IF override THEN Found({Explicit})
    ELSE IF cache.held THEN Found(cache.data)
    ELSE [state |-> "asking", data |-> {}]]

Forget(u) == lookup' = [lookup EXCEPT ![u] = NoLookup]

\* The best of the candidates by score, those of one score in any order.
Best(C) == { i \in C : \A j \in C : Score[i] >= Score[j] }

\* Mutated form: the whole list is thrown away.
MutEvict(i) == cache' = [cache EXCEPT !.data = {}]

\* evict(): out of the list held, if there is one.
Evict(i) == cache' = [cache EXCEPT !.data = @ \ {i}]

-----------------------------------------------------------------------------
(* The list being asked for, and its age *)

\* The API reads its list ...
ReadList(u) ==
  /\ lookup[u].state = "asking"
  /\ lookup' = [lookup EXCEPT ![u] = [state |-> "read", data |-> registered]]
  /\ UNCHANGED <<registered, override, cache, listed, blamed>>

\* ... and the answer replaces the list held, whatever became of that meanwhile.
StoreList(u) ==
  /\ lookup[u].state = "read"
  /\ cache' = IF TTL = 0 THEN NoCache ELSE [held |-> TRUE, data |-> lookup[u].data, age |-> 0]
  /\ lookup' = [lookup EXCEPT ![u].state = "found"]
  /\ listed' = IF TTL = 0 THEN {} ELSE lookup[u].data
  /\ UNCHANGED <<registered, override, blamed>>

FetchFails(u) ==
  /\ lookup[u].state \in {"asking", "read"}
  /\ lookup' = [lookup EXCEPT ![u] = [state |-> "failed", data |-> {}]]
  /\ UNCHANGED <<registered, override, cache, listed, blamed>>

Invalidate ==
  /\ cache.held
  /\ cache' = NoCache
  /\ listed' = {}
  /\ UNCHANGED <<registered, override, lookup, blamed>>

\* No one reads a list that is as old as the cache's life, and only the answer that
\* replaces it changes that.
Age ==
  /\ cache.held
  /\ IF cache.age + 1 < TTL
     THEN cache' = [cache EXCEPT !.age = @ + 1] /\ UNCHANGED listed
     ELSE cache' = NoCache /\ listed' = {}
  /\ UNCHANGED <<registered, override, lookup, blamed>>

\* Indexers register, deregister, are suspended, take subgroves on.
Registration(S) ==
  /\ registered' = S
  /\ UNCHANGED <<override, cache, lookup, listed, blamed>>

-----------------------------------------------------------------------------
(* Properties *)

\* An indexer of the list as it was answered that is no longer offered failed a
\* query with a server error, or a connection to it was lost: errors of the query
\* itself, other users and answers that arrive in any order put no indexer out.
EvictionsDeserved == cache.held => listed \ cache.data \subseteq blamed
=============================================================================
