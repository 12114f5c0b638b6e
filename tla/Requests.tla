------------------------------ MODULE Requests ------------------------------
(***************************************************************************)
(* Requests to the API (src/client.rs, request_with_retry): each is tried  *)
(* a few times, and each try is signed anew with the identity the client   *)
(* then has, which others set and clear meanwhile.                         *)
(*                                                                         *)
(* The API's server is another program: of it the source says that it      *)
(* gives a gated read to a DID with rights that signed it with a nonce,    *)
(* takes each nonce once, and refuses nonces in the first seconds after a  *)
(* restart (which forgets those it took).                                  *)
(***************************************************************************)
EXTENDS Integers, FiniteSets

CONSTANTS
  Request,        \* the requests under way at once
  MaxAttempts,    \* retry_config.max_attempts
  MaxChanges,     \* bound: changes of the identity, and restarts
  MaxDrawn        \* bound: nonces drawn

\* With no attempt at all the source has no error to return, and panics.
ASSUME RequestAssumption == MaxAttempts \in Nat \ {0} /\ MaxChanges \in Nat /\ MaxDrawn \in Nat

VARIABLES
  identity,    \* the client's, shared by its clones
  request,     \* each request
  drawn,       \* the nonces drawn
  server,      \* the nonces it took, and whether it takes any
  changes      \* of the identity, and restarts

requestVars == <<identity, request, drawn, server, changes>>

NoIdentity == "none"
Identity == {NoIdentity, "reader", "stranger"}   \* one with read rights, one without

\* A read of subgrove data (carries_read_rights), a request that must be signed, and another;
\* a query over SQL or GraphQL, without an indexer's URL; a read of agents and one of what is
\* linked to a DID (erc8004.rs).
Kind == {"gated", "authenticated", "open", "sql", "graphql", "agents", "link"}

DataRead == {"gated"}
OwnRead == {"authenticated"}
OpenRead == {"open"}
NonceSigned == DataRead \cup {"sql", "graphql"}
NeedsIdentity == DataRead \cup OwnRead \cup {"sql"}
AgentRead == {"agents"}
LinkRead == {"link"}
Unsigned == AgentRead \cup LinkRead

\* Only request() tries again.
Attempts(kind) == IF kind \in DataRead \cup OwnRead \cup OpenRead THEN MaxAttempts ELSE 1

Pc == {"idle", "try", "sent", "answered", "backoff", "got", "failed"}

Answer == {"none", "data", "denied", "unavailable", "oversize", "lost"}

NoRequest ==
  [ pc |-> "idle", kind |-> "open", attempt |-> 0, by |-> NoIdentity, nonce |-> 0,
    answer |-> "none", steady |-> FALSE ]

RequestTypeOK ==
  /\ identity \in Identity
  /\ drawn \in 0 .. MaxDrawn /\ changes \in 0 .. MaxChanges
  /\ server \in [took : SUBSET (1 .. drawn), warm : BOOLEAN]
  /\ request \in [Request ->
       [ pc : Pc, kind : Kind, attempt : 0 .. MaxAttempts, by : Identity, nonce : 0 .. drawn,
         answer : Answer,
         steady : BOOLEAN ]]   \* begun by the reader with the server warm, and no change since

RequestInit ==
  /\ identity = NoIdentity
  /\ request = [r \in Request |-> NoRequest]
  /\ drawn = 0
  /\ server = [took |-> {}, warm |-> TRUE]
  /\ changes = 0

Unsteady == [r \in Request |-> [request[r] EXCEPT !.steady = FALSE]]

-----------------------------------------------------------------------------
(* The surroundings *)

\* set_identity() in its forms, and clear_identity().
SetIdentity(id) ==
  /\ changes < MaxChanges
  /\ identity' = id
  /\ changes' = changes + 1
  /\ request' = Unsteady
  /\ UNCHANGED <<drawn, server>>

Restart ==
  /\ changes < MaxChanges
  /\ changes' = changes + 1
  /\ server' = [took |-> {}, warm |-> FALSE]
  /\ request' = Unsteady
  /\ UNCHANGED <<identity, drawn>>

WarmUp ==
  /\ ~server.warm
  /\ server' = [server EXCEPT !.warm = TRUE]
  /\ UNCHANGED <<identity, request, drawn, changes>>

-----------------------------------------------------------------------------
(* request_with_retry() *)

Becomes(r, state) == request' = [request EXCEPT ![r] = state]

Ask(r, kind) ==
  /\ request[r].pc \in {"idle", "got", "failed"}
  /\ Becomes(r, [NoRequest EXCEPT !.pc = "try", !.kind = kind,
                                  !.steady = identity = "reader" /\ server.warm])
  /\ UNCHANGED <<identity, drawn, server, changes>>

\* An error of an attempt: the next is made after a pause, unless there is none left or
\* asking again would read as much again.
Final(answer) == answer = "oversize"
AfterError(state) ==
  [state EXCEPT !.attempt = @ + 1,
                !.pc = IF Final(state.answer) \/ state.attempt + 1 = Attempts(state.kind)
                       THEN "failed" ELSE "backoff"]

\* Mutant: a retry keeps the nonce it was first signed with.
MutNonceOf(r) == IF request[r].nonce > 0 THEN request[r].nonce ELSE drawn + 1

\* sign_request_with_nonce() draws a nonce for every attempt of a gated read.
NonceOf(r) == drawn + 1

\* Whose signature a request carries: that of the client's identity at the moment, if any.
SignedBy(kind) == IF kind \in Unsigned THEN NoIdentity ELSE identity

\* make_request(), to the sending.
MakeRequest(r) ==
  LET kind == request[r].kind
      gated == kind \in NonceSigned /\ identity # NoIdentity
      state == [request[r] EXCEPT !.by = SignedBy(kind),
                                  !.nonce = IF gated THEN NonceOf(r) ELSE 0]
  IN /\ request[r].pc = "try"
     /\ gated => drawn < MaxDrawn
     /\ IF kind \in NeedsIdentity /\ identity = NoIdentity
        THEN Becomes(r, AfterError([state EXCEPT !.answer = "denied"]))
        ELSE Becomes(r, [state EXCEPT !.pc = "sent"])
     /\ drawn' = IF gated /\ NonceOf(r) > drawn THEN NonceOf(r) ELSE drawn
     /\ UNCHANGED <<identity, server, changes>>

\* What the server makes of a request.
Entitled(state) ==
  /\ state.by = "reader"
  /\ server.warm /\ state.nonce \notin server.took
Judged(state) == IF state.kind \in NonceSigned /\ ~Entitled(state) THEN "denied" ELSE "data"

\* The server answers; the answer may be an error of its own, too large, too complex or no
\* JSON, or be lost after it was given.
Serve(r, answer) ==
  /\ request[r].pc = "sent"
  /\ answer \in {Judged(request[r]), "unavailable", "oversize", "lost"}
  /\ Becomes(r, [request[r] EXCEPT !.pc = "answered", !.answer = answer])
  /\ server' = IF server.warm /\ request[r].nonce > 0
               THEN [server EXCEPT !.took = @ \cup {request[r].nonce}] ELSE server
  /\ UNCHANGED <<identity, drawn, changes>>

\* The request is lost on its way.
Lose(r) ==
  /\ request[r].pc = "sent"
  /\ Becomes(r, [request[r] EXCEPT !.pc = "answered", !.answer = "lost"])
  /\ UNCHANGED <<identity, drawn, server, changes>>

\* The answer's status tells a result from an error, but of a link: any answer in JSON without
\* it is taken for the link's absence.
IsResult(state, json) ==
  state.answer = "data" \/ (state.kind \in LinkRead /\ state.answer = "unavailable" /\ json)

Receive(r) ==
  /\ request[r].pc = "answered"
  /\ \E json \in BOOLEAN :
       Becomes(r, IF IsResult(request[r], json) THEN [request[r] EXCEPT !.pc = "got"]
                                                ELSE AfterError(request[r]))
  /\ UNCHANGED <<identity, drawn, server, changes>>

Wake(r) ==
  /\ request[r].pc = "backoff"
  /\ Becomes(r, [request[r] EXCEPT !.pc = "try"])
  /\ UNCHANGED <<identity, drawn, server, changes>>

RequestStep ==
  \/ \E id \in Identity : SetIdentity(id)
  \/ Restart
  \/ WarmUp
  \/ \E r \in Request :
       \/ \E kind \in Kind : Ask(r, kind)
       \/ MakeRequest(r)
       \/ \E answer \in Answer : Serve(r, answer)
       \/ Lose(r)
       \/ Receive(r)
       \/ Wake(r)

-----------------------------------------------------------------------------
\* A read by a DID with rights is not denied because of the retries: as long as the
\* identity stays and the server doesn't restart, a lost answer or a busy server costs an
\* attempt and never makes a later one look like a replay (make_request() signs a gated
\* read with a fresh nonce on every attempt).
RightsHonored ==
  \A r \in Request : request[r].pc = "failed" /\ request[r].steady => request[r].answer # "denied"
=============================================================================
