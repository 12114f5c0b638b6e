--------------------------- MODULE Subscriptions ---------------------------
(***************************************************************************)
(* A GraphQL subscription (src/subscriptions.rs): the handle its caller    *)
(* holds, the task behind it and the socket it pumps, which reconnects     *)
(* with a bounded number of attempts and fails over to another indexer.    *)
(***************************************************************************)
EXTENDS Indexers

CONSTANTS
  Sub,          \* the user that subscribes
  NoOne,        \* the indexer of a subscription to the validator
  MaxAttempts,  \* max_reconnect_attempts
  Capacity      \* of the channel of payloads

ASSUME SubscriptionsAssumption ==
  /\ Sub \in User
  /\ NoOne \notin Candidate
  /\ MaxAttempts \in Nat
  /\ Capacity \in Nat \ {0}

VARIABLES
  sub,      \* the call of subscribe(), then the task
  handle,   \* "none", "open", "unsubscribed" or "dropped"
  queue,    \* the number of payloads in the channel
  barren,   \* history: the reconnections tried since a payload was delivered
  stayed    \* history: no list was stored since the indexer was evicted from a fresh one

subVars == <<sub, handle, queue, barren, stayed>>

SubPc == {"idle", "lookup", "connect", "pump", "deliver", "pong", "closing",
          "backoff", "evict", "resolve", "ended"}
Reason == {"none", "cancelled", "dropped", "complete", "disconnected", "exhausted"}

SubFields ==
  [ pc : SubPc,
    indexed : BOOLEAN,                      \* SubscribeSource::Indexer
    reconnect : BOOLEAN,
    attempts : 0 .. MaxAttempts,
    current : Candidate \cup {NoOne},       \* current_indexer_did
    target : Candidate \cup {NoOne},        \* the one being connected to
    delivered : BOOLEAN,                    \* delivered_payload
    signal : BOOLEAN,                       \* the cancellation is in its channel
    why : Reason ]                          \* history: what ended the task

NoSub == [ pc |-> "idle", indexed |-> FALSE, reconnect |-> FALSE, attempts |-> 0,
           current |-> NoOne, target |-> NoOne, delivered |-> FALSE, signal |-> FALSE,
           why |-> "none" ]

SubTypeOK ==
  /\ sub \in SubFields
  /\ handle \in {"none", "open", "unsubscribed", "dropped"}
  /\ queue \in 0 .. Capacity
  /\ barren \in 0 .. MaxAttempts
  /\ stayed \in BOOLEAN

SubInit ==
  /\ sub = NoSub
  /\ handle = "none"
  /\ queue = 0 /\ barren = 0 /\ stayed = FALSE

-----------------------------------------------------------------------------
(* subscribe(), and the connections *)

Subscribe(indexed, reconnect) ==
  /\ sub.pc = "idle"
  /\ sub' = [NoSub EXCEPT !.indexed = indexed, !.reconnect = reconnect,
                          !.pc = IF indexed THEN "lookup" ELSE "connect"]
  /\ IF indexed THEN LookUp(Sub) ELSE UNCHANGED lookup
  /\ UNCHANGED <<registered, override, cache, listed, blamed, handle, queue, barren, stayed>>

End(why) == sub' = [NoSub EXCEPT !.pc = "ended", !.why = why, !.reconnect = sub.reconnect]

\* Mutated form: a connection is enough.
MutAttemptsAfter == 0

\* A connection counts once a payload came over it.
AttemptsAfter == IF sub.delivered THEN 0 ELSE sub.attempts

\* Between a connection and the next: end, or sleep and try again.
Retry(attempts) ==
  IF ~sub.reconnect THEN End("disconnected")
  ELSE IF attempts >= MaxAttempts THEN End("exhausted")
  ELSE sub' = [sub EXCEPT !.pc = "backoff", !.attempts = attempts + 1, !.delivered = FALSE]

\* The first connection's failure is the caller's to see; a later one's, another
\* attempt's to mend.
AttemptFails == IF handle = "none" THEN sub' = NoSub ELSE Retry(sub.attempts)

\* resolve_ws_url(), once indexers are found or not.
Resolved ==
  /\ sub.pc = "lookup" /\ lookup[Sub].state \in {"found", "failed"}
  /\ IF lookup[Sub].data = {} THEN AttemptFails
     ELSE \E i \in Best(lookup[Sub].data) :
            sub' = [sub EXCEPT !.pc = "connect", !.target = i]
  /\ Forget(Sub)
  /\ UNCHANGED <<registered, override, cache, listed, blamed, handle, queue, barren, stayed>>

\* connect_and_handshake(): connected, or an error, or the timeout.
Connected ==
  /\ sub.pc = "connect"
  /\ sub' = [sub EXCEPT !.pc = "pump", !.current = sub.target]
  /\ handle' = IF handle = "none" THEN "open" ELSE handle
  /\ UNCHANGED <<indexersVars, queue, barren, stayed>>

NotConnected ==
  /\ sub.pc = "connect"
  /\ AttemptFails
  /\ UNCHANGED <<indexersVars, handle, queue, barren, stayed>>

-----------------------------------------------------------------------------
(* pump_socket() *)

\* A payload for a channel that has room, that has none, or that is closed.
Deliver ==
  \/ /\ handle = "dropped" /\ End("cancelled")
     /\ UNCHANGED <<queue, barren>>
  \/ /\ handle # "dropped" /\ queue < Capacity
     /\ sub' = [sub EXCEPT !.pc = "pump", !.delivered = TRUE]
     /\ queue' = queue + 1
     /\ barren' = 0

ServerNext ==
  /\ sub.pc = "pump"
  /\ \/ Deliver
     \/ /\ handle # "dropped" /\ queue = Capacity
        /\ sub' = [sub EXCEPT !.pc = "deliver"]
        /\ UNCHANGED <<queue, barren>>
  /\ UNCHANGED <<indexersVars, handle, stayed>>

\* The task waits for room, and for nothing else.
Unblocked ==
  /\ sub.pc = "deliver"
  /\ Deliver
  /\ UNCHANGED <<indexersVars, handle, stayed>>

\* A ping is answered, before anything else is looked for.
Pinged ==
  /\ sub.pc = "pump"
  /\ sub' = [sub EXCEPT !.pc = "pong"]
  /\ UNCHANGED <<indexersVars, handle, queue, barren, stayed>>

Complete ==
  /\ sub.pc = "pump"
  /\ End("complete")
  /\ UNCHANGED <<indexersVars, handle, queue, barren, stayed>>

Disconnected ==
  /\ sub.pc = "pump"
  /\ Retry(AttemptsAfter)
  /\ blamed' = blamed \cup ({sub.current} \ {NoOne})
  /\ UNCHANGED <<registered, override, cache, lookup, listed, handle, queue, barren, stayed>>

\* Mutated form: the cancellation is not looked for.
MutHeeds == {}

\* The states in which the task looks for it.
Heeds == {"pump", "backoff"}

\* From the socket it says `complete` first.
Cancelled ==
  /\ sub.pc \in Heeds /\ sub.signal
  /\ IF sub.pc = "pump" THEN sub' = [sub EXCEPT !.pc = "closing"] ELSE End("cancelled")
  /\ UNCHANGED <<indexersVars, handle, queue, barren, stayed>>

\* What the task writes to the server, the answer to a ping or its last words and
\* the closing of the socket, is away, or has failed. It waits for that as long as
\* the server does not read, and for nothing else.
Written ==
  /\ \/ sub.pc = "pong" /\ sub' = [sub EXCEPT !.pc = "pump"]
     \/ sub.pc = "closing" /\ End("cancelled")
  /\ UNCHANGED <<indexersVars, handle, queue, barren, stayed>>

-----------------------------------------------------------------------------
(* The next attempt *)

Awake ==
  /\ sub.pc = "backoff"
  /\ sub' = [sub EXCEPT !.pc = IF sub.indexed THEN "evict" ELSE "connect"]
  /\ barren' = barren + 1
  /\ UNCHANGED <<indexersVars, handle, queue, stayed>>

\* Mutated form: the one connected to is kept.
MutEvictedOne == sub.target

\* Out of the list goes the indexer last connected to, not one that could not be.
EvictedOne == sub.current

EvictLast ==
  /\ sub.pc = "evict"
  /\ Evict(EvictedOne)
  /\ stayed' = (cache.held /\ ~override)
  /\ sub' = [sub EXCEPT !.pc = "resolve"]
  /\ UNCHANGED <<registered, override, lookup, listed, blamed, handle, queue, barren>>

LookUpNext ==
  /\ sub.pc = "resolve"
  /\ LookUp(Sub)
  /\ sub' = [sub EXCEPT !.pc = "lookup"]
  /\ UNCHANGED <<registered, override, cache, listed, blamed, handle, queue, barren, stayed>>

-----------------------------------------------------------------------------
(* The handle *)

Recv ==
  /\ handle \in {"open", "unsubscribed"} /\ queue > 0
  /\ queue' = queue - 1
  /\ UNCHANGED <<indexersVars, sub, handle, barren, stayed>>

Unsubscribe ==
  /\ handle = "open"
  /\ handle' = "unsubscribed"
  /\ sub' = [sub EXCEPT !.signal = TRUE]
  /\ UNCHANGED <<indexersVars, queue, barren, stayed>>

\* Drop: the cancellation is sent, the channel of payloads closed and the task
\* aborted ...
DropHandle ==
  /\ handle \in {"open", "unsubscribed"}
  /\ handle' = "dropped"
  /\ sub' = [sub EXCEPT !.signal = TRUE]
  /\ queue' = 0
  /\ UNCHANGED <<indexersVars, barren, stayed>>

\* ... at the latest when it next waits, with the lookup it may be in the midst of.
Aborted ==
  /\ handle = "dropped" /\ sub.pc # "ended"
  /\ End("dropped")
  /\ Forget(Sub)
  /\ UNCHANGED <<registered, override, cache, listed, blamed, handle, queue, barren, stayed>>

-----------------------------------------------------------------------------

\* What the task does by itself, and what its peers do to it in time: a lookup and
\* a handshake end at their timeouts. (Whether an open connection brings payloads,
\* completes or is lost, and whether its server reads, nothing says.)
TaskStep == Resolved \/ Connected \/ NotConnected \/ Unblocked
            \/ Awake \/ EvictLast \/ LookUpNext \/ Aborted

SubStep == TaskStep \/ ServerNext \/ Pinged \/ Complete \/ Disconnected \/ Cancelled \/ Written
           \/ Recv \/ Unsubscribe \/ DropHandle

-----------------------------------------------------------------------------
(* Properties *)

\* A subscription ends for one of the reasons recv() documents: the caller
\* cancelled or dropped it, the server completed it, or the connection was lost
\* with no reconnection wanted or after exactly the maximum of attempts since the
\* last payload. A server that accepts connections and drops them at once does not
\* keep it going.
EndsJustified ==
  /\ barren <= MaxAttempts
  /\ CASE sub.why = "cancelled"    -> handle \in {"unsubscribed", "dropped"}
       [] sub.why = "dropped"      -> handle = "dropped"
       [] sub.why = "disconnected" -> ~sub.reconnect
       [] sub.why = "exhausted"    -> sub.reconnect /\ barren = MaxAttempts
       [] OTHER -> TRUE
=============================================================================
