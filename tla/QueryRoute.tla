----------------------------- MODULE QueryRoute -----------------------------
(***************************************************************************)
(* Queries routed to a source (src/indexing.rs, route): to the validator,  *)
(* to the indexers of the subgrove in the order of their scores, or to     *)
(* these and then the validator.                                           *)
(***************************************************************************)
EXTENDS Indexers

CONSTANT Query   \* the users that query

ASSUME QueryAssumption == Query \subseteq User

VARIABLE query

Source == {"validator", "indexer", "auto"}
QueryPc == {"idle", "looking", "trying", "validator"}

QueryFields ==
  [ pc : QueryPc, source : Source,
    rest : SUBSET Candidate ]           \* the candidates not tried yet

NoQuery == [pc |-> "idle", source |-> "auto", rest |-> {}]

QueryTypeOK == query \in [Query -> QueryFields]

QueryInit == query = [q \in Query |-> NoQuery]

Ask(q, source) ==
  /\ query[q].pc = "idle"
  /\ IF source = "validator"
     THEN /\ query' = [query EXCEPT ![q] = [pc |-> "validator", source |-> source, rest |-> {}]]
          /\ UNCHANGED lookup
     ELSE /\ query' = [query EXCEPT ![q] = [pc |-> "looking", source |-> source, rest |-> {}]]
          /\ LookUp(q)
  /\ UNCHANGED <<registered, override, cache, listed, blamed>>

Done(q) == query' = [query EXCEPT ![q] = NoQuery]

\* What follows with these candidates left: without any, the validator or an error.
Left(q, rest) ==
  IF rest # {} THEN query' = [query EXCEPT ![q].pc = "trying", ![q].rest = rest]
  ELSE IF query[q].source = "auto" THEN query' = [query EXCEPT ![q].pc = "validator", ![q].rest = {}]
  ELSE Done(q)

\* A lookup that fails ends a query of the indexers, and leaves one of any
\* source without candidates.
LookedUp(q) ==
  /\ query[q].pc = "looking" /\ lookup[q].state \in {"found", "failed"}
  /\ Left(q, lookup[q].data)
  /\ Forget(q)
  /\ UNCHANGED <<registered, override, cache, listed, blamed>>

\* Mutated form: any failure.
MutPutsOut(status) == status # "ok"

PutsOut(status) == status = "server error"

\* The next candidate answers, answers with an error of its own or of the query's
\* making, or not at all (or with what cannot be read).
TryNext(q) ==
  /\ query[q].pc = "trying"
  /\ \E i \in Best(query[q].rest), status \in {"ok", "server error", "other error"} :
       /\ IF status = "ok" THEN Done(q) ELSE Left(q, query[q].rest \ {i})
       /\ IF PutsOut(status) THEN Evict(i) ELSE UNCHANGED cache
       /\ blamed' = IF status = "server error" THEN blamed \cup {i} ELSE blamed
  /\ UNCHANGED <<registered, override, lookup, listed>>

CallValidator(q) ==
  /\ query[q].pc = "validator"
  /\ Done(q)
  /\ UNCHANGED indexersVars

QueryStep(q) == LookedUp(q) \/ TryNext(q) \/ CallValidator(q)
=============================================================================
