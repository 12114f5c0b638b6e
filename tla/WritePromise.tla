---------------------------- MODULE WritePromise ----------------------------
(***************************************************************************)
(* What a ConsensusClient promises the caller of a write, whatever happens *)
(* to its requests: the write runs at most once however often it is sent   *)
(* again, it runs only if the node took it in, the caller hears `accepted' *)
(* only of a write the node took in, and a write the caller was told will  *)
(* never run never does (README.md, "Transaction submission").             *)
(***************************************************************************)
EXTENDS Naturals

CONSTANT Write

VARIABLES
  told,     \* what the caller knows of each write
  taken,    \* the writes the node has admitted to its mempool at some time
  runs      \* how often each write ran in a block

promiseVars == <<told, taken, runs>>

Told == {"nothing", "accepted", "neverRuns", "mayRun"}

PromiseInit ==
  /\ told = [w \in Write |-> "nothing"]
  /\ taken = {}
  /\ runs = [w \in Write |-> 0]

Admit(w) ==
  /\ told[w] # "neverRuns"
  /\ taken' = taken \cup {w}
  /\ UNCHANGED <<told, runs>>

Run(w) ==
  /\ w \in taken
  /\ runs[w] = 0
  /\ runs' = [runs EXCEPT ![w] = 1]
  /\ UNCHANGED <<told, taken>>

\* `neverRuns' is final; anything else may be corrected by sending again.
Tell(w, news) ==
  /\ told[w] # "neverRuns"
  /\ news = "accepted" => w \in taken
  /\ news = "neverRuns" => w \notin taken
  /\ told' = [told EXCEPT ![w] = news]
  /\ UNCHANGED <<taken, runs>>

PromiseNext ==
  \E w \in Write : Admit(w) \/ Run(w) \/ \E news \in Told : Tell(w, news)

PromiseSpec == PromiseInit /\ [][PromiseNext]_promiseVars
=============================================================================
