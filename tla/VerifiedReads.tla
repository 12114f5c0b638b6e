---------------------------- MODULE VerifiedReads ----------------------------
(***************************************************************************)
(* A verified read (src/data.rs, get_verified) through the light client    *)
(* (src/light_client.rs, verify_root_after): the value and its proof are   *)
(* two requests to an API that may answer anything; the chain's latest     *)
(* height and the headers come from CometBFT endpoints, each in a request  *)
(* of its own, while the chain goes on. Reads share nothing but the header *)
(* store, which they only look at, so the module follows one.              *)
(*                                                                         *)
(* The header at height h carries the root of the state after block h - 1. *)
(* Endpoints are trusted for headers (the module notes of light_client.rs) *)
(* and may be behind; some may report any height as their latest.          *)
(***************************************************************************)
EXTENDS Integers, FiniteSets

CONSTANTS
  Endpoint,    \* the light client's validator endpoints
  Honest,      \* those that report a height they have reached
  Needed,      \* min_validators_for_consensus
  MaxLag,      \* max_proof_lag_blocks
  MaxHeight    \* bound: the chain's last block

ASSUME ReadsAssumption ==
  /\ IsFiniteSet(Endpoint)
  /\ Honest \subseteq Endpoint /\ Honest # {}
  /\ Needed \in Nat
  /\ MaxLag \in Nat
  /\ MaxHeight \in Nat \ {0}

VARIABLES
  tip,        \* the chain's latest block
  chain,      \* the state after each block up to the tip
  reached,    \* the block each honest endpoint has reached
  held,       \* the heights of the headers in the light client's store
  phase,      \* where the read is
  value,      \* the value the API served
  proof,      \* the proof it served: the root it computes and the value it proves
  height,     \* the height the proof was served with
  latest,     \* the chain's latest height, as the light client found it
  result,     \* the height of the header found to carry the root, 0 if none was
  floor,      \* history: a height every honest endpoint had reached by then
  votes       \* history: how many honest and other endpoints decided `latest'

world == <<tip, chain, reached, held>>
vars == <<world, phase, value, proof, height, latest, result, floor, votes>>

Block == 1 .. MaxHeight
Value == {0, 1}

\* A root stands for a state: block 0 leaves root 1, each block that changes the
\* state one more. Root 0 is not the chain's.
Root == 0 .. MaxHeight + 1
State == [root : Root, value : Value]

Ended == {"idle", "accepted", "invalid", "noHeight", "noHeader", "mismatch", "outOfRange"}
Phase == Ended \cup {"valued", "proven", "next", "latest", "oldest"}

ReadsTypeOK ==
  /\ tip \in Block
  /\ chain \in [0 .. MaxHeight -> State]
  /\ reached \in [Honest -> 1 .. tip]
  /\ held \in SUBSET (1 .. tip)
  /\ phase \in Phase
  /\ value \in Value /\ proof \in State
  /\ height \in Nat /\ latest \in Nat /\ floor \in Nat
  /\ result \in Nat /\ (phase = "accepted" <=> result # 0)
  /\ votes \in [honest : Nat, others : Nat]

Genesis == [root |-> 1, value |-> 0]
First == [root |-> 2, value |-> 0]
NoVotes == [honest |-> 0, others |-> 0]

ReadsInit ==
  /\ tip = 1
  /\ chain = [b \in 0 .. MaxHeight |-> IF b = 0 THEN Genesis ELSE First]
  /\ reached = [e \in Honest |-> 1]
  /\ held = {}
  /\ phase = "idle"
  /\ value = 0 /\ proof = Genesis /\ height = 0
  /\ latest = 0 /\ result = 0 /\ floor = 0
  /\ votes = NoVotes

-----------------------------------------------------------------------------
(* The chain and the light client's store *)

\* The next block: empty, changing something else, or changing the value read.
NextStates(s) ==
  {s} \cup { [root |-> s.root + 1, value |-> v] : v \in Value }

Produce ==
  /\ tip < MaxHeight
  /\ tip' = tip + 1
  /\ \E s \in NextStates(chain[tip]) :
       chain' = [b \in 0 .. MaxHeight |-> IF b > tip THEN s ELSE chain[b]]
  /\ UNCHANGED <<reached, held, phase, value, proof, height, latest, result, floor, votes>>

Advance(e) ==
  /\ reached[e] < tip
  /\ reached' = [reached EXCEPT ![e] = @ + 1]
  /\ UNCHANGED <<tip, chain, held, phase, value, proof, height, latest, result, floor, votes>>

\* Mutated form: one header past the one asked for.
MutSyncTo(h) == held' = held \cup {h + 1}

SyncTo(h) == held' = held \cup {h}

\* sync_to_latest(): the endpoint's latest header is the first of the store, or
\* those up to it are added. Reads look at the store between any two additions.
Sync(e) ==
  /\ \/ held = {} /\ SyncTo(reached[e])
     \/ \E h \in held : h < reached[e] /\ (\A g \in held : g <= h) /\ SyncTo(h + 1)
  /\ UNCHANGED <<tip, chain, reached, phase, value, proof, height, latest, result, floor, votes>>

\* prune_old_headers(): the headers older than some time are dropped.
Prune ==
  /\ \E h \in held : held' = { g \in held : g > h }
  /\ UNCHANGED <<tip, chain, reached, phase, value, proof, height, latest, result, floor, votes>>

-----------------------------------------------------------------------------
(* What the light client finds *)

\* Mutated form: the root of the state after block h itself.
MutAppHash(h) == chain[h].root

\* app_hash in the header at h.
AppHash(h) == chain[h - 1].root

\* A header in the store, or one an endpoint that has reached it serves.
Available(h) == h \in held \/ \E e \in Honest : h <= reached[e]

HighestHeld == IF held = {} THEN 0 ELSE CHOOSE h \in held : \A g \in held : g <= h

Larger(m, n) == IF m > n THEN m ELSE n

\* Mutated form: as many as half of the answers, not more.
MutQuorum(n) == Larger(Larger(Needed, 1), n \div 2)

\* Of n answers, how many must have reached a height.
Quorum(n) == Larger(Larger(Needed, 1), n \div 2 + 1)

\* The k-th highest of the answers, k the quorum: the highest height that as many
\* of the endpoints that answered say they reached.
ReachedByQuorum(answers) ==
  LET k == Quorum(Cardinality(DOMAIN answers))
      by(h) == Cardinality({ e \in DOMAIN answers : answers[e] >= h })
  IN  CHOOSE h \in { answers[e] : e \in DOMAIN answers } :
        /\ by(h) >= k
        /\ \A g \in { answers[e] : e \in DOMAIN answers } : by(g) >= k => g <= h

\* The answers of some endpoints to /status: honest ones what they reached.
Answers(some) ==
  { answers \in [some -> 1 .. MaxHeight + 1] :
      \A e \in some \cap Honest : answers[e] = reached[e] }

-----------------------------------------------------------------------------
(* The read *)

End(ending, h) == phase' = ending /\ result' = h

\* The read fails with nothing to say of the API; its own variables are gone.
Fail(ending) ==
  /\ End(ending, 0)
  /\ value' = 0 /\ proof' = Genesis /\ height' = 0
  /\ latest' = 0 /\ floor' = 0 /\ votes' = NoVotes
  /\ UNCHANGED world

\* GET /data: some value.
GetValue ==
  /\ phase \in Ended
  /\ value' \in Value
  /\ phase' = "valued"
  /\ result' = 0 /\ proof' = Genesis /\ height' = 0
  /\ latest' = 0 /\ floor' = 0 /\ votes' = NoVotes
  /\ UNCHANGED world

\* What proofs can be served: of a state of the chain, or of no such state. The
\* root binds the value.
Provable == { chain[b] : b \in 0 .. tip } \cup [root : {0}, value : Value]

\* GET /proof: any proof, of any height. One that is malformed, or proves another
\* value than the one served, ends the read, whoever served it: the value may have
\* changed since.
GetProof ==
  /\ phase = "valued"
  /\ \/ /\ \E p \in Provable :
             /\ p.value = value
             /\ proof' = p
        /\ height' \in 1 .. MaxHeight + 1
        /\ phase' = "proven"
        /\ UNCHANGED <<world, value, latest, result, floor, votes>>
     \/ Fail("invalid")

\* latest_chain_height(), when enough endpoints answer, and the check that the
\* proof is not too far ahead of it. The requests to the endpoints, which run
\* together, and the look at the store that follows them are one moment here.
FindLatest ==
  /\ phase = "proven"
  /\ \E some \in SUBSET Endpoint :
       /\ Cardinality(some) >= Larger(Needed, 1)
       /\ \E answers \in Answers(some) :
            latest' = Larger(ReachedByQuorum(answers), HighestHeld)
       /\ votes' = [honest |-> Cardinality(some \cap Honest),
                    others |-> Cardinality(some \ Honest)]
  /\ \E h \in { reached[e] : e \in Honest } :
       (\A e \in Honest : h <= reached[e]) /\ floor' = h
  /\ IF height > latest' + MaxLag THEN End("outOfRange", 0) ELSE phase' = "next" /\ UNCHANGED result
  /\ UNCHANGED <<world, value, proof, height>>

\* Too few endpoints answer.
FindNoLatest ==
  /\ phase = "proven"
  /\ Fail("noHeight")

\* app_hash_after(): the header after the proof's block, waited for.
CheckNext ==
  /\ phase = "next"
  /\ Available(height + 1)
  /\ \/ AppHash(height + 1) # proof.root /\ End("mismatch", 0)
     \/ /\ AppHash(height + 1) = proof.root
        /\ \/ latest - height <= MaxLag /\ End("accepted", height + 1)
           \/ /\ latest - height > MaxLag
              /\ IF MaxLag > 0 THEN phase' = "latest" /\ UNCHANGED result ELSE End("outOfRange", 0)
  /\ UNCHANGED <<world, value, proof, height, latest, floor, votes>>

\* The state is older than the lag: it passes if the latest header, or the oldest
\* within the lag, still carries its root.
CheckLatest ==
  /\ phase = "latest"
  /\ Available(latest)
  /\ \/ AppHash(latest) = proof.root /\ End("accepted", latest)
     \/ AppHash(latest) # proof.root /\ phase' = "oldest" /\ UNCHANGED result
  /\ UNCHANGED <<world, value, proof, height, latest, floor, votes>>

\* Mutated forms: one header too old; none but the latest.
MutOldest == latest - MaxLag
MutNoOldest == latest

Oldest == latest - MaxLag + 1

CheckOldest ==
  /\ phase = "oldest"
  /\ Available(Oldest)
  /\ \/ AppHash(Oldest) = proof.root /\ End("accepted", Oldest)
     \/ AppHash(Oldest) # proof.root /\ End("outOfRange", 0)
  /\ UNCHANGED <<world, value, proof, height, latest, floor, votes>>

\* No endpoint serves the header, or not before the timeout.
NoHeader ==
  \/ phase = "next" /\ height + 1 \notin held
  \/ phase = "latest" /\ latest \notin held
  \/ phase = "oldest" /\ Oldest \notin held

GiveUp ==
  /\ NoHeader
  /\ Fail("noHeader")

ReadsNext ==
  \/ Produce \/ Prune
  \/ \E e \in Honest : Advance(e) \/ Sync(e)
  \/ GetValue \/ GetProof \/ FindLatest \/ FindNoLatest
  \/ CheckNext \/ CheckLatest \/ CheckOldest \/ GiveUp

ReadsSpec == ReadsInit /\ [][ReadsNext]_vars
-----------------------------------------------------------------------------
(* Properties *)

\* Most of the endpoints that answered, and enough of them, were honest.
Majority == votes.honest > votes.others /\ votes.honest >= Needed

\* A value that is returned is the chain's, in the state that the header at the
\* height returned with it commits to (data.rs, get_verified), whatever the API
\* served.
AcceptedIsChains ==
  phase = "accepted" =>
    /\ result - 1 \in 0 .. tip
    /\ chain[result - 1].root = proof.root
    /\ chain[result - 1].value = value

\* And no staler than the lag allows: when honest endpoints decided the latest
\* height, the state was the chain's at most MaxLag blocks before the block that
\* all of them had reached by then (verify_root_after).
AcceptedIsRecent ==
  phase = "accepted" /\ Majority => result - 1 + MaxLag >= floor

\* What an honest API serves: a state, with the last block that changed it.
Genuine ==
  \E b \in 0 .. tip :
    /\ height <= b
    /\ proof = chain[b] /\ chain[height] = chain[b]
    /\ height = 0 \/ chain[height - 1] # chain[height]

\* A root is never called false of a state of the chain that was served with its
\* height (verify_root_after). That the value and its proof disagree is another
\* failure, one that an honest API meets when the value changes between the two.
MismatchIsFalse == phase = "mismatch" => ~Genuine

\* A state is refused for its age only if it was not the chain's after any block
\* within the lag of the latest height found, however it was served; and
\* verify_root_after looks at only two of the headers there.
StaleIsStale ==
  phase = "outOfRange" =>
    \/ height > latest + MaxLag
    \/ \A b \in Larger(latest - MaxLag, 0) .. latest - 1 : chain[b].root # proof.root

\* The latest height is one the chain has reached, and no less than what all honest
\* endpoints have, if most that answered are honest (latest_chain_height).
LatestIsReached == Majority => floor <= latest /\ latest <= tip

\* An endpoint reporting a height far above or below the others' moves the latest
\* height only with a majority (the doc comment of latest_chain_height).
OnlyMajoritiesMove ==
  votes.others <= votes.honest /\ votes.honest >= Larger(Needed, 1) =>
    floor <= latest /\ latest <= tip
=============================================================================
