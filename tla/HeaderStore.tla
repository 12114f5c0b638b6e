----------------------------- MODULE HeaderStore -----------------------------
(***************************************************************************)
(* The light client's header store (src/light_client.rs) and the client's  *)
(* creation of it (src/client.rs, get_or_create_light_client): tasks sync, *)
(* read the latest root, prune, save and restore one store behind a lock,  *)
(* and every await between two uses of the lock lets the others in.        *)
(*                                                                         *)
(* Headers are trusted as the endpoints serve them (the module notes): an  *)
(* answer is any block of Block, asked for or not.                         *)
(***************************************************************************)
EXTENDS Integers, FiniteSets, Sequences, SequencesExt

CONSTANTS
  Task,        \* tasks that share the client
  Block,       \* the blocks an endpoint may answer
  Checkpoint,  \* those a caller trusts
  Unreadable,  \* the block parsed from an answer without the fields looked for
  Height,      \* bound: the heights of blocks
  Numerator,   \* trust_threshold
  Denominator,
  Period,      \* trusting_period
  Drift,       \* max_clock_drift
  MaxTime,     \* bound: the last instant of the clock
  MaxUses      \* bound: the operations begun

\* A vote of a commit: a signature that verifies, one that does not, one of a
\* validator outside the set (or with a key that cannot be read).
Vote == [power : Nat, kind : {"valid", "wrong", "unknown"}]

\* What parse_light_block() makes of an answer.
BlockFields ==
  [ ours : BOOLEAN,            \* the chain id is the configured one
    height : Height \cup {0},
    time : Int,
    validators : Nat,        \* validators_hash
    nextValidators : Nat,    \* next_validators_hash
    votes : Seq(Vote),
    total : Nat ]            \* the voting power of the validators served with it

\* LightClient::new() refuses a Numerator above the Denominator; a Denominator of 0,
\* which it does not refuse, would make div_ceil panic.
ASSUME HeaderAssumption ==
  /\ Height \subseteq Nat \ {0}
  /\ Block \subseteq BlockFields
  /\ Checkpoint \subseteq { b \in Block : b.ours /\ b.height > 0 }
  /\ Unreadable \in Block /\ Unreadable.height = 0
  /\ Numerator \in Nat /\ Denominator \in Nat \ {0} /\ Numerator <= Denominator
  /\ Period \in Nat /\ Drift \in Nat /\ MaxTime \in Nat /\ MaxUses \in Nat

VARIABLES
  store,    \* the headers held, by height
  now,      \* the wall clock
  cell,     \* the client's light client: "empty", "busy" (one task creates it), "full"
  task,     \* what each task is doing
  uses,     \* the operations begun
  auto,     \* history: the light client is created on first use, not configured
  ever,     \* history: the blocks ever stored
  sight,    \* history: those trusted on sight
  emptied   \* history: the store lost its last header

vars == <<store, now, cell, task, uses, auto, ever, sight, emptied>>
history == <<auto, ever, sight, emptied>>

\* "disorder" is a failure on the order of heights.
Ended == {"idle", "ok", "failed", "disorder"}
Pc == Ended \cup {"wait", "latest", "compare", "fetch", "verify", "store", "check", "trust", "read"}

TaskFields ==
  [ op : {"none", "create", "sync", "root"},
    pc : Pc,
    goal : Height \cup {0},           \* target_height
    next : Nat,                       \* the height the sync is at
    block : Block,                    \* the last answer
    alone : BOOLEAN,                  \* history: no other task changed the store meanwhile
    asAsked : BOOLEAN ]               \* history: every answer was of the height asked

Idle == [ op |-> "none", pc |-> "idle", goal |-> 0, next |-> 0, block |-> Unreadable,
          alone |-> TRUE, asAsked |-> TRUE ]

Held == { store[h] : h \in DOMAIN store }

HeaderTypeOK ==
  /\ DOMAIN store \subseteq Height \cup {0}
  /\ store \in [DOMAIN store -> Block]
  /\ \A h \in DOMAIN store : store[h].height = h
  /\ now \in 0 .. MaxTime
  /\ cell \in {"empty", "busy", "full"}
  /\ task \in [Task -> TaskFields]
  /\ uses \in 0 .. MaxUses
  /\ auto \in BOOLEAN /\ emptied \in BOOLEAN
  /\ ever \in SUBSET Block /\ sight \in SUBSET ever

HeaderInit ==
  /\ store = [h \in {} |-> Unreadable]
  /\ now = 0
  /\ auto \in BOOLEAN
  /\ cell = IF auto THEN "empty" ELSE "full"
  /\ task = [t \in Task |-> Idle]
  /\ uses = 0
  /\ ever = {} /\ sight = {}
  /\ emptied = FALSE

-----------------------------------------------------------------------------
(* The checks of a header *)

SignedPower(b) ==
  FoldSeq(LAMBDA v, sum : sum + IF v.kind = "valid" THEN v.power ELSE 0, 0, b.votes)

\* div_ceil. (The product is of 64 bits in the code, which powers that a chain has
\* do not come near.)
ThresholdPower(b) == (b.total * Numerator + Denominator - 1) \div Denominator

\* What a header verified against another has in common with it, for ever.
Extends(p, b) ==
  /\ b.ours
  /\ b.height = p.height + 1
  /\ b.time > p.time
  /\ b.validators = p.nextValidators
  /\ SignedPower(b) >= ThresholdPower(b)

\* Mutated form: any later height will do.
MutChecks(p, b) ==
  [ chain |-> b.ours, height |-> b.height > p.height, time |-> b.time > p.time,
    validators |-> b.validators = p.nextValidators,
    power |-> SignedPower(b) >= ThresholdPower(b) ]

\* verify_header(): pure checks, of which the code reports the first that fails.
Checks(p, b) ==
  [ chain      |-> b.ours,
    height     |-> b.height = p.height + 1,
    time       |-> b.time > p.time,
    period     |-> now - b.time <= Period,
    drift      |-> b.time <= now + Drift,
    validators |-> b.validators = p.nextValidators,
    commit     |-> \A i \in DOMAIN b.votes : b.votes[i].kind # "unknown",
    power      |-> SignedPower(b) >= ThresholdPower(b) ]

Faults(p, b) == { c \in DOMAIN Checks(p, b) : ~Checks(p, b)[c] }

-----------------------------------------------------------------------------
(* Steps the operations are built from *)

Insert(s, b) == [h \in DOMAIN s \cup {b.height} |-> IF h = b.height THEN b ELSE s[h]]

\* get_latest_header()
IsLatest(b) == /\ b \in Held
               /\ \A h \in DOMAIN store : h <= b.height

\* The height a sync starts from: that of the latest header, 0 without one.
IsCurrent(h) ==
  \/ DOMAIN store = {} /\ h = 0
  \/ \E b \in Held : IsLatest(b) /\ h = b.height

\* What an operation leaves: the properties ask no more than the outcome of a
\* sync that had the store to itself and the answers it asked for.
Ending(r, pc) ==
  IF r.op = "sync" /\ r.alone /\ r.asAsked
  THEN [r EXCEPT !.pc = pc, !.block = Unreadable, !.next = 0]
  ELSE Idle

\* The store changes under a task that is not the one changing it.
Disturbed(r) == IF r.pc \in Ended THEN Idle ELSE [r EXCEPT !.alone = FALSE]

\* A step of task t to r, during which the store becomes s.
StepTo(t, r, s) ==
  /\ store' = s
  /\ task' = [u \in Task |->
       IF u = t THEN r ELSE IF s = store THEN task[u] ELSE Disturbed(task[u])]

\* A step of none of them.
Disturb(s) ==
  /\ store' = s
  /\ task' = [u \in Task |-> IF s = store THEN task[u] ELSE Disturbed(task[u])]

Quietly(t, r) == StepTo(t, r, store)
Goto(t, pc) == Quietly(t, [task[t] EXCEPT !.pc = pc])
End(t, pc) == Quietly(t, Ending(task[t], pc))

Counted == uses < MaxUses /\ uses' = uses + 1

Start(t, op, pc) ==
  /\ task[t].pc \in Ended
  /\ Counted
  /\ Quietly(t, [Idle EXCEPT !.op = op, !.pc = pc])

\* An answer to the request of height h, 0 for the latest: any block, from the
\* first endpoint that answers, or no endpoint answers.
Fetch(t, pc, h) ==
  \/ \E b \in Block :
       Quietly(t, [task[t] EXCEPT !.pc = pc, !.block = b,
                   !.asAsked = @ /\ (h = 0 \/ b.height = h)])
  \/ End(t, "failed")

At(t, pc) == task[t].pc = pc

-----------------------------------------------------------------------------
(* Creating the client's light client (OnceCell::get_or_try_init) *)

\* A task that does not find a light client there ...
AskFor(t) ==
  /\ auto
  /\ cell # "full"
  /\ Start(t, "create", "wait")
  /\ UNCHANGED <<now, cell, history>>

\* Mutated form: each task creates it for itself.
MutBeginCreate(t) ==
  /\ At(t, "wait")
  /\ \/ cell = "full" /\ End(t, "ok") /\ UNCHANGED cell
     \/ cell # "full" /\ Goto(t, "latest") /\ cell' = "busy"
  /\ UNCHANGED <<uses, now, history>>

\* ... waits for its turn to create it, which may come with it there.
BeginCreate(t) ==
  /\ At(t, "wait") /\ cell # "busy"
  /\ \/ cell = "full" /\ End(t, "ok") /\ UNCHANGED cell
     \/ cell = "empty" /\ Goto(t, "latest") /\ cell' = "busy"
  /\ UNCHANGED <<uses, now, history>>

\* Mutated form: the turn is not given up.
MutAfterFailure(t) == cell

\* A creation that fails leaves nothing behind, and the turn to the next task.
AfterFailure(t) == IF task[t].op = "create" THEN "empty" ELSE cell

\* initialize_with_trust_on_first_use() asks for the latest block, ...
FetchTrusted(t) ==
  /\ At(t, "latest") /\ task[t].op \in {"create", "root"}
  /\ Fetch(t, "trust", 0)
  /\ cell' = IF task'[t].pc \in Ended THEN AfterFailure(t) ELSE cell
  /\ UNCHANGED <<uses, now, history>>

\* ... and stores it, whatever its chain id; a created client is seen from then on.
TrustOnFirstUse(t) ==
  /\ At(t, "trust") /\ task[t].op \in {"create", "root"}
  /\ StepTo(t, IF task[t].op = "create" THEN Ending(task[t], "ok")
                                      ELSE [task[t] EXCEPT !.pc = "read"],
            Insert(store, task[t].block))
  /\ cell' = "full"
  /\ ever' = ever \cup {task[t].block}
  /\ sight' = sight \cup {task[t].block}
  /\ UNCHANGED <<uses, now, auto, emptied>>

-----------------------------------------------------------------------------
(* sync_to_latest() *)

BeginSync(t) ==
  /\ cell = "full"
  /\ Start(t, "sync", "latest")
  /\ UNCHANGED <<now, cell, history>>

FetchLatest(t) ==
  /\ At(t, "latest") /\ task[t].op = "sync"
  /\ Fetch(t, "compare", 0)
  /\ UNCHANGED <<uses, now, cell, history>>

\* Mutated form: from the header held.
MutFirstMissing(h) == h

\* The first of the heights current_height + 1 ..= target_height.
FirstMissing(h) == h + 1

\* The store is read once, to find where the sync starts from. Without a header
\* (or with one of height 0) the latest block is trusted, if of the chain.
Compare(t) ==
  /\ At(t, "compare")
  /\ LET goal == task[t].block.height
         begun == [task[t] EXCEPT !.goal = goal]
     IN \E h \in Height \cup {0} :
          /\ IsCurrent(h)
          /\ \/ h >= goal /\ Quietly(t, Ending(begun, "ok"))
             \/ /\ h = 0 /\ h < goal
                /\ IF task[t].block.ours
                   THEN Quietly(t, [begun EXCEPT !.pc = "trust"])
                   ELSE End(t, "failed")
             \/ /\ 0 < h /\ h < goal
                /\ Quietly(t, [begun EXCEPT !.pc = "fetch", !.next = FirstMissing(h)])
  /\ UNCHANGED <<uses, now, cell, history>>

TrustLatest(t) ==
  /\ At(t, "trust") /\ task[t].op = "sync"
  /\ StepTo(t, Ending(task[t], "ok"), Insert(store, task[t].block))
  /\ ever' = ever \cup {task[t].block}
  /\ sight' = sight \cup {task[t].block}
  /\ UNCHANGED <<uses, now, cell, auto, emptied>>

FetchNext(t) ==
  /\ At(t, "fetch")
  /\ Fetch(t, "verify", task[t].next)
  /\ UNCHANGED <<uses, now, cell, history>>

\* verify_and_store_header() reads the latest header and checks the new one
\* against it, ...
Verify(t) ==
  /\ At(t, "verify")
  /\ \/ Held = {} /\ End(t, "failed")
     \/ \E p \in Held :
          /\ IsLatest(p)
          /\ LET faults == Faults(p, task[t].block)
             IN \/ faults = {} /\ Goto(t, "store")
                \/ /\ faults # {}
                   /\ End(t, IF "height" \in faults THEN "disorder" ELSE "failed")
  /\ UNCHANGED <<uses, now, cell, history>>

\* ... and takes the lock again to store it.
Store(t) ==
  /\ At(t, "store")
  /\ StepTo(t, IF task[t].next < task[t].goal
               THEN [task[t] EXCEPT !.pc = "fetch", !.next = @ + 1]
               ELSE Ending(task[t], "ok"),
            Insert(store, task[t].block))
  /\ ever' = ever \cup {task[t].block}
  /\ UNCHANGED <<uses, now, cell, auto, sight, emptied>>

-----------------------------------------------------------------------------
(* get_verified_root_hash() *)

BeginRoot(t) ==
  /\ cell = "full"
  /\ Start(t, "root", "check")
  /\ UNCHANGED <<now, cell, history>>

CheckEmpty(t) ==
  /\ At(t, "check")
  /\ Goto(t, IF DOMAIN store = {} THEN "latest" ELSE "read")
  /\ UNCHANGED <<uses, now, cell, history>>

ReadRoot(t) ==
  /\ At(t, "read")
  /\ End(t, IF Held = {} THEN "failed" ELSE "ok")
  /\ UNCHANGED <<uses, now, cell, history>>

-----------------------------------------------------------------------------
(* The other uses of the store *)

\* initialize_with_trusted_header(), at any time, although its doc asks for it
\* before other headers are verified.
Pin(b) ==
  /\ cell = "full"
  /\ Counted
  /\ Disturb(Insert(store, b))
  /\ ever' = ever \cup {b}
  /\ UNCHANGED <<now, cell, auto, sight, emptied>>

\* prune_old_headers(): a header as old as the trusting period goes, although
\* verify_header() would still take it.
Retained == { h \in DOMAIN store : now - store[h].time < Period }

PruneOld ==
  /\ Retained # DOMAIN store
  /\ Disturb([h \in Retained |-> store[h]])
  /\ emptied' = (emptied \/ Retained = {})
  /\ UNCHANGED <<uses, now, cell, auto, ever, sight>>

\* import_trusted_state() of a state this client exported: blocks it held, one
\* for each height. (Not every such set was ever held at one time.)
Exported(S) == S # {} /\ \A a, b \in S : a.height = b.height => a = b

Restored(s, S) ==
  [h \in DOMAIN s \cup { b.height : b \in S } |->
     IF \E b \in S : b.height = h THEN CHOOSE b \in S : b.height = h ELSE s[h]]

\* It goes into whatever the store holds, over what is there.
Import ==
  /\ cell = "full"
  /\ Counted
  /\ \E S \in SUBSET ever : Exported(S) /\ Disturb(Restored(store, S))
  /\ UNCHANGED <<now, cell, history>>

\* The process ends, whatever its tasks were doing, and starts again.
Restart ==
  /\ DOMAIN store # {}
  /\ store' = [h \in {} |-> Unreadable]
  /\ cell' = IF auto THEN "empty" ELSE "full"
  /\ task' = [t \in Task |-> Idle]
  /\ emptied' = TRUE
  /\ UNCHANGED <<uses, now, auto, ever, sight>>

Tick ==
  /\ now < MaxTime
  /\ now' = now + 1
  /\ UNCHANGED <<uses, store, cell, task, history>>

-----------------------------------------------------------------------------

\* The steps a task takes by itself once it has begun: every request of an
\* endpoint ends, with an answer or at its timeout.
Continue(t) ==
  \/ BeginCreate(t) \/ FetchTrusted(t) \/ TrustOnFirstUse(t)
  \/ FetchLatest(t) \/ Compare(t) \/ TrustLatest(t)
  \/ FetchNext(t) \/ Verify(t) \/ Store(t)
  \/ CheckEmpty(t) \/ ReadRoot(t)

HeaderNext ==
  \/ \E t \in Task : AskFor(t) \/ BeginSync(t) \/ BeginRoot(t) \/ Continue(t)
  \/ \E b \in Checkpoint : Pin(b)
  \/ PruneOld \/ Import \/ Restart \/ Tick

\* The tasks waiting to create the client are served in turn (the OnceCell's
\* semaphore is first in, first out), so none is passed over for ever.
HeaderSpec ==
  /\ HeaderInit /\ [][HeaderNext]_vars
  /\ \A t \in Task : WF_vars(Continue(t)) /\ SF_vars(BeginCreate(t))

-----------------------------------------------------------------------------
(* Properties *)

\* A header comes into the store in one of two ways, however the syncs, prunes,
\* pins, imports and restarts interleave: a caller or the first use of an endpoint
\* trusted it, or it was verified against a header that was itself in the store,
\* one height below it (verify_and_store_header).
LinkedToTrust ==
  /\ Held \subseteq ever
  /\ \A b \in ever : \/ b \in sight \cup Checkpoint
                     \/ \E p \in ever : Extends(p, b)

\* A light client created on first use trusts one header on sight, whichever
\* tasks ask for it at once, as long as that header has a height, and the store
\* does not lose its last header (when the next use trusts what it is served).
OneTrust ==
  auto /\ ~emptied /\ (\A b \in sight : b.height > 0) =>
    \A a, b \in sight : a = b

\* A sync that no other use of the store interleaves with, and whose answers are
\* of the heights it asked for, never meets a height out of order, and if it
\* succeeds the store has reached the height it set out for. (An answer without a
\* block sets out for height 0: the sync of an empty store then succeeds, with
\* the store still empty.)
AloneInOrder ==
  \A t \in Task : task[t].op = "sync" /\ task[t].alone /\ task[t].asAsked =>
    /\ ~At(t, "disorder")
    /\ At(t, "ok") /\ task[t].goal > 0 => \E h \in DOMAIN store : h >= task[t].goal

\* Every operation ends: none waits for ever for another to create the client.
EveryUseEnds == \A t \in Task : ~(task[t].pc \in Ended) ~> (task[t].pc \in Ended)
=============================================================================
