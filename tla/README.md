# Verification of willow-sdk-rust

TLA+ models of the Willow Rust SDK, the TLC runs that check them on small
instances, and TLAPS proofs of the properties that matter most for every
instance. Paths below are relative to the repository; `nonces.rs:184` stands for
line 184 of `src/nonces.rs`.

## 1. The system

The SDK is a client library. It talks to an untrusted network of indexers (HTTP
and WebSocket) and to a CometBFT chain (JSON-RPC), signs writes with the key of a
DID, and checks what it reads against proofs and the headers of the consensus
nodes its caller configured.

| Component | State it keeps | Operations | Interacts with |
|---|---|---|---|
| Nonce tracker (`nonces.rs`) | per DID: the highest base seen, the used nonces above it, the time each handed out nonce was stamped; one mutex over all DIDs | `take`, `hold`, `settle`, `release`, `is_held`, each of which first refreshes the account | called by write submission |
| Write submission (`consensus.rs`, with `registration.rs`, `token.rs`, `privacy.rs` as callers) | the tracker; an HTTP client with a 30 s timeout | ask the chain for the account's nonces, take one, build, sign, submit, rebroadcast, wait for the block | tracker, node, caller |
| Light client (`light_client.rs`, created by `client.rs`) | trusted headers by height, under a read-write lock; the client's `OnceCell` for it | create on first use, initialise (trusted header, on first use), sync, verify and store, verified root after a height, prune, export and import | CometBFT endpoints, verified reads |
| Verified reads (`data.rs`, `proof.rs`, `completeness.rs`) | none | read a value and its proof, check the proof against a verified root, check that a page of results is complete | light client, envelope |
| Proof envelope (`grovedb_envelope.rs`) | none; a bounded scan and a stack machine | scan the layers, check the operations, verify an item at a path | verified reads |
| Verifiable RPC (`verifiable_rpc.rs`) | the last state root seen and its block | query, check continuity, record the root | indexers |
| Subscriptions (`subscriptions.rs`) | per subscription: a task, a socket, a cancel channel, a payload channel of 64, the attempts so far, the indexer in use | subscribe, pump, reconnect with backoff, fail over, cancel, drop | indexer discovery |
| Indexer discovery (`indexers.rs`, `indexing.rs`) | a shared list with a 30 s life | list, select for a subgrove, evict | subscriptions, requests |
| File storage (`files.rs`) | none | upload (manifest transaction, wait, chunks one by one), download and verify | write submission, indexers |
| API requests (`client.rs`, `http_body.rs`, `indexing.rs`, `erc8004.rs`) | the identity, shared by a client's clones | sign, send, retry with backoff, cap what an answer costs | everything over HTTP |
| DID rotation (`did_rotation.rs`, `examples/rotate_did.rs`) | the new key's file on disk | write the key, check the document, broadcast, wait, confirm | write submission, the chain |
| Signing and transactions (`auth.rs`, `signed_messages.rs`, `types.rs`, ...) | none | check the texts of a message, build and sign it | write submission, API requests |
| State queries (`eth_state.rs`) | none | ask for state with its proofs, check that they are of what was asked, walk them, decode a slot | API requests |

### What is hard, and what makes each part correct

- **Nonce tracker and writes.** Any number of writes run at once on one client.
  Each reads the chain (an `await`), takes a nonce (a mutex, no `await`), and
  holds it over requests that can be lost, answered late or delivered after
  their timeout. Answers arrive out of order and from lagging nodes. Correct
  means: two writes do not use one nonce; a nonce is believed used only when it
  is (otherwise the chain's base could never pass it); nothing learnt is
  forgotten; a nonce is never lost by an error path; a full window is reported
  only when it is full, and frees itself; a write runs at most once however often
  it is sent again; and an error that says "this did not happen" is true.
- **Light client.** Reads, verification and storage of a header are separate
  critical sections, and concurrent syncs interleave. The endpoints' headers are
  trusted on first use. Correct means: every later header stored descends from
  one trusted first, and a root used for a height is that height's.
- **Verified reads.** The value and its proof are two requests to a moving chain,
  the header that commits to the proof's state is one block later still. Correct
  means: what is returned was in the state of a verified header.
- **Verifiable RPC.** Continuity is checked under a read lock, and the root is
  recorded under a later write lock. Correct means: no answer is behind, or beside,
  one returned before it was asked for, and a refusal is never a false alarm.
- **Subscriptions and discovery.** Cancellation, abort, a bounded channel, a
  reconnect and the shared indexer cache interleave. Correct means: nothing is
  delivered after the end, the server is told `complete`, the task ends when its
  handle is dropped, a failing indexer is not chosen for ever.
- **Files and rotation.** Several remote steps, each of which may fail, by a tool
  that may be stopped between any two. Correct means: a key that controls the DID
  is always on disk; what the tool reports of the key is so; a file that is
  reported stored has its manifest on chain and its chunks on a node.
- **Proof envelopes and answers.** A server sends any bytes, any operations, any
  JSON. Correct means: a bounds check passes exactly what the decoder behind it can
  read within the limits; an item that is accepted is the chain's; a state read
  answers what was asked; the cost that is counted is the cost of decoding.
- **Requests and signing.** A retry must not look like a replay, and a signature
  must not be good for another message than the one it was given for.

`PROJECT.json` lists each of these hazards at its line, and which property
covers it.

## 2. The modules

Dependencies (an arrow reads "is extended by", unless it says otherwise):

    NonceTracker -> NonceLeases -> Submission  (implements WritePromise)
    VerifiableRpc      VerifiedReads      HeaderStore

    Indexers -> Subscriptions, QueryRoute -> Discovery
    Ledger   -> Rotation, FileStorage     -> Operations

    Requests   JsonBudget -> JsonGrammar |
    ItemProof  EthState     EnvelopeScan |-> Answers
    Completeness            Signing      |
    EnvelopeScan -> EnvelopeGrammar  (the decoder; JsonGrammar is the other one's)

A module `X_proofs` extends `X` and holds the theorems about it: `NonceLeases` (with the
lemmas about `NonceTracker`), `Submission`, `VerifiableRpc`, `VerifiedReads`,
`HeaderStore`, `Discovery`, `Operations` and `Answers` have one. A module `MCX` extends
`X` for TLC: it adds a symmetry set and, where a constant is a structure, its value (the
blocks of `HeaderStore`, the scores of `Discovery`, the inputs of `Answers`).

`Discovery`, `Operations` and `Answers` compose. In the first two the parts share
state and disturb each other: a query evicts an indexer from the list a
subscription is about to choose from; a rotation retires the key an upload was
signed with. The parts of `Answers` share none, so its next-state relation lets
one of them run in each behaviour.

### NonceTracker: `nonces.rs`

One DID's `AccountNonceState` and stamps as the record `account`. The tracker's
map gives each DID an entry of its own behind one mutex, and no method touches
two, so one entry is modelled.

| Code | Model |
|---|---|
| `Account { base, used, handed_out }` (124) | `account.base`, `.used`, `.handed`; `Absent` is "no stamp" |
| `used_nonces` (72) | `UsedNonces` |
| `refresh` (168): merge the answer, drop what the base passed, the stamps of used nonces, lapsed holds | `Merge`, `Prune` |
| `take` (184) | `Take`, or `TakeFull` for `NonceWindowFull` |
| `hold` (206), `settle` (217), `release` (236), `is_held` (243) | `HoldNonce`, `Settle`, `Release`, `IsHeld` |
| `Instant::now()` before `lock()` | the `lag` parameter of each method |

Time is kept as *ages*. `handed[n]` counts the ticks since the stamp and stops
at `Cap`, where every reading sees the hold lapsed. A method whose clock reading
is `lag` ticks old stamps with age `lag` and sees other stamps `lag` ticks
younger than they are (`Instant::saturating_duration_since` never goes below
zero). This keeps the state space finite without a bound on time itself.

Parsing the node's 8-byte state (`from_bytes`) and its refusal logs
(`refusal_outcome`) is replaced by the values they yield: an answer is a base
with a set of bits, an outcome is one of five.

### NonceLeases: the write paths of `consensus.rs` over the tracker

One client's writes, each a small state machine `idle -> asked -> leased ->
flying -> outcome`, and a chain that spends nonces in any order within its
window. The node's replies are open, except that it calls a nonce used only when
it is.

| Code | Action |
|---|---|
| `account_nonce_state` (175), `base_nonce` (191): any answer the chain ever gave, or its base alone when the ABCI query fails | `Ask` |
| `get_next_nonce` (166) after its await | `TakeNonce`, `WindowFull` |
| `submit_with_nonce` (595) releases on a failed build | `BuildFails` |
| `submit_under` / `send_signed` (622, 659) | `Send` |
| `submit_with_given_nonce` (612) holds first | `SendGiven`, `BringNonce` |
| `rebroadcast` (651) | `Rebroadcast` |
| `send_signed` settling on the outcome | `Answered` |
| `NotAdmitted` and connection errors, in a first attempt and in a rebroadcast | `NotSent`, `NotResent` |
| `is_held` from a read of the account | `Query` |
| the chain | `ChainSpends` |
| the clock | `Tick` |

`answers` remembers every answer the chain could have given, so an `Ask` may
read one arbitrarily old: that is a lagging or a replayed node. `since[w]` is a
history of when `w` stamped the nonce it claims; the properties compare it
with the tracker's stamps. `reclaimed` is one of the nonces sent under again after
they were given back.

A caller may rebroadcast as soon as it has the bytes, which an unknown outcome hands
it (`HasBytes`), and as often as it likes, whatever a later call answered: when a
rebroadcast is refused with the nonce free, and when it is accepted. One call of a
write is under way at a time.

### Submission: the requests and the node

Each attempt is an HTTP call that is delivered and answered, delivered with its
answer lost, lost, or delivered after its timeout (a *stray* copy). The node has
a mempool and the mempool's cache of seen transactions. It is external code: it
is modelled from the replies `send_bytes` (733) and `refused` (701) tell apart.
A replayed transaction is refused by nonce only while it is spent or held, so
"at most once" is a property of the bytes being the same in each attempt, which
is what `rebroadcast` relies on.

Each client step is a step of `NonceLeases` conjoined with what happens to the
call, so what is proved of leases holds of submissions too.

### WritePromise: what a caller is promised

The abstract specification: a write runs at most once; it runs only if the node
admitted it; `accepted` is said only of an admitted write; and once the caller
hears an error that is final, the write never runs. `Submission` implements it
under the mapping `ToldOf`, which reads a caller's knowledge off the last result:
the errors of a *first* attempt other than `SubmissionUnknown` are final, those of
a rebroadcast are not, because the earlier attempt may still land.

### VerifiableRpc: `verifiable_rpc.rs`

Tasks that share a client query one subgrove (its cache entry is independent of
the others'). Each step of `query` (116) that touches shared state is an action:
`ReadMode` (119), `CheckContinuity` (124), `Record` (155); `Reply` is any response
at all, for indexers are not trusted. A response is a claim (a root at a block)
and the proofs of it that hold. `ClearRootCache` and `SetVerifyMode` may come
between any two steps. `returned` and `before` are history: what was answered
since the cache was last cleared, and what of it a query could know when asked.

### VerifiedReads: `data.rs`, `get_verified`, with `light_client.rs`, `verify_root_after`

One read, while the chain produces blocks, endpoints catch up, and other calls on
the client sync the header store and prune it. The header at height `h` carries
the root of the state after block `h - 1`; a root is a number that stands for one
state, and does not recur once the chain has left it.

| Code | Action or operator |
|---|---|
| `GET /data` (`data.rs:138`): any value | `GetValue` |
| `GET /proof` and its check (`data.rs:157`): a proof of any state of the chain, or of none, at any height | `GetProof` |
| `latest_chain_height` (961): the endpoints that answer, the quorum, the k-th highest, no lower than the store | `FindLatest`, `FindNoLatest`, `Quorum`, `ReachedByQuorum`, `HighestHeld` |
| `verify_root_after` (1019): the header after the proof's block | `CheckNext` |
| the two headers within the lag (1049) | `CheckLatest`, `CheckOldest`, `Oldest` |
| `app_hash_after`, `app_hash_at` (911, 942): from the store, else from an endpoint that has the header, else a timeout | `Available`, `GiveUp` |
| `sync_to_latest` (450), `prune_old_headers` (1159), as a read sees them | `Sync`, `Prune` |

`Endpoint \ Honest` may report any height. Every header an endpoint serves is the
chain's: the module notes of `light_client.rs` trust endpoints that far; how
headers are verified and stored is `HeaderStore`'s subject.
`floor` and `votes` are history: how far every honest endpoint was, and how many
of each kind answered, when the latest height was found.

### HeaderStore: `light_client.rs`, and its creation in `client.rs`

Tasks that share one store behind a lock which no `await` is made under. An answer
to a request is any block of `Block`, asked for or not, or none; `Unreadable` is
what the parser makes of an answer without a block (a JSON-RPC error): a header
of height 0 and another chain.

| Code | Action or operator |
|---|---|
| `get_or_create_light_client` (`client.rs:358`), an `OnceCell` whose creation awaits the network | `AskFor`, `BeginCreate`, `AfterFailure` |
| `initialize_with_trust_on_first_use` (492) | `FetchTrusted`, `TrustOnFirstUse` |
| `initialize_with_trusted_header` (413) | `Pin` |
| `sync_to_latest` (450) | `BeginSync`, `FetchLatest`, `Compare`, `TrustLatest`, `FetchNext` |
| `verify_and_store_header` (544): read lock, checks, write lock | `Verify`, `Store` |
| `verify_header` (560) and the votes of a commit (627) | `Checks`, `SignedPower`, `ThresholdPower` |
| `get_verified_root_hash` (524) | `BeginRoot`, `CheckEmpty`, `ReadRoot` |
| `prune_old_headers` (1159), `export_trusted_state` (1196), `import_trusted_state` (1225) | `PruneOld`, `Exported`, `Import` |
| the process ends and starts again; the clock | `Restart`, `Tick` |

`verify_header` reports the first check that fails; which one is first does not
matter, so `Checks` is a record of them and `Faults` the set that fails. `ever`,
`sight` and `emptied` are history: blocks ever stored, blocks trusted without a
check, and whether the store was emptied since.

### Indexers, QueryRoute, Subscriptions and Discovery

`Indexers` is the shared list of `indexers.rs` with its life, `QueryRoute` the
queries of `indexing.rs` over it, `Subscriptions` one subscription with its task,
its handle and the channel of payloads, `Discovery` the three at once.

| Code | Action or operator |
|---|---|
| `for_subgrove` (161): an override, the list held, or a fetch without the lock | `LookUp`, `ReadList`, `StoreList`, `FetchFails` |
| `select_for_subgrove` (209): by score | `Best` |
| `evict` (149), `invalidate` (142), the life of the list | `Evict`, `Invalidate`, `Age` |
| `route` (`indexing.rs:160`) and one candidate's request (301) | `Ask`, `LookedUp`, `Left`, `TryNext`, `PutsOut`, `CallValidator` |
| `subscribe` (221) | `Subscribe`, `Connected`, `NotConnected` |
| the task's loop (314): attempts, backoff | `Retry`, `AttemptsAfter`, `Awake` |
| `resolve_ws_url` (407): evict the indexer last connected to, look up, choose | `EvictLast`, `EvictedOne`, `LookUpNext`, `Resolved` |
| `pump_socket` (561) | `ServerNext`, `Deliver`, `Unblocked`, `Pinged`, `Complete`, `Disconnected`, `Cancelled`, `Written` |
| `recv`, `unsubscribe`, `Drop` (157 to 182) | `Recv`, `Unsubscribe`, `DropHandle`, `Aborted` |

A list past its life is modelled as none: no reader looks at it, and only an answer
replaces it. Frames that change nothing (junk, pongs, another
subscription's) are stutters; a ping is not, since the task waits until its answer is away.
`barren`, `stayed`, `listed` and `blamed` are history.

### Ledger, Rotation, FileStorage and Operations

`Ledger` is what the two operations see of the chain and of `consensus.rs`: a
document that authenticates a key by an id, nonces, a pool, and polls of a wait that learn
only what some node has. How a broadcast finds its nonce and is retried is
`Submission`'s subject; here it is accepted, refused or of unknown outcome.

| Code | Action or operator |
|---|---|
| `submit_with_nonce` (595), `get_next_nonce` (166) | `Broadcast`, `Free` |
| `wait_for_tx_outcome`, `parse_tx_outcome` (836 to 896) | `Outcomes`, `Rotation!Wait`, `WaitForManifest` |
| `get_did_document` (414), unproven | `DocumentsRead` |
| the tool's options and files (`rotate_did.rs:264`, `did_rotation.rs:154`): create, write, sync | `Start`, `CreateFile`, `WriteFile`, `SyncFile`, `Readable` |
| `check_current_document`, the new document, the nonce, the broadcast, the confirmation (`rotate_did.rs:130`) | `ReadDocument`, `TakeNonce`, `BroadcastUpdate`, `Confirm` |
| a tool or a machine that stops; the system writing a directory | `ToolStops`, `MachineStops` (what was not synced may be lost, and a file with its entry in the directory), `DirectoryWritten` |
| `upload` (`files.rs:67`) | `Upload`, `SubmitManifest`, `NotSubmitted`, `WaitForManifest`, `SendChunk`, `AfterChunk` |
| `download` (196), its manifest and checks (417, 457) | `ReadManifest`, `FetchChunk`, `Accepts` |
| `delete` (331) | `Delete` |

A document is reduced to the key it authenticates and the id the key goes by. A run of
the tool signs with any key that is on the disk or that the DID has had, under any id:
`MayRotate` compares ids, as the code does, and what a wrong key signs the chain
refuses. The storage node is external: it keeps chunks, may drop those of versions that
are not the file's any more, and serves anything.

### Answers: what the SDK makes of what it is served, and what it signs

| Module | Code | How |
|---|---|---|
| `Requests` | `request_with_retry` (`client.rs:605`), `make_request` (644), the readers of `erc8004.rs`, SQL and GraphQL queries | each attempt signed with the identity of the moment and, for gated reads, a fresh nonce; a server that restarts, takes each nonce once, answers or is lost |
| `JsonBudget` | `scan_units` (`http_body.rs:133`) | the scan byte by byte, one action per kind of byte |
| `JsonGrammar` | serde_json's decoder (external) | what a text is (`IsText`: its kind, its bytes, and of an array or an object the items and the gaps between them), and `Cost`, what decoding it makes: what the count must be |
| `EnvelopeScan` | `scan_envelope` (`grovedb_envelope.rs:144`) | the scan at a small byte width: a varint below `WideTag` or behind it, the three limits |
| `EnvelopeGrammar` | bincode's decoder (external) | the grammar the scan must agree with, as a function of the bytes it may read |
| `ItemProof` | `verify_item_at_path` (407), `check_ops` (324), the comparisons of `proof.rs` and `verifiable_rpc.rs` | a stack machine over nodes whose hashes are terms, fed by a prover that sends any operations |
| `EthState` | `get_state`, `get_call`, `verify_state_proof`, the readers of slots (`eth_state.rs`) | any response, the checks that it is of what was asked, the walks (alloy's, external) |
| `Completeness` | `canonical_event_set_hash` (`completeness.rs:74`), `verify_block_completeness` (191), `events_commitment` (`consensus.rs:221`) | the preimage as a sequence of cells, any logs served |
| `Signing` | the builders of `signed_messages.rs`, `auth.rs`, `privacy.rs`, `consensus.rs`, with `field()`, `validate_did` and their like | a message as a sequence of tokens, line breaks and colons among them; whoever carries a signature may put it on anything. Both forms of a request: the one with a nonce over all of it, and the older one over its method, path and time |

`EnvelopeScan`, `JsonBudget` and `ItemProof` are algorithms checked against a
reference definition over every input of a bounded set: `Decodable`, `Cost` and
`chain.holds`. The decoders they stand for are recursive, and are functions of the text
(`Made`) or of the number of bytes that may be read (`EnvelopeGrammar`), so that they can be
proved about; `MCAnswers` extends all of them. What may be asked, served and signed (`Texts`,
`Envelopes`, `Responses`, `Served`, `Cell`, `Token`, `Intent`) is a parameter of the modules, which
`MCAnswers` gives small values.

## 3. The runs

| Run | Asks | Bounds | States |
|---|---|---|---|
| `nonce_leases` | Do concurrent punctual writes keep apart, and does the tracker know neither too much nor too little? | 3 writes, window 2, hold 2, clock lag 1, 2 nonces spent of 3, 2 rebroadcasts of a write and 3 in all | 2.9 M |
| `nonce_live` | Is every caller that keeps asking served, even if holders never return? | 2 writes, window 1, hold 2, 2 nonces spent, 2 rebroadcasts, tardy writes, nonces brought by callers | 203 k |
| `nonce_late` | Are takes fresh if a write outlives its hold? (violated) | 3 writes, window 2, hold 2 | - |
| `submission` | Does the network keep the promise of `WritePromise`, and is a pending write's nonce kept? | 2 writes, window 1, hold 1, 2 rebroadcasts, any number of lost replies | 2.6 M |
| `rpc_sequential` | Do answers only advance, and are refusals justified, when queries do not overlap? | 2 tasks, 2 roots, blocks 0 to 2 | 34 k |
| `rpc_race` | Do answers only advance when queries overlap? (violated) | 2 tasks, 2 roots, blocks 0 to 2 | - |
| `reads` | Is a value that is returned the chain's and recent, and is a true proof ever refused for its root or its age? | 3 endpoints, 2 of them honest, lag 2, 4 blocks | 3.8 M |
| `reads_half` | Does it take a majority of the answers to move the latest height? (violated) | as `reads` | - |
| `headers` | Is what the store holds linked to what was trusted, is one header trusted on sight, is a sync left alone in order, and does every use end? | 2 tasks, 3 uses (pins and imports among them), 3 heights and 5 blocks, 2 instants, trusting period 1, drift 1, threshold 2/3 | 114 k |
| `discovery` | Does a subscription end only, and always, when it should, does it fail over, and is no indexer put out without cause? | 1 subscription, 1 query, 2 indexers and a configured one, 2 attempts, channel of 1, list's life 1 | 450 k |
| `operations` | Is a controlling key always on disk, and are the reports of the tool and of an upload so? | 3 keys, 2 ids, 2 runs of the tool and 3 uses by 2 clients, 3 of both together, 2 versions of 2 chunks, 2 nonces, 1 poll | 1.6 M |
| `answers` | Does each check of what is served, and of what is signed, decide what it is meant to, whatever comes? | as described below | 3.4 M |

The bounds are the constants in the `.cfg` files and are named in the modules:
`MaxSpent` (nonces spent), `MaxRetries` (rebroadcasts per write), `MaxResent` (and of
all writes), `MaxNonce` (`u64::MAX`) and `Cap` (ages). They are large enough for the
cases that matter. With three writes over a two-nonce window, one always meets a full
window. With a hold of two ticks, stamps are fresh, half old and lapsed; with a lag of
one, a reading older than the newest stamp occurs. Two nonces spent move the base by a
whole window, so an answer read at the start is below the base when it is merged. The
first rebroadcast gives two copies of a write, which is what a double execution needs;
the second is the one that may follow a refusal of the first; with three in all, another
write may be sent again beside those. What needs larger numbers is covered by the
proofs, which fix none of them.

`headers`: two tasks are what a race of check and store needs, three uses let two of
them race on the result of a third (or an import of what a first sync stored come
between the check and the store of a second), and the blocks are a chain of three, a
block at height 2 of other validators with too few signatures, and an answer without a
block; with a period of 1 and one tick, a header is fresh, or just old enough that
`prune` drops it and `verify` still takes it. `discovery`: two indexers of which the
better one leaves the list at times, so that failing over has somewhere to go and may
have nowhere; two attempts tell the last one from the first; a channel of one is full
after one payload. `operations`: two runs of the tool reach every point at which the
second finds the first's files and a pending update; three keys are the first and one
new for each run; with two ids a document read has the id that signs or has not,
whoever's key it is; one run beside two uses, or two beside one, is what the two parts
can do to each other; one poll is a wait that may end before the transaction does.
`answers`: two requests with two attempts and a change; every byte string up to six
bytes over four values and six longer envelopes with any one byte changed; 6283 texts of
JSON of up to three levels, with white space nowhere, after each colon or everywhere;
proofs of up to three nodes a layer, which is a tree with both of a node's sides taken;
one or two state proofs with up to two slots; up to two logs with topics and data over
the same two cells; and texts with line breaks, labels and colons in every field that
can hold them, registrations of both sorts, and older requests of two methods, three
paths, two queries, times and bodies. `Named`, the hashes a proof may name besides the
chain's and a forgery's, is empty in the run and any set in the proof.

Deadlock is not looked for in `headers`, `discovery`, `operations` and `answers`: uses
are bounded there, a subscription that ended is not begun again, and each check of
`Answers` is made once, so these really may stop.

**What the properties mean**

- `LeasesDistinct`, `TakesFresh`: two current claims never name one nonce, and no nonce
  is handed out that is currently claimed. The exception, in the formulas, is a nonce
  that a caller sent under again after it was given back (`reclaimed`): `rebroadcast`
  does not look whether another write took it meanwhile.
- `KnowledgeSound`, `KnowledgeKept`: the tracker neither invents nor forgets a
  used nonce, whatever order answers arrive in.
- `WithinWindow`: a nonce in a write's hands is one the node can accept.
- `NoLeak`: every stamp has an owner who stamped it that long ago, so every error
  path returns its nonce.
- `FullIsJustified`: `NonceWindowFull` is never said while a nonce is free.
- `Served`: a caller that keeps asking is eventually given a nonce.
- `PendingHeld`: while a write is pending and its hold current, the tracker keeps
  its nonce from others, a rebroadcast refused by a full mempool included.
- `KeepsPromise`: submissions implement `WritePromise`.

- `NeverBackward`: an answer follows every answer returned before it was asked for.
- `RefusalsJustified`: a continuity error means that an answer returned since the
  cache was cleared contradicts the response; one that failed its proofs leaves no
  trace.

**`nonce_late`, a divergence.** The README (`README.md:59`) says the tracker
hands out a nonce "that no write from this client took within the last 120 s",
so that concurrent writes take distinct nonces. `release` (`nonces.rs:236`) removes a
stamp by nonce, not by owner. A write `a` that stays between take and release
longer than the hold (a slow build, a suspended task) loses nonce `n` to a write
`b`; when `a` then fails and releases, `b`'s stamp goes, and a third write takes
`n` although `b` took it moments ago. The run shows this in a few steps. The
properties `LeasesDistinct` and `TakesFresh` therefore carry the condition
`Punctual`: requests time out after 30 s, and a hold lasts 120 s, so a write that
does not stall elsewhere is punctual.

**`rpc_race`, a divergence.** The module notes (`verifiable_rpc.rs:36`) say that a
later response of an earlier block, or of another root at the cached block, is
rejected. Two overlapping queries are both checked before either is recorded, and
`record_seen_root` does not look again, so the cache can move back, and a query
asked after both returned is answered with a block, or a root, that one of them
rules out. `rpc_sequential` shows that this needs the overlap: two tasks, one query
at a time, and the rule holds for any indexer, even when the cache is cleared and
the mode changed in mid-query. Two tasks show a race of two; three blocks give a
middle one, so that a root can be both behind one and ahead of another.

- `AcceptedIsChains`: the value returned is the one in the state that the header
  returned with it commits to, whatever the API served and however the chain moved
  between the value, the proof, the latest height and the headers.
- `AcceptedIsRecent`: that state was the chain's within the lag.
- `MismatchIsFalse`: a root is called false only if the proof is of no state of the chain
  at its height. It says nothing of the other `ProofVerificationFailed`, that the value
  and its proof disagree: an honest API meets it when the value changes between the two
  requests (section 5).
- `StaleIsStale`: a proof is refused for its age only if no header within the lag
  carries its root. `verify_root_after` looks at two of those headers; this says
  that two are enough.
- `LatestIsReached`: with an honest majority among the answers, the height found is
  between what all honest endpoints have and the tip.

Four blocks and a lag of 2 give a latest height of 4, a proof of the state after
block 1 or 2, and an oldest header within the lag (3) that differs from the latest
and from the one after the proof's block; three endpoints give quorums of one, two
and two. A lag of 0 (`max_proof_lag_blocks = 0`) is in the model, but not in the
run; the proofs cover it.

**`reads_half`, a divergence.** The comment of `latest_chain_height`
(`light_client.rs:959`) says that an endpoint reporting a wrong height moves the
result only with a majority. The quorum is `n / 2 + 1` answers from the top (979), so
of two answers the lower counts: one endpoint of two that reports a low height
pulls the latest height below what the other has. Half of an even number of
answers is enough to hold it back (never to push it up), so a proof may be accepted
that is older than the lag. `AcceptedIsRecent` and `LatestIsReached` therefore ask
for an honest majority of the answers.

- `LinkedToTrust`: a header in the store was trusted, by a caller or on first use, or
  verified against one that was in the store, one height below, however the three
  critical sections of `verify_and_store_header` interleave with other syncs, prunes,
  pins, imports and restarts, any of which may come between two of them.
- `OneTrust`: the light client created on first use trusts one header on sight,
  whoever asks for it at once; while headers have heights and the store keeps one.
- `AloneInOrder`: a sync that nothing interleaves with and that is given the heights it
  asks for meets none out of order and reaches the one it set out for.
- `EveryUseEnds`: no task waits for ever for another's creation of the client, one
  that failed included.

- `EndsJustified`: a subscription ends when it was cancelled, dropped or completed, or
  its connection was lost after exactly the maximum of attempts since a payload, or
  with no reconnection wanted.
- `EvictionsDeserved`: an indexer goes missing from a list that was answered only if it
  failed a query with a server error or lost a connection.
- `FailsOver`: while the list is good, the next attempt goes to another indexer.
- `CancelEnds`: a subscription that is cancelled or dropped ends, unless its caller
  keeps the handle and leaves the channel full, or its server does not read what is
  written to it.

- `NeverBricked`: the key that signs for the DID, and each key a pending update would
  give it to, is synced to disk. There are two exceptions, both in the formula: a key that a
  run took from a file an interrupted run had written and not synced, and one whose file
  was lost with its entry in the directory, which the tool does not sync.
- `RotationReportsTrue`: a rotation reported was executed; one reported refused, by a run
  that began with no update pending and with the key of the document, leaves the DID with
  that key.
- `ChunksFollowManifest`, `UploadedIsThere`: no chunk is sent before its manifest is on
  chain, and a file reported uploaded is wholly there while its manifest is.

- `RightsHonored`: retries never turn a permitted read into a denied one.
- `ScanIsDecoding`: the scan passes exactly the envelopes the decoder reads within the
  limits, neither more (a stack overflow) nor fewer (an honest proof refused).
- `ItemProved`: a value accepted under the trusted root is the chain's, whatever
  operations the prover sends.
- `StateProved`: a strict state read returns the asked slots' values in their order; a
  call shows only reads that are true at the root each names.
- `VerdictIsTrue`: a block called complete was served with exactly the chain's logs, and
  one called incomplete was not.
- `SignedIsMeant`: a signature fits no other transaction or request than the one it
  was made for. For four kinds whose texts are not checked, only the kind is certain, and
  the older form of a request is good for every request with its method, path and time,
  whatever the query and body, but for no read with rights and no transaction: see
  section 5.
- `CountIsCost`: the count of an answer's bytes is what decoding it costs.

**Fairness** (used by `nonce_live`, and by `nonce_late` and `rpc_race`, whose
counterexamples need none of it). Weak fairness of the clock, of
`TakeNonce \/ WindowFull` (no await lies between the two, the mutex is free again
after each method) and of the answer to a request (the HTTP client has a timeout,
so a call always ends). The chain's answer needs more: a node that only ever
gave outdated answers could keep a caller at a full window for ever, so
`AskUpToDate` is strongly fair: a caller that asks again and again is sometimes
answered by a node that has caught up. Nothing is assumed about a write being
landed or a holder releasing: holds lapse on their own.

`HeaderStore`: weak fairness of each step of a task that has begun (a request ends, with
an answer or at its timeout) and strong fairness of `BeginCreate`: the waiters of a
`OnceCell` are served first in, first out, so none is passed over for ever.
`Discovery`: weak fairness of the task's own steps and of its lookup (both the lookup and
the handshake have timeouts), and strong fairness of `Cancelled`: `select!` picks among
the branches that are ready at random, so a cancellation that is ready whenever the task
comes back to its `select!` is taken in the end, however busy the socket is. Nothing is
assumed of the server (not even that it reads), the caller, the chain or a query.

## 4. The proofs

All are checked by TLAPS for every number of writes, window, hold, lag, number of
retries and nonce bound permitted by the named assumptions `TrackerAssumption` and
`LeasesAssumption`, and likewise for `RpcAssumption`, `ReadsAssumption`,
`HeaderAssumption`, `IndexersAssumption` with `SubscriptionsAssumption`,
`QueryAssumption` and `DiscoveryAssumption`, and `LedgerAssumption` with
`RotationAssumption` and `FileAssumption`. Those of `Answers` say what kind of thing
each parameter is: `RequestAssumption` (an attempt at least is made), `StateAssumption`,
`ProofAssumption`, `BudgetAssumption` (its limits are numbers, and a number at least
costs a unit), `TextsAssumption`, `ScanAssumption`, `CompletenessAssumption`,
`AnswersAssumption`, and `IntentAssumption`: what is asked to be signed has the fields
of its kind, a nonce and the time of a request are numbers, a method is one of the API's
and a document is JSON, which begins with no method. Of a text nothing else is assumed,
nor of what a server sends.

*NonceLeases_proofs* begins with what each method of the tracker does to a pruned
account, whatever the answer: it stays pruned, what is dead stays dead, which stamps
change. The rest cites only these lemmas. It has one inductive invariant for each kind
of fact, each resting on the one before:

1. `KInv` (knowledge): types, an asked write's answer and every possible answer
   are sound (what they show used is spent), and the tracker's knowledge is sound.
   `KnowledgeSound` alone is not inductive: an answer in flight must be sound too.
   Gives `Typing`, `Soundness`, `Memory`.
2. `NoLeak`, inductive over `KInv`, and `WInv` for the window. Give
   `NoStampLeaks`, `FullOnlyWhenFull`, `InWindow`.
3. `DInv` (distinctness): a current claim, or one seen spent, has its stamp in the
   tracker or a dead nonce (`Protected`), a flying write's claim is current
   (`FlightsCurrent`), and current claims to a nonce that is not `reclaimed` are
   distinct. Distinctness alone says nothing of why the next `take` avoids a claimed
   nonce; `Protected` does. Gives `Distinctness` and `Freshness`, which assume
   `Punctual` and that callers bring no nonces of their own (`~OwnNonces`): two callers
   may of course bring the same one.
4. `GInv` (a nonce no other write came by): such a nonce, while its write's claim is
   current, is known used or bears that write's stamp. It holds without `Punctual` and
   whatever nonces callers bring, which `DInv` does not.

The steps of a write are grouped by what they do to the tracker (`Passes`,
`Takes`, `FindsFull`, `Restamps`, `Reclaims`, `GivesUp`; lemma `WriteStepKind`), so each
invariant is proved against six kinds of step, not eleven actions.

*Submission_proofs* carries the invariants of the leases over to submissions, each step
of which is a lease step or leaves the leases alone by its definition (lemma
`StepSimulation`), and shows with `SInv` that submissions keep `WritePromise`
(`PromiseKept`). `SInv` relates a write's call to its phase (`Calls`, `CallOf`), says
that a write never admitted has only as many copies under way as its attempts
(`OneCopy`) and where a write that ran or is pending got in (`TakenIn`): at-most-once
follows because a write runs only if its nonce is unspent, running spends it, and spent
nonces stay spent. `GInv`, carried over by that lemma, gives `PendingWritesHeld`.

*VerifiableRpc_proofs*: `CInv` (types, and the cache holds only what was returned)
is kept however queries overlap and gives `RpcTyping` and `NoFalseRefusal`. `SInv`,
for queries one at a time, adds that the cached claim follows all that were
returned and that a checked response still follows the cache, which is what an
overlapping `Record` breaks. It gives `AnswersAdvance`.

*VerifiedReads_proofs* has the invariant `RInv`: roots grow along the chain and each
stands for one state (`Chained`), a proof is of the value served and of a state of
the chain unless its root is none of the chain's (`Proven`), and what each phase
has found out of the roots it compared (`Compared`). `AcceptedIsChains` alone is not
inductive: that the value is the chain's follows from the proof being of the value
and its root being one state's. `HonestQuorum` is the argument about the k-th highest
answer: more answers reached it than dishonest endpoints gave, and the honest ones
alone are as many as the quorum. It rests on finite sets of numbers having a largest
and a smallest element (`MaxExists`, `MinExists`). Assumption: `ReadsAssumption`.

*HeaderStore_proofs*: `LinkedInv` gives `HeaderTyping` and `StoreLinkedToTrust`.
`LinkedToTrust` is not inductive: a task between `Verify` and `Store` holds a block
whose predecessor may by then be pruned or lost with the process. The invariant says
of each such task that its block extends one *ever* stored, which nothing takes back,
and of each block ever stored that it is `Grounded`: trusted, or extending one of them.
No assumption is made about what the endpoints answer. `OneInv` gives `TrustedOnce`:
until the client is there its store is empty and one task at most is creating it; from
then on the store is not empty, so that no task finds it so and trusts anew. The
blocks waiting to be stored have a height, and so have those in the store, because
`verify_header` asks for the height after that of a header held. `OrderInv` gives
`SyncAloneReaches`: a sync left alone that has not failed asks for the height after the
highest in the store, and for none past the one it set out for; a change of the store
by another task ends the sync's claim to have been alone.

*Discovery_proofs*: `TypedInv` holds the types and, in `TaskInv`, what the loop's
variables say of the past: `Counted` relates `attempts` to the attempts made since the
last payload, and `Justified` each reason to end to what the caller did or to that
number. They give `DiscoveryTyping` and `EndsAreJustified`. `EvictionsDeserved` is not
inductive, for the task evicts long after it lost its connection: `LostOne` adds that
between two connections the indexer connected to last is one that was lost. With it
follows `EvictionsAreDeserved`. `Avoids` gives `FailOver`: after an eviction that no
stored list has undone, neither the list held nor what the lookup found names the
indexer that was lost, so none of the queries' evictions, nor the list's age, can bring
it back. A list that is fetched may, which is what `stayed` excepts.

*Operations_proofs*: `OperationsInv` is the conjunction of three invariants, each of which
holds through the others' steps:
- `LedgerInv`: types; a transaction that is executed or refused is not in the pool,
  and its nonce is spent; a manifest on chain was executed.
- `RotationInv`: its part `KeyInv` adds to `NeverBricked` that a run past `SyncFile` has
  its new key synced (or took it unsynced, or lost it with the directory), since such a run
  may send it; its part
  `ReportInv` says, of a run that began alone, that no update but its own can land and
  which key the document then has, which is why a refusal means that it did not change.
- `FileInv`: a client that sends chunks, or has sent them, has its manifest among the
  executed ones (`Placed`), and the node holds each chunk sent while that manifest is
  the one on chain (`Held`). A manifest that was executed is not executed again, so none
  is put back after the node has dropped its chunks.

They give `OperationsTyping`, `KeysAreKept`, `ReportsAreTrue`, `ManifestComesFirst` and
`UploadsAreThere`, for any number of runs, keys, clients, chunks, polls and nonces.

*Answers_proofs* has an invariant for each part, and since one part runs at a time their
conjunction `AnswersInv` is kept by every step:
- `RequestInv`: the attempts of a *steady* request (its reader's identity, its server warm)
  are signed with a nonce the server has not taken (`Steady`), and no two requests that
  are under way share one (`Apart`): without the second, one request's arrival would
  make the other a replay. It gives `RetriesKeepRights`.
- `EthInv`: what passed the check is of what was asked (`OneAsked`), the proofs walked so
  far hold (`Walked`), what is decoded is the value shown of the one slot (`Decoded`). It
  gives `StateReadsProved`.
- `ProofInv`: a node that shows the asked key with a hash that is not the chain's *taints*
  the tree it is in (`Tainted`), and the taint goes on to every tree that one is attached to,
  up to the root: so when the root is the trusted one, no node was false. At each
  moment, `ReadSoFar` says that such a node has a tainted tree on the stack. It gives
  `ItemsProved`, for any number of nodes, any values and any names of hashes.
- `CompletenessInv` rests on `HashTells`: from the canonical bytes, the logs can be read
  back, whatever topics and data look like. It gives `VerdictsTrue`.
- `ScanInv`: the envelope is decodable exactly when what the recursive decoder has left to
  do, where the scan is, succeeds. What it has left is a chain of readings (`Ends`): of the
  layers that are open, the deepest first, each is finished where the one in it ended.
  Opening a layer and closing the done ones keep it (`EndsAfter`, `EndsUnfinished`), and where
  the scan refuses early (a count larger than the bytes can hold, a depth, the number of
  layers) no reading is left (`LowersRead`, `EndsWithin`). The decoder is a function defined
  by recursion on the bytes it may read: that there is one is proved (`TablesExist`,
  `LowersAre`), and that more bytes than there are make no difference (`LowersEnough`). It
  gives `ScansAreDecodings`, for every envelope and every limit.
- `SigningInv`: what was signed was asked for and checked, and an accepted message was
  signed as something. `SignaturesMeant` follows from two lemmas about messages: equal
  ones are of one kind (`KindTold`), and, but for the kinds signed as they come and the
  older requests, of one intent (`MessageTold`). Two older requests with one message
  have their method, which is its first token, their time, which holds no colon and so
  is behind its last, and what is between, the path, in common (`LegacyTold`). A text
  checked by `field()` holds no line break, so that a line ends where the next label
  begins; the parts of a DID hold no colons but the method's; and the grants of a
  rotation end where a line begins with "Nonce" and not with "Grantee" (`NotLonger`).
- `BudgetInv`: a count on its way *leads* to the one of a whole text whose units are the text's
  `Cost` (`OnItsWay`). Where a count leads is what is in every set that holds it and, with
  each count, the one after its next byte (`Leads`); there is one way, so a step takes a count
  along it (`LeadsOn`), an end of the bytes is the end of the way (`LeadsNowhere`), and a
  count over the limit only grows (`LeadsOnward`). `CountIsCost` alone is not inductive: it says
  nothing until the count has ended. That a whole count leads to the cost (`CountLeads`) is
  proved text by text, the shorter ones first (`AllPass`): past a scalar, past a string with
  its escapes, past a gap, past each item of an array or an object, at any depth, under the
  proof or not, with the numbers of a proof counted so that as many as cost a unit make one
  wherever the containers in it end (`Mark`, `DivisionNext`). Whether the count is under the
  proof is what the last name and the gap after it say (`FlagIs`). That decoding is a
  function at all is proved too (`MadeIs`), as the items of a text are shorter than
  the text (`ItemsShorter`). It gives `CountsAreCosts`. `TextsAssumption` is what it rests on:
  each of `Texts` is a text of JSON, and so are the items in it. As `Leads` speaks of every
  set of counts, TLC cannot evaluate this invariant; it checks `CountIsCost`.

Messages and preimages are lists of any length, put one after the other by a fold. The
library's induction takes an operator as a parameter, so induction is done over sets of
numbers instead (`Climb`, from `Least`: a nonempty set of numbers has a smallest one). The
fold is unfolded once (`FlatUnfold`), and `RunsDecode` and `FlatDecodes` say of any
lists: if each piece can be told from what follows it, so can all of them.

**Model-checked only.** `Served`, `EveryUseEnds` and `CancelEnds` are liveness under
fairness, out of the prover's reach. Every other property of a passing run is a theorem.

## 5. What is left out of the models

Of the code that is modelled:

- At a base of `u64::MAX` the saturating window of `take` is the base itself,
  which would be handed out although it is used. `MaxSpent < MaxNonce`
  excludes it. With `max_attempts` 0, `request_with_retry` has no error to unwrap;
  `RequestAssumption` excludes it.
- Rotations and files take nonces that are not spent. A node behind the chain may name a
  spent one, and the chain then refuses what is sent under it; `NonceLeases` has such nodes.
- A rebroadcast that CheckTx refuses with the nonce free gives its nonce back,
  although an earlier copy may still arrive. This is in the models; it is why
  `PendingHeld` looks at claims and `ToldOf` calls a rebroadcast's errors open.
- Signatures, encodings and log texts. Their failures appear as outcomes. Hashes are
  terms: two are equal only when what they hash is (one exception is modelled: a
  63-byte element that hashes like a subtree).
- Documents are reduced to the key they authenticate and its id, so a service endpoint that another
  update adds between the tool's reading of the document and its nonce, and which the
  rotation then reverts, is not seen.
- `ItemProof` has a path of one segment. The layers above are checked in the same way,
  each against the root the one above shows.

Not modelled:

- `query_historical` and `get_checkpoint_state_root`: the answer is compared with a root
  the same API gives, so no property of the client's follows.
- `wait_for_transaction`, `get_transaction`: no operation of the library calls them.
  (`wait_for_transaction` takes any `result`, null included, for inclusion.)
- `encrypt_file` and `decrypt_file`, key generation, and the curve and hash libraries:
  pure functions of cryptography.
- `types.rs`, `validators.rs`, `subgrove_config.rs` beyond the checks of an id, and the
  getters of `client.rs`: shapes of data and single requests that keep no state.
- `list` and `unregister_storage_node` of `files.rs`: a read that is handed on and a write
  like any other.
- `fetch_current_app_hash`: unverified, and unused by the reads.

What the models showed that no property of theirs forbids, and a reader should know:

- *Writes.* `rebroadcast` stamps its nonce whoever holds it. After an unknown outcome and a
  rebroadcast that is refused with the nonce free, the nonce is given back, another write
  may take it, and a caller that then sends its bytes again shares it: both writes are
  signed under one nonce, and the chain runs one of them. `LeasesDistinct` and `TakesFresh`
  except these nonces.
- *Verified reads.* When the value changes between `GET /data` and `GET /proof`, the proof is
  of another value than the one served, and `get_verified` answers an honest API with the
  `ProofVerificationFailed` (`data.rs:205`) that it also gives a false one. In the model this
  is among the ways to end as `invalid`, of which no property speaks.
- *Headers.* An answer without a block becomes a header of height 0. Trust on first use
  stores it, the `OnceCell` keeps the client, and `get_verified_root_hash` returns its
  empty hash; a sync of an empty store that is given one succeeds and does nothing; a
  later sync of a store that holds only it trusts on sight again. `OneTrust` and
  `AloneInOrder` name the height for this reason. Two first syncs of a *configured*,
  empty store both trust on sight. Of two syncs that overlap, one fails with
  "Non-sequential headers". `verify_header` takes a header as old as the trusting period,
  `prune_old_headers` drops it. An empty validator set gives a threshold of 0, and a vote
  that is there twice counts twice.
- *Subscriptions.* The fail-over of `subscriptions.rs:368` does not happen for a
  subscription older than the list's life, since the list is then asked for anew, with
  the lost indexer in it; nor for an indexer that was never connected to, which is not
  the one evicted. A dropped handle may end the task before it sends `complete`. The task writes
  to its server with no timeout and looks for nothing else meanwhile, so with a server
  that pings and does not read, `unsubscribe` ends nothing until the handle is dropped. A list
  all of whose indexers were evicted stays, empty, until its life is over.
- *Rotation.* "DID was NOT rotated; the current key still works" is false when an update
  of an earlier run lands in between, and when the key that signs was retired before, since
  `check_current_document` looks for its id only (`RotationReportsTrue` asks for neither).
  The new key's file is synced and its directory is not: a machine that stops before the
  system has written the directory may lose the only key of the DID.
- *Reads of state.* A slot of zero is in no trie, so a strict read of one is refused.
  `get_call` does not compare the roots and blocks of its proofs with those the response
  names. The readers of `erc8004.rs` that return an `Option` take an answer in JSON
  without the data, whatever its status, for absence.
- *Signing.* `FundSubgrove`, `DeregisterSubgrove`, `Transfer` and
  `ClaimSubgroveIndexing` put texts into their messages without `field()`, and
  `RegisterDid` signs no nonce. A request that carries no read rights is signed in the
  older form `{METHOD}:{PATH}:{TIMESTAMP}`, and sent so to indexers too
  (`indexing.rs:96`, `312`): its signature is good for any query and any body on that path
  until its time is too old, as the comment of `legacy_request_message` says. The message
  of an indexing subgrove's registration may hold any id without a line break.

## 6. Plan

Done: the nonce tracker and the write path, verifiable RPC, verified reads, the header
store, discovery and subscriptions, rotation and files, and the checks of answers and
of messages. What would come next, in order:

1. `VerifiedReads` over `HeaderStore` in place of the chain's headers: at present the
   first takes headers to be the chain's, and the second shows what links them.
2. `ItemProof` with paths of any length.
