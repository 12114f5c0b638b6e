---------------------------- MODULE FileStorage ----------------------------
(***************************************************************************)
(* A file of a FileStorage subgrove (src/files.rs): uploads, which put a   *)
(* manifest on chain and then the chunks on a storage node, downloads,     *)
(* which check chunks against a manifest, and deletions, at once.          *)
(***************************************************************************)
EXTENDS Ledger

CONSTANTS
  Client,     \* those who upload, download and delete the file
  Chunks,     \* the number of its chunks
  MaxUses     \* bound: the operations begun

ASSUME FileAssumption == Chunks \in Nat \ {0} /\ MaxUses \in Nat

VARIABLES
  stored,   \* the chunks the storage node has accepted, as <<version, index>>
  client,   \* what each client does
  uses      \* the operations begun

fileVars == <<stored, client, uses>>

ClientPc == {"idle", "submit", "wait", "send", "fetch", "stored", "fetched", "failed"}

ClientFields ==
  [ pc : ClientPc,
    by : Document,                     \* signing_key, and its id
    version : Version \cup {NoFile},   \* the one uploaded, or of the manifest read
    nonce : Nonce \cup {0},
    polls : 0 .. MaxPolls,
    next : 1 .. Chunks + 1,            \* the next chunk
    whole : BOOLEAN ]                  \* every chunk fetched is of that version

NoUse == [ pc |-> "idle", by |-> FirstDoc, version |-> NoFile, nonce |-> 0, polls |-> 0,
           next |-> 1, whole |-> TRUE ]

FileTypeOK ==
  /\ stored \subseteq Version \X (1 .. Chunks)
  /\ client \in [Client -> ClientFields]
  /\ uses \in 0 .. MaxUses

FileInit ==
  /\ stored = {}
  /\ client = [c \in Client |-> NoUse]
  /\ uses = 0

At(c, pc) == client[c].pc = pc
Becomes(c, r) == client' = [client EXCEPT ![c] = r]
End(c, pc) == Becomes(c, [client[c] EXCEPT !.pc = pc, !.polls = 0])
Fails(c) == Becomes(c, [NoUse EXCEPT !.pc = "failed"])

Begin(c) ==
  /\ client[c].pc \in {"idle", "stored", "fetched", "failed"}
  /\ uses < MaxUses
  /\ uses' = uses + 1

Manifest(r) == [ kind |-> "manifest", nonce |-> r.nonce, by |-> r.by, file |-> r.version ]

-----------------------------------------------------------------------------
(* upload() *)

\* An identity and a signing key are needed; without them nothing is sent. (The key
\* may be one the DID no longer has.)
Upload(c, version, by) ==
  /\ Begin(c)
  /\ Becomes(c, [NoUse EXCEPT !.pc = "submit", !.version = version, !.by = by])
  /\ UNCHANGED <<ledgerVars, stored>>

\* submit_with_nonce(): the nonce is taken, the manifest signed and sent.
SubmitManifest(c) ==
  /\ At(c, "submit")
  /\ \E n \in Free, told \in {"accepted", "refused", "unknown"} :
       LET r == [client[c] EXCEPT !.nonce = n]
       IN /\ Broadcast(Manifest(r), told)
          /\ IF told = "accepted" THEN Becomes(c, [r EXCEPT !.pc = "wait"]) ELSE Fails(c)
  /\ UNCHANGED <<stored, uses>>

\* No nonce to be had, or none in time.
NotSubmitted(c) ==
  /\ At(c, "submit")
  /\ Fails(c)
  /\ UNCHANGED <<ledgerVars, stored, uses>>

\* wait_for_tx_outcome(): storage nodes accept chunks of a manifest on chain.
WaitForManifest(c) ==
  /\ At(c, "wait")
  /\ IF client[c].polls = MaxPolls THEN Fails(c)
     ELSE \E outcome \in Outcomes(Manifest(client[c])) :
            CASE outcome = "executed" -> End(c, "send")
              [] outcome = "refused" -> Fails(c)
              [] OTHER -> Becomes(c, [client[c] EXCEPT !.polls = @ + 1])
  /\ UNCHANGED <<ledgerVars, stored, uses>>

\* Mutated form: a chunk that is not taken is passed over.
MutAfterChunk(r, taken) ==
  IF r.next = Chunks THEN [r EXCEPT !.pc = "stored"] ELSE [r EXCEPT !.next = @ + 1]

\* After a chunk, the next; the first that is not taken ends the upload.
AfterChunk(r, taken) ==
  IF ~taken THEN [NoUse EXCEPT !.pc = "failed"]
  ELSE IF r.next = Chunks THEN [r EXCEPT !.pc = "stored"]
  ELSE [r EXCEPT !.next = @ + 1]

\* A chunk may be taken although the answer is lost.
SendChunk(c) ==
  /\ At(c, "send")
  /\ \E taken, told \in BOOLEAN :
       /\ told => taken
       /\ stored' = IF taken THEN stored \cup {<<client[c].version, client[c].next>>} ELSE stored
       /\ Becomes(c, AfterChunk(client[c], told))
  /\ UNCHANGED <<ledgerVars, uses>>

-----------------------------------------------------------------------------
(* download() *)

\* The manifest is the API's word, of any version at all: ...
ManifestsServed == Version

\* ... check_manifest() refuses one the chain would not hold.
ReadManifest(c) ==
  /\ Begin(c)
  /\ \/ \E version \in ManifestsServed : Becomes(c, [NoUse EXCEPT !.pc = "fetch", !.version = version])
     \/ Fails(c)
  /\ UNCHANGED <<ledgerVars, stored>>

\* The Merkle root of the chunks, their length and the hash of the whole are those
\* of the manifest.
Accepts(r) == r.whole

\* The storage node serves a chunk of any version it has, one cut short or one of
\* its own making, or none.
FetchChunk(c) ==
  /\ At(c, "fetch")
  /\ \/ Fails(c)
     \/ \E right \in BOOLEAN :
          /\ right => <<client[c].version, client[c].next>> \in stored
          /\ LET r == [client[c] EXCEPT !.whole = @ /\ right]
             IN IF r.next < Chunks THEN Becomes(c, [r EXCEPT !.next = @ + 1])
                ELSE IF Accepts(r) THEN Becomes(c, [r EXCEPT !.pc = "fetched"]) ELSE Fails(c)
  /\ UNCHANGED <<ledgerVars, stored, uses>>

-----------------------------------------------------------------------------
(* delete() *)

\* The deletion is not waited for.
Delete(c, by) ==
  /\ Begin(c)
  /\ \E n \in Free, told \in {"accepted", "refused", "unknown"} :
       Broadcast([kind |-> "delete", nonce |-> n, by |-> by], told)
  /\ Becomes(c, NoUse)
  /\ UNCHANGED stored

\* A storage node drops the chunks of versions that are not the file's any more.
DropChunks ==
  /\ \E S \in SUBSET stored :
       /\ S # {} /\ \A chunk \in S : file # NoFile => chunk[1] # file.file
       /\ stored' = stored \ S
  /\ UNCHANGED <<ledgerVars, client, uses>>

FileStep ==
  \/ \E c \in Client :
       \/ \E version \in Version, by \in docs : Upload(c, version, by)
       \/ SubmitManifest(c) \/ NotSubmitted(c) \/ WaitForManifest(c) \/ SendChunk(c)
       \/ ReadManifest(c) \/ FetchChunk(c)
       \/ \E by \in docs : Delete(c, by)
  \/ DropChunks

-----------------------------------------------------------------------------
(* Properties *)

\* No chunk of a version goes to a storage node before a manifest of that version
\* has been executed.
ChunksFollowManifest ==
  \A chunk \in stored : \E tx \in done : tx.kind = "manifest" /\ tx.file = chunk[1]

\* A file reported as uploaded, whose manifest no later upload or deletion has
\* replaced, is there: the storage node has every chunk of it.
UploadedIsThere ==
  \A c \in Client : At(c, "stored") /\ file = Manifest(client[c]) =>
    \A i \in 1 .. Chunks : <<client[c].version, i>> \in stored
=============================================================================
