--------------------------- MODULE Operations_proofs ---------------------------
(***************************************************************************)
(* Proofs about the operations of a DID's owner: no run of the rotation    *)
(* tool loses the DID, what it reports is so, and files are where their    *)
(* uploads say, for every set of keys, versions and clients.               *)
(***************************************************************************)
EXTENDS Operations, TLAPS

LEMMA PollsFacts == 0 \in 0 .. MaxPolls
  <1>1. MaxPolls \in Nat
    BY LedgerAssumption DEF LedgerAssumption
  <1> QED BY <1>1

LEMMA TxFacts ==
  ASSUME NEW tx \in Tx
  PROVE  /\ tx.nonce \in Nonce
         /\ tx.kind \in {"rotate", "manifest", "delete"}
         /\ tx.kind = "rotate" => tx.to \in Document
         /\ tx.kind = "manifest" => tx.file \in Version
  BY DEF Tx

LEMMA RotatingTx ==
  ASSUME NEW r \in RunFields
  PROVE  /\ r.nonce \in Nonce => Rotating(r) \in Tx
         /\ r.nonce = 0 => Rotating(r) \notin Tx
         /\ Rotating(r).kind = "rotate" /\ Rotating(r).to = r.new /\ Rotating(r).by = r.current
         /\ Rotating(r).nonce = r.nonce
  <1>1. Rotating(r) \in Tx => r.nonce \in Nonce
    BY TxFacts DEF Rotating
  <1>2. r.nonce \in Nonce => Rotating(r) \in Tx
    BY DEF Rotating, RunFields, Tx
  <1>3. 0 \notin Nonce
    BY DEF Nonce
  <1> QED BY <1>1, <1>2, <1>3 DEF Rotating

LEMMA ManifestTx ==
  ASSUME NEW r \in ClientFields
  PROVE  /\ r.nonce \in Nonce /\ r.version \in Version => Manifest(r) \in Tx
         /\ Manifest(r).kind = "manifest" /\ Manifest(r).file = r.version
  BY DEF Manifest, ClientFields, Tx

LEMMA DeletionTx ==
  ASSUME NEW n \in Nonce, NEW by \in Document
  PROVE  [kind |-> "delete", nonce |-> n, by |-> by] \in Tx
  BY DEF Tx

-----------------------------------------------------------------------------
(* The chain *)

\* A transaction is executed once: none that may still be is in a block.
LedgerInv ==
  /\ LedgerTypeOK
  /\ pool \cap (done \cup failed) = {}
  /\ done \cap failed = {}
  /\ \A tx \in done \cup failed : tx.nonce \in spent
  /\ file # NoFile => file \in done /\ file.kind = "manifest"

LEMMA ExecuteKeepsLedger ==
  ASSUME LedgerInv, NEW tx \in pool, Execute(tx)
  PROVE  LedgerInv'
  <1>1. tx \in Tx
    BY DEF LedgerInv, LedgerTypeOK
  <1>2. doc' \in docs' /\ docs' \subseteq Document
    BY <1>1, TxFacts DEF LedgerInv, LedgerTypeOK, Execute
  <1>3. /\ spent' \subseteq Nonce
        /\ pool' \subseteq Tx /\ done' \subseteq Tx /\ failed' \subseteq Tx
    BY <1>1, TxFacts DEF LedgerInv, LedgerTypeOK, Execute
  <1>4. file' \in Tx \cup {NoFile}
    BY <1>1 DEF LedgerInv, LedgerTypeOK, Execute
  <1>5. /\ pool' \cap (done' \cup failed') = {}
        /\ done' \cap failed' = {}
        /\ \A x \in done' \cup failed' : x.nonce \in spent'
    BY DEF LedgerInv, Execute
  <1>6. file' # NoFile => file' \in done' /\ file'.kind = "manifest"
    BY DEF LedgerInv, Execute
  <1> QED BY <1>2, <1>3, <1>4, <1>5, <1>6 DEF LedgerInv, LedgerTypeOK

LEMMA EvictKeepsLedger ==
  ASSUME LedgerInv, NEW tx \in pool, Evict(tx)
  PROVE  LedgerInv'
  BY DEF LedgerInv, LedgerTypeOK, Evict

LEMMA BroadcastFacts ==
  ASSUME LedgerInv, NEW tx \in Tx, NEW told, Broadcast(tx, told)
  PROVE  /\ LedgerInv'
         /\ UNCHANGED <<doc, docs, file, spent, done, failed>>
         /\ pool' \subseteq pool \cup {tx}
  <1>1. /\ UNCHANGED <<doc, docs, file, spent, done, failed>>
        /\ pool' \subseteq pool \cup ({tx} \ (done \cup failed))
    BY DEF Broadcast
  <1> QED BY <1>1 DEF LedgerInv, LedgerTypeOK

LEMMA FreeFacts ==
  ASSUME LedgerInv, NEW n \in Free
  PROVE  n \in Nonce /\ \A tx \in done \cup failed : tx.nonce # n
  BY DEF LedgerInv, Free

-----------------------------------------------------------------------------
(* A rotation *)

\* The key is on the disk for good, or its file or the directory was not synced as the
\* machine stopped.
Kept(k) == disk[k] \in {"synced", "kept"} \/ k \in unsynced

\* From then on the tool may send the new key to the chain.
Committed == {"document", "nonce", "broadcast", "wait", "confirm"}

\* NeverBricked is not inductive alone: what matters is that the file of the new
\* key is synced before the run comes to a step that may send it.
KeyInv ==
  /\ NeverBricked
  /\ run.pc = "write" => disk[run.new.key] = "created"
  /\ run.pc = "sync" => disk[run.new.key] = "written"
  /\ run.pc \in Committed => Kept(run.new.key)

\* What a run knows of its own update, and, if no other was pending as it began,
\* what that makes of the document.
Reports(r) ==
  /\ r.pc # "idle" => r.report = "none"
  /\ r.pc \in {"create", "write", "sync", "document", "nonce"} => r.nonce = 0
  /\ r.pc \in {"broadcast", "wait", "confirm"} => r.nonce \in Nonce
  /\ r.pc = "confirm" \/ r.report = "rotated" => Rotating(r) \in done
  /\ r.report = "not rotated" => Rotating(r) \in failed
  /\ r.alone => /\ Rotations \subseteq {Rotating(r)}
                  /\ doc = IF Rotating(r) \in done THEN r.new ELSE r.current

ReportInv == Reports(run)

RotationInv == RotationTypeOK /\ KeyInv /\ ReportInv

LEMMA KeyFacts ==
  ASSUME KeyInv, LedgerInv, RotationTypeOK
  PROVE  /\ Kept(doc.key)
         /\ \A tx \in pool : tx.kind = "rotate" => Kept(tx.to.key)
  BY DEF KeyInv, NeverBricked, Kept, Rotations

\* The chain goes on, or a file's transaction is sent.
LEMMA ExecuteKeepsRotation ==
  ASSUME LedgerInv, RotationInv, NEW tx \in pool, Execute(tx), UNCHANGED rotationVars
  PROVE  RotationInv'
  <1>1. UNCHANGED <<disk, run, runs, unsynced>> /\ Rotating(run)' = Rotating(run)
    BY DEF rotationVars, Rotating
  <1>2. RotationTypeOK'
    BY <1>1 DEF RotationInv, RotationTypeOK
  <1>3. KeyInv'
    <2>1. Kept(doc.key)'
      BY <1>1, KeyFacts DEF RotationInv, Execute, Kept
    <2>2. \A x \in pool' : x.kind = "rotate" => Kept(x.to.key)'
      BY <1>1, KeyFacts DEF RotationInv, Execute, Kept
    <2>3. NeverBricked'
      BY <2>1, <2>2 DEF NeverBricked, Kept, Rotations
    <2> QED BY <1>1, <2>3 DEF RotationInv, KeyInv, Kept
  <1>4. ReportInv'
    <2>1. done \subseteq done' /\ failed \subseteq failed'
      BY DEF Execute
    <2>2. run.alone => Rotations' \subseteq {Rotating(run)}
      BY DEF RotationInv, ReportInv, Reports, Rotations, Execute
    <2>3. ASSUME run.alone
          PROVE  doc' = IF Rotating(run) \in done' THEN run.new ELSE run.current
      <3>1. CASE tx = Rotating(run)
        <4>1. tx \notin done /\ doc = run.current
          BY <2>3, <3>1 DEF LedgerInv, RotationInv, ReportInv, Reports
        <4>2. tx.kind = "rotate" /\ tx.to = run.new
          BY <3>1 DEF Rotating
        <4> QED BY <3>1, <4>1, <4>2 DEF Execute
      <3>2. CASE tx # Rotating(run)
        <4>1. tx.kind # "rotate"
          BY <2>3, <3>2 DEF RotationInv, ReportInv, Reports, Rotations
        <4>2. doc' = doc /\ (Rotating(run) \in done' <=> Rotating(run) \in done)
          BY <3>2, <4>1 DEF Execute
        <4> QED BY <2>3, <4>2 DEF RotationInv, ReportInv, Reports
      <3> QED BY <3>1, <3>2
    <2> QED BY <1>1, <2>1, <2>2, <2>3 DEF RotationInv, ReportInv, Reports
  <1> QED BY <1>2, <1>3, <1>4 DEF RotationInv

LEMMA OthersKeepRotation ==
  ASSUME RotationInv, UNCHANGED rotationVars, UNCHANGED <<doc, done, failed>>,
         \A tx \in pool' : tx.kind = "rotate" => tx \in pool
  PROVE  RotationInv'
  <1>1. UNCHANGED <<disk, run, runs, unsynced>> /\ Rotating(run)' = Rotating(run)
    BY DEF rotationVars, Rotating
  <1>2. Rotations' \subseteq Rotations
    BY DEF Rotations
  <1>3. RotationTypeOK'
    BY <1>1 DEF RotationInv, RotationTypeOK
  <1>4. KeyInv'
    BY <1>1, <1>2 DEF RotationInv, KeyInv, NeverBricked, Kept
  <1>5. ReportInv'
    BY <1>1, <1>2 DEF RotationInv, ReportInv, Reports
  <1> QED BY <1>3, <1>4, <1>5 DEF RotationInv

\* A step of the tool that sends nothing makes the run r.
LEMMA RunKeeps ==
  ASSUME LedgerInv, RotationInv, UNCHANGED ledgerVars,
         NEW r \in RunFields, run' = r, runs' \in 0 .. MaxRuns,
         disk' \in [Key -> FileState], unsynced' \subseteq Key,
         \A k \in Key : Kept(k) => Kept(k)',
         r.pc = "write" => disk'[r.new.key] = "created",
         r.pc = "sync" => disk'[r.new.key] = "written",
         r.pc \in Committed => disk'[r.new.key] \in {"synced", "kept"} \/ r.new.key \in unsynced',
         Reports(r)
  PROVE  RotationInv'
  <1>1. RotationTypeOK'
    BY DEF RotationTypeOK
  <1>2. UNCHANGED <<doc, pool, done, failed>> /\ Rotations' = Rotations
    BY DEF ledgerVars, Rotations
  <1>3. Kept(doc.key)' /\ \A tx \in pool : tx.kind = "rotate" => Kept(tx.to.key)'
    <2>1. doc \in Document /\ pool \subseteq Tx
      BY DEF LedgerInv, LedgerTypeOK
    <2>2. doc.key \in Key /\ \A tx \in pool : tx.kind = "rotate" => tx.to.key \in Key
      BY <2>1, TxFacts DEF Document
    <2> QED BY <1>2, <2>2, KeyFacts DEF RotationInv
  <1>4. NeverBricked'
    BY <1>2, <1>3 DEF NeverBricked, Kept, Rotations
  <1>5. KeyInv'
    BY <1>4 DEF KeyInv, Kept
  <1>6. ReportInv'
    BY <1>2 DEF ReportInv, Reports
  <1> QED BY <1>1, <1>5, <1>6 DEF RotationInv

\* One that only goes on, or tells the operator something.
LEMMA QuietRunKeeps ==
  ASSUME LedgerInv, RotationInv, UNCHANGED <<ledgerVars, disk, runs, unsynced>>,
         NEW r \in RunFields, run' = r,
         r.pc \in Committed => Kept(r.new.key), r.pc \notin {"write", "sync"},
         Reports(r)
  PROVE  RotationInv'
  <1>1. UNCHANGED ledgerVars /\ UNCHANGED <<disk, runs, unsynced>>
    OBVIOUS
  <1>2. /\ runs' \in 0 .. MaxRuns
        /\ disk' \in [Key -> FileState] /\ unsynced' \subseteq Key
    BY <1>1 DEF RotationInv, RotationTypeOK
  <1>3. /\ \A k \in Key : Kept(k) => Kept(k)'
        /\ r.pc \in Committed => disk'[r.new.key] \in {"synced", "kept"} \/ r.new.key \in unsynced'
    BY <1>1 DEF Kept
  <1> QED BY <1>1, <1>2, <1>3, RunKeeps

LEMMA NoRunFacts ==
  /\ NoRun \in RunFields /\ NoRun.pc = "idle"
  /\ Reports(NoRun)
  <1>1. NoRun \in RunFields
    BY LedgerAssumption DEF LedgerAssumption, NoRun, RunFields, RunPc, Report
  <1> QED BY <1>1 DEF NoRun, Reports

\* What a run leaves that does not speak of its update.
LEMMA ToldFacts ==
  ASSUME NEW report \in Report \ {"rotated", "not rotated"}
  PROVE  LET r == [NoRun EXCEPT !.report = report]
         IN r \in RunFields /\ r.pc = "idle" /\ ~r.alone /\ Reports(r)
  <1> DEFINE r == [NoRun EXCEPT !.report = report]
  <1>1. r \in RunFields
    BY NoRunFacts DEF RunFields
  <1>2. r.pc = "idle" /\ r.report = report /\ ~r.alone
    BY DEF NoRun
  <1> HIDE DEF r
  <1>3. Reports(r)
    BY <1>2 DEF Reports
  <1> QED BY <1>1, <1>2, <1>3 DEF r

LEMMA StartKeeps ==
  ASSUME LedgerInv, RotationInv, NEW current \in Document, NEW new \in Document, NEW in \in BOOLEAN,
         Start(current, new, in)
  PROVE  RotationInv'
  <1> DEFINE r == [NoRun EXCEPT !.pc = IF in THEN "document" ELSE FirstStep,
                      !.current = current, !.new = new, !.alone = (Rotations = {} /\ doc = current)]
  <1>1. /\ r.pc = (IF in THEN "document" ELSE "create") /\ r.new = new /\ r.current = current
        /\ r.nonce = 0 /\ r.report = "none"
        /\ r.alone = (Rotations = {} /\ doc = current)
    BY DEF NoRun, FirstStep
  <1>2. r \in RunFields
    BY NoRunFacts DEF RunFields, RunPc, FirstStep
  <1>3. run' = r /\ UNCHANGED <<ledgerVars, disk>> /\ runs' = runs + 1 /\ runs < MaxRuns
    BY DEF Start
  <1>4. UNCHANGED ledgerVars /\ disk' = disk
    BY <1>3
  <1> HIDE DEF r
  <1>5. runs' \in 0 .. MaxRuns /\ disk' \in [Key -> FileState]
    BY <1>3, <1>4, RotationAssumption DEF RotationInv, RotationTypeOK
  <1>6. unsynced' \subseteq Key /\ unsynced \subseteq unsynced'
    BY DEF Start, RotationInv, RotationTypeOK, Document
  <1>7. \A k \in Key : Kept(k) => Kept(k)'
    BY <1>4, <1>6 DEF Kept
  <1>8. r.pc \in Committed => disk'[r.new.key] \in {"synced", "kept"} \/ r.new.key \in unsynced'
    <2>1. CASE in
      <3>1. disk[new.key] \in {"synced", "kept"} \/ (disk[new.key] = "written" /\ unsynced' = unsynced \cup {new.key})
        BY <2>1 DEF Start, Readable
      <3> QED BY <3>1, <1>1, <1>4 DEF Kept
    <2>2. CASE ~in
      BY <2>2, <1>1 DEF Committed
    <2> QED BY <2>1, <2>2
  <1>9. Reports(r)
    <2>1. Rotating(r) \notin done
      BY <1>1, <1>2, RotatingTx DEF LedgerInv, LedgerTypeOK
    <2> QED BY <1>1, <2>1 DEF Reports
  <1>10. r.pc # "write" /\ r.pc # "sync"
    BY <1>1
  <1>11. unsynced' \subseteq Key
    BY <1>6
  <1> QED BY <1>2, <1>3, <1>4, <1>5, <1>7, <1>8, <1>9, <1>10, <1>11, RunKeeps

\* A step of the tool that goes on to pc with the same update.
LEMMA GotoFacts ==
  ASSUME RotationInv, NEW pc \in RunPc \ {"idle"}
  PROVE  LET r == [run EXCEPT !.pc = pc]
         IN /\ r \in RunFields /\ r.pc = pc /\ r.new = run.new
            /\ /\ run.pc # "idle"
               /\ pc \in {"create", "write", "sync", "document", "nonce"} => run.nonce = 0
               /\ pc \in {"broadcast", "wait", "confirm"} => run.nonce \in Nonce
               /\ pc = "confirm" => Rotating(run) \in done
               => Reports(r)
  <1> DEFINE r == [run EXCEPT !.pc = pc]
  <1>1. r \in RunFields /\ r.pc = pc /\ r.new = run.new /\ r.current = run.current
        /\ r.nonce = run.nonce /\ r.report = run.report /\ r.alone = run.alone
    BY DEF RotationInv, RotationTypeOK, RunFields
  <1>2. Rotating(r) = Rotating(run)
    BY <1>1 DEF Rotating
  <1> HIDE DEF r
  <1>3. ASSUME run.pc # "idle",
               pc \in {"create", "write", "sync", "document", "nonce"} => run.nonce = 0,
               pc \in {"broadcast", "wait", "confirm"} => run.nonce \in Nonce,
               pc = "confirm" => Rotating(run) \in done
        PROVE  Reports(r)
    BY <1>1, <1>2, <1>3 DEF RotationInv, ReportInv, Reports
  <1> QED BY <1>1, <1>3 DEF r

LEMMA TellKeeps ==
  ASSUME LedgerInv, RotationInv, NEW report \in Report, Tell(report), run.pc # "idle",
         UNCHANGED <<ledgerVars, disk, runs, unsynced>>,
         report = "rotated" => Rotating(run) \in done,
         report = "not rotated" => Rotating(run) \in failed
  PROVE  RotationInv'
  <1>0. CASE report \notin {"rotated", "not rotated"}
    <2> DEFINE r == [NoRun EXCEPT !.report = report]
    <2>1. r \in RunFields /\ r.pc = "idle" /\ Reports(r)
      BY <1>0, ToldFacts
    <2>2. run' = r
      BY <1>0 DEF Tell
    <2> HIDE DEF r
    <2> QED BY <2>1, <2>2, QuietRunKeeps DEF Committed
  <1> DEFINE r == [run EXCEPT !.pc = "idle", !.report = report, !.polls = 0]
  <1>1. r \in RunFields /\ r.pc = "idle" /\ r.new = run.new /\ r.current = run.current
        /\ r.nonce = run.nonce /\ r.report = report /\ r.alone = run.alone
    <2>1. run \in RunFields /\ "idle" \in RunPc
      BY DEF RotationInv, RotationTypeOK, RunPc
    <2>2. 0 \in 0 .. MaxPolls
      BY PollsFacts
    <2> QED BY <2>1, <2>2 DEF RunFields
  <1>2. Rotating(r) = Rotating(run)
    BY <1>1 DEF Rotating
  <1>3. report \in {"rotated", "not rotated"} => run' = r
    BY DEF Tell
  <1> HIDE DEF r
  <1>4. Reports(r)
    BY <1>1, <1>2 DEF RotationInv, ReportInv, Reports
  <1> QED BY <1>0, <1>1, <1>3, <1>4, QuietRunKeeps DEF Committed

\* A step to pc with the same update, and the same files.
LEMMA GotoKeeps ==
  ASSUME LedgerInv, RotationInv, NEW pc \in RunPc \ {"idle", "write", "sync"}, Goto(pc),
         UNCHANGED <<ledgerVars, disk, runs, unsynced>>,
         run.pc # "idle",
         pc \in {"create", "document", "nonce"} => run.nonce = 0,
         pc \in {"broadcast", "wait", "confirm"} => run.nonce \in Nonce,
         pc = "confirm" => Rotating(run) \in done,
         pc \in Committed => run.pc \in Committed
  PROVE  RotationInv'
  <1> DEFINE r == [run EXCEPT !.pc = pc]
  <1>1. r \in RunFields /\ r.pc = pc /\ r.new = run.new /\ Reports(r)
    BY GotoFacts
  <1>2. run' = r
    BY DEF Goto
  <1>3. r.pc \in Committed => Kept(r.new.key)
    BY <1>1 DEF RotationInv, KeyInv
  <1> HIDE DEF r
  <1> QED BY <1>1, <1>2, <1>3, QuietRunKeeps

\* The steps on the file of the new key.
LEMMA FilesKeep ==
  ASSUME LedgerInv, RotationInv, CreateFile \/ WriteFile \/ SyncFile
  PROVE  RotationInv'
  <1>1. /\ run \in RunFields /\ run.new.key \in Key
        /\ disk \in [Key -> FileState] /\ unsynced \subseteq Key /\ runs \in 0 .. MaxRuns
    BY DEF RotationInv, RotationTypeOK, RunFields, Document
  <1>2. ASSUME CreateFile, Tell("error"), UNCHANGED disk
        PROVE  RotationInv'
    <2>1. UNCHANGED <<ledgerVars, disk, runs, unsynced>> /\ run.pc # "idle"
      BY <1>2 DEF CreateFile
    <2> QED BY <1>2, <2>1, TellKeeps DEF Report
  <1>3. ASSUME NEW pc \in {"write", "sync", "document"}, NEW state \in FileState,
               Goto(pc), UNCHANGED ledgerVars, UNCHANGED <<runs, unsynced>>,
               disk' = [disk EXCEPT ![run.new.key] = state],
               run.pc \in {"create", "write", "sync"},
               disk[run.new.key] \notin {"synced", "kept"},
               pc = "write" => state = "created",
               pc = "sync" => state = "written",
               pc = "document" => state = "synced"
        PROVE  RotationInv'
    <2> DEFINE r == [run EXCEPT !.pc = pc]
    <2>1. r \in RunFields /\ r.pc = pc /\ r.new = run.new /\ Reports(r)
      <3>1. run.nonce = 0 /\ run.pc # "idle"
        BY <1>3 DEF RotationInv, ReportInv, Reports
      <3> QED BY <3>1, GotoFacts DEF RunPc
    <2>2. run' = r
      BY <1>3 DEF Goto
    <2> HIDE DEF r
    <2>3. /\ disk' \in [Key -> FileState] /\ unsynced' \subseteq Key /\ runs' \in 0 .. MaxRuns
          /\ disk'[run.new.key] = state
          /\ \A k \in Key : k # run.new.key => disk'[k] = disk[k]
      BY <1>1, <1>3
    <2>4. \A k \in Key : Kept(k) => Kept(k)'
      BY <1>3, <2>3 DEF Kept
    <2>5. r.pc \in Committed => disk'[r.new.key] \in {"synced", "kept"} \/ r.new.key \in unsynced'
      BY <1>3, <2>1, <2>3 DEF Committed
    <2> QED BY <1>3, <2>1, <2>2, <2>3, <2>4, <2>5, RunKeeps
  <1>4. CASE CreateFile
    <2>1. CASE Tell("error") /\ UNCHANGED disk
      BY <1>2, <1>4, <2>1
    <2>2. CASE /\ disk[run.new.key] = "none"
               /\ disk' = [disk EXCEPT ![run.new.key] = "created"]
               /\ Goto("write")
      <3>1. UNCHANGED ledgerVars /\ UNCHANGED <<runs, unsynced>> /\ run.pc = "create"
        BY <1>4 DEF CreateFile
      <3> QED BY <2>2, <3>1, <1>3 DEF FileState
    <2> QED BY <1>4, <2>1, <2>2 DEF CreateFile
  <1>5. CASE WriteFile
    <2>1. /\ UNCHANGED ledgerVars /\ UNCHANGED <<runs, unsynced>> /\ run.pc = "write"
          /\ disk' = [disk EXCEPT ![run.new.key] = "written"] /\ Goto("sync")
      BY <1>5 DEF WriteFile
    <2>2. disk[run.new.key] = "created"
      BY <2>1 DEF RotationInv, KeyInv
    <2> QED BY <2>1, <2>2, <1>3 DEF FileState
  <1>6. CASE SyncFile
    <2>1. /\ UNCHANGED ledgerVars /\ UNCHANGED <<runs, unsynced>> /\ run.pc = "sync"
          /\ disk' = [disk EXCEPT ![run.new.key] = "synced"] /\ Goto("document")
      BY <1>6 DEF SyncFile
    <2>2. disk[run.new.key] = "written"
      BY <2>1 DEF RotationInv, KeyInv
    <2> QED BY <2>1, <2>2, <1>3 DEF FileState
  <1> QED BY <1>4, <1>5, <1>6

LEMMA ReadDocumentKeeps ==
  ASSUME LedgerInv, RotationInv, ReadDocument
  PROVE  RotationInv'
  <1>1. run.pc = "document" /\ UNCHANGED <<ledgerVars, disk, runs, unsynced>>
    BY DEF ReadDocument
  <1>2. CASE Goto("nonce")
    <2>1. run.nonce = 0
      BY <1>1 DEF RotationInv, ReportInv, Reports
    <2> QED BY <1>1, <1>2, <2>1, GotoKeeps DEF RunPc, Committed
  <1>3. CASE Tell("error")
    BY <1>1, <1>3, TellKeeps DEF Report
  <1> QED BY <1>2, <1>3 DEF ReadDocument

LEMMA TakeNonceKeeps ==
  ASSUME LedgerInv, RotationInv, TakeNonce
  PROVE  RotationInv'
  <1>1. run.pc = "nonce" /\ UNCHANGED <<ledgerVars, disk, runs, unsynced>>
    BY DEF TakeNonce
  <1>2. /\ run \in RunFields /\ run.nonce = 0 /\ run.report = "none"
        /\ run.alone => /\ Rotations \subseteq {Rotating(run)}
                        /\ doc = IF Rotating(run) \in done THEN run.new ELSE run.current
    BY <1>1 DEF RotationInv, RotationTypeOK, ReportInv, Reports
  <1>3. Rotating(run) \notin Tx
    BY <1>2, RotatingTx
  <1>4. run.alone => Rotations = {} /\ doc = run.current
    BY <1>2, <1>3 DEF LedgerInv, LedgerTypeOK, Rotations
  <1>5. Kept(run.new.key)
    BY <1>1 DEF RotationInv, KeyInv, Committed
  <1>6. ASSUME NEW n \in Free, run' = [run EXCEPT !.pc = "broadcast", !.nonce = n]
        PROVE  RotationInv'
    <2> DEFINE r == [run EXCEPT !.pc = "broadcast", !.nonce = n]
    <2>1. n \in Nonce /\ \A tx \in done \cup failed : tx.nonce # n
      BY FreeFacts
    <2>2. /\ r \in RunFields /\ r.pc = "broadcast" /\ r.new = run.new /\ r.current = run.current
          /\ r.nonce = n /\ r.report = run.report /\ r.alone = run.alone
      BY <1>2, <2>1 DEF RunFields, RunPc
    <2>3. Rotating(r).nonce = n
      BY <2>2, RotatingTx
    <2>4. Rotating(r) \notin done
      BY <2>1, <2>3
    <2>5. run' = r
      BY <1>6
    <2> HIDE DEF r
    <2>6. Reports(r)
      BY <1>2, <1>4, <2>1, <2>2, <2>4 DEF Reports
    <2> QED BY <1>1, <1>5, <2>2, <2>5, <2>6, QuietRunKeeps
  <1>7. CASE Tell("dry run")
    BY <1>1, <1>7, TellKeeps DEF Report
  <1>8. CASE Tell("error")
    BY <1>1, <1>8, TellKeeps DEF Report
  <1> QED BY <1>6, <1>7, <1>8 DEF TakeNonce

LEMMA WaitKeeps ==
  ASSUME LedgerInv, RotationInv, Wait
  PROVE  RotationInv'
  <1>1. run.pc = "wait" /\ UNCHANGED <<ledgerVars, disk, runs, unsynced>>
    BY DEF Wait
  <1>2. run.nonce \in Nonce
    BY <1>1 DEF RotationInv, ReportInv, Reports
  <1>3. CASE run.polls = MaxPolls /\ Tell("may still land")
    BY <1>1, <1>3, TellKeeps DEF Report
  <1>4. ASSUME run.polls # MaxPolls, Rotating(run) \in done, Goto("confirm")
        PROVE  RotationInv'
    BY <1>1, <1>2, <1>4, GotoKeeps DEF RunPc, Committed
  <1>5. ASSUME Rotating(run) \in failed, Tell("not rotated")
        PROVE  RotationInv'
    BY <1>1, <1>5, TellKeeps DEF Report
  <1>6. ASSUME run.polls # MaxPolls, run' = [run EXCEPT !.polls = @ + 1]
        PROVE  RotationInv'
    <2> DEFINE r == [run EXCEPT !.polls = @ + 1]
    <2>1. run \in RunFields
      BY DEF RotationInv, RotationTypeOK
    <2>2. run.polls + 1 \in 0 .. MaxPolls
      BY <1>6, <2>1, LedgerAssumption DEF RunFields
    <2>3. /\ r \in RunFields /\ r.pc = "wait" /\ r.new = run.new /\ r.current = run.current
          /\ r.nonce = run.nonce /\ r.report = run.report /\ r.alone = run.alone
      BY <1>1, <2>1, <2>2 DEF RunFields
    <2>4. Rotating(r) = Rotating(run)
      BY <2>3 DEF Rotating
    <2>5. run' = r
      BY <1>6
    <2> HIDE DEF r
    <2>6. Reports(r) /\ Kept(r.new.key)
      BY <1>1, <2>3, <2>4 DEF RotationInv, ReportInv, Reports, KeyInv, Committed
    <2> QED BY <1>1, <2>3, <2>5, <2>6, QuietRunKeeps
  <1> QED BY <1>3, <1>4, <1>5, <1>6 DEF Wait, Outcomes

LEMMA ConfirmKeeps ==
  ASSUME LedgerInv, RotationInv, Confirm
  PROVE  RotationInv'
  <1>1. run.pc = "confirm" /\ UNCHANGED <<ledgerVars, disk, runs, unsynced>>
    BY DEF Confirm
  <1>2. Rotating(run) \in done
    BY <1>1 DEF RotationInv, ReportInv, Reports
  <1>3. Tell("rotated") \/ Tell("unconfirmed")
    BY DEF Confirm
  <1> QED BY <1>1, <1>2, <1>3, TellKeeps DEF Report

\* The one step that may put an update in the pool.
LEMMA BroadcastUpdateKeeps ==
  ASSUME LedgerInv, RotationInv, BroadcastUpdate
  PROVE  LedgerInv' /\ RotationInv'
  <1> DEFINE tx == Rotating(run)
  <1>1. /\ run \in RunFields /\ run.pc = "broadcast" /\ run.nonce \in Nonce
        /\ run.report = "none" /\ UNCHANGED <<disk, runs, unsynced>>
    BY DEF RotationInv, RotationTypeOK, ReportInv, Reports, BroadcastUpdate
  <1>2. tx \in Tx /\ tx.to = run.new
    BY <1>1, RotatingTx
  <1>3. PICK told \in {"accepted", "refused", "unknown"} :
          Broadcast(tx, told) /\ IF told = "accepted" THEN Goto("wait") ELSE Tell("error")
    BY DEF BroadcastUpdate
  <1> HIDE DEF tx
  <1>4. LedgerInv' /\ UNCHANGED <<doc, docs, file, spent, done, failed>> /\ pool' \subseteq pool \cup {tx}
    BY <1>2, <1>3, BroadcastFacts
  <1>5. PICK r \in RunFields :
          /\ run' = r
          /\ \/ /\ r.pc = "wait" /\ r.new = run.new /\ r.current = run.current
                /\ r.nonce = run.nonce /\ r.alone = run.alone /\ r.report = "none"
             \/ r.pc = "idle" /\ ~r.alone /\ Reports(r)
    <2>1. CASE Goto("wait")
      <3>1. run' = [run EXCEPT !.pc = "wait"]
        BY <2>1 DEF Goto
      <3> QED BY <1>1, <3>1 DEF RunFields, RunPc
    <2>2. CASE Tell("error")
      <3>1. run' = [NoRun EXCEPT !.report = "error"]
        BY <2>2 DEF Tell
      <3>2. "error" \in Report \ {"rotated", "not rotated"}
        BY DEF Report
      <3> QED BY <3>1, <3>2, ToldFacts
    <2> QED BY <1>3, <2>1, <2>2
  <1>6. RotationTypeOK'
    BY <1>1, <1>5 DEF RotationInv, RotationTypeOK
  <1>7. KeyInv'
    <2>1. Kept(run.new.key)
      BY <1>1 DEF RotationInv, KeyInv, Committed
    <2>2. NeverBricked'
      <3>1. Kept(doc.key) /\ \A x \in pool' : x.kind = "rotate" => Kept(x.to.key)
        BY <1>2, <1>4, <2>1, KeyFacts DEF RotationInv
      <3> QED BY <1>1, <1>4, <3>1 DEF NeverBricked, Kept, Rotations
    <2> QED BY <1>1, <1>5, <2>1, <2>2 DEF KeyInv, Kept, Committed
  <1>8. ReportInv'
    <2>1. CASE r.pc = "wait"
      <3>1. Rotating(r) = tx
        BY <1>5, <2>1 DEF Rotating, tx
      <3>2. run.alone => /\ Rotations' \subseteq {tx}
                         /\ doc = IF tx \in done THEN run.new ELSE run.current
        BY <1>4 DEF RotationInv, ReportInv, Reports, Rotations, tx
      <3>3. Reports(r)'
        BY <1>1, <1>4, <1>5, <2>1, <3>1, <3>2 DEF Reports
      <3> QED BY <1>5, <3>3 DEF ReportInv
    <2>2. CASE r.pc = "idle" /\ ~r.alone /\ Reports(r)
      <3>1. Reports(r)'
        BY <1>4, <2>2 DEF Reports
      <3> QED BY <1>5, <3>1 DEF ReportInv
    <2> QED BY <1>5, <2>1, <2>2
  <1> QED BY <1>4, <1>6, <1>7, <1>8 DEF RotationInv

LEMMA DirectoryWrittenKeeps ==
  ASSUME LedgerInv, RotationInv, DirectoryWritten
  PROVE  RotationInv'
  <1>1. PICK k \in Key : disk[k] = "synced" /\ disk' = [disk EXCEPT ![k] = "kept"]
    BY DEF DirectoryWritten
  <1>2. UNCHANGED ledgerVars /\ run' = run /\ UNCHANGED <<runs, unsynced>>
    BY DEF DirectoryWritten
  <1>3. /\ run \in RunFields /\ runs' \in 0 .. MaxRuns /\ unsynced' \subseteq Key
        /\ disk \in [Key -> FileState] /\ run.new.key \in Key
    BY <1>2 DEF RotationInv, RotationTypeOK, RunFields, Document
  <1>4. disk' \in [Key -> FileState]
    BY <1>1, <1>3 DEF FileState
  <1>5. \A x \in Key : disk'[x] = disk[x] \/ (disk[x] = "synced" /\ disk'[x] = "kept")
    BY <1>1, <1>3
  <1>6. \A x \in Key : Kept(x) => Kept(x)'
    BY <1>2, <1>5 DEF Kept
  <1>7. /\ run.pc = "write" => disk'[run.new.key] = "created"
        /\ run.pc = "sync" => disk'[run.new.key] = "written"
    <2>1. /\ run.pc = "write" => disk[run.new.key] = "created"
          /\ run.pc = "sync" => disk[run.new.key] = "written"
      BY DEF RotationInv, KeyInv
    <2>2. \/ disk'[run.new.key] = disk[run.new.key]
          \/ disk[run.new.key] = "synced"
      BY <1>3, <1>5
    <2> QED BY <2>1, <2>2
  <1>8. run.pc \in Committed => disk'[run.new.key] \in {"synced", "kept"} \/ run.new.key \in unsynced'
    BY <1>3, <1>6 DEF RotationInv, KeyInv, Kept
  <1>9. Reports(run)
    BY DEF RotationInv, ReportInv
  <1> QED BY <1>2, <1>3, <1>4, <1>6, <1>7, <1>8, <1>9, RunKeeps

LEMMA StopsKeep ==
  ASSUME LedgerInv, RotationInv, ToolStops \/ MachineStops
  PROVE  RotationInv'
  <1>1. CASE ToolStops
    <2>1. UNCHANGED <<ledgerVars, disk, runs, unsynced>> /\ run' = NoRun
      BY <1>1 DEF ToolStops
    <2> QED BY <2>1, NoRunFacts, QuietRunKeeps DEF Committed
  <1>2. CASE MachineStops
    <2>1. PICK emptied \in SUBSET { k \in Key : disk[k] = "written" },
               gone \in SUBSET { k \in Key : disk[k] \in {"created", "written", "synced"} } :
            /\ disk' = [k \in Key |-> IF k \in gone THEN "none"
                                    ELSE IF k \in emptied THEN "created" ELSE disk[k]]
            /\ unsynced' = unsynced \cup { k \in gone : disk[k] = "synced" }
      BY <1>2 DEF MachineStops
    <2>2. UNCHANGED ledgerVars /\ UNCHANGED runs /\ run' = NoRun
      BY <1>2 DEF MachineStops
    <2>3. /\ runs' \in 0 .. MaxRuns /\ unsynced' \subseteq Key
          /\ disk' \in [Key -> FileState]
      BY <2>1, <2>2 DEF RotationInv, RotationTypeOK, FileState
    <2>4. \A k \in Key : Kept(k) => Kept(k)'
      BY <2>1, <2>2 DEF Kept
    <2> QED BY <2>2, <2>3, <2>4, NoRunFacts, RunKeeps DEF Committed
  <1> QED BY <1>1, <1>2

LEMMA RotationStepKeeps ==
  ASSUME LedgerInv, RotationInv, RotationStep
  PROVE  LedgerInv' /\ RotationInv'
  <1>1. CASE BroadcastUpdate
    BY <1>1, BroadcastUpdateKeeps
  <1>2. CASE ~BroadcastUpdate
    <2>1. RotationInv'
      BY <1>2, StartKeeps, FilesKeep, ReadDocumentKeeps, TakeNonceKeeps, WaitKeeps, ConfirmKeeps,
         DirectoryWrittenKeeps, StopsKeep DEF RotationStep
    <2>2. UNCHANGED ledgerVars
      BY <1>2 DEF RotationStep, Start, CreateFile, WriteFile, SyncFile, ReadDocument, TakeNonce,
         Wait, Confirm, DirectoryWritten, ToolStops, MachineStops
    <2>3. LedgerInv'
      BY <2>2 DEF ledgerVars, LedgerInv, LedgerTypeOK
    <2> QED BY <2>1, <2>3
  <1> QED BY <1>1, <1>2

-----------------------------------------------------------------------------
(* The file *)

\* What the operation of a client, made r, has come to.
Placed(r) ==
  /\ r.pc \in {"submit", "wait", "send", "stored"} => r.version \in Version
  /\ r.pc = "wait" => r.nonce \in Nonce
  /\ r.pc \in {"submit", "wait"} => r.next = 1
  /\ r.pc = "send" => r.next <= Chunks
  /\ r.pc \in {"send", "stored"} => Manifest(r) \in done

\* The chunks an upload has sent, while its manifest is the one on chain, are there.
Held(r) ==
  file = Manifest(r) =>
    /\ r.pc = "send" => \A i \in 1 .. r.next - 1 : <<r.version, i>> \in stored
    /\ r.pc = "stored" => \A i \in 1 .. Chunks : <<r.version, i>> \in stored

FileInv ==
  /\ FileTypeOK
  /\ ChunksFollowManifest
  /\ \A c \in Client : Placed(client[c]) /\ Held(client[c])

\* The chain goes on: a manifest that was executed is not executed again, so no
\* upload finds its manifest put back after a node has dropped its chunks.
LEMMA ExecuteKeepsFile ==
  ASSUME LedgerInv, FileInv, NEW tx \in pool, Execute(tx), UNCHANGED fileVars
  PROVE  FileInv'
  <1>1. UNCHANGED <<stored, client, uses>> /\ done \subseteq done'
    BY DEF fileVars, Execute
  <1>2. FileTypeOK'
    BY <1>1 DEF FileInv, FileTypeOK
  <1>3. ChunksFollowManifest'
    BY <1>1 DEF FileInv, ChunksFollowManifest
  <1>4. ASSUME NEW c \in Client
        PROVE  (Placed(client[c]) /\ Held(client[c]))'
    <2>1. Placed(client[c])'
      BY <1>1 DEF FileInv, Placed, Manifest
    <2>2. client[c].pc \in {"send", "stored"} => Manifest(client[c]) \notin pool
      BY DEF FileInv, Placed, LedgerInv
    <2>3. file' = file \/ file' = NoFile \/ file' = tx
      BY DEF Execute
    <2>4. Manifest(client[c]) # NoFile \/ client[c].pc \notin {"send", "stored"}
      <3>1. NoFile \notin Tx
        BY LedgerAssumption DEF LedgerAssumption
      <3> QED BY <3>1 DEF FileInv, Placed, LedgerInv, LedgerTypeOK
    <2>5. Held(client[c])'
      <3>1. client'[c] = client[c]
        BY <1>1
      <3>2. client[c].pc \in {"send", "stored"} /\ file' = Manifest(client[c]) => file = Manifest(client[c])
        BY <2>2, <2>3, <2>4
      <3> QED BY <1>1, <3>1, <3>2 DEF FileInv, Held, Manifest
    <2> QED BY <2>1, <2>5
  <1> QED BY <1>2, <1>3, <1>4 DEF FileInv

\* The steps of the others leave the file's transactions in blocks alone.
LEMMA OthersKeepFile ==
  ASSUME FileInv, UNCHANGED fileVars, UNCHANGED <<file, done>>
  PROVE  FileInv'
  <1>1. UNCHANGED <<stored, client, uses>>
    BY DEF fileVars
  <1>2. FileTypeOK' /\ ChunksFollowManifest'
    BY <1>1 DEF FileInv, FileTypeOK, ChunksFollowManifest
  <1>3. \A c \in Client : (Placed(client[c]) /\ Held(client[c]))'
    BY <1>1 DEF FileInv, Placed, Held, Manifest
  <1> QED BY <1>2, <1>3 DEF FileInv

\* A step of client c, that makes its operation r.
LEMMA ClientKeeps ==
  ASSUME FileInv, NEW c \in Client, NEW r \in ClientFields, Becomes(c, r),
         UNCHANGED <<file, done>>,
         stored \subseteq stored', stored' \subseteq Version \X (1 .. Chunks),
         uses' \in 0 .. MaxUses,
         \A chunk \in stored' \ stored : \E tx \in done : tx.kind = "manifest" /\ tx.file = chunk[1],
         Placed(r), Held(r)'
  PROVE  FileInv'
  <1>1. /\ client' \in [Client -> ClientFields] /\ client'[c] = r
        /\ \A d \in Client : d # c => client'[d] = client[d]
    BY DEF FileInv, FileTypeOK, Becomes
  <1>2. FileTypeOK'
    BY <1>1 DEF FileTypeOK
  <1>3. ChunksFollowManifest'
    BY DEF FileInv, ChunksFollowManifest
  <1>4. ASSUME NEW d \in Client
        PROVE  (Placed(client[d]) /\ Held(client[d]))'
    <2>1. CASE d = c
      <3>1. Placed(r)'
        BY DEF Placed
      <3> QED BY <1>1, <2>1, <3>1 DEF Placed, Held, Manifest
    <2>2. CASE d # c
      BY <1>1, <2>2 DEF FileInv, Placed, Held, Manifest
    <2> QED BY <2>1, <2>2
  <1> QED BY <1>2, <1>3, <1>4 DEF FileInv

LEMMA NoUseFacts ==
  /\ NoUse \in ClientFields /\ NoUse.pc = "idle"
  /\ [NoUse EXCEPT !.pc = "failed"] \in ClientFields
  /\ [NoUse EXCEPT !.pc = "failed"].pc = "failed"
  <1>1. FirstDoc \in Document /\ 1 \in 1 .. Chunks + 1
    BY LedgerAssumption, FileAssumption DEF LedgerAssumption
  <1>2. NoUse \in ClientFields /\ NoUse.pc = "idle"
    BY <1>1, PollsFacts DEF NoUse, ClientFields, ClientPc
  <1> QED BY <1>2 DEF ClientFields, ClientPc

\* A step that does not touch the chunks.
LEMMA QuietClientKeeps ==
  ASSUME FileInv, NEW c \in Client, NEW r \in ClientFields, Becomes(c, r),
         UNCHANGED <<file, done, stored>>, uses' \in 0 .. MaxUses,
         Placed(r), Held(r)
  PROVE  FileInv'
  <1>1. /\ stored \subseteq stored' /\ stored' \subseteq Version \X (1 .. Chunks)
        /\ stored' \ stored = {}
    BY DEF FileInv, FileTypeOK
  <1>2. Held(r)'
    BY DEF Held
  <1> QED BY <1>1, <1>2, ClientKeeps

LEMMA FailsKeeps ==
  ASSUME FileInv, NEW c \in Client, Fails(c) \/ Becomes(c, NoUse),
         UNCHANGED <<file, done, stored>>, uses' \in 0 .. MaxUses
  PROVE  FileInv'
  <1>1. PICK r \in ClientFields : Becomes(c, r) /\ r.pc \in {"idle", "failed"}
    BY NoUseFacts DEF Fails
  <1>2. Placed(r) /\ Held(r)
    BY <1>1 DEF Placed, Held
  <1> QED BY <1>1, <1>2, QuietClientKeeps

LEMMA BeginFacts ==
  ASSUME FileInv, NEW c \in Client, Begin(c)
  PROVE  uses' \in 0 .. MaxUses
  BY FileAssumption DEF FileInv, FileTypeOK, Begin

LEMMA UploadKeeps ==
  ASSUME LedgerInv, FileInv, NEW c \in Client, NEW version \in Version, NEW by \in docs,
         Upload(c, version, by)
  PROVE  FileInv'
  <1> DEFINE r == [NoUse EXCEPT !.pc = "submit", !.version = version, !.by = by]
  <1>1. uses' \in 0 .. MaxUses /\ UNCHANGED <<file, done, stored>>
    BY BeginFacts DEF Upload, ledgerVars
  <1>2. by \in Document
    BY DEF LedgerInv, LedgerTypeOK
  <1>3. r \in ClientFields /\ r.pc = "submit" /\ r.version = version
    BY <1>2, NoUseFacts DEF ClientFields, ClientPc
  <1>4. r.next = 1
    BY DEF NoUse
  <1>5. Becomes(c, r)
    BY DEF Upload
  <1> HIDE DEF r
  <1>6. Placed(r) /\ Held(r)
    BY <1>3, <1>4 DEF Placed, Held
  <1> QED BY <1>1, <1>3, <1>5, <1>6, QuietClientKeeps

LEMMA SubmitManifestKeeps ==
  ASSUME LedgerInv, RotationInv, FileInv, NEW c \in Client, SubmitManifest(c), UNCHANGED rotationVars
  PROVE  LedgerInv' /\ RotationInv' /\ FileInv'
  <1>1. /\ client[c] \in ClientFields /\ client[c].pc = "submit" /\ client[c].version \in Version
        /\ client[c].next = 1
    BY DEF FileInv, FileTypeOK, Placed, SubmitManifest, At
  <1>2. PICK n \in Free : \E told \in {"accepted", "refused", "unknown"} :
          /\ Broadcast(Manifest([client[c] EXCEPT !.nonce = n]), told)
          /\ IF told = "accepted" THEN Becomes(c, [[client[c] EXCEPT !.nonce = n] EXCEPT !.pc = "wait"])
             ELSE Fails(c)
    BY DEF SubmitManifest
  <1>3. PICK told \in {"accepted", "refused", "unknown"} :
          /\ Broadcast(Manifest([client[c] EXCEPT !.nonce = n]), told)
          /\ IF told = "accepted" THEN Becomes(c, [[client[c] EXCEPT !.nonce = n] EXCEPT !.pc = "wait"])
             ELSE Fails(c)
    BY <1>2
  <1> DEFINE q == [client[c] EXCEPT !.nonce = n]
             r == [q EXCEPT !.pc = "wait"]
             tx == Manifest(q)
  <1>4. q \in ClientFields /\ q.nonce \in Nonce /\ q.version \in Version /\ q.next = 1
    BY <1>1, FreeFacts DEF ClientFields
  <1>5. r \in ClientFields /\ r.pc = "wait" /\ r.nonce \in Nonce /\ r.version \in Version /\ r.next = 1
    BY <1>4 DEF ClientFields, ClientPc
  <1>6. Broadcast(tx, told) /\ (Becomes(c, r) \/ Fails(c))
    BY <1>3
  <1> HIDE DEF q, r
  <1>7. tx \in Tx /\ tx.kind = "manifest"
    BY <1>4, ManifestTx
  <1> HIDE DEF tx
  <1>8. LedgerInv' /\ UNCHANGED <<doc, docs, file, spent, done, failed>> /\ pool' \subseteq pool \cup {tx}
    BY <1>6, <1>7, BroadcastFacts
  <1>9. RotationInv'
    BY <1>7, <1>8, OthersKeepRotation
  <1>10. UNCHANGED <<file, done, stored>> /\ uses' \in 0 .. MaxUses
    BY <1>8 DEF SubmitManifest, FileInv, FileTypeOK
  <1>11. Placed(r) /\ Held(r)
    BY <1>5, FileAssumption DEF Placed, Held
  <1>12. FileInv'
    BY <1>5, <1>6, <1>10, <1>11, QuietClientKeeps, FailsKeeps
  <1> QED BY <1>8, <1>9, <1>12

LEMMA WaitForManifestKeeps ==
  ASSUME FileInv, NEW c \in Client, WaitForManifest(c)
  PROVE  FileInv'
  <1>1. /\ client[c] \in ClientFields /\ client[c].pc = "wait" /\ client[c].next = 1
        /\ client[c].version \in Version /\ client[c].nonce \in Nonce
    BY DEF FileInv, FileTypeOK, Placed, WaitForManifest, At
  <1>2. UNCHANGED <<file, done, stored>> /\ uses' \in 0 .. MaxUses
    BY DEF WaitForManifest, ledgerVars, FileInv, FileTypeOK
  <1>3. CASE Fails(c)
    BY <1>2, <1>3, FailsKeeps
  <1>4. ASSUME Manifest(client[c]) \in done, End(c, "send")
        PROVE  FileInv'
    <2> DEFINE r == [client[c] EXCEPT !.pc = "send", !.polls = 0]
    <2>1. /\ r \in ClientFields /\ r.pc = "send" /\ r.version = client[c].version /\ r.next = 1
          /\ r.nonce = client[c].nonce /\ r.by = client[c].by
      BY <1>1, PollsFacts DEF ClientFields, ClientPc
    <2>2. Becomes(c, r)
      BY <1>4 DEF End
    <2> HIDE DEF r
    <2>3. Manifest(r) = Manifest(client[c])
      BY <2>1 DEF Manifest
    <2>4. Placed(r)
      BY <1>1, <1>4, <2>1, <2>3, FileAssumption DEF Placed
    <2>5. Held(r)
      BY <2>1 DEF Held
    <2> QED BY <1>2, <2>1, <2>2, <2>4, <2>5, QuietClientKeeps
  <1>5. ASSUME client[c].polls # MaxPolls, Becomes(c, [client[c] EXCEPT !.polls = @ + 1])
        PROVE  FileInv'
    <2> DEFINE r == [client[c] EXCEPT !.polls = @ + 1]
    <2>1. client[c].polls + 1 \in 0 .. MaxPolls
      <3>1. MaxPolls \in Nat
        BY LedgerAssumption DEF LedgerAssumption
      <3>2. client[c].polls \in 0 .. MaxPolls
        BY <1>1 DEF ClientFields
      <3> QED BY <1>5, <3>1, <3>2
    <2>2. /\ r \in ClientFields /\ r.pc = "wait" /\ r.version = client[c].version /\ r.next = 1
          /\ r.nonce = client[c].nonce
      BY <1>1, <2>1 DEF ClientFields
    <2>3. Becomes(c, r)
      BY <1>5
    <2> HIDE DEF r
    <2>4. Placed(r) /\ Held(r)
      BY <1>1, <2>2 DEF Placed, Held
    <2> QED BY <1>2, <2>2, <2>3, <2>4, QuietClientKeeps
  <1> QED BY <1>3, <1>4, <1>5 DEF WaitForManifest, Outcomes

LEMMA SendChunkKeeps ==
  ASSUME FileInv, NEW c \in Client, SendChunk(c)
  PROVE  FileInv'
  <1> DEFINE q == client[c]
             chunk == <<q.version, q.next>>
  <1>1. /\ q \in ClientFields /\ q.pc = "send" /\ q.version \in Version
        /\ q.next \in 1 .. Chunks /\ Manifest(q) \in done
    BY DEF FileInv, FileTypeOK, Placed, SendChunk, At, ClientFields
  <1>2. PICK told \in BOOLEAN :
          /\ Becomes(c, AfterChunk(q, told))
          /\ stored' = stored \/ stored' = stored \cup {chunk}
          /\ told => stored' = stored \cup {chunk}
    BY DEF SendChunk
  <1>3. UNCHANGED <<file, done>> /\ uses' \in 0 .. MaxUses
    BY DEF SendChunk, ledgerVars, FileInv, FileTypeOK
  <1>4. /\ stored \subseteq stored' /\ stored' \subseteq Version \X (1 .. Chunks)
        /\ \A x \in stored' \ stored : \E tx \in done : tx.kind = "manifest" /\ tx.file = x[1]
    <2>1. chunk \in Version \X (1 .. Chunks)
      BY <1>1
    <2>2. Manifest(q).kind = "manifest" /\ Manifest(q).file = chunk[1]
      BY DEF Manifest
    <2> QED BY <1>1, <1>2, <2>1, <2>2 DEF FileInv, FileTypeOK
  <1>5. CASE ~told
    <2>1. Becomes(c, [NoUse EXCEPT !.pc = "failed"])
      BY <1>2, <1>5 DEF AfterChunk
    <2> DEFINE r == [NoUse EXCEPT !.pc = "failed"]
    <2>2. r \in ClientFields /\ r.pc = "failed" /\ Becomes(c, r) /\ r' = r
      BY <2>1, NoUseFacts DEF NoUse
    <2> HIDE DEF r
    <2>3. Placed(r) /\ Held(r)'
      BY <2>2 DEF Placed, Held
    <2> QED BY <1>3, <1>4, <2>2, <2>3, ClientKeeps
  <1>6. CASE told
    <2>1. PICK r \in ClientFields :
            /\ Becomes(c, r)
            /\ r.version = q.version /\ r.nonce = q.nonce /\ r.by = q.by
            /\ \/ q.next = Chunks /\ r.pc = "stored"
               \/ q.next # Chunks /\ r.pc = "send" /\ r.next = q.next + 1
      <3>1. CASE q.next = Chunks
        <4> DEFINE r == [q EXCEPT !.pc = "stored"]
        <4>1. /\ r \in ClientFields /\ r.pc = "stored"
              /\ r.version = q.version /\ r.nonce = q.nonce /\ r.by = q.by
          BY <1>1 DEF ClientFields, ClientPc
        <4>2. Becomes(c, r)
          BY <1>2, <1>6, <3>1 DEF AfterChunk
        <4> QED BY <3>1, <4>1, <4>2
      <3>2. CASE q.next # Chunks
        <4> DEFINE r == [q EXCEPT !.next = @ + 1]
        <4>1. q.next + 1 \in 1 .. Chunks + 1
          BY <1>1, FileAssumption
        <4>2. /\ r \in ClientFields /\ r.pc = "send" /\ r.next = q.next + 1
              /\ r.version = q.version /\ r.nonce = q.nonce /\ r.by = q.by
          BY <1>1, <4>1 DEF ClientFields
        <4>3. Becomes(c, r)
          BY <1>2, <1>6, <3>2 DEF AfterChunk
        <4> QED BY <3>2, <4>2, <4>3
      <3> QED BY <3>1, <3>2
    <2>2. Manifest(r) = Manifest(q)
      BY <2>1 DEF Manifest
    <2>3. Placed(r)
      BY <1>1, <2>1, <2>2, FileAssumption DEF Placed
    <2>4. Held(r)'
      <3>1. file = Manifest(q) => \A i \in 1 .. q.next - 1 : <<q.version, i>> \in stored
        BY <1>1 DEF FileInv, Held
      <3>2. file = Manifest(q) => \A i \in 1 .. q.next : <<q.version, i>> \in stored'
        BY <1>1, <1>2, <1>6, <3>1
      <3> QED BY <1>1, <1>3, <2>1, <2>2, <3>2 DEF Held
    <2> HIDE DEF q
    <2> QED BY <1>3, <1>4, <2>1, <2>3, <2>4, ClientKeeps
  <1> QED BY <1>5, <1>6

\* A download, or an upload that does not get to send its manifest.
LEMMA ReadsKeep ==
  ASSUME FileInv, NEW c \in Client, NotSubmitted(c) \/ ReadManifest(c) \/ FetchChunk(c)
  PROVE  FileInv'
  <1>1. UNCHANGED <<file, done, stored>> /\ uses' \in 0 .. MaxUses
    BY BeginFacts DEF NotSubmitted, ReadManifest, FetchChunk, ledgerVars, FileInv, FileTypeOK
  <1>2. CASE Fails(c)
    BY <1>1, <1>2, FailsKeeps
  <1>3. ASSUME NEW r \in ClientFields, Becomes(c, r), r.pc \in {"fetch", "fetched"}
        PROVE  FileInv'
    <2>1. Placed(r) /\ Held(r)
      BY <1>3 DEF Placed, Held
    <2> QED BY <1>1, <1>3, <2>1, QuietClientKeeps
  <1>4. ASSUME NEW version \in Version, Becomes(c, [NoUse EXCEPT !.pc = "fetch", !.version = version])
        PROVE  FileInv'
    <2> DEFINE r == [NoUse EXCEPT !.pc = "fetch", !.version = version]
    <2>1. r \in ClientFields /\ r.pc = "fetch"
      BY NoUseFacts DEF ClientFields, ClientPc
    <2>2. Becomes(c, r)
      BY <1>4
    <2> HIDE DEF r
    <2> QED BY <2>1, <2>2, <1>3
  <1>5. CASE FetchChunk(c) /\ ~Fails(c)
    <2>1. PICK right \in BOOLEAN :
            LET r == [client[c] EXCEPT !.whole = @ /\ right]
            IN \/ r.next < Chunks /\ Becomes(c, [r EXCEPT !.next = @ + 1])
               \/ Becomes(c, [r EXCEPT !.pc = "fetched"])
      BY <1>5 DEF FetchChunk
    <2> DEFINE r == [client[c] EXCEPT !.whole = @ /\ right]
    <2>2. client[c] \in ClientFields /\ client[c].pc = "fetch"
      BY <1>5 DEF FileInv, FileTypeOK, FetchChunk, At
    <2>3. r \in ClientFields /\ r.pc = "fetch"
      BY <2>2 DEF ClientFields
    <2>4. (r.next < Chunks /\ Becomes(c, [r EXCEPT !.next = @ + 1])) \/ Becomes(c, [r EXCEPT !.pc = "fetched"])
      BY <2>1
    <2> HIDE DEF r
    <2>5. CASE r.next < Chunks /\ Becomes(c, [r EXCEPT !.next = @ + 1])
      <3>1. r.next + 1 \in 1 .. Chunks + 1
        BY <2>3, <2>5, FileAssumption DEF ClientFields
      <3>2. [r EXCEPT !.next = @ + 1] \in ClientFields /\ [r EXCEPT !.next = @ + 1].pc = "fetch"
        BY <2>3, <3>1 DEF ClientFields
      <3> QED BY <2>5, <3>2, <1>3
    <2>6. CASE Becomes(c, [r EXCEPT !.pc = "fetched"])
      <3>1. [r EXCEPT !.pc = "fetched"] \in ClientFields /\ [r EXCEPT !.pc = "fetched"].pc = "fetched"
        BY <2>3 DEF ClientFields, ClientPc
      <3> QED BY <2>6, <3>1, <1>3
    <2> QED BY <2>4, <2>5, <2>6
  <1> QED BY <1>2, <1>4, <1>5 DEF NotSubmitted, ReadManifest, ManifestsServed

LEMMA DeleteKeeps ==
  ASSUME LedgerInv, RotationInv, FileInv, NEW c \in Client, NEW by \in docs, Delete(c, by),
         UNCHANGED rotationVars
  PROVE  LedgerInv' /\ RotationInv' /\ FileInv'
  <1>1. PICK n \in Free : \E told \in {"accepted", "refused", "unknown"} :
          Broadcast([kind |-> "delete", nonce |-> n, by |-> by], told)
    BY DEF Delete
  <1>2. PICK told \in {"accepted", "refused", "unknown"} :
          Broadcast([kind |-> "delete", nonce |-> n, by |-> by], told)
    BY <1>1
  <1> DEFINE tx == [kind |-> "delete", nonce |-> n, by |-> by]
  <1>3. tx \in Tx /\ tx.kind = "delete"
    <2>1. by \in Document
      BY DEF LedgerInv, LedgerTypeOK
    <2> QED BY <2>1, FreeFacts, DeletionTx
  <1>4. Broadcast(tx, told)
    BY <1>2
  <1> HIDE DEF tx
  <1>5. LedgerInv' /\ UNCHANGED <<doc, docs, file, spent, done, failed>> /\ pool' \subseteq pool \cup {tx}
    BY <1>3, <1>4, BroadcastFacts
  <1>6. RotationInv'
    BY <1>3, <1>5, OthersKeepRotation
  <1>7. FileInv'
    BY <1>5, BeginFacts, FailsKeeps DEF Delete
  <1> QED BY <1>5, <1>6, <1>7

\* A node drops no chunk of the version of the manifest on chain.
LEMMA DropChunksKeeps ==
  ASSUME LedgerInv, FileInv, DropChunks
  PROVE  FileInv'
  <1>1. PICK S \in SUBSET stored : /\ \A chunk \in S : file # NoFile => chunk[1] # file.file
                                   /\ stored' = stored \ S
    BY DEF DropChunks
  <1>2. UNCHANGED <<file, done, client, uses>>
    BY DEF DropChunks, ledgerVars
  <1>3. FileTypeOK' /\ ChunksFollowManifest'
    BY <1>1, <1>2 DEF FileInv, FileTypeOK, ChunksFollowManifest
  <1>4. ASSUME NEW c \in Client
        PROVE  (Placed(client[c]) /\ Held(client[c]))'
    <2>1. Placed(client[c])'
      BY <1>2 DEF FileInv, Placed, Manifest
    <2>2. CASE client[c].pc \in {"send", "stored"} /\ file = Manifest(client[c])
      <3>1. file # NoFile
        <4>1. NoFile \notin Tx /\ file \in Tx
          BY <2>2, LedgerAssumption DEF LedgerAssumption, FileInv, Placed, LedgerInv, LedgerTypeOK
        <4> QED BY <4>1
      <3>2. file.file = client[c].version
        BY <2>2 DEF Manifest
      <3>3. \A i : <<client[c].version, i>> \in stored => <<client[c].version, i>> \in stored'
        BY <1>1, <3>1, <3>2
      <3> QED BY <1>2, <2>1, <3>3 DEF FileInv, Held, Manifest
    <2>3. CASE ~(client[c].pc \in {"send", "stored"} /\ file = Manifest(client[c]))
      BY <1>2, <2>1, <2>3 DEF Held, Manifest
    <2> QED BY <2>2, <2>3
  <1> QED BY <1>3, <1>4 DEF FileInv

-----------------------------------------------------------------------------
(* The operations together *)

OperationsInv == LedgerInv /\ RotationInv /\ FileInv

LEMMA InitOperations == OperationsInit => OperationsInv
  <1> SUFFICES ASSUME OperationsInit PROVE OperationsInv
    OBVIOUS
  <1>1. FirstDoc \in Document
    BY LedgerAssumption DEF LedgerAssumption
  <1>2. LedgerInv
    BY <1>1 DEF OperationsInit, LedgerInit, LedgerInv, LedgerTypeOK
  <1>3. RotationInv
    <2>1. RotationTypeOK
      BY NoRunFacts, RotationAssumption DEF OperationsInit, RotationInit, RotationTypeOK, FileState
    <2>2. KeyInv
      BY <1>1, NoRunFacts DEF Document, OperationsInit, RotationInit, LedgerInit, KeyInv, NeverBricked,
         Rotations, Kept, Committed
    <2>3. ReportInv
      BY NoRunFacts DEF OperationsInit, RotationInit, ReportInv
    <2> QED BY <2>1, <2>2, <2>3 DEF RotationInv
  <1>4. FileInv
    <2>1. FileTypeOK
      BY NoUseFacts, FileAssumption DEF OperationsInit, FileInit, FileTypeOK
    <2>2. ChunksFollowManifest
      BY DEF OperationsInit, FileInit, ChunksFollowManifest
    <2>3. \A c \in Client : client[c].pc = "idle"
      BY NoUseFacts DEF OperationsInit, FileInit
    <2> QED BY <2>1, <2>2, <2>3 DEF FileInv, Placed, Held
  <1> QED BY <1>2, <1>3, <1>4 DEF OperationsInv

LEMMA FileStepKeeps ==
  ASSUME OperationsInv, FileStep, UNCHANGED rotationVars
  PROVE  OperationsInv'
  <1>1. ASSUME NEW c \in Client, SubmitManifest(c)
        PROVE  OperationsInv'
    BY <1>1, SubmitManifestKeeps DEF OperationsInv
  <1>2. ASSUME NEW c \in Client, NEW by \in docs, Delete(c, by)
        PROVE  OperationsInv'
    BY <1>2, DeleteKeeps DEF OperationsInv
  <1>3. ASSUME FileInv', UNCHANGED ledgerVars
        PROVE  OperationsInv'
    <2>1. LedgerInv'
      BY <1>3 DEF OperationsInv, ledgerVars, LedgerInv, LedgerTypeOK
    <2>2. RotationInv'
      BY <1>3, OthersKeepRotation DEF OperationsInv, ledgerVars
    <2> QED BY <1>3, <2>1, <2>2 DEF OperationsInv
  <1>4. ASSUME NEW c \in Client, NEW version \in Version, NEW by \in docs, Upload(c, version, by)
        PROVE  OperationsInv'
    BY <1>3, <1>4, UploadKeeps DEF OperationsInv, Upload
  <1>5. ASSUME NEW c \in Client,
               \/ NotSubmitted(c) \/ WaitForManifest(c) \/ SendChunk(c)
               \/ ReadManifest(c) \/ FetchChunk(c)
        PROVE  OperationsInv'
    <2>1. UNCHANGED ledgerVars
      BY <1>5 DEF NotSubmitted, WaitForManifest, SendChunk, ReadManifest, FetchChunk
    <2>2. FileInv'
      BY <1>5, WaitForManifestKeeps, SendChunkKeeps, ReadsKeep DEF OperationsInv
    <2> QED BY <1>3, <2>1, <2>2
  <1>6. CASE DropChunks
    BY <1>3, <1>6, DropChunksKeeps DEF OperationsInv, DropChunks
  <1> QED BY <1>1, <1>2, <1>4, <1>5, <1>6 DEF FileStep

LEMMA NextOperations == OperationsInv /\ [OperationsNext]_vars => OperationsInv'
  <1> SUFFICES ASSUME OperationsInv, [OperationsNext]_vars PROVE OperationsInv'
    OBVIOUS
  <1>1. CASE Chain /\ UNCHANGED <<rotationVars, fileVars>>
    <2>1. UNCHANGED rotationVars /\ UNCHANGED fileVars
      BY <1>1
    <2>2. ASSUME NEW tx \in pool, Execute(tx)
          PROVE  OperationsInv'
      BY <2>1, <2>2, ExecuteKeepsLedger, ExecuteKeepsRotation, ExecuteKeepsFile DEF OperationsInv
    <2>3. ASSUME NEW tx \in pool, Evict(tx)
          PROVE  OperationsInv'
      <3>1. UNCHANGED <<doc, file, done, failed>> /\ pool' \subseteq pool
        BY <2>3 DEF Evict
      <3> QED BY <2>1, <2>3, <3>1, EvictKeepsLedger, OthersKeepRotation, OthersKeepFile DEF OperationsInv
    <2> QED BY <1>1, <2>2, <2>3 DEF Chain
  <1>2. CASE RotationStep /\ UNCHANGED fileVars
    <2>1. UNCHANGED <<file, done>>
      BY <1>2 DEF RotationStep, Start, CreateFile, WriteFile, SyncFile, ReadDocument, TakeNonce,
         BroadcastUpdate, Broadcast, Wait, Confirm, DirectoryWritten, ToolStops, MachineStops,
         ledgerVars
    <2> QED BY <1>2, <2>1, RotationStepKeeps, OthersKeepFile DEF OperationsInv
  <1>3. CASE FileStep /\ UNCHANGED rotationVars
    BY <1>3, FileStepKeeps
  <1>4. CASE UNCHANGED vars
    <2>1. UNCHANGED ledgerVars /\ UNCHANGED rotationVars /\ UNCHANGED fileVars
      BY <1>4 DEF vars
    <2>2. UNCHANGED <<doc, docs, file, spent, pool, done, failed>>
      BY <2>1 DEF ledgerVars
    <2>3. LedgerInv'
      BY <2>2 DEF OperationsInv, LedgerInv, LedgerTypeOK
    <2> QED BY <2>1, <2>2, <2>3, OthersKeepRotation, OthersKeepFile DEF OperationsInv
  <1> QED BY <1>1, <1>2, <1>3, <1>4 DEF OperationsNext

-----------------------------------------------------------------------------
(* The theorems *)

LEMMA OperationsInvariance == OperationsSpec => []OperationsInv
  BY InitOperations, NextOperations, PTL DEF OperationsSpec

\* The variables of the chain, the tool and the files have the values declared.
THEOREM OperationsTyping == OperationsSpec => []OperationsTypeOK
  <1>1. OperationsInv => OperationsTypeOK
    BY DEF OperationsInv, LedgerInv, RotationInv, FileInv, OperationsTypeOK
  <1> QED BY <1>1, OperationsInvariance, PTL

\* Wherever the rotation tool stops, whatever key it was given to sign with and
\* whichever of its updates is executed, the key the DID needs is on the disk
\* (rotate_did.rs writes and syncs the file of the new key before it sends
\* anything), and stays there when the machine stops, but for a file taken up
\* unsynced and one lost with its entry in the directory.
THEOREM KeysAreKept == OperationsSpec => []NeverBricked
  <1>1. OperationsInv => NeverBricked
    BY DEF OperationsInv, RotationInv, KeyInv
  <1> QED BY <1>1, OperationsInvariance, PTL

\* What the tool tells the operator of the key is so.
THEOREM ReportsAreTrue == OperationsSpec => []RotationReportsTrue
  <1>1. OperationsInv => RotationReportsTrue
    <2> SUFFICES ASSUME OperationsInv PROVE RotationReportsTrue
      OBVIOUS
    <2>1. /\ run.report = "rotated" => Rotating(run) \in done
          /\ run.report = "not rotated" => Rotating(run) \in failed
          /\ run.alone => doc = IF Rotating(run) \in done THEN run.new ELSE run.current
      BY DEF OperationsInv, RotationInv, ReportInv, Reports
    <2>2. done \cap failed = {}
      BY DEF OperationsInv, LedgerInv
    <2> QED BY <2>1, <2>2 DEF RotationReportsTrue
  <1> QED BY <1>1, OperationsInvariance, PTL

\* upload() puts no chunk on a storage node before its manifest is on chain.
THEOREM ManifestComesFirst == OperationsSpec => []ChunksFollowManifest
  <1>1. OperationsInv => ChunksFollowManifest
    BY DEF OperationsInv, FileInv
  <1> QED BY <1>1, OperationsInvariance, PTL

\* An upload that reports success has left every chunk of the file on the storage
\* node, as long as its manifest is the one on chain.
THEOREM UploadsAreThere == OperationsSpec => []UploadedIsThere
  <1>1. OperationsInv => UploadedIsThere
    BY DEF OperationsInv, FileInv, Held, UploadedIsThere, At
  <1> QED BY <1>1, OperationsInvariance, PTL
=============================================================================
