------------------------------ MODULE Rotation ------------------------------
(***************************************************************************)
(* The rotation of a DID's key (examples/rotate_did.rs over                *)
(* src/did_rotation.rs): an operator runs the tool, which may be stopped   *)
(* between any two steps, and runs it again with the files it left.        *)
(***************************************************************************)
EXTENDS Ledger

CONSTANT MaxRuns   \* bound: the runs of the tool

ASSUME RotationAssumption == MaxRuns \in Nat

VARIABLES
  disk,     \* what is in the file of each key
  run,      \* the tool
  runs,     \* the number of runs begun
  unsynced  \* history: keys taken from a file an interrupted run had not synced, and
            \* those lost with the entry of their file in a directory not synced

rotationVars == <<disk, run, runs, unsynced>>

\* "synced" is the file, and "kept" its entry in the directory as well.
FileState == {"none", "created", "written", "synced", "kept"}

RunPc == {"idle", "create", "write", "sync", "document", "nonce", "broadcast", "wait", "confirm"}
Report == {"none", "error", "dry run", "may still land", "not rotated", "unconfirmed", "rotated"}

RunFields ==
  [ pc : RunPc,
    current : Document,       \* the key that signs the update, by its id
    new : Document,           \* the new one
    nonce : Nonce \cup {0},
    polls : 0 .. MaxPolls,
    report : Report,
    alone : BOOLEAN ]         \* history: the current key was, and no update was pending

NoRun == [ pc |-> "idle", current |-> FirstDoc, new |-> FirstDoc, nonce |-> 0, polls |-> 0,
           report |-> "none", alone |-> FALSE ]

RotationTypeOK ==
  /\ disk \in [Key -> FileState]
  /\ run \in RunFields
  /\ runs \in 0 .. MaxRuns
  /\ unsynced \subseteq Key

RotationInit ==
  /\ disk = [k \in Key |-> IF k = FirstDoc.key THEN "kept" ELSE "none"]
  /\ run = NoRun
  /\ runs = 0
  /\ unsynced = {}

\* A key file is read whole (read_key_file refuses what is not a seed).
Readable(k) == disk[k] \in {"written", "synced", "kept"}

Goto(pc) == run' = [run EXCEPT !.pc = pc]

\* The run ends with what it tells the operator, of its update or without a word of it.
Tell(report) ==
  run' = IF report \in {"rotated", "not rotated"}
         THEN [run EXCEPT !.pc = "idle", !.report = report, !.polls = 0]
         ELSE [NoRun EXCEPT !.report = report]

Rotating(r) == [ kind |-> "rotate", nonce |-> r.nonce, by |-> r.current, to |-> r.new ]

\* Transactions that rotate the DID and may still be executed.
Rotations == { tx \in pool : tx.kind = "rotate" }

-----------------------------------------------------------------------------
(* The new key *)

\* Mutated form: the key is made, and its file comes last.
MutFirstStep == "document"

FirstStep == "create"

\* The key that signs comes from a file, or from the command line if the DID has had
\* it, with the id it is to go by; the new key goes by the same id or another.
\* --new-key-out names a file of its own for it, --new-key-in the file of an earlier
\* run's.
Start(current, new, in) ==
  /\ run.pc = "idle" /\ runs < MaxRuns
  /\ Readable(current.key) \/ current.key \in { d.key : d \in docs }
  /\ in => Readable(new.key)
  /\ run' = [NoRun EXCEPT !.pc = IF in THEN "document" ELSE FirstStep,
                          !.current = current, !.new = new, !.alone = (Rotations = {} /\ doc = current)]
  /\ runs' = runs + 1
  /\ unsynced' = IF in /\ disk[new.key] = "written" THEN unsynced \cup {new.key} ELSE unsynced
  /\ UNCHANGED <<ledgerVars, disk>>

\* write_new_key_file(): a file that exists is not touched, ...
CreateFile ==
  /\ run.pc = "create"
  /\ \/ disk[run.new.key] # "none" /\ Tell("error") /\ UNCHANGED disk
     \/ /\ disk[run.new.key] = "none"
        /\ disk' = [disk EXCEPT ![run.new.key] = "created"]
        /\ Goto("write")
  /\ UNCHANGED <<ledgerVars, runs, unsynced>>

\* ... and the key is in it, and the file on the disk, before anything is sent.
WriteFile ==
  /\ run.pc = "write"
  /\ disk' = [disk EXCEPT ![run.new.key] = "written"]
  /\ Goto("sync")
  /\ UNCHANGED <<ledgerVars, runs, unsynced>>

\* (The file is: not the directory it is in.)
SyncFile ==
  /\ run.pc = "sync"
  /\ disk' = [disk EXCEPT ![run.new.key] = "synced"]
  /\ Goto("document")
  /\ UNCHANGED <<ledgerVars, runs, unsynced>>

-----------------------------------------------------------------------------
(* The new document *)

\* check_current_document(): the document read has a key by the id of the one that
\* signs. It need not be that key: by default an id outlives the keys it names.
MayRotate(document) == document.id = run.current.id

\* The new document authenticates the new key alone, which is in hand: the anti-brick
\* gate passes it.
ReadDocument ==
  /\ run.pc = "document"
  /\ \E document \in DocumentsRead : IF MayRotate(document) THEN Goto("nonce") ELSE Tell("error")
  /\ UNCHANGED <<ledgerVars, disk, runs, unsynced>>

\* The nonce is read once, and is in the message shown.
TakeNonce ==
  /\ run.pc = "nonce"
  /\ \/ \E n \in Free, dry \in BOOLEAN :
          IF dry THEN Tell("dry run") ELSE run' = [run EXCEPT !.pc = "broadcast", !.nonce = n]
     \/ Tell("error")
  /\ UNCHANGED <<ledgerVars, disk, runs, unsynced>>

BroadcastUpdate ==
  /\ run.pc = "broadcast"
  /\ \E told \in {"accepted", "refused", "unknown"} :
       /\ Broadcast(Rotating(run), told)
       /\ IF told = "accepted" THEN Goto("wait") ELSE Tell("error")
  /\ UNCHANGED <<disk, runs, unsynced>>

\* wait_for_tx_outcome()
Wait ==
  /\ run.pc = "wait"
  /\ IF run.polls = MaxPolls THEN Tell("may still land")
     ELSE \E outcome \in Outcomes(Rotating(run)) :
            CASE outcome = "executed" -> Goto("confirm")
              [] outcome = "refused" -> Tell("not rotated")
              [] OTHER -> run' = [run EXCEPT !.polls = @ + 1]
  /\ UNCHANGED <<ledgerVars, disk, runs, unsynced>>

\* confirm_rotation()
Confirms(document) == document = run.new

\* The document is read again: the chain's word, not the receipt's.
Confirm ==
  /\ run.pc = "confirm"
  /\ \E document \in DocumentsRead : Tell(IF Confirms(document) THEN "rotated" ELSE "unconfirmed")
  /\ UNCHANGED <<ledgerVars, disk, runs, unsynced>>

-----------------------------------------------------------------------------

\* The system writes the directory in its own time.
DirectoryWritten ==
  /\ \E k \in Key : disk[k] = "synced" /\ disk' = [disk EXCEPT ![k] = "kept"]
  /\ UNCHANGED <<ledgerVars, run, runs, unsynced>>

\* The tool is stopped, ...
ToolStops ==
  /\ run.pc # "idle"
  /\ run' = NoRun
  /\ UNCHANGED <<ledgerVars, disk, runs, unsynced>>

\* ... or the machine: then what is in a file that was not synced may be lost, and
\* with its entry in a directory that was not, the file.
MachineStops ==
  /\ \E emptied \in SUBSET { k \in Key : disk[k] = "written" },
        gone \in SUBSET { k \in Key : disk[k] \in {"created", "written", "synced"} } :
       /\ run.pc # "idle" \/ emptied \cup gone # {}
       /\ disk' = [k \in Key |-> IF k \in gone THEN "none"
                               ELSE IF k \in emptied THEN "created" ELSE disk[k]]
       /\ unsynced' = unsynced \cup { k \in gone : disk[k] = "synced" }
  /\ run' = NoRun
  /\ UNCHANGED <<ledgerVars, runs>>

RotationStep ==
  \/ \E current, new \in Document, in \in BOOLEAN : Start(current, new, in)
  \/ CreateFile \/ WriteFile \/ SyncFile \/ ReadDocument \/ TakeNonce
  \/ BroadcastUpdate \/ Wait \/ Confirm \/ DirectoryWritten \/ ToolStops \/ MachineStops

-----------------------------------------------------------------------------
(* Properties *)

\* The key that signs for the DID, and each that a pending update would give it to,
\* is on the disk for good: the DID is not lost, wherever the tool stops, however
\* often it is run again and whichever of its updates is executed. (Two exceptions:
\* a run may take up the file of one that was stopped before it synced it, and the
\* tool does not sync the directory, so a machine that stops before the system has
\* may lose the file with its entry.)
NeverBricked ==
  \A d \in {doc} \cup { tx.to : tx \in Rotations } :
    disk[d.key] \in {"synced", "kept"} \/ d.key \in unsynced

\* What the tool says of the key is so. A rotation it confirms was executed; one it
\* calls refused, with the current key still good, leaves the DID with that key.
\* (Not if an update of an earlier run was pending, or the key already retired, as
\* the run began: an earlier update that lands makes the refusal, and the report
\* wrong.)
RotationReportsTrue ==
  /\ run.report = "rotated" => Rotating(run) \in done
  /\ run.alone =>
       /\ run.report = "rotated" => doc = run.new
       /\ run.report = "not rotated" => doc = run.current
=============================================================================
