-------------------------- MODULE HeaderStore_proofs --------------------------
(***************************************************************************)
(* Proofs about the header store: what is in it is linked to what was      *)
(* trusted, for every set of tasks, of blocks and of checkpoints.          *)
(***************************************************************************)
EXTENDS HeaderStore, TLAPS

Heights == Height \cup {0}

LEMMA HeightsAreNumbers == \A h \in Heights : h \in Nat
  BY HeaderAssumption DEF Heights

LEMMA BlockFacts ==
  ASSUME NEW b \in Block
  PROVE  b.height \in Heights /\ b.height \in Nat /\ b.ours \in BOOLEAN
  <1>1. b \in BlockFields
    BY HeaderAssumption
  <1>2. b.height \in Heights
    BY <1>1 DEF BlockFields, Heights
  <1>3. b.ours \in BOOLEAN
    BY <1>1 DEF BlockFields
  <1> QED BY <1>2, <1>3, HeightsAreNumbers

LEMMA IdleTyped == Idle \in TaskFields
  BY HeaderAssumption DEF Idle, TaskFields, Pc, Ended

LEMMA EndingTyped ==
  ASSUME NEW r \in TaskFields, NEW pc \in Ended
  PROVE  Ending(r, pc) \in TaskFields /\ Ending(r, pc).pc \in Ended
  <1> DEFINE e == [r EXCEPT !.pc = pc, !.block = Unreadable, !.next = 0]
  <1>1. pc \in Pc /\ Unreadable \in Block
    BY HeaderAssumption DEF Pc
  <1>2. e \in TaskFields /\ e.pc = pc
    BY <1>1 DEF TaskFields
  <1>3. Idle.pc \in Ended
    BY DEF Idle, Ended
  <1>4. Ending(r, pc) = e \/ Ending(r, pc) = Idle
    BY DEF Ending
  <1> HIDE DEF e
  <1> QED BY <1>2, <1>3, <1>4, IdleTyped

-----------------------------------------------------------------------------
(* What the steps do to the tasks and the store *)

\* The program counters at which a task holds a block it has verified.
Holds(r) == r.pc = "store"

LEMMA DisturbedTyped ==
  ASSUME NEW r \in TaskFields
  PROVE  /\ Disturbed(r) \in TaskFields
         /\ Holds(Disturbed(r)) => Holds(r) /\ Disturbed(r).block = r.block
  BY IdleTyped DEF Disturbed, TaskFields, Holds, Idle, Ended, Pc

LEMMA QuietStep ==
  ASSUME HeaderTypeOK, NEW t \in Task, NEW r \in TaskFields, Quietly(t, r)
  PROVE  /\ store' = store
         /\ task' \in [Task -> TaskFields]
         /\ task'[t] = r
         /\ \A u \in Task : u # t => task'[u] = task[u]
  BY DEF HeaderTypeOK, Quietly, StepTo

LEMMA StoreStep ==
  ASSUME HeaderTypeOK, NEW t \in Task, NEW r \in TaskFields, NEW s, StepTo(t, r, s)
  PROVE  /\ store' = s
         /\ task' \in [Task -> TaskFields]
         /\ task'[t] = r
         /\ \A u \in Task : u # t /\ Holds(task'[u]) =>
              Holds(task[u]) /\ task'[u].block = task[u].block
  <1>1. \A u \in Task : task[u] \in TaskFields
    BY DEF HeaderTypeOK
  <1>2. \A u \in Task : /\ Disturbed(task[u]) \in TaskFields
                        /\ Holds(Disturbed(task[u])) =>
                             Holds(task[u]) /\ Disturbed(task[u]).block = task[u].block
    BY <1>1, DisturbedTyped
  <1> QED BY <1>1, <1>2 DEF StepTo

LEMMA DisturbStep ==
  ASSUME HeaderTypeOK, NEW s, Disturb(s)
  PROVE  /\ store' = s
         /\ task' \in [Task -> TaskFields]
         /\ \A u \in Task : Holds(task'[u]) => Holds(task[u]) /\ task'[u].block = task[u].block
  <1>1. \A u \in Task : task[u] \in TaskFields
    BY DEF HeaderTypeOK
  <1>2. \A u \in Task : /\ Disturbed(task[u]) \in TaskFields
                        /\ Holds(Disturbed(task[u])) =>
                             Holds(task[u]) /\ Disturbed(task[u]).block = task[u].block
    BY <1>1, DisturbedTyped
  <1> QED BY <1>1, <1>2 DEF Disturb

\* A store of blocks, each at its height.
Filed(s) ==
  /\ DOMAIN s \subseteq Heights
  /\ s \in [DOMAIN s -> Block]
  /\ \A h \in DOMAIN s : s[h].height = h

LEMMA StoreIsFiled == ASSUME HeaderTypeOK PROVE Filed(store)
  BY DEF HeaderTypeOK, Filed, Heights

LEMMA InsertFiled ==
  ASSUME NEW s, Filed(s), NEW b \in Block
  PROVE  /\ Filed(Insert(s, b))
         /\ \A h \in DOMAIN Insert(s, b) :
              (Insert(s, b)[h] = b \/ (h \in DOMAIN s /\ Insert(s, b)[h] = s[h]))
  <1>1. b.height \in Heights
    BY BlockFacts
  <1>2. DOMAIN Insert(s, b) = DOMAIN s \cup {b.height}
    BY DEF Insert
  <1>3. \A h \in DOMAIN Insert(s, b) :
          Insert(s, b)[h] = IF h = b.height THEN b ELSE s[h]
    BY DEF Insert
  <1>4. Insert(s, b) \in [DOMAIN Insert(s, b) -> Block]
    <2>1. \A h \in DOMAIN s \cup {b.height} : (IF h = b.height THEN b ELSE s[h]) \in Block
      BY DEF Filed
    <2> QED BY <2>1, <1>2 DEF Insert
  <1>5. DOMAIN Insert(s, b) \subseteq Heights
    BY <1>1, <1>2 DEF Filed
  <1>6. \A h \in DOMAIN Insert(s, b) :
          /\ Insert(s, b)[h].height = h
          /\ (Insert(s, b)[h] = b \/ (h \in DOMAIN s /\ Insert(s, b)[h] = s[h]))
    <2> SUFFICES ASSUME NEW h \in DOMAIN Insert(s, b)
                 PROVE  /\ Insert(s, b)[h].height = h
                        /\ (Insert(s, b)[h] = b \/ (h \in DOMAIN s /\ Insert(s, b)[h] = s[h]))
      OBVIOUS
    <2>1. CASE h = b.height
      <3>1. Insert(s, b)[h] = b
        BY <2>1, <1>3
      <3> QED BY <2>1, <3>1
    <2>2. CASE h # b.height
      <3>1. h \in DOMAIN s
        BY <2>2, <1>2
      <3>2. s[h].height = h
        BY <3>1 DEF Filed
      <3> QED BY <2>2, <3>1, <3>2, <1>3
    <2> QED BY <2>1, <2>2
  <1> QED BY <1>4, <1>5, <1>6 DEF Filed

LEMMA KeptFiled ==
  ASSUME NEW s, Filed(s), NEW H \in SUBSET DOMAIN s
  PROVE  Filed([h \in H |-> s[h]])
  BY DEF Filed

LEMMA RestoredFiled ==
  ASSUME NEW s, Filed(s), NEW S \in SUBSET Block
  PROVE  /\ Filed(Restored(s, S))
         /\ \A h \in DOMAIN Restored(s, S) :
              (Restored(s, S)[h] \in S \/ (h \in DOMAIN s /\ Restored(s, S)[h] = s[h]))
  <1> DEFINE H == DOMAIN s \cup { b.height : b \in S }
             val(h) == IF \E b \in S : b.height = h
                       THEN CHOOSE b \in S : b.height = h ELSE s[h]
             r == Restored(s, S)
  <1>1. r = [h \in H |-> val(h)]
    BY DEF Restored
  <1>2. DOMAIN r = H /\ \A h \in H : r[h] = val(h)
    BY <1>1
  <1>3. ASSUME NEW h \in H
        PROVE  /\ h \in Heights /\ val(h) \in Block /\ val(h).height = h
               /\ (val(h) \in S \/ (h \in DOMAIN s /\ val(h) = s[h]))
    <2>1. CASE \E b \in S : b.height = h
      <3>1. val(h) \in S /\ val(h).height = h
        BY <2>1
      <3> QED BY <3>1, BlockFacts
    <2>2. CASE ~\E b \in S : b.height = h
      <3>1. h \in DOMAIN s /\ val(h) = s[h]
        BY <2>2
      <3> QED BY <3>1 DEF Filed
    <2> QED BY <2>1, <2>2
  <1> HIDE DEF H, val, r
  <1>4. r \in [DOMAIN r -> Block]
    BY <1>1, <1>2, <1>3
  <1>5. Filed(r)
    BY <1>2, <1>3, <1>4 DEF Filed
  <1>6. \A h \in DOMAIN r : (r[h] \in S \/ (h \in DOMAIN s /\ r[h] = s[h]))
    BY <1>2, <1>3
  <1> QED BY <1>5, <1>6 DEF r

-----------------------------------------------------------------------------
(* Type correctness *)

LEMMA InitTyped == HeaderInit => HeaderTypeOK
  <1> SUFFICES ASSUME HeaderInit PROVE HeaderTypeOK
    OBVIOUS
  <1>1. task \in [Task -> TaskFields]
    BY IdleTyped DEF HeaderInit
  <1>2. /\ DOMAIN store = {}
        /\ store \in [DOMAIN store -> Block]
    BY DEF HeaderInit
  <1>3. \A h \in DOMAIN store : store[h].height = h
    BY <1>2
  <1>4. /\ now \in 0 .. MaxTime
        /\ uses \in 0 .. MaxUses
    BY HeaderAssumption DEF HeaderInit
  <1>5. DOMAIN store \subseteq Height \cup {0}
    BY <1>2
  <1>6. /\ cell \in {"empty", "busy", "full"}
        /\ auto \in BOOLEAN /\ emptied \in BOOLEAN
        /\ ever \in SUBSET Block /\ sight \in SUBSET ever
    BY DEF HeaderInit
  <1> QED BY <1>1, <1>2, <1>3, <1>4, <1>5, <1>6 DEF HeaderTypeOK

\* The conjuncts of HeaderTypeOK apart from the store's and the tasks'.
OthersTyped ==
  /\ now \in 0 .. MaxTime
  /\ cell \in {"empty", "busy", "full"}
  /\ uses \in 0 .. MaxUses
  /\ auto \in BOOLEAN /\ emptied \in BOOLEAN
  /\ ever \in SUBSET Block /\ sight \in SUBSET ever

LEMMA TypedByParts ==
  /\ HeaderTypeOK <=> Filed(store) /\ task \in [Task -> TaskFields] /\ OthersTyped
  /\ HeaderTypeOK' <=> Filed(store)' /\ task' \in [Task -> TaskFields] /\ OthersTyped'
  <1>1. /\ Filed(store) <=> /\ DOMAIN store \subseteq Height \cup {0}
                            /\ store \in [DOMAIN store -> Block]
                            /\ \A h \in DOMAIN store : store[h].height = h
        /\ Filed(store)' <=> /\ DOMAIN store' \subseteq Height \cup {0}
                             /\ store' \in [DOMAIN store' -> Block]
                             /\ \A h \in DOMAIN store' : store'[h].height = h
    BY DEF Filed, Heights
  <1> QED BY <1>1 DEF HeaderTypeOK, OthersTyped

-----------------------------------------------------------------------------
(* The inductive invariant *)

\* A header that has been stored was trusted, or extends one that was stored.
Grounded(b) == b \in sight \cup Checkpoint \/ \E p \in ever : Extends(p, b)

\* LinkedToTrust is not inductive alone: between the check of a header and its
\* storing the header it was checked against may be pruned, so a task that has
\* verified a header must remember that what it extends was once stored.
LinkedInv ==
  /\ HeaderTypeOK
  /\ Held \subseteq ever
  /\ \A b \in ever : Grounded(b)
  /\ \A t \in Task : Holds(task[t]) => \E p \in ever : Extends(p, task[t].block)

\* What a step keeps: nothing is forgotten, and what is new is grounded.
LEMMA GroundedStays ==
  ASSUME ever \subseteq ever', sight \subseteq sight', NEW b, Grounded(b)
  PROVE  Grounded(b)'
  BY DEF Grounded, Extends

\* A step that leaves the store alone.
LEMMA QuietKeeps ==
  ASSUME LinkedInv, NEW t \in Task, NEW r \in TaskFields, Quietly(t, r),
         Holds(r) => \E p \in ever : Extends(p, r.block),
         UNCHANGED <<ever, sight>>, OthersTyped'
  PROVE  LinkedInv'
  <1>1. HeaderTypeOK
    BY DEF LinkedInv
  <1>2. /\ store' = store
        /\ task' \in [Task -> TaskFields]
        /\ task'[t] = r
        /\ \A u \in Task : u # t => task'[u] = task[u]
    BY <1>1, QuietStep
  <1>3. Filed(store)'
    BY <1>1, <1>2, StoreIsFiled DEF Filed
  <1>4. HeaderTypeOK'
    BY <1>2, <1>3, TypedByParts
  <1>5. (Held \subseteq ever)'
    BY <1>2 DEF LinkedInv, Held
  <1>6. (\A b \in ever : Grounded(b))'
    BY GroundedStays DEF LinkedInv
  <1>7. ASSUME NEW u \in Task, Holds(task'[u])
        PROVE  \E p \in ever' : Extends(p, task'[u].block)
    BY <1>2, <1>7 DEF LinkedInv
  <1> QED BY <1>4, <1>5, <1>6, <1>7 DEF LinkedInv

LEMMA EndKeeps ==
  ASSUME LinkedInv, NEW t \in Task, NEW pc \in Ended, End(t, pc),
         UNCHANGED <<ever, sight>>, OthersTyped'
  PROVE  LinkedInv'
  <1>1. task[t] \in TaskFields
    BY DEF LinkedInv, HeaderTypeOK
  <1>2. /\ Ending(task[t], pc) \in TaskFields
        /\ ~Holds(Ending(task[t], pc))
    BY <1>1, EndingTyped DEF Holds, Ended
  <1> QED BY <1>2, QuietKeeps DEF End

LEMMA GotoKeeps ==
  ASSUME LinkedInv, NEW t \in Task, NEW pc \in Pc, Goto(t, pc),
         pc = "store" => \E p \in ever : Extends(p, task[t].block),
         UNCHANGED <<ever, sight>>, OthersTyped'
  PROVE  LinkedInv'
  <1> DEFINE r == [task[t] EXCEPT !.pc = pc]
  <1>1. task[t] \in TaskFields
    BY DEF LinkedInv, HeaderTypeOK
  <1>2. r \in TaskFields /\ r.pc = pc /\ r.block = task[t].block
    BY <1>1 DEF TaskFields
  <1>3. Quietly(t, r)
    BY DEF Goto
  <1>4. Holds(r) => \E p \in ever : Extends(p, r.block)
    BY <1>2 DEF Holds
  <1> HIDE DEF r
  <1> QED BY <1>2, <1>3, <1>4, QuietKeeps

LEMMA FetchKeeps ==
  ASSUME LinkedInv, NEW t \in Task, NEW pc \in Pc, NEW h, Fetch(t, pc, h), pc # "store",
         UNCHANGED <<ever, sight>>, OthersTyped'
  PROVE  LinkedInv'
  <1>1. task[t] \in TaskFields
    BY DEF LinkedInv, HeaderTypeOK
  <1>2. ASSUME NEW b \in Block,
               Quietly(t, [task[t] EXCEPT !.pc = pc, !.block = b,
                           !.asAsked = @ /\ (h = 0 \/ b.height = h)])
        PROVE  LinkedInv'
    <2> DEFINE r == [task[t] EXCEPT !.pc = pc, !.block = b,
                     !.asAsked = @ /\ (h = 0 \/ b.height = h)]
    <2>1. r \in TaskFields /\ r.pc = pc
      BY <1>1 DEF TaskFields
    <2>2. Quietly(t, r)
      BY <1>2
    <2>3. ~Holds(r)
      BY <2>1 DEF Holds
    <2> HIDE DEF r
    <2> QED BY <2>1, <2>2, <2>3, QuietKeeps
  <1>3. CASE End(t, "failed")
    BY <1>3, EndKeeps DEF Ended
  <1> QED BY <1>2, <1>3 DEF Fetch

\* A step that puts a block in the store.
LEMMA InsertKeeps ==
  ASSUME LinkedInv, NEW b \in Block,
         store' = Insert(store, b),
         task' \in [Task -> TaskFields],
         \A u \in Task : Holds(task'[u]) => Holds(task[u]) /\ task'[u].block = task[u].block,
         ever' = ever \cup {b},
         sight \subseteq sight',
         b \in sight' \cup Checkpoint \/ (\E p \in ever : Extends(p, b)),
         OthersTyped'
  PROVE  LinkedInv'
  <1>1. Filed(store)
    BY StoreIsFiled DEF LinkedInv
  <1>2. /\ Filed(store)'
        /\ \A h \in DOMAIN store' : (store'[h] = b \/ (h \in DOMAIN store /\ store'[h] = store[h]))
    BY <1>1, InsertFiled DEF Filed
  <1>3. HeaderTypeOK'
    BY <1>2, TypedByParts
  <1>4. (Held \subseteq ever)'
    BY <1>2 DEF LinkedInv, Held
  <1>5. ASSUME NEW c \in ever' PROVE Grounded(c)'
    <2>1. CASE c \in ever
      BY <2>1, GroundedStays DEF LinkedInv
    <2>2. CASE c = b
      <3>1. CASE b \in sight' \cup Checkpoint
        BY <2>2, <3>1 DEF Grounded
      <3>2. CASE \E p \in ever : Extends(p, b)
        BY <2>2, <3>2 DEF Grounded, Extends
      <3> QED BY <3>1, <3>2
    <2> QED BY <2>1, <2>2
  <1>6. ASSUME NEW u \in Task, Holds(task'[u])
        PROVE  \E p \in ever' : Extends(p, task'[u].block)
    BY <1>6 DEF LinkedInv
  <1> QED BY <1>3, <1>4, <1>5, <1>6 DEF LinkedInv

\* A step that keeps, or puts back, blocks that were stored before.
LEMMA RefileKeeps ==
  ASSUME LinkedInv, NEW s, Filed(s), \A h \in DOMAIN s : s[h] \in ever, Disturb(s),
         UNCHANGED <<ever, sight>>, OthersTyped'
  PROVE  LinkedInv'
  <1>1. HeaderTypeOK
    BY DEF LinkedInv
  <1>2. /\ store' = s
        /\ task' \in [Task -> TaskFields]
        /\ \A u \in Task : Holds(task'[u]) => Holds(task[u]) /\ task'[u].block = task[u].block
    BY <1>1, DisturbStep
  <1>3. Filed(store)'
    BY <1>2 DEF Filed
  <1>4. HeaderTypeOK'
    BY <1>2, <1>3, TypedByParts
  <1>5. (Held \subseteq ever)'
    BY <1>2 DEF Held
  <1>6. (\A b \in ever : Grounded(b))'
    BY GroundedStays DEF LinkedInv
  <1>7. ASSUME NEW u \in Task, Holds(task'[u])
        PROVE  \E p \in ever' : Extends(p, task'[u].block)
    BY <1>2, <1>7 DEF LinkedInv
  <1> QED BY <1>4, <1>5, <1>6, <1>7 DEF LinkedInv

-----------------------------------------------------------------------------
(* Every step keeps it *)

LEMMA InitLinked == HeaderInit => LinkedInv
  <1> SUFFICES ASSUME HeaderInit PROVE LinkedInv
    OBVIOUS
  <1>1. HeaderTypeOK
    BY InitTyped
  <1>2. Held = {} /\ ever = {}
    BY DEF HeaderInit, Held
  <1>3. \A t \in Task : ~Holds(task[t])
    BY DEF HeaderInit, Holds, Idle
  <1> QED BY <1>1, <1>2, <1>3 DEF LinkedInv

LEMMA OthersKept ==
  ASSUME LinkedInv
  PROVE  OthersTyped
  BY TypedByParts DEF LinkedInv

LEMMA StartKeeps ==
  ASSUME LinkedInv, NEW t \in Task, NEW op \in {"create", "sync", "root"},
         NEW pc \in {"wait", "latest", "check"}, Start(t, op, pc),
         UNCHANGED <<now, cell, history>>
  PROVE  LinkedInv'
  <1> DEFINE r == [Idle EXCEPT !.op = op, !.pc = pc]
  <1>1. r \in TaskFields /\ r.pc = pc
    BY IdleTyped DEF TaskFields, Pc, Idle
  <1>2. Quietly(t, r)
    BY DEF Start
  <1>3. ~Holds(r)
    BY <1>1 DEF Holds
  <1>4. OthersTyped' /\ UNCHANGED <<ever, sight>>
    BY OthersKept, HeaderAssumption DEF OthersTyped, Start, Counted, history
  <1> HIDE DEF r
  <1> QED BY <1>1, <1>2, <1>3, <1>4, QuietKeeps

LEMMA BeginCreateKeeps ==
  ASSUME LinkedInv, NEW t \in Task, BeginCreate(t)
  PROVE  LinkedInv'
  <1>1. OthersTyped' /\ UNCHANGED <<ever, sight>>
    BY OthersKept DEF OthersTyped, BeginCreate, history
  <1>2. CASE End(t, "ok")
    BY <1>1, <1>2, EndKeeps DEF Ended
  <1>3. CASE Goto(t, "latest")
    BY <1>1, <1>3, GotoKeeps DEF Pc
  <1> QED BY <1>2, <1>3 DEF BeginCreate

LEMMA FetchTrustedKeeps ==
  ASSUME LinkedInv, NEW t \in Task, FetchTrusted(t)
  PROVE  LinkedInv'
  <1>1. cell' \in {"empty", "busy", "full"}
    BY OthersKept DEF OthersTyped, FetchTrusted, AfterFailure
  <1>2. OthersTyped' /\ UNCHANGED <<ever, sight>>
    BY <1>1, OthersKept DEF OthersTyped, FetchTrusted, history
  <1> QED BY <1>2, FetchKeeps DEF FetchTrusted, Pc

LEMMA TrustOnFirstUseKeeps ==
  ASSUME LinkedInv, NEW t \in Task, TrustOnFirstUse(t)
  PROVE  LinkedInv'
  <1> DEFINE b == task[t].block
             r == IF task[t].op = "create" THEN Ending(task[t], "ok")
                                          ELSE [task[t] EXCEPT !.pc = "read"]
  <1>1. HeaderTypeOK /\ task[t] \in TaskFields
    BY DEF LinkedInv, HeaderTypeOK
  <1>2. b \in Block
    BY <1>1 DEF TaskFields
  <1>3. Ending(task[t], "ok") \in TaskFields /\ ~Holds(Ending(task[t], "ok"))
    BY <1>1, EndingTyped DEF Holds, Ended
  <1>4. [task[t] EXCEPT !.pc = "read"] \in TaskFields /\ ~Holds([task[t] EXCEPT !.pc = "read"])
    BY <1>1 DEF TaskFields, Pc, Holds
  <1>5. r \in TaskFields /\ ~Holds(r)
    BY <1>3, <1>4
  <1>6. StepTo(t, r, Insert(store, b))
    BY DEF TrustOnFirstUse
  <1>7. ever' = ever \cup {b} /\ sight' = sight \cup {b}
    BY DEF TrustOnFirstUse
  <1>8. OthersTyped'
    BY <1>2, <1>7, OthersKept DEF OthersTyped, TrustOnFirstUse
  <1> HIDE DEF r, b
  <1>9. /\ store' = Insert(store, b)
        /\ task' \in [Task -> TaskFields]
        /\ \A u \in Task : Holds(task'[u]) => Holds(task[u]) /\ task'[u].block = task[u].block
    BY <1>1, <1>5, <1>6, StoreStep
  <1> QED BY <1>2, <1>7, <1>8, <1>9, InsertKeeps

LEMMA CompareKeeps ==
  ASSUME LinkedInv, NEW t \in Task, Compare(t)
  PROVE  LinkedInv'
  <1> DEFINE goal == task[t].block.height
             begun == [task[t] EXCEPT !.goal = goal]
  <1>1. HeaderTypeOK /\ task[t] \in TaskFields
    BY DEF LinkedInv, HeaderTypeOK
  <1>2. goal \in Height \cup {0}
    BY <1>1, BlockFacts DEF TaskFields, Heights
  <1>3. begun \in TaskFields /\ begun.block = task[t].block
    BY <1>1, <1>2 DEF TaskFields
  <1>4. OthersTyped' /\ UNCHANGED <<ever, sight>>
    BY OthersKept DEF OthersTyped, Compare, history
  <1>5. CASE Quietly(t, Ending(begun, "ok"))
    <2>1. Ending(begun, "ok") \in TaskFields /\ ~Holds(Ending(begun, "ok"))
      BY <1>3, EndingTyped DEF Holds, Ended
    <2> QED BY <2>1, <1>4, <1>5, QuietKeeps
  <1>6. CASE Quietly(t, [begun EXCEPT !.pc = "trust"])
    <2>1. [begun EXCEPT !.pc = "trust"] \in TaskFields /\ ~Holds([begun EXCEPT !.pc = "trust"])
      BY <1>3 DEF TaskFields, Pc, Holds
    <2> QED BY <2>1, <1>4, <1>6, QuietKeeps
  <1>7. CASE End(t, "failed")
    BY <1>4, <1>7, EndKeeps DEF Ended
  <1>8. ASSUME NEW h \in Height \cup {0},
               Quietly(t, [begun EXCEPT !.pc = "fetch", !.next = FirstMissing(h)])
        PROVE  LinkedInv'
    <2>1. FirstMissing(h) \in Nat
      BY HeightsAreNumbers DEF FirstMissing, Heights
    <2> DEFINE r == [begun EXCEPT !.pc = "fetch", !.next = FirstMissing(h)]
    <2>2. r \in TaskFields /\ ~Holds(r)
      BY <2>1, <1>3 DEF TaskFields, Pc, Holds
    <2>3. Quietly(t, r)
      BY <1>8
    <2> HIDE DEF r
    <2> QED BY <2>2, <2>3, <1>4, QuietKeeps
  <1> QED BY <1>5, <1>6, <1>7, <1>8 DEF Compare

LEMMA TrustLatestKeeps ==
  ASSUME LinkedInv, NEW t \in Task, TrustLatest(t)
  PROVE  LinkedInv'
  <1> DEFINE b == task[t].block
             r == Ending(task[t], "ok")
  <1>1. HeaderTypeOK /\ task[t] \in TaskFields
    BY DEF LinkedInv, HeaderTypeOK
  <1>2. b \in Block
    BY <1>1 DEF TaskFields
  <1>3. r \in TaskFields /\ ~Holds(r)
    BY <1>1, EndingTyped DEF Holds, Ended
  <1>4. StepTo(t, r, Insert(store, b))
    BY DEF TrustLatest
  <1>5. ever' = ever \cup {b} /\ sight' = sight \cup {b}
    BY DEF TrustLatest
  <1>6. OthersTyped'
    BY <1>2, <1>5, OthersKept DEF OthersTyped, TrustLatest
  <1> HIDE DEF r, b
  <1>7. /\ store' = Insert(store, b)
        /\ task' \in [Task -> TaskFields]
        /\ \A u \in Task : Holds(task'[u]) => Holds(task[u]) /\ task'[u].block = task[u].block
    BY <1>1, <1>3, <1>4, StoreStep
  <1> QED BY <1>2, <1>5, <1>6, <1>7, InsertKeeps

\* The header checked against was in the store, and so had once been stored.
LEMMA VerifyKeeps ==
  ASSUME LinkedInv, NEW t \in Task, Verify(t)
  PROVE  LinkedInv'
  <1>1. OthersTyped' /\ UNCHANGED <<ever, sight>>
    BY OthersKept DEF OthersTyped, Verify, history
  <1>2. CASE End(t, "failed")
    BY <1>1, <1>2, EndKeeps DEF Ended
  <1>3. ASSUME NEW p \in Held, Faults(p, task[t].block) = {}, Goto(t, "store")
        PROVE  LinkedInv'
    <2>1. Extends(p, task[t].block)
      <3> DEFINE b == task[t].block
                 C == Checks(p, b)
      <3>1. \A c \in DOMAIN C : C[c]
        BY <1>3 DEF Faults
      <3>2. C.chain /\ C.height /\ C.time /\ C.validators /\ C.power
        BY <3>1 DEF Checks
      <3> QED BY <3>2 DEF Checks, Extends
    <2>2. p \in ever
      BY DEF LinkedInv
    <2> QED BY <1>1, <1>3, <2>1, <2>2, GotoKeeps DEF Pc
  <1>4. ASSUME NEW faults, End(t, IF "height" \in faults THEN "disorder" ELSE "failed")
        PROVE  LinkedInv'
    BY <1>1, <1>4, EndKeeps DEF Ended
  <1> QED BY <1>2, <1>3, <1>4 DEF Verify

LEMMA StoreKeeps ==
  ASSUME LinkedInv, NEW t \in Task, Store(t)
  PROVE  LinkedInv'
  <1> DEFINE b == task[t].block
             r == IF task[t].next < task[t].goal
                  THEN [task[t] EXCEPT !.pc = "fetch", !.next = @ + 1]
                  ELSE Ending(task[t], "ok")
  <1>1. HeaderTypeOK /\ task[t] \in TaskFields
    BY DEF LinkedInv, HeaderTypeOK
  <1>2. b \in Block /\ task[t].next + 1 \in Nat
    BY <1>1 DEF TaskFields
  <1>3. Ending(task[t], "ok") \in TaskFields /\ ~Holds(Ending(task[t], "ok"))
    BY <1>1, EndingTyped DEF Holds, Ended
  <1>4. /\ [task[t] EXCEPT !.pc = "fetch", !.next = @ + 1] \in TaskFields
        /\ ~Holds([task[t] EXCEPT !.pc = "fetch", !.next = @ + 1])
    BY <1>1, <1>2 DEF TaskFields, Pc, Holds
  <1>5. r \in TaskFields /\ ~Holds(r)
    BY <1>3, <1>4
  <1>6. StepTo(t, r, Insert(store, b))
    BY DEF Store
  <1>7. /\ ever' = ever \cup {b} /\ sight' = sight
        /\ \E p \in ever : Extends(p, b)
    BY DEF Store, LinkedInv, Holds, At
  <1>8. OthersTyped'
    BY <1>2, <1>7, OthersKept DEF OthersTyped, Store
  <1> HIDE DEF r, b
  <1>9. /\ store' = Insert(store, b)
        /\ task' \in [Task -> TaskFields]
        /\ \A u \in Task : Holds(task'[u]) => Holds(task[u]) /\ task'[u].block = task[u].block
    BY <1>1, <1>5, <1>6, StoreStep
  <1> QED BY <1>2, <1>7, <1>8, <1>9, InsertKeeps

\* The steps that only fetch an answer, or read whether the store has a header.
LEMMA ReadsKeep ==
  ASSUME LinkedInv, NEW t \in Task,
         FetchLatest(t) \/ FetchNext(t) \/ CheckEmpty(t) \/ ReadRoot(t)
  PROVE  LinkedInv'
  <1>1. OthersTyped' /\ UNCHANGED <<ever, sight>>
    BY OthersKept DEF OthersTyped, FetchLatest, FetchNext, CheckEmpty, ReadRoot, history
  <1>2. CASE FetchLatest(t) \/ FetchNext(t)
    BY <1>1, <1>2, FetchKeeps DEF FetchLatest, FetchNext, Pc
  <1>3. CASE CheckEmpty(t)
    <2>1. Goto(t, "latest") \/ Goto(t, "read")
      BY <1>3 DEF CheckEmpty
    <2> QED BY <1>1, <2>1, GotoKeeps DEF Pc
  <1>4. CASE ReadRoot(t)
    <2>1. End(t, "failed") \/ End(t, "ok")
      BY <1>4 DEF ReadRoot
    <2> QED BY <1>1, <2>1, EndKeeps DEF Ended
  <1> QED BY <1>2, <1>3, <1>4

LEMMA ContinueKeeps ==
  ASSUME LinkedInv, NEW t \in Task, Continue(t)
  PROVE  LinkedInv'
  BY BeginCreateKeeps, FetchTrustedKeeps, TrustOnFirstUseKeeps, CompareKeeps, TrustLatestKeeps,
     VerifyKeeps, StoreKeeps, ReadsKeep DEF Continue

LEMMA PinKeeps ==
  ASSUME LinkedInv, NEW b \in Checkpoint, Pin(b)
  PROVE  LinkedInv'
  <1>1. b \in Block /\ HeaderTypeOK
    BY HeaderAssumption DEF LinkedInv
  <1>2. ever' = ever \cup {b} /\ sight' = sight /\ Disturb(Insert(store, b))
    BY DEF Pin
  <1>3. OthersTyped'
    BY <1>1, <1>2, OthersKept, HeaderAssumption DEF OthersTyped, Pin, Counted
  <1>4. /\ store' = Insert(store, b)
        /\ task' \in [Task -> TaskFields]
        /\ \A u \in Task : Holds(task'[u]) => Holds(task[u]) /\ task'[u].block = task[u].block
    BY <1>1, <1>2, DisturbStep
  <1> QED BY <1>1, <1>2, <1>3, <1>4, InsertKeeps

LEMMA PruneKeeps ==
  ASSUME LinkedInv, PruneOld
  PROVE  LinkedInv'
  <1> DEFINE s == [h \in Retained |-> store[h]]
  <1>1. Retained \in SUBSET DOMAIN store
    BY DEF Retained
  <1>2. Filed(s)
    BY <1>1, StoreIsFiled, KeptFiled DEF LinkedInv
  <1>3. \A h \in DOMAIN s : s[h] \in ever
    BY <1>1 DEF LinkedInv, Held
  <1>4. Disturb(s) /\ UNCHANGED <<ever, sight>>
    BY DEF PruneOld
  <1>5. OthersTyped'
    BY OthersKept DEF OthersTyped, PruneOld
  <1> HIDE DEF s
  <1> QED BY <1>2, <1>3, <1>4, <1>5, RefileKeeps

LEMMA ImportKeeps ==
  ASSUME LinkedInv, Import
  PROVE  LinkedInv'
  <1>1. PICK S \in SUBSET ever : Disturb(Restored(store, S))
    BY DEF Import
  <1>2. S \in SUBSET Block /\ Filed(store)
    BY OthersKept, StoreIsFiled DEF OthersTyped, LinkedInv
  <1>3. \A h \in DOMAIN store : store[h] \in ever
    BY DEF LinkedInv, Held
  <1>4. Filed(Restored(store, S)) /\ \A h \in DOMAIN Restored(store, S) : Restored(store, S)[h] \in ever
    BY <1>2, <1>3, RestoredFiled
  <1>5. OthersTyped' /\ UNCHANGED <<ever, sight>>
    BY OthersKept, HeaderAssumption DEF OthersTyped, Import, Counted, history
  <1> QED BY <1>1, <1>4, <1>5, RefileKeeps

LEMMA RestartKeeps ==
  ASSUME LinkedInv, Restart
  PROVE  LinkedInv'
  <1>1. OthersTyped' /\ UNCHANGED <<ever, sight>>
    BY OthersKept DEF OthersTyped, Restart
  <1>2. DOMAIN store' = {} /\ Filed(store)' /\ Held' = {}
    BY DEF Restart, Filed, Held
  <1>3. task' \in [Task -> TaskFields] /\ \A t \in Task : ~Holds(task'[t])
    BY IdleTyped DEF Restart, Holds, Idle
  <1>4. HeaderTypeOK'
    BY <1>1, <1>2, <1>3, TypedByParts
  <1>5. (\A b \in ever : Grounded(b))'
    BY <1>1, GroundedStays DEF LinkedInv
  <1> QED BY <1>2, <1>3, <1>4, <1>5 DEF LinkedInv

LEMMA TickKeeps ==
  ASSUME LinkedInv, Tick \/ UNCHANGED vars
  PROVE  LinkedInv'
  <1>1. OthersTyped' /\ UNCHANGED <<store, task, ever, sight>>
    BY OthersKept, HeaderAssumption DEF OthersTyped, Tick, vars, history
  <1>2. Filed(store)'
    BY <1>1, StoreIsFiled DEF LinkedInv, Filed
  <1>3. HeaderTypeOK'
    BY <1>1, <1>2, TypedByParts DEF LinkedInv
  <1>4. (\A b \in ever : Grounded(b))'
    BY <1>1, GroundedStays DEF LinkedInv
  <1>5. (Held \subseteq ever)'
    BY <1>1 DEF LinkedInv, Held
  <1>6. (\A t \in Task : Holds(task[t]) => \E p \in ever : Extends(p, task[t].block))'
    BY <1>1 DEF LinkedInv, Holds, Extends
  <1> QED BY <1>3, <1>4, <1>5, <1>6 DEF LinkedInv

LEMMA NextLinked == LinkedInv /\ [HeaderNext]_vars => LinkedInv'
  <1> SUFFICES ASSUME LinkedInv, [HeaderNext]_vars PROVE LinkedInv'
    OBVIOUS
  <1>1. ASSUME NEW t \in Task, AskFor(t) \/ BeginSync(t) \/ BeginRoot(t)
        PROVE  LinkedInv'
    BY <1>1, StartKeeps DEF AskFor, BeginSync, BeginRoot
  <1> QED BY <1>1, ContinueKeeps, PinKeeps, PruneKeeps, ImportKeeps, RestartKeeps, TickKeeps
          DEF HeaderNext

-----------------------------------------------------------------------------
(* The theorems *)

LEMMA HeaderInvariance == HeaderSpec => []LinkedInv
  BY InitLinked, NextLinked, PTL DEF HeaderSpec

\* The state is what its declarations say: the store holds each header at its
\* height, whatever the syncs, prunes, imports and restarts.
THEOREM HeaderTyping == HeaderSpec => []HeaderTypeOK
  <1>1. LinkedInv => HeaderTypeOK
    BY DEF LinkedInv
  <1> QED BY <1>1, HeaderInvariance, PTL

\* However the uses of the store interleave, a header that comes into it was
\* trusted on sight, was pinned by a caller, or passed the checks of
\* verify_header() against a header that had come into the store before it.
THEOREM StoreLinkedToTrust == HeaderSpec => []LinkedToTrust
  <1>1. LinkedInv => LinkedToTrust
    BY DEF LinkedInv, LinkedToTrust, Grounded
  <1> QED BY <1>1, HeaderInvariance, PTL
-----------------------------------------------------------------------------
(* One header trusted on sight *)

\* What OneTrust is about: a light client created on first use, whose store had a
\* header of some height on sight and did not lose its last one.
OneSight == auto /\ ~emptied /\ \A b \in sight : b.height > 0

Resting(r) == r.pc \in Ended \/ (r.op = "create" /\ r.pc = "wait")
Creating(r) == r.op = "create" /\ r.pc \in {"latest", "trust"}

\* A task of a client that is there: it trusts nothing on sight, nor will.
Settled(r) ==
  /\ r.pc # "trust"
  /\ r.pc = "latest" => r.op = "sync"
  /\ r.pc = "store" => r.block.height > 0

\* Before the client is there only its creator is at work; from then on the store
\* is not empty, so that no task finds it so.
OneInv ==
  /\ cell # "full" => /\ DOMAIN store = {} /\ sight = {}
                      /\ \A u \in Task : Resting(task[u]) \/ Creating(task[u])
  /\ cell = "empty" => \A u \in Task : Resting(task[u])
  /\ cell = "full" => /\ \E b \in sight : sight = {b}
                      /\ DOMAIN store # {} /\ \A h \in DOMAIN store : h > 0
                      /\ \A u \in Task : Settled(task[u])
  /\ \A u, v \in Task : Creating(task[u]) /\ Creating(task[v]) => u = v

LEMMA EndingRests ==
  ASSUME NEW r \in TaskFields, NEW pc \in Ended
  PROVE  Resting(Ending(r, pc)) /\ Settled(Ending(r, pc)) /\ ~Creating(Ending(r, pc))
  <1>1. Ending(r, pc).pc \in Ended
    BY EndingTyped
  <1> QED BY <1>1 DEF Resting, Settled, Creating, Ended

LEMMA DisturbedRole ==
  ASSUME NEW r \in TaskFields
  PROVE  /\ Resting(r) => Resting(Disturbed(r))
         /\ Settled(r) => Settled(Disturbed(r))
         /\ Creating(r) <=> Creating(Disturbed(r))
  BY DEF Disturbed, TaskFields, Idle, Ended, Resting, Settled, Creating

\* What a step of one task leaves of the others.
LEMMA OthersRole ==
  ASSUME HeaderTypeOK, NEW t \in Task, NEW r, NEW s, StepTo(t, r, s)
  PROVE  /\ store' = s /\ task'[t] = r
         /\ \A u \in Task \ {t} :
              /\ Resting(task[u]) => Resting(task'[u])
              /\ Settled(task[u]) => Settled(task'[u])
              /\ Creating(task[u]) <=> Creating(task'[u])
  <1>1. \A u \in Task : task[u] \in TaskFields
    BY DEF HeaderTypeOK
  <1>2. /\ store' = s /\ task'[t] = r
        /\ \A u \in Task \ {t} : task'[u] = task[u] \/ task'[u] = Disturbed(task[u])
    BY DEF StepTo
  <1> QED BY <1>1, <1>2, DisturbedRole

LEMMA QuietOne ==
  ASSUME HeaderTypeOK, OneInv, NEW t \in Task, NEW r, Quietly(t, r),
         UNCHANGED <<cell, sight>>,
         cell # "full" => Resting(r),
         cell = "full" => Settled(r),
         Creating(r) => Creating(task[t])
  PROVE  OneInv'
  <1>1. /\ store' = store /\ task'[t] = r
        /\ \A u \in Task \ {t} :
             /\ Resting(task[u]) => Resting(task'[u])
             /\ Settled(task[u]) => Settled(task'[u])
             /\ Creating(task[u]) <=> Creating(task'[u])
    BY OthersRole DEF Quietly
  <1>2. \A u, v \in Task : Creating(task'[u]) /\ Creating(task'[v]) => u = v
    BY <1>1 DEF OneInv
  <1>3. cell' # "full" => /\ DOMAIN store' = {} /\ sight' = {}
                          /\ \A u \in Task : Resting(task'[u]) \/ Creating(task'[u])
    BY <1>1 DEF OneInv
  <1>4. cell' = "empty" => \A u \in Task : Resting(task'[u])
    BY <1>1 DEF OneInv
  <1>5. cell' = "full" => /\ \E b \in sight' : sight' = {b}
                          /\ DOMAIN store' # {} /\ \A h \in DOMAIN store' : h > 0
                          /\ \A u \in Task : Settled(task'[u])
    BY <1>1 DEF OneInv
  <1> QED BY <1>2, <1>3, <1>4, <1>5 DEF OneInv, Resting, Creating, Settled

LEMMA EndOne ==
  ASSUME HeaderTypeOK, OneInv, NEW t \in Task, NEW pc \in Ended, End(t, pc),
         UNCHANGED <<cell, sight>>
  PROVE  OneInv'
  <1>1. task[t] \in TaskFields
    BY DEF HeaderTypeOK
  <1>2. Quietly(t, Ending(task[t], pc))
    BY DEF End
  <1> QED BY <1>1, <1>2, EndingRests, QuietOne

LEMMA FetchOne ==
  ASSUME HeaderTypeOK, OneInv, NEW t \in Task, NEW pc \in {"compare", "verify"}, NEW h,
         Fetch(t, pc, h), cell = "full", UNCHANGED <<cell, sight>>
  PROVE  OneInv'
  <1>1. CASE End(t, "failed")
    BY <1>1, EndOne DEF Ended
  <1>2. ASSUME NEW b \in Block,
               Quietly(t, [task[t] EXCEPT !.pc = pc, !.block = b,
                                          !.asAsked = @ /\ (h = 0 \/ b.height = h)])
        PROVE  OneInv'
    <2> DEFINE r == [task[t] EXCEPT !.pc = pc, !.block = b,
                                    !.asAsked = @ /\ (h = 0 \/ b.height = h)]
    <2>1. r.pc = pc
      BY DEF HeaderTypeOK, TaskFields
    <2>2. Settled(r) /\ ~Creating(r)
      BY <2>1 DEF Settled, Creating
    <2>3. Quietly(t, r)
      BY <1>2
    <2> HIDE DEF r
    <2> QED BY <2>2, <2>3, QuietOne
  <1> QED BY <1>1, <1>2 DEF Fetch

LEMMA StartOne ==
  ASSUME HeaderTypeOK, OneInv, NEW t \in Task, AskFor(t) \/ BeginSync(t) \/ BeginRoot(t)
  PROVE  OneInv'
  <1>1. UNCHANGED <<cell, sight>>
    BY DEF AskFor, BeginSync, BeginRoot, history
  <1>2. ASSUME NEW op, NEW pc, Start(t, op, pc),
               <<op, pc>> \in {<<"create", "wait">>, <<"sync", "latest">>, <<"root", "check">>},
               op # "create" => cell = "full"
        PROVE  OneInv'
    <2> DEFINE r == [Idle EXCEPT !.op = op, !.pc = pc]
    <2>1. r.op = op /\ r.pc = pc
      BY DEF Idle
    <2>2. Settled(r) /\ ~Creating(r) /\ (op = "create" => Resting(r))
      BY <1>2, <2>1 DEF Settled, Creating, Resting
    <2>3. Quietly(t, r)
      BY <1>2 DEF Start
    <2> HIDE DEF r
    <2> QED BY <1>1, <1>2, <2>2, <2>3, QuietOne
  <1> QED BY <1>2 DEF AskFor, BeginSync, BeginRoot

LEMMA BeginCreateOne ==
  ASSUME HeaderTypeOK, OneInv, NEW t \in Task, BeginCreate(t)
  PROVE  OneInv'
  <1>1. sight' = sight
    BY DEF BeginCreate, history
  <1>2. CASE End(t, "ok") /\ UNCHANGED cell
    BY <1>1, <1>2, EndOne DEF Ended
  <1>3. CASE cell = "empty" /\ Goto(t, "latest") /\ cell' = "busy"
    <2>1. /\ \A u \in Task : Resting(task[u]) /\ ~Creating(task[u])
          /\ task[t].op = "create"
      BY <1>3 DEF OneInv, Resting, Creating, Ended, BeginCreate, At
    <2> DEFINE r == [task[t] EXCEPT !.pc = "latest"]
    <2>2. r.pc = "latest" /\ r.op = "create"
      BY <2>1 DEF HeaderTypeOK, TaskFields
    <2>3. Creating(r)
      BY <2>2 DEF Creating
    <2>4. StepTo(t, r, store)
      BY <1>3 DEF Goto, Quietly
    <2> HIDE DEF r
    <2>5. /\ store' = store /\ task'[t] = r
          /\ \A u \in Task \ {t} : Resting(task'[u]) /\ ~Creating(task'[u])
      BY <2>1, <2>4, OthersRole
    <2>6. DOMAIN store = {} /\ sight = {}
      BY <1>3 DEF OneInv
    <2>7. /\ \A u \in Task : Resting(task'[u]) \/ Creating(task'[u])
          /\ \A u, v \in Task : Creating(task'[u]) /\ Creating(task'[v]) => u = v
      BY <2>3, <2>5
    <2> QED BY <1>1, <1>3, <2>5, <2>6, <2>7 DEF OneInv, Resting, Creating
  <1> QED BY <1>2, <1>3 DEF BeginCreate

\* Whoever is creating the client, it is not there, and the others rest.
LEMMA CreatorAlone ==
  ASSUME OneInv, NEW t \in Task,
         (At(t, "latest") /\ task[t].op \in {"create", "root"}) \/ At(t, "trust")
  PROVE  /\ cell = "busy" \/ cell \notin {"empty", "full"}
         /\ Creating(task[t])
         /\ DOMAIN store = {} /\ sight = {}
         /\ \A u \in Task \ {t} : Resting(task[u]) /\ ~Creating(task[u])
  <1>1. ~Settled(task[t]) /\ ~Resting(task[t])
    BY DEF At, Settled, Resting, Ended
  <1>2. cell # "full" /\ cell # "empty"
    BY <1>1 DEF OneInv
  <1>3. Creating(task[t])
    BY <1>1, <1>2 DEF OneInv
  <1> QED BY <1>2, <1>3 DEF OneInv

LEMMA FetchTrustedOne ==
  ASSUME HeaderTypeOK, OneInv, NEW t \in Task, FetchTrusted(t)
  PROVE  OneInv'
  <1>1. /\ cell = "busy" /\ Creating(task[t]) /\ DOMAIN store = {} /\ sight = {}
        /\ \A u \in Task \ {t} : Resting(task[u]) /\ ~Creating(task[u])
    BY CreatorAlone DEF FetchTrusted, HeaderTypeOK
  <1>2. sight' = sight /\ task[t] \in TaskFields
    BY DEF FetchTrusted, history, HeaderTypeOK
  <1>3. CASE End(t, "failed")
    <2>1. Resting(Ending(task[t], "failed")) /\ ~Creating(Ending(task[t], "failed"))
          /\ Ending(task[t], "failed").pc \in Ended
      BY <1>2, EndingRests, EndingTyped DEF Ended
    <2>2. StepTo(t, Ending(task[t], "failed"), store)
      BY <1>3 DEF End, Quietly
    <2>3. /\ store' = store /\ task'[t] = Ending(task[t], "failed")
          /\ \A u \in Task \ {t} : Resting(task'[u]) /\ ~Creating(task'[u])
      BY <1>1, <2>2, OthersRole
    <2>4. cell' = "empty"
      BY <1>1, <2>1, <2>3 DEF FetchTrusted, AfterFailure, Creating
    <2>5. \A u \in Task : Resting(task'[u]) /\ ~Creating(task'[u])
      BY <2>1, <2>3
    <2> QED BY <1>1, <1>2, <2>3, <2>4, <2>5 DEF OneInv, Resting, Creating
  <1>4. ASSUME NEW b \in Block,
               Quietly(t, [task[t] EXCEPT !.pc = "trust", !.block = b,
                                          !.asAsked = @ /\ (0 = 0 \/ b.height = 0)])
        PROVE  OneInv'
    <2> DEFINE r == [task[t] EXCEPT !.pc = "trust", !.block = b,
                                    !.asAsked = @ /\ (0 = 0 \/ b.height = 0)]
    <2>1. r.pc = "trust" /\ r.op = "create"
      BY <1>1, <1>2 DEF TaskFields, Creating
    <2>2. StepTo(t, r, store)
      BY <1>4 DEF Quietly
    <2> HIDE DEF r
    <2>3. /\ store' = store /\ task'[t] = r
          /\ \A u \in Task \ {t} : Resting(task'[u]) /\ ~Creating(task'[u])
      BY <1>1, <2>2, OthersRole
    <2>4. cell' = "busy" /\ Creating(r)
      BY <1>1, <2>1, <2>3 DEF FetchTrusted, Ended, Creating
    <2>5. /\ \A u \in Task : Resting(task'[u]) \/ Creating(task'[u])
          /\ \A u, v \in Task : Creating(task'[u]) /\ Creating(task'[v]) => u = v
      BY <2>3, <2>4
    <2> QED BY <1>1, <1>2, <2>3, <2>4, <2>5 DEF OneInv, Resting, Creating
  <1> QED BY <1>3, <1>4 DEF FetchTrusted, Fetch

\* The created client is there with the one header it trusted.
LEMMA TrustOnFirstUseOne ==
  ASSUME HeaderTypeOK, OneInv, NEW t \in Task, TrustOnFirstUse(t), OneSight'
  PROVE  OneInv'
  <1> DEFINE b == task[t].block
  <1>1. /\ Creating(task[t]) /\ DOMAIN store = {} /\ sight = {}
        /\ \A u \in Task \ {t} : Resting(task[u]) /\ ~Creating(task[u])
    BY CreatorAlone DEF TrustOnFirstUse
  <1>2. /\ StepTo(t, Ending(task[t], "ok"), Insert(store, b))
        /\ cell' = "full" /\ sight' = {b}
    BY <1>1 DEF TrustOnFirstUse, Creating
  <1>3. Settled(Ending(task[t], "ok")) /\ ~Creating(Ending(task[t], "ok"))
    BY EndingRests DEF HeaderTypeOK, Ended
  <1>4. /\ store' = Insert(store, b) /\ task'[t] = Ending(task[t], "ok")
        /\ \A u \in Task \ {t} : Resting(task'[u]) /\ ~Creating(task'[u])
    BY <1>1, <1>2, OthersRole
  <1>5. \A u \in Task : Settled(task'[u]) /\ ~Creating(task'[u])
    <2>1. \A u \in Task \ {t} : Settled(task'[u])
      BY <1>4 DEF Resting, Settled, Ended
    <2> QED BY <1>3, <1>4, <2>1
  <1>6. DOMAIN store' = {b.height} /\ b.height > 0
    BY <1>1, <1>2, <1>4 DEF Insert, OneSight
  <1> HIDE DEF b
  <1> QED BY <1>2, <1>5, <1>6 DEF OneInv, Settled, Creating

\* A step of an operation of a client that is there.
LEMMA ClientIsThere ==
  ASSUME OneInv, NEW t \in Task,
         \/ At(t, "latest") /\ task[t].op = "sync"
         \/ task[t].pc \in {"compare", "fetch", "verify", "store", "check", "read"}
  PROVE  cell = "full"
  <1>1. ~Resting(task[t]) /\ ~Creating(task[t])
    BY DEF At, Resting, Creating, Ended
  <1> QED BY <1>1 DEF OneInv

LEMMA CompareOne ==
  ASSUME HeaderTypeOK, OneInv, NEW t \in Task, Compare(t)
  PROVE  OneInv'
  <1> DEFINE begun == [task[t] EXCEPT !.goal = task[t].block.height]
  <1>1. cell = "full" /\ UNCHANGED <<cell, sight>>
    BY ClientIsThere DEF Compare, At, history
  <1>2. \A h \in DOMAIN store : h > 0 /\ store[h].height = h
    BY <1>1 DEF OneInv, HeaderTypeOK
  <1>3. DOMAIN store # {}
    BY <1>1 DEF OneInv
  <1>4. begun \in TaskFields
    <2>1. task[t] \in TaskFields
      BY DEF HeaderTypeOK
    <2>2. task[t].block.height \in Height \cup {0}
      BY <2>1, BlockFacts DEF TaskFields, Heights
    <2> QED BY <2>1, <2>2 DEF TaskFields
  <1>5. CASE Quietly(t, Ending(begun, "ok"))
    <2>1. "ok" \in Ended
      BY DEF Ended
    <2> QED BY <1>1, <1>4, <1>5, <2>1, EndingRests, QuietOne
  <1>6. ASSUME NEW n, Quietly(t, [begun EXCEPT !.pc = "fetch", !.next = n])
        PROVE  OneInv'
    <2> DEFINE r == [begun EXCEPT !.pc = "fetch", !.next = n]
    <2>1. r.pc = "fetch"
      BY <1>4 DEF TaskFields
    <2>2. Settled(r) /\ ~Creating(r)
      BY <2>1 DEF Settled, Creating
    <2>3. Quietly(t, r)
      BY <1>6
    <2> HIDE DEF r
    <2> QED BY <1>1, <2>2, <2>3, QuietOne
  <1>7. ~IsCurrent(0)
    BY <1>2, <1>3 DEF IsCurrent, IsLatest, Held
  <1> QED BY <1>5, <1>6, <1>7 DEF Compare

LEMMA VerifyOne ==
  ASSUME HeaderTypeOK, OneInv, NEW t \in Task, Verify(t)
  PROVE  OneInv'
  <1>1. cell = "full" /\ UNCHANGED <<cell, sight>>
    BY ClientIsThere DEF Verify, At, history
  <1>2. CASE End(t, "failed") \/ End(t, "disorder")
    BY <1>1, <1>2, EndOne DEF Ended
  <1>3. ASSUME NEW p \in Held, Faults(p, task[t].block) = {}, Goto(t, "store")
        PROVE  OneInv'
    <2> DEFINE r == [task[t] EXCEPT !.pc = "store"]
               C == Checks(p, task[t].block)
    <2>1. task[t].block.height = p.height + 1
      <3>1. C.height
        BY <1>3 DEF Faults, Checks
      <3> QED BY <3>1 DEF Checks
    <2>2. p.height \in Nat
      BY BlockFacts DEF Held, HeaderTypeOK
    <2>3. r.pc = "store" /\ r.block = task[t].block
      BY DEF HeaderTypeOK, TaskFields
    <2>4. Settled(r) /\ ~Creating(r)
      BY <2>1, <2>2, <2>3 DEF Settled, Creating
    <2>5. Quietly(t, r)
      BY <1>3 DEF Goto
    <2> HIDE DEF r, C
    <2> QED BY <1>1, <2>4, <2>5, QuietOne
  <1> QED BY <1>2, <1>3 DEF Verify

LEMMA StoreOne ==
  ASSUME HeaderTypeOK, OneInv, NEW t \in Task, Store(t)
  PROVE  OneInv'
  <1> DEFINE b == task[t].block
             r == IF task[t].next < task[t].goal
                  THEN [task[t] EXCEPT !.pc = "fetch", !.next = @ + 1]
                  ELSE Ending(task[t], "ok")
  <1>1. cell = "full" /\ UNCHANGED <<cell, sight>>
    BY ClientIsThere DEF Store, At
  <1>2. b.height > 0
    BY <1>1 DEF OneInv, Settled, Store, At
  <1>3. Settled(r) /\ ~Creating(r)
    <2>1. Settled(Ending(task[t], "ok")) /\ ~Creating(Ending(task[t], "ok"))
      BY EndingRests DEF HeaderTypeOK, Ended
    <2>2. [task[t] EXCEPT !.pc = "fetch", !.next = @ + 1].pc = "fetch"
      BY DEF HeaderTypeOK, TaskFields
    <2> QED BY <2>1, <2>2 DEF Settled, Creating
  <1>4. StepTo(t, r, Insert(store, b))
    BY DEF Store
  <1> HIDE DEF r
  <1>5. /\ store' = Insert(store, b) /\ task'[t] = r
        /\ \A u \in Task \ {t} :
             /\ Settled(task[u]) => Settled(task'[u])
             /\ Creating(task[u]) <=> Creating(task'[u])
    BY <1>4, OthersRole
  <1>6. /\ \A u \in Task : Settled(task'[u])
        /\ \A u, v \in Task : Creating(task'[u]) /\ Creating(task'[v]) => u = v
    BY <1>1, <1>3, <1>5 DEF OneInv
  <1>7. DOMAIN store' # {} /\ \A h \in DOMAIN store' : h > 0
    BY <1>1, <1>2, <1>5 DEF OneInv, Insert
  <1> HIDE DEF b
  <1> QED BY <1>1, <1>6, <1>7 DEF OneInv, Settled, Creating

LEMMA ReadsOne ==
  ASSUME HeaderTypeOK, OneInv, NEW t \in Task,
         FetchLatest(t) \/ FetchNext(t) \/ CheckEmpty(t) \/ ReadRoot(t)
  PROVE  OneInv'
  <1>1. cell = "full" /\ UNCHANGED <<cell, sight>>
    BY ClientIsThere DEF FetchLatest, FetchNext, CheckEmpty, ReadRoot, At, history
  <1>2. CASE FetchLatest(t) \/ FetchNext(t)
    BY <1>1, <1>2, FetchOne DEF FetchLatest, FetchNext
  <1>3. CASE CheckEmpty(t)
    <2> DEFINE r == [task[t] EXCEPT !.pc = "read"]
    <2>1. Quietly(t, r)
      BY <1>1, <1>3 DEF CheckEmpty, OneInv, Goto
    <2>2. r.pc = "read"
      BY DEF HeaderTypeOK, TaskFields
    <2>3. Settled(r) /\ ~Creating(r)
      BY <2>2 DEF Settled, Creating
    <2> HIDE DEF r
    <2> QED BY <1>1, <2>1, <2>3, QuietOne
  <1>4. CASE ReadRoot(t)
    <2>1. End(t, "failed") \/ End(t, "ok")
      BY <1>4 DEF ReadRoot
    <2> QED BY <1>1, <2>1, EndOne DEF Ended
  <1> QED BY <1>2, <1>3, <1>4

LEMMA ContinueOne ==
  ASSUME HeaderTypeOK, OneInv, NEW t \in Task, Continue(t), OneSight'
  PROVE  OneInv'
  <1>1. ~TrustLatest(t)
    BY CreatorAlone DEF TrustLatest, Creating
  <1> QED BY <1>1, BeginCreateOne, FetchTrustedOne, TrustOnFirstUseOne, CompareOne, VerifyOne,
             StoreOne, ReadsOne DEF Continue

\* A change of the store under the tasks of a client that is there.
LEMMA DisturbOne ==
  ASSUME HeaderTypeOK, OneInv, cell = "full", UNCHANGED <<cell, sight>>, NEW s, Disturb(s),
         DOMAIN s # {}, \A h \in DOMAIN s : h > 0
  PROVE  OneInv'
  <1>1. \A u \in Task : /\ Settled(task[u]) => Settled(task'[u])
                        /\ Creating(task[u]) <=> Creating(task'[u])
    <2>1. \A u \in Task : task[u] \in TaskFields
      BY DEF HeaderTypeOK
    <2>2. \A u \in Task : task'[u] = task[u] \/ task'[u] = Disturbed(task[u])
      BY DEF Disturb
    <2> QED BY <2>1, <2>2, DisturbedRole
  <1>2. store' = s
    BY DEF Disturb
  <1>3. /\ \A u \in Task : Settled(task'[u])
        /\ \A u, v \in Task : Creating(task'[u]) /\ Creating(task'[v]) => u = v
        /\ \E b \in sight' : sight' = {b}
    BY <1>1 DEF OneInv
  <1> QED BY <1>2, <1>3 DEF OneInv, Settled, Creating

LEMMA PruneOne ==
  ASSUME HeaderTypeOK, OneInv, PruneOld, OneSight'
  PROVE  OneInv'
  <1> DEFINE s == [h \in Retained |-> store[h]]
  <1>1. Retained \in SUBSET DOMAIN store /\ Retained # DOMAIN store /\ Retained # {}
    BY DEF PruneOld, Retained, OneSight
  <1>2. cell = "full" /\ UNCHANGED <<cell, sight>>
    BY <1>1 DEF OneInv, PruneOld
  <1>3. Disturb(s)
    BY DEF PruneOld
  <1>4. DOMAIN s # {} /\ \A h \in DOMAIN s : h > 0
    BY <1>1, <1>2 DEF OneInv
  <1> HIDE DEF s
  <1> QED BY <1>2, <1>3, <1>4, DisturbOne

\* Every header that has been stored has a height, so that a state exported from
\* them brings none without.
LEMMA StoredHaveHeight ==
  ASSUME LinkedInv, OneSight, NEW b \in ever
  PROVE  b.height > 0
  <1>1. ever \subseteq Block /\ Grounded(b)
    BY DEF LinkedInv, HeaderTypeOK
  <1>2. CASE b \in sight
    BY <1>2 DEF OneSight
  <1>3. CASE b \in Checkpoint
    BY <1>3, HeaderAssumption
  <1>4. ASSUME NEW p \in ever, Extends(p, b)
        PROVE  b.height > 0
    <2>1. p.height \in Nat /\ b.height = p.height + 1
      BY <1>1, <1>4, BlockFacts DEF Extends
    <2> QED BY <2>1
  <1> QED BY <1>1, <1>2, <1>3, <1>4 DEF Grounded

LEMMA PinOne ==
  ASSUME HeaderTypeOK, OneInv, NEW b \in Checkpoint, Pin(b)
  PROVE  OneInv'
  <1>1. b.height > 0
    BY HeaderAssumption
  <1>2. cell = "full" /\ UNCHANGED <<cell, sight>> /\ Disturb(Insert(store, b))
    BY DEF Pin
  <1>3. DOMAIN Insert(store, b) = DOMAIN store \cup {b.height}
    BY DEF Insert
  <1>4. \A h \in DOMAIN store : h > 0
    BY <1>2 DEF OneInv
  <1> QED BY <1>1, <1>2, <1>3, <1>4, DisturbOne

LEMMA ImportOne ==
  ASSUME LinkedInv, OneSight, OneInv, Import
  PROVE  OneInv'
  <1>1. PICK S \in SUBSET ever : Disturb(Restored(store, S))
    BY DEF Import
  <1>2. cell = "full" /\ UNCHANGED <<cell, sight>> /\ HeaderTypeOK
    BY DEF Import, history, LinkedInv
  <1>3. DOMAIN Restored(store, S) = DOMAIN store \cup { b.height : b \in S }
    BY DEF Restored
  <1>4. \A b \in S : b.height > 0
    BY StoredHaveHeight
  <1>5. DOMAIN store # {} /\ \A h \in DOMAIN store : h > 0
    BY <1>2 DEF OneInv
  <1>6. DOMAIN Restored(store, S) # {} /\ \A h \in DOMAIN Restored(store, S) : h > 0
    BY <1>3, <1>4, <1>5
  <1> QED BY <1>1, <1>2, <1>6, DisturbOne

\* What OneTrust is about only stops being so.
LEMMA OneSightPast ==
  ASSUME HeaderTypeOK, [HeaderNext]_vars, OneSight'
  PROVE  OneSight
  <1>1. ASSUME NEW t \in Task, AskFor(t) \/ BeginSync(t) \/ BeginRoot(t) \/ Continue(t)
        PROVE  sight \subseteq sight' /\ UNCHANGED <<auto, emptied>>
    <2>1. CASE TrustOnFirstUse(t) \/ TrustLatest(t)
      BY <2>1 DEF TrustOnFirstUse, TrustLatest
    <2>2. CASE BeginCreate(t) \/ FetchTrusted(t) \/ FetchLatest(t) \/ Compare(t)
      BY <2>2 DEF BeginCreate, FetchTrusted, FetchLatest, Compare, history
    <2>3. CASE FetchNext(t) \/ Verify(t) \/ Store(t) \/ CheckEmpty(t) \/ ReadRoot(t)
      BY <2>3 DEF FetchNext, Verify, Store, CheckEmpty, ReadRoot, history
    <2>4. CASE AskFor(t) \/ BeginSync(t) \/ BeginRoot(t)
      BY <2>4 DEF AskFor, BeginSync, BeginRoot, history
    <2> QED BY <1>1, <2>1, <2>2, <2>3, <2>4 DEF Continue
  <1>2. ASSUME NEW b \in Checkpoint, Pin(b)
        PROVE  UNCHANGED <<sight, auto, emptied>>
    BY <1>2 DEF Pin
  <1>3. CASE PruneOld
    BY <1>3 DEF PruneOld, OneSight
  <1>4. CASE Import \/ Tick \/ UNCHANGED vars
    <2>1. UNCHANGED <<auto, emptied, sight>>
      BY <1>4 DEF Import, Tick, vars, history
    <2> QED BY <2>1 DEF OneSight
  <1>5. CASE Restart
    <2>1. emptied' = TRUE
      BY <1>5 DEF Restart
    <2> QED BY <2>1 DEF OneSight
  <1> QED BY <1>1, <1>2, <1>3, <1>4, <1>5 DEF OneSight, HeaderNext

LEMMA NextOne ==
  ASSUME LinkedInv, OneSight => OneInv, [HeaderNext]_vars
  PROVE  OneSight' => OneInv'
  <1> SUFFICES ASSUME OneSight' PROVE OneInv'
    OBVIOUS
  <1>1. OneSight /\ OneInv /\ HeaderTypeOK
    BY OneSightPast DEF LinkedInv
  <1>2. ~Restart
    BY DEF Restart, OneSight
  <1>3. CASE Tick \/ UNCHANGED vars
    <2>1. UNCHANGED <<store, cell, task, sight>>
      BY <1>3 DEF Tick, vars, history
    <2> QED BY <1>1, <2>1 DEF OneInv, Resting, Creating, Settled
  <1>4. CASE PruneOld
    BY <1>1, <1>4, PruneOne
  <1>5. ASSUME NEW t \in Task, AskFor(t) \/ BeginSync(t) \/ BeginRoot(t) \/ Continue(t)
        PROVE  OneInv'
    BY <1>1, <1>5, StartOne, ContinueOne
  <1>6. CASE Import \/ \E b \in Checkpoint : Pin(b)
    BY <1>1, <1>6, PinOne, ImportOne
  <1> QED BY <1>2, <1>3, <1>4, <1>5, <1>6 DEF HeaderNext

\* However many tasks ask for the light client at once, and whatever the endpoints
\* answer, a client created on first use trusts one header on sight: creation is
\* one task's at a time, and once the client is there its store is never found
\* empty.
THEOREM TrustedOnce == HeaderSpec => []OneTrust
  <1>1. HeaderInit => (OneSight => OneInv)
    <2>1. HeaderInit /\ OneSight => \A u \in Task : Resting(task[u]) /\ ~Creating(task[u])
      BY DEF HeaderInit, Idle, Resting, Creating, Ended
    <2> QED BY <2>1 DEF HeaderInit, OneSight, OneInv
  <1>2. LinkedInv /\ (OneSight => OneInv) /\ [HeaderNext]_vars => (OneSight => OneInv)'
    BY NextOne
  <1>3. LinkedInv /\ (OneSight => OneInv) => OneTrust
    <2>1. cell \in {"empty", "busy", "full"} => (OneInv => \A a, b \in sight : a = b)
      BY DEF OneInv
    <2> QED BY <2>1 DEF LinkedInv, HeaderTypeOK, OneSight, OneTrust
  <1> QED BY <1>1, <1>2, <1>3, HeaderInvariance, PTL DEF HeaderSpec
-----------------------------------------------------------------------------
(* A sync that has the store to itself *)

\* A sync that no other use of the store interleaved with, and whose answers are of
\* the heights it asked for ...
Alone(r) == r.op = "sync" /\ r.alone /\ r.asAsked

\* ... is one height past the latest header of the store s.
InOrder(r, s) ==
  Alone(r) =>
    /\ r.pc \notin {"disorder", "wait", "check", "read"}
    /\ r.pc = "ok" /\ r.goal > 0 => \E h \in DOMAIN s : h >= r.goal
    /\ r.pc \in {"fetch", "verify", "store"} =>
         /\ 0 < r.next /\ r.next <= r.goal
         /\ r.next - 1 \in DOMAIN s /\ \A h \in DOMAIN s : h <= r.next - 1
    /\ r.pc \in {"verify", "store"} => r.block.height = r.next
    /\ r.pc = "trust" => r.block.height = r.goal

OrderInv == \A t \in Task : InOrder(task[t], store)

LEMMA DisturbedOrder ==
  ASSUME NEW r \in TaskFields
  PROVE  ~Alone(Disturbed(r))
  <1>1. CASE r.pc \in Ended
    BY <1>1 DEF Disturbed, Idle, Alone
  <1>2. CASE r.pc \notin Ended
    BY <1>2 DEF Disturbed, TaskFields, Alone
  <1> QED BY <1>1, <1>2

LEMMA OrderStep ==
  ASSUME HeaderTypeOK, OrderInv, NEW t \in Task, NEW r, NEW s, StepTo(t, r, s), InOrder(r, s)
  PROVE  OrderInv'
  <1>1. store' = s
    BY DEF StepTo
  <1>2. ASSUME NEW u \in Task
        PROVE  InOrder(task'[u], s)
    <2>1. CASE u = t
      BY <2>1 DEF StepTo
    <2>2. CASE u # t /\ s = store
      BY <2>2 DEF StepTo, OrderInv
    <2>3. CASE u # t /\ s # store
      <3>1. task'[u] = Disturbed(task[u]) /\ task[u] \in TaskFields
        BY <2>3 DEF StepTo, HeaderTypeOK
      <3> QED BY <3>1, DisturbedOrder DEF InOrder
    <2> QED BY <2>1, <2>2, <2>3
  <1> QED BY <1>1, <1>2 DEF OrderInv, InOrder, Alone

LEMMA OrderDisturb ==
  ASSUME HeaderTypeOK, OrderInv, NEW s, Disturb(s)
  PROVE  OrderInv'
  <1>1. store' = s
    BY DEF Disturb
  <1>2. ASSUME NEW u \in Task
        PROVE  InOrder(task'[u], s)
    <2>1. CASE s = store
      BY <2>1 DEF Disturb, OrderInv
    <2>2. CASE s # store
      <3>1. task'[u] = Disturbed(task[u]) /\ task[u] \in TaskFields
        BY <2>2 DEF Disturb, HeaderTypeOK
      <3> QED BY <3>1, DisturbedOrder DEF InOrder
    <2> QED BY <2>1, <2>2
  <1> QED BY <1>1, <1>2 DEF OrderInv, InOrder, Alone

\* What a task ends with is in order if the sync it ends was.
LEMMA EndingOrder ==
  ASSUME NEW r \in TaskFields, NEW s, NEW pc \in Ended,
         Alone(r) => /\ pc # "disorder"
                     /\ pc = "ok" /\ r.goal > 0 => \E h \in DOMAIN s : h >= r.goal
  PROVE  InOrder(Ending(r, pc), s)
  <1>1. CASE Alone(r)
    <2> DEFINE e == [r EXCEPT !.pc = pc, !.block = Unreadable, !.next = 0]
    <2>1. Ending(r, pc) = e
      BY <1>1 DEF Ending, Alone
    <2>2. e.pc = pc /\ e.goal = r.goal
      BY DEF TaskFields
    <2> HIDE DEF e
    <2> QED BY <1>1, <2>1, <2>2 DEF InOrder, Ended
  <1>2. CASE ~Alone(r)
    BY <1>2 DEF Ending, Idle, InOrder, Alone
  <1> QED BY <1>1, <1>2

LEMMA EndOrder ==
  ASSUME HeaderTypeOK, OrderInv, NEW t \in Task, NEW pc \in Ended, End(t, pc),
         pc = "failed" \/ ~Alone(task[t])
  PROVE  OrderInv'
  <1>1. task[t] \in TaskFields
    BY DEF HeaderTypeOK
  <1>2. InOrder(Ending(task[t], pc), store)
    BY <1>1, EndingOrder
  <1> QED BY <1>2, OrderStep DEF End, Quietly

\* Whatever a task that is no such sync does, it becomes none by it.
LEMMA OthersOrder ==
  ASSUME HeaderTypeOK, OrderInv, NEW t \in Task, Continue(t), ~Alone(task[t])
  PROVE  OrderInv'
  <1> DEFINE k == task[t]
  <1>1. k \in TaskFields /\ k = task[t]
    BY DEF HeaderTypeOK
  <1> HIDE DEF k
  <1>2. ASSUME NEW r, NEW s, StepTo(t, r, s), ~Alone(r)
        PROVE  OrderInv'
    BY <1>2, OrderStep DEF InOrder
  <1>3. ASSUME NEW pc, Goto(t, pc)
        PROVE  OrderInv'
    <2>1. ~Alone([k EXCEPT !.pc = pc])
      BY <1>1 DEF TaskFields, Alone
    <2> QED BY <1>1, <1>2, <1>3, <2>1 DEF Goto, Quietly
  <1>4. ASSUME NEW pc \in Ended, End(t, pc)
        PROVE  OrderInv'
    BY <1>4, EndOrder
  <1>5. ASSUME NEW pc, NEW h, Fetch(t, pc, h)
        PROVE  OrderInv'
    <2>1. CASE End(t, "failed")
      BY <1>4, <2>1 DEF Ended
    <2>2. ASSUME NEW b \in Block,
                 Quietly(t, [k EXCEPT !.pc = pc, !.block = b,
                                      !.asAsked = @ /\ (h = 0 \/ b.height = h)])
          PROVE  OrderInv'
      <3>1. ~Alone([k EXCEPT !.pc = pc, !.block = b, !.asAsked = @ /\ (h = 0 \/ b.height = h)])
        BY <1>1 DEF TaskFields, Alone
      <3> QED BY <1>2, <2>2, <3>1 DEF Quietly
    <2> QED BY <1>1, <1>5, <2>1, <2>2 DEF Fetch
  <1>6. \A pc : ~Alone(Ending(k, pc))
    BY <1>1 DEF Ending, Idle, Alone
  <1>7. CASE Compare(t)
    <2> DEFINE begun == [k EXCEPT !.goal = k.block.height]
    <2>1. ~Alone(begun)
      BY <1>1 DEF TaskFields, Alone
    <2>2. ~Alone(Ending(begun, "ok"))
      BY <2>1 DEF Ending, Idle, Alone
    <2>3. ~Alone([begun EXCEPT !.pc = "trust"])
      BY <1>1 DEF TaskFields, Alone
    <2>4. \A n : ~Alone([begun EXCEPT !.pc = "fetch", !.next = n])
      BY <1>1 DEF TaskFields, Alone
    <2>5. \/ Quietly(t, Ending(begun, "ok"))
          \/ Quietly(t, [begun EXCEPT !.pc = "trust"])
          \/ End(t, "failed")
          \/ \E n : Quietly(t, [begun EXCEPT !.pc = "fetch", !.next = n])
      BY <1>1, <1>7 DEF Compare
    <2> HIDE DEF begun
    <2> QED BY <1>2, <1>4, <2>2, <2>3, <2>4, <2>5 DEF Quietly, Ended
  <1>8. CASE TrustOnFirstUse(t)
    <2>1. ~Alone([k EXCEPT !.pc = "read"])
      BY <1>1 DEF TaskFields, Alone
    <2> QED BY <1>1, <1>2, <1>6, <1>8, <2>1 DEF TrustOnFirstUse
  <1>9. CASE TrustLatest(t)
    BY <1>1, <1>2, <1>6, <1>9 DEF TrustLatest
  <1>10. CASE Store(t)
    <2>1. ~Alone([k EXCEPT !.pc = "fetch", !.next = @ + 1])
      BY <1>1 DEF TaskFields, Alone
    <2> QED BY <1>1, <1>2, <1>6, <1>10, <2>1 DEF Store
  <1>11. CASE Verify(t)
    <2>1. End(t, "failed") \/ End(t, "disorder") \/ Goto(t, "store")
      BY <1>11 DEF Verify
    <2> QED BY <1>3, <1>4, <2>1 DEF Ended
  <1>12. CASE BeginCreate(t) \/ FetchTrusted(t) \/ FetchLatest(t) \/ FetchNext(t)
              \/ CheckEmpty(t) \/ ReadRoot(t)
    <2>1. \/ End(t, "ok") \/ End(t, "failed") \/ Goto(t, "latest") \/ Goto(t, "read")
          \/ \E pc, h : Fetch(t, pc, h)
      BY <1>12 DEF BeginCreate, FetchTrusted, FetchLatest, FetchNext, CheckEmpty, ReadRoot
    <2> QED BY <1>3, <1>4, <1>5, <2>1 DEF Ended
  <1> QED BY <1>7, <1>8, <1>9, <1>10, <1>11, <1>12 DEF Continue

LEMMA AloneFacts ==
  ASSUME HeaderTypeOK, OrderInv, NEW t \in Task, Alone(task[t])
  PROVE  /\ task[t] \in TaskFields /\ task[t].op = "sync"
         /\ task[t].next \in Nat /\ task[t].goal \in Nat
         /\ task[t].block \in Block /\ task[t].block.height \in Nat
         /\ InOrder(task[t], store)
  <1>1. task[t] \in TaskFields /\ InOrder(task[t], store)
    BY DEF HeaderTypeOK, OrderInv
  <1>2. task[t].block \in Block /\ task[t].goal \in Heights
    BY <1>1 DEF TaskFields, Heights
  <1> QED BY <1>1, <1>2, BlockFacts, HeightsAreNumbers DEF TaskFields, Alone

\* An answer of the height asked for; another ends the claim of order.
LEMMA FetchOrder ==
  ASSUME HeaderTypeOK, OrderInv, NEW t \in Task, Alone(task[t]),
         FetchLatest(t) \/ FetchNext(t)
  PROVE  OrderInv'
  <1> DEFINE k == task[t]
  <1>1. k \in TaskFields /\ InOrder(k, store) /\ k = task[t]
    BY AloneFacts
  <1> HIDE DEF k
  <1>2. CASE End(t, "failed")
    BY <1>2, EndOrder DEF Ended
  <1>3. ASSUME NEW b \in Block,
               FetchLatest(t),
               Quietly(t, [k EXCEPT !.pc = "compare", !.block = b,
                                    !.asAsked = @ /\ (0 = 0 \/ b.height = 0)])
        PROVE  OrderInv'
    <2> DEFINE r == [k EXCEPT !.pc = "compare", !.block = b,
                              !.asAsked = @ /\ (0 = 0 \/ b.height = 0)]
    <2>1. r.pc = "compare"
      BY <1>1 DEF TaskFields
    <2>2. Quietly(t, r)
      BY <1>3
    <2> HIDE DEF r
    <2>3. InOrder(r, store)
      BY <2>1 DEF InOrder
    <2> QED BY <2>2, <2>3, OrderStep DEF Quietly
  <1>4. ASSUME NEW b \in Block,
               FetchNext(t),
               Quietly(t, [k EXCEPT !.pc = "verify", !.block = b,
                                    !.asAsked = @ /\ (k.next = 0 \/ b.height = k.next)])
        PROVE  OrderInv'
    <2> DEFINE r == [k EXCEPT !.pc = "verify", !.block = b,
                              !.asAsked = @ /\ (k.next = 0 \/ b.height = k.next)]
    <2>1. /\ r.pc = "verify" /\ r.block = b /\ r.next = k.next /\ r.goal = k.goal
          /\ Alone(r) => k.next = 0 \/ b.height = k.next
      BY <1>1 DEF TaskFields, Alone
    <2>2. k.pc = "fetch"
      BY <1>1, <1>4 DEF FetchNext, At
    <2>3. /\ 0 < k.next /\ k.next <= k.goal /\ k.next \in Nat
          /\ k.next - 1 \in DOMAIN store /\ \A h \in DOMAIN store : h <= k.next - 1
      BY <1>1, <2>2, AloneFacts DEF InOrder
    <2>4. Quietly(t, r)
      BY <1>4
    <2> HIDE DEF r
    <2>5. InOrder(r, store)
      BY <2>1, <2>3 DEF InOrder
    <2> QED BY <2>4, <2>5, OrderStep DEF Quietly
  <1> QED BY <1>1, <1>2, <1>3, <1>4 DEF FetchLatest, FetchNext, Fetch

\* Where a sync starts from, and for which height.
LEMMA CompareOrder ==
  ASSUME HeaderTypeOK, OrderInv, NEW t \in Task, Alone(task[t]), Compare(t)
  PROVE  OrderInv'
  <1> DEFINE k == task[t]
             begun == [k EXCEPT !.goal = k.block.height]
  <1>1. k \in TaskFields /\ k = task[t] /\ k.block.height \in Heights /\ k.block.height \in Nat
    BY AloneFacts, BlockFacts
  <1>2. /\ begun \in TaskFields /\ begun.goal = k.block.height /\ begun.block = k.block
    BY <1>1 DEF TaskFields, Heights
  <1>3. PICK h \in Heights :
          /\ IsCurrent(h)
          /\ \/ h >= begun.goal /\ Quietly(t, Ending(begun, "ok"))
             \/ Quietly(t, [begun EXCEPT !.pc = "trust"])
             \/ End(t, "failed")
             \/ /\ 0 < h /\ h < begun.goal
                /\ Quietly(t, [begun EXCEPT !.pc = "fetch", !.next = FirstMissing(h)])
    BY <1>2 DEF Compare, Heights
  <1>4. h \in Nat /\ begun.goal \in Nat
    BY <1>1, <1>2, HeightsAreNumbers
  <1>5. h > 0 => h \in DOMAIN store /\ \A g \in DOMAIN store : g <= h
    BY <1>3, <1>4 DEF IsCurrent, IsLatest, Held, HeaderTypeOK
  <1> HIDE DEF k, begun
  <1>6. CASE h >= begun.goal /\ Quietly(t, Ending(begun, "ok"))
    <2>1. begun.goal > 0 => \E g \in DOMAIN store : g >= begun.goal
      BY <1>4, <1>5, <1>6
    <2>2. InOrder(Ending(begun, "ok"), store)
      BY <1>2, <2>1, EndingOrder DEF Ended
    <2> QED BY <1>6, <2>2, OrderStep DEF Quietly
  <1>7. CASE Quietly(t, [begun EXCEPT !.pc = "trust"])
    <2> DEFINE r == [begun EXCEPT !.pc = "trust"]
    <2>1. r.pc = "trust" /\ r.block = begun.block /\ r.goal = begun.goal
      BY <1>2 DEF TaskFields
    <2>2. Quietly(t, r)
      BY <1>7
    <2> HIDE DEF r
    <2>3. InOrder(r, store)
      BY <1>2, <2>1 DEF InOrder
    <2> QED BY <2>2, <2>3, OrderStep DEF Quietly
  <1>8. CASE End(t, "failed")
    BY <1>8, EndOrder DEF Ended
  <1>9. CASE /\ 0 < h /\ h < begun.goal
             /\ Quietly(t, [begun EXCEPT !.pc = "fetch", !.next = FirstMissing(h)])
    <2> DEFINE r == [begun EXCEPT !.pc = "fetch", !.next = FirstMissing(h)]
    <2>1. r.pc = "fetch" /\ r.next = h + 1 /\ r.goal = begun.goal
      BY <1>2 DEF TaskFields, FirstMissing
    <2>2. Quietly(t, r)
      BY <1>9
    <2> HIDE DEF r
    <2>3. 0 < h + 1 /\ h + 1 <= begun.goal /\ (h + 1) - 1 = h
      BY <1>4, <1>9
    <2>4. InOrder(r, store)
      BY <1>5, <1>9, <2>1, <2>3 DEF InOrder
    <2> QED BY <2>2, <2>4, OrderStep DEF Quietly
  <1> QED BY <1>3, <1>6, <1>7, <1>8, <1>9

\* The latest header is one below the height asked for: no fault is one of height.
LEMMA VerifyOrder ==
  ASSUME HeaderTypeOK, OrderInv, NEW t \in Task, Alone(task[t]), Verify(t)
  PROVE  OrderInv'
  <1> DEFINE k == task[t]
  <1>1. k \in TaskFields /\ k = task[t] /\ InOrder(k, store) /\ Alone(k) /\ k.pc = "verify"
    BY AloneFacts DEF Verify, At
  <1>2. /\ 0 < k.next /\ k.next <= k.goal /\ k.next \in Nat
        /\ k.next - 1 \in DOMAIN store /\ \A h \in DOMAIN store : h <= k.next - 1
        /\ k.block.height = k.next
    BY <1>1, AloneFacts DEF InOrder
  <1> HIDE DEF k
  <1>3. CASE End(t, "failed")
    BY <1>3, EndOrder DEF Ended
  <1>4. CASE Goto(t, "store")
    <2> DEFINE r == [k EXCEPT !.pc = "store"]
    <2>1. r.pc = "store" /\ r.next = k.next /\ r.goal = k.goal /\ r.block = k.block
      BY <1>1 DEF TaskFields
    <2>2. Quietly(t, r)
      BY <1>1, <1>4 DEF Goto
    <2> HIDE DEF r
    <2>3. InOrder(r, store)
      BY <1>2, <2>1 DEF InOrder
    <2> QED BY <2>2, <2>3, OrderStep DEF Quietly
  <1>5. ASSUME NEW p \in Held, IsLatest(p)
        PROVE  "height" \notin Faults(p, k.block)
    <2>1. PICK g \in DOMAIN store : p = store[g] /\ p.height = g
      BY DEF Held, HeaderTypeOK
    <2>2. g \in Nat
      BY <2>1, HeightsAreNumbers DEF HeaderTypeOK, Heights
    <2>3. k.block.height = p.height + 1
      BY <1>2, <1>5, <2>1, <2>2 DEF IsLatest
    <2>4. Checks(p, k.block)["height"] = TRUE
      BY <2>3 DEF Checks
    <2> QED BY <2>4 DEF Faults
  <1> QED BY <1>1, <1>3, <1>4, <1>5 DEF Verify

LEMMA StoredOrder ==
  ASSUME HeaderTypeOK, OrderInv, NEW t \in Task, Alone(task[t]), Store(t) \/ TrustLatest(t)
  PROVE  OrderInv'
  <1> DEFINE k == task[t]
             s == Insert(store, k.block)
  <1>1. /\ k \in TaskFields /\ k = task[t] /\ InOrder(k, store) /\ Alone(k)
        /\ k.next \in Nat /\ k.goal \in Nat
    BY AloneFacts
  <1>2. DOMAIN s = DOMAIN store \cup {k.block.height}
    BY DEF Insert
  <1> HIDE DEF k, s
  <1>3. CASE TrustLatest(t)
    <2>1. k.block.height = k.goal
      BY <1>1, <1>3 DEF InOrder, TrustLatest, At
    <2>2. InOrder(Ending(k, "ok"), s)
      BY <1>1, <1>2, <2>1, EndingOrder DEF Ended
    <2>3. StepTo(t, Ending(k, "ok"), s)
      BY <1>1, <1>3 DEF TrustLatest, s
    <2> QED BY <2>2, <2>3, OrderStep
  <1>4. CASE Store(t)
    <2>1. /\ 0 < k.next /\ k.next <= k.goal
          /\ \A h \in DOMAIN store : h <= k.next - 1
          /\ k.block.height = k.next
      BY <1>1, <1>4 DEF InOrder, Store, At
    <2>2. \A h \in DOMAIN store : h \in Nat
      BY HeightsAreNumbers DEF HeaderTypeOK, Heights
    <2>3. k.next \in DOMAIN s /\ \A h \in DOMAIN s : h <= k.next
      BY <1>1, <1>2, <2>1, <2>2
    <2>4. CASE k.next < k.goal
      <3> DEFINE r == [k EXCEPT !.pc = "fetch", !.next = @ + 1]
      <3>1. r.pc = "fetch" /\ r.next = k.next + 1 /\ r.goal = k.goal
        BY <1>1 DEF TaskFields
      <3>2. StepTo(t, r, s)
        BY <1>1, <1>4, <2>4 DEF Store, s
      <3> HIDE DEF r
      <3>3. 0 < k.next + 1 /\ k.next + 1 <= k.goal /\ (k.next + 1) - 1 = k.next
        BY <1>1, <2>4
      <3>4. InOrder(r, s)
        BY <2>3, <3>1, <3>3 DEF InOrder
      <3> QED BY <3>2, <3>4, OrderStep
    <2>5. CASE ~(k.next < k.goal)
      <3>1. k.next = k.goal
        BY <1>1, <2>1, <2>5
      <3>2. InOrder(Ending(k, "ok"), s)
        BY <1>1, <2>3, <3>1, EndingOrder DEF Ended
      <3>3. StepTo(t, Ending(k, "ok"), s)
        BY <1>1, <1>4, <2>5 DEF Store, s
      <3> QED BY <3>2, <3>3, OrderStep
    <2> QED BY <2>4, <2>5
  <1> QED BY <1>3, <1>4

LEMMA ContinueOrder ==
  ASSUME HeaderTypeOK, OrderInv, NEW t \in Task, Continue(t)
  PROVE  OrderInv'
  <1>1. CASE Alone(task[t])
    <2>1. task[t].pc \notin {"wait", "check", "read"} /\ task[t].op = "sync"
      BY <1>1, AloneFacts DEF InOrder
    <2>2. \/ FetchLatest(t) \/ FetchNext(t) \/ Compare(t) \/ Verify(t) \/ Store(t) \/ TrustLatest(t)
      BY <2>1 DEF Continue, BeginCreate, FetchTrusted, TrustOnFirstUse, CheckEmpty, ReadRoot, At
    <2> QED BY <1>1, <2>2, FetchOrder, CompareOrder, VerifyOrder, StoredOrder
  <1>2. CASE ~Alone(task[t])
    BY <1>2, OthersOrder
  <1> QED BY <1>1, <1>2

LEMMA NextOrder ==
  ASSUME HeaderTypeOK, OrderInv, [HeaderNext]_vars
  PROVE  OrderInv'
  <1>1. ASSUME NEW t \in Task, NEW op, NEW pc, Start(t, op, pc),
               op # "sync" \/ pc = "latest"
        PROVE  OrderInv'
    <2> DEFINE r == [Idle EXCEPT !.op = op, !.pc = pc]
    <2>1. r.op = op /\ r.pc = pc
      BY DEF Idle
    <2>2. StepTo(t, r, store)
      BY <1>1 DEF Start, Quietly
    <2> HIDE DEF r
    <2>3. InOrder(r, store)
      BY <1>1, <2>1 DEF InOrder, Alone
    <2> QED BY <2>2, <2>3, OrderStep
  <1>2. ASSUME NEW t \in Task, AskFor(t) \/ BeginSync(t) \/ BeginRoot(t)
        PROVE  OrderInv'
    BY <1>1, <1>2 DEF AskFor, BeginSync, BeginRoot
  <1>3. CASE PruneOld \/ Import \/ \E b \in Checkpoint : Pin(b)
    BY <1>3, OrderDisturb DEF PruneOld, Import, Pin
  <1>4. CASE Restart
    <2>1. \A t \in Task : task'[t] = Idle
      BY <1>4 DEF Restart
    <2> QED BY <2>1 DEF OrderInv, InOrder, Alone, Idle
  <1>5. CASE Tick \/ UNCHANGED vars
    <2>1. UNCHANGED <<store, task>>
      BY <1>5 DEF Tick, vars
    <2> QED BY <2>1 DEF OrderInv, InOrder, Alone
  <1> QED BY <1>2, <1>3, <1>4, <1>5, ContinueOrder DEF HeaderNext

\* A sync that has the store to itself, and is answered with the heights it asks
\* for, does not fail on their order, and where it succeeds it has reached the
\* height it set out for, however many headers lie between.
THEOREM SyncAloneReaches == HeaderSpec => []AloneInOrder
  <1>1. HeaderInit => OrderInv
    BY DEF HeaderInit, Idle, OrderInv, InOrder, Alone
  <1>2. LinkedInv /\ OrderInv /\ [HeaderNext]_vars => OrderInv'
    BY NextOrder DEF LinkedInv
  <1>3. OrderInv => AloneInOrder
    <2> SUFFICES ASSUME OrderInv, NEW t \in Task, Alone(task[t])
                 PROVE  /\ ~At(t, "disorder")
                        /\ At(t, "ok") /\ task[t].goal > 0 =>
                             \E h \in DOMAIN store : h >= task[t].goal
      BY DEF AloneInOrder, Alone
    <2> QED BY DEF OrderInv, InOrder, At
  <1> QED BY <1>1, <1>2, <1>3, HeaderInvariance, PTL DEF HeaderSpec

=============================================================================
