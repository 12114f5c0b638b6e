-------------------------- MODULE NonceLeases_proofs --------------------------
(***************************************************************************)
(* Theorems about NonceLeases for every set of writes, window, hold, lag   *)
(* and bounds. The argument has three layers: what the tracker knows is    *)
(* sound (KInv); every stamp belongs to a write (NoLeak); and, when writes *)
(* are punctual and callers bring no nonces of their own, a write's nonce  *)
(* is protected by a stamp as young as its claim (Protected), so no other  *)
(* write can take it.                                                      *)
(***************************************************************************)
EXTENDS NonceLeases, TLAPS

-----------------------------------------------------------------------------
(* What the tracker's operations do to an account, for every window, hold, *)
(* lag and largest nonce.  Each lemma says what an operation keeps of the  *)
(* nonces known used (Dead) and of the stamps.                             *)

USE TrackerAssumption DEF Nonce, Lag, Cap, Absent, Age

\* An answer adds what it shows used to what is known, and touches no stamp
\* (refresh()).
LEMMA MergeLemma ==
  ASSUME NEW a \in Account, NEW s \in ChainState
  PROVE  /\ Merge(a, s) \in Account
         /\ Merge(a, s).base = Larger(a.base, s.base)
         /\ Merge(a, s).handed = a.handed
         /\ \A n \in Nonce :
              Dead(Merge(a, s), n) <=> Dead(a, n) \/ n <= s.base \/ n \in UsedNonces(s)
<1>1. UsedNonces(s) \subseteq Nonce
  BY DEF ChainState, UsedNonces, SatAdd
<1>2. Larger(a.base, s.base) \in 0 .. MaxNonce
  BY DEF Account, ChainState, Larger
<1>3. /\ Merge(a, s).base = Larger(a.base, s.base)
      /\ Merge(a, s).used = a.used \cup UsedNonces(s)
      /\ Merge(a, s).handed = a.handed
      /\ Merge(a, s) \in Account
  BY <1>1, <1>2 DEF Account, Merge
<1>4. \A n \in Nonce :
        n <= Larger(a.base, s.base) <=> n <= a.base \/ n <= s.base
  BY DEF Account, ChainState, Larger
<1>. QED
  BY <1>3, <1>4 DEF Dead

\* A refresh forgets nothing known used, keeps every stamp younger than the hold
\* on a nonce not known used, and keeps no other stamp (refresh()).
LEMMA PruneLemma ==
  ASSUME NEW a \in Account, NEW lag \in Lag
  PROVE  /\ Pruned(Prune(a, lag))
         /\ Prune(a, lag).base = a.base
         /\ \A n \in Nonce : Dead(Prune(a, lag), n) <=> Dead(a, n)
         /\ \A n \in Nonce :
              \/ Prune(a, lag).handed[n] = Absent
              \/ Prune(a, lag).handed[n] = a.handed[n] /\ a.handed[n] < Cap
         /\ \A n \in Nonce :
              ~Dead(a, n) /\ a.handed[n] < Hold => Prune(a, lag).handed[n] = a.handed[n]
<1>. DEFINE p == Prune(a, lag)
<1>1. /\ a.base \in 0 .. MaxNonce
      /\ a.used \subseteq Nonce
      /\ a.handed \in [Nonce -> Age]
  BY DEF Account
<1>2. /\ p.base = a.base
      /\ p.used = { n \in a.used : n > a.base }
  BY DEF Prune
<1>3. \A n \in Nonce : Dead(p, n) <=> Dead(a, n)
  BY <1>1, <1>2 DEF Dead
<1>4. \A n \in Nonce :
        p.handed[n] = IF ~Dead(a, n) /\ a.handed[n] # Absent /\ Elapsed(a.handed[n], lag) < Hold
                        THEN a.handed[n] ELSE Absent
  BY <1>1 DEF Prune, Dead
<1>5. \A age \in Age : age # Absent /\ Elapsed(age, lag) < Hold => age < Cap
  BY DEF Elapsed
<1>6. \A age \in Age : age < Hold => age # Absent /\ Elapsed(age, lag) < Hold
  BY DEF Elapsed
<1>7. p \in Account
  BY <1>1, <1>2 DEF Prune, Account
<1>8. \A n \in Nonce : Dead(p, n) => p.handed[n] = Absent
  BY <1>3, <1>4
<1>9. Pruned(p)
  BY <1>2, <1>7, <1>8 DEF Pruned
<1>. HIDE DEF p
<1>10. \A n \in Nonce :
         \/ p.handed[n] = Absent
         \/ p.handed[n] = a.handed[n] /\ a.handed[n] < Cap
  BY <1>1, <1>4, <1>5
<1>11. \A n \in Nonce :
         ~Dead(a, n) /\ a.handed[n] < Hold => p.handed[n] = a.handed[n]
  BY <1>1, <1>4, <1>6
<1>. QED
  BY <1>2, <1>3, <1>9, <1>10, <1>11 DEF p

\* A stamp changes nothing else.
LEMMA StampLemma ==
  ASSUME NEW a \in Account, NEW n \in Nonce, NEW age \in Age
  PROVE  /\ Stamp(a, n, age) \in Account
         /\ Stamp(a, n, age).base = a.base
         /\ Stamp(a, n, age).used = a.used
         /\ \A m \in Nonce : Stamp(a, n, age).handed[m] = IF m = n THEN age ELSE a.handed[m]
<1>1. Stamp(a, n, age) = [a EXCEPT !.handed = [a.handed EXCEPT ![n] = age]]
  BY DEF Stamp, Account
<1>2. /\ [a.handed EXCEPT ![n] = age] \in [Nonce -> Age]
      /\ \A m \in Nonce : [a.handed EXCEPT ![n] = age][m] = IF m = n THEN age ELSE a.handed[m]
  BY DEF Account
<1>. QED
  BY <1>1, <1>2 DEF Account

\* hold() learns and forgets nothing of what is used; it stamps n unless n is
\* known used, and leaves the other stamps as a refresh does.
LEMMA HoldLemma ==
  ASSUME NEW a \in Account, NEW n \in Nonce, NEW lag \in Lag
  PROVE  /\ Pruned(HoldOf(a, n, lag))
         /\ HoldOf(a, n, lag).base = a.base
         /\ \A m \in Nonce : Dead(HoldOf(a, n, lag), m) <=> Dead(a, m)
         /\ Dead(a, n) \/ HoldOf(a, n, lag).handed[n] = lag
         /\ \A m \in Nonce \ {n} : HoldOf(a, n, lag).handed[m] \in {Absent, a.handed[m]}
         /\ \A m \in Nonce \ {n} :
              ~Dead(a, m) /\ a.handed[m] < Hold => HoldOf(a, n, lag).handed[m] = a.handed[m]
<1>. DEFINE p == Prune(a, lag)
<1>1. /\ Pruned(p) /\ p.base = a.base
      /\ \A m \in Nonce : Dead(p, m) <=> Dead(a, m)
      /\ \A m \in Nonce : p.handed[m] \in {Absent, a.handed[m]}
      /\ \A m \in Nonce : ~Dead(a, m) /\ a.handed[m] < Hold => p.handed[m] = a.handed[m]
  BY PruneLemma
<1>2. lag \in Age
  OBVIOUS
<1>3. HoldOf(a, n, lag) = IF Dead(p, n) THEN p ELSE Stamp(p, n, lag)
  BY DEF HoldOf
<1>. HIDE DEF p
<1>4. CASE Dead(p, n)
  BY <1>1, <1>3, <1>4 DEF p
<1>5. CASE ~Dead(p, n)
  <2>1. /\ Stamp(p, n, lag) \in Account
        /\ Stamp(p, n, lag).base = p.base
        /\ Stamp(p, n, lag).used = p.used
        /\ \A m \in Nonce : Stamp(p, n, lag).handed[m] = IF m = n THEN lag ELSE p.handed[m]
    BY <1>1, <1>2, StampLemma DEF Pruned
  <2>2. \A m \in Nonce : Dead(Stamp(p, n, lag), m) <=> Dead(p, m)
    BY <2>1 DEF Dead
  <2>3. Pruned(Stamp(p, n, lag))
    BY <1>1, <1>5, <2>1, <2>2 DEF Pruned
  <2>. QED
    BY <1>1, <1>3, <1>5, <2>1, <2>2, <2>3 DEF p
<1>. QED
  BY <1>4, <1>5

\* release() removes one stamp and nothing else.
LEMMA ReleaseLemma ==
  ASSUME NEW a, Pruned(a), NEW n \in Nonce
  PROVE  /\ Pruned(Released(a, n))
         /\ Released(a, n).base = a.base
         /\ Released(a, n).used = a.used
         /\ \A m \in Nonce : Dead(Released(a, n), m) <=> Dead(a, m)
         /\ \A m \in Nonce : Released(a, n).handed[m] = IF m = n THEN Absent ELSE a.handed[m]
<1>1. a \in Account
  BY DEF Pruned
<1>2. Released(a, n) = [a EXCEPT !.handed = [a.handed EXCEPT ![n] = Absent]]
  BY <1>1 DEF Released, Account
<1>3. /\ [a.handed EXCEPT ![n] = Absent] \in [Nonce -> Age]
      /\ \A m \in Nonce : [a.handed EXCEPT ![n] = Absent][m] = IF m = n THEN Absent ELSE a.handed[m]
  BY <1>1 DEF Account
<1>4. /\ Released(a, n).base = a.base
      /\ Released(a, n).used = a.used
      /\ \A m \in Nonce : Released(a, n).handed[m] = IF m = n THEN Absent ELSE a.handed[m]
      /\ Released(a, n) \in Account
  BY <1>1, <1>2, <1>3 DEF Account
<1>. QED
  BY <1>4 DEF Pruned, Dead

\* settle(Used) learns that n is used, and removes its stamp.
LEMMA UsedLemma ==
  ASSUME NEW a, Pruned(a), NEW n \in Nonce, NEW lag \in Lag
  PROVE  /\ Pruned(Settled(a, n, "Used", lag))
         /\ Settled(a, n, "Used", lag).base = a.base
         /\ \A m \in Nonce : Dead(Settled(a, n, "Used", lag), m) <=> Dead(a, m) \/ m = n
         /\ \A m \in Nonce : Settled(a, n, "Used", lag).handed[m] =
                               IF m = n THEN Absent ELSE a.handed[m]
<1>. DEFINE r == Released(a, n)
            u == Settled(a, n, "Used", lag)
<1>1. /\ r \in Account
      /\ r.base = a.base /\ r.used = a.used
      /\ \A m \in Nonce : r.handed[m] = IF m = n THEN Absent ELSE a.handed[m]
  BY ReleaseLemma DEF Pruned
<1>2. u = [r EXCEPT !.used = IF n > a.base THEN @ \cup {n} ELSE @]
  BY DEF Settled
<1>. HIDE DEF r, u
<1>3. /\ u \in Account
      /\ u.base = a.base /\ u.handed = r.handed
      /\ u.used = IF n > a.base THEN a.used \cup {n} ELSE a.used
  BY <1>1, <1>2 DEF Account
<1>4. \A m \in Nonce : Dead(u, m) <=> Dead(a, m) \/ m = n
  BY <1>3 DEF Dead, Pruned, Account
<1>5. Pruned(u)
  BY <1>1, <1>3, <1>4 DEF Pruned, Account
<1>. QED
  BY <1>1, <1>3, <1>4, <1>5 DEF u

\* What a full or partial window leaves to take: nonces above the base, at most
\* Window above it, neither known used nor stamped (take()).
LEMMA CandidatesLemma ==
  ASSUME NEW a \in Account, NEW n \in Candidates(a)
  PROVE  /\ n \in Nonce
         /\ n <= a.base + Window
         /\ a.handed[n] = Absent
         /\ a.base < MaxNonce => ~Dead(a, n)
BY DEF Candidates, SatAdd, Account, Dead

\* A refresh with an answer knows used what the account and the answer did, and
\* drops no stamp younger than the hold on any other nonce (refresh()).
LEMMA RefreshLemma ==
  ASSUME NEW a \in Account, NEW s \in ChainState, NEW lag \in Lag
  PROVE  LET fresh == Prune(Merge(a, s), lag) IN
         /\ Pruned(fresh)
         /\ fresh.base = Larger(a.base, s.base)
         /\ \A n \in Nonce :
              Dead(fresh, n) <=> Dead(a, n) \/ n <= s.base \/ n \in UsedNonces(s)
         /\ \A n \in Nonce :
              \/ fresh.handed[n] = Absent
              \/ fresh.handed[n] = a.handed[n] /\ a.handed[n] < Cap
         /\ \A n \in Nonce :
              ~Dead(fresh, n) /\ a.handed[n] < Hold => fresh.handed[n] = a.handed[n]
<1>. DEFINE b == Merge(a, s)
<1>1. /\ b \in Account
      /\ b.base = Larger(a.base, s.base) /\ b.handed = a.handed
      /\ \A n \in Nonce : Dead(b, n) <=> Dead(a, n) \/ n <= s.base \/ n \in UsedNonces(s)
  BY MergeLemma
<1>. HIDE DEF b
<1>. QED
  BY <1>1, PruneLemma DEF b

\* take() hands out a nonce that is not known used and that nobody stamped
\* within the hold, and stamps it; the other young stamps stay.
LEMMA TakeLemma ==
  ASSUME account \in Account, NEW s \in ChainState, NEW n \in Nonce, NEW lag \in Lag,
         Larger(account.base, s.base) < MaxNonce,
         Take(s, n, lag)
  PROVE  /\ Pruned(account')
         /\ account'.base = Larger(account.base, s.base)
         /\ \A m \in Nonce :
              Dead(account', m) <=> Dead(account, m) \/ m <= s.base \/ m \in UsedNonces(s)
         /\ ~Dead(account', n) /\ account'.handed[n] = lag
         /\ n <= account'.base + Window
         /\ \A m \in Nonce \ {n} : account'.handed[m] \in {Absent, account.handed[m]}
         /\ \A m \in Nonce :
              ~Dead(account', m) /\ account.handed[m] < Hold =>
                m # n /\ account'.handed[m] = account.handed[m]
<1>. DEFINE fresh == Prune(Merge(account, s), lag)
<1>1. /\ Pruned(fresh)
      /\ fresh.base = Larger(account.base, s.base)
      /\ \A m \in Nonce :
           Dead(fresh, m) <=> Dead(account, m) \/ m <= s.base \/ m \in UsedNonces(s)
      /\ \A m \in Nonce : fresh.handed[m] \in {Absent, account.handed[m]}
      /\ \A m \in Nonce :
           ~Dead(fresh, m) /\ account.handed[m] < Hold => fresh.handed[m] = account.handed[m]
  BY RefreshLemma
<1>2. /\ n \in Candidates(fresh)
      /\ account' = Stamp(fresh, n, lag)
  BY DEF Take
<1>. HIDE DEF fresh
<1>3. /\ fresh \in Account
      /\ fresh.base < MaxNonce
  BY <1>1 DEF Pruned
<1>4. /\ n <= fresh.base + Window
      /\ fresh.handed[n] = Absent
      /\ ~Dead(fresh, n)
  BY <1>2, <1>3, CandidatesLemma
<1>5. /\ account' \in Account
      /\ account'.base = fresh.base
      /\ account'.used = fresh.used
      /\ \A m \in Nonce : account'.handed[m] = IF m = n THEN lag ELSE fresh.handed[m]
  BY <1>2, <1>3, StampLemma
<1>6. \A m \in Nonce : Dead(account', m) <=> Dead(fresh, m)
  BY <1>5 DEF Dead
<1>7. Pruned(account')
  BY <1>1, <1>4, <1>5, <1>6 DEF Pruned
<1>8. \A m \in Nonce :
        ~Dead(account', m) /\ account.handed[m] < Hold =>
          m # n /\ account'.handed[m] = account.handed[m]
  BY <1>1, <1>4, <1>5, <1>6
<1>. QED
  BY <1>1, <1>4, <1>5, <1>6, <1>7, <1>8

\* A full window: each of its nonces is known used or carries a stamp that some
\* clock reading finds within the hold.
LEMMA TakeFullLemma ==
  ASSUME account \in Account, NEW s \in ChainState, NEW lag \in Lag, TakeFull(s, lag)
  PROVE  /\ Pruned(account')
         /\ account'.base = Larger(account.base, s.base)
         /\ \A n \in Nonce :
              Dead(account', n) <=> Dead(account, n) \/ n <= s.base \/ n \in UsedNonces(s)
         /\ \A n \in Nonce :
              \/ account'.handed[n] = Absent
              \/ account'.handed[n] = account.handed[n] /\ account.handed[n] < Cap
         /\ \A n \in Nonce :
              ~Dead(account', n) /\ account.handed[n] < Hold =>
                account'.handed[n] = account.handed[n]
         /\ \A n \in SatAdd(account'.base, 1) .. SatAdd(account'.base, Window) :
              n \in account'.used \/ account'.handed[n] # Absent
<1>1. account' = Prune(Merge(account, s), lag) /\ Candidates(account') = {}
  BY DEF TakeFull
<1>2. \A n \in SatAdd(account'.base, 1) .. SatAdd(account'.base, Window) :
        n \in account'.used \/ account'.handed[n] # Absent
  BY <1>1 DEF Candidates
<1>. QED
  BY <1>1, <1>2, RefreshLemma

\* A tick ages every stamp and teaches nothing.
LEMMA ElapseLemma ==
  ASSUME Pruned(account), Elapse
  PROVE  /\ Pruned(account')
         /\ account'.base = account.base
         /\ \A n \in Nonce : Dead(account', n) <=> Dead(account, n)
         /\ \A n \in Nonce : account'.handed[n] = Older(account.handed[n])
<1>1. account \in Account
  BY DEF Pruned
<1>2. [n \in Nonce |-> Older(account.handed[n])] \in [Nonce -> Age]
  BY <1>1 DEF Account, Older
<1>3. account' = [account EXCEPT !.handed = [n \in Nonce |-> Older(account.handed[n])]]
  BY DEF Elapse
<1>4. /\ account' \in Account
      /\ account'.base = account.base
      /\ account'.used = account.used
      /\ \A n \in Nonce : account'.handed[n] = Older(account.handed[n])
  BY <1>1, <1>2, <1>3 DEF Account
<1>5. Older(Absent) = Absent
  BY DEF Older
<1>. QED
  BY <1>4, <1>5 DEF Pruned, Dead

-----------------------------------------------------------------------------
(* What the tracker knows *)

USE LeasesAssumption

\* What an answer says is used is used on the chain.
SoundAnswer(s) ==
  /\ s.base <= chainBase
  /\ \A n \in UsedNonces(s) : Spent(n)

\* A write past its take has a nonce.
HasNonce == \A w \in Write : phase[w] \notin {"idle", "asked"} => nonce[w] \in Nonce

\* The inductive invariant behind the types and KnowledgeSound.
KInv ==
  /\ LeaseTypeOK
  /\ HasNonce
  /\ \A s \in answers : SoundAnswer(s)
  /\ \A w \in Write : SoundAnswer(seen[w])
  /\ KnowledgeSound

-----------------------------------------------------------------------------
(* The kinds of steps: each action of NonceLeases but Spend is one of these *)

\* A call of w leaves the chain and the other writes alone.
OnlyMoves(w) ==
  /\ UNCHANGED chainVars
  /\ \A v \in Write \ {w} :
       /\ phase'[v] = phase[v] /\ nonce'[v] = nonce[v]
       /\ since'[v] = since[v] /\ seen'[v] = seen[v]

\* w is early enough to use its nonce, or a request of its is under way.
Ready(w) == InTime(w) \/ phase[w] = "flying"

\* w keeps or lacks a claim, without a call of the tracker.
Passes(w) ==
  /\ OnlyMoves(w)
  /\ UNCHANGED <<account, reclaimed>>
  /\ since'[w] = since[w]
  /\ seen'[w] \in answers \cup {seen[w]}
  /\ \/ /\ Claims(w) /\ Claims(w)' /\ nonce'[w] = nonce[w]
        /\ phase'[w] = "flying" => Ready(w)
     \/ phase[w] = "idle" /\ phase'[w] = "asked" /\ nonce'[w] = nonce[w]
     \/ /\ OwnNonces
        /\ phase[w] = "idle" /\ phase'[w] = "leased" /\ nonce'[w] \in Nonce

\* w takes a nonce.
Takes(w) ==
  /\ OnlyMoves(w)
  /\ reclaimed' = reclaimed
  /\ phase[w] = "asked" /\ phase'[w] = "leased"
  /\ seen'[w] = NoAnswer
  /\ \E n \in Nonce, lag \in Lag :
       Take(seen[w], n, lag) /\ nonce'[w] = n /\ since'[w] = lag

\* w is told that the window is full.
FindsFull(w) ==
  /\ OnlyMoves(w)
  /\ reclaimed' = reclaimed
  /\ phase[w] = "asked" /\ phase'[w] = "idle"
  /\ seen'[w] = NoAnswer /\ nonce'[w] = nonce[w] /\ since'[w] = since[w]
  /\ \E lag \in Lag : TakeFull(seen[w], lag)

\* w has its nonce stamped anew.
Restamps(w) ==
  /\ OnlyMoves(w)
  /\ reclaimed' = reclaimed
  /\ Claims(w) /\ Ready(w) /\ Claims(w)'
  /\ nonce'[w] = nonce[w] /\ seen'[w] = seen[w]
  /\ \E lag \in Lag : account' = HoldOf(account, nonce[w], lag) /\ since'[w] = lag

\* w is sent again after it gave its nonce back or learnt that it is used.
Reclaims(w) ==
  /\ OnlyMoves(w)
  /\ phase[w] \in {"failed", "spent"} /\ phase'[w] = "flying"
  /\ reclaimed' = IF phase[w] = "failed" THEN reclaimed \cup {nonce[w]} ELSE reclaimed
  /\ nonce'[w] = nonce[w] /\ seen'[w] = seen[w]
  /\ \E lag \in Lag : account' = HoldOf(account, nonce[w], lag) /\ since'[w] = lag

\* w gives its nonce back, or learns that it is used.
GivesUp(w) ==
  /\ OnlyMoves(w)
  /\ reclaimed' = reclaimed
  /\ Claims(w) /\ Ready(w)
  /\ nonce'[w] = nonce[w] /\ seen'[w] = seen[w]
  /\ \/ phase'[w] = "failed" /\ account' = Released(account, nonce[w])
     \/ /\ phase'[w] = "spent" /\ Spent(nonce[w])
        /\ \E lag \in Lag : account' = Settled(account, nonce[w], "Used", lag)

Kind(w) ==
  Passes(w) \/ Takes(w) \/ FindsFull(w) \/ Restamps(w) \/ Reclaims(w) \/ GivesUp(w)

\* Every call of a write is of one of the kinds, and keeps the types of what is
\* not the tracker's.
LEMMA WriteStepKind ==
  ASSUME LeaseTypeOK, NEW w \in Write, WriteStep(w)
  PROVE  /\ Kind(w)
         /\ phase' \in [Write -> Phase] /\ nonce' \in [Write -> 0 .. MaxNonce]
         /\ seen' \in [Write -> ChainState] /\ since' \in [Write -> Age]
         /\ retries' \in [Write -> 0 .. MaxRetries]
<1>. DEFINE Types ==
       /\ phase' \in [Write -> Phase] /\ nonce' \in [Write -> 0 .. MaxNonce]
       /\ seen' \in [Write -> ChainState] /\ since' \in [Write -> Age]
       /\ retries' \in [Write -> 0 .. MaxRetries]
<1>. USE DEF LeaseTypeOK, Phase, Claims, OnlyMoves, chainVars
<1>a. NoAnswer \in ChainState
  BY DEF NoAnswer, StateOf, ChainState
<1>b. Lag \subseteq Age /\ Absent \in Age
  OBVIOUS
<1>1. CASE Ask(w)
  BY <1>1 DEF Ask, AskFor, Kind, Passes
<1>2. CASE TakeNonce(w)
  <2>1. Takes(w)
    BY <1>2 DEF TakeNonce, Takes
  <2>2. Types
    BY <1>2, <1>a, <1>b DEF TakeNonce
  <2>. QED
    BY <2>1, <2>2 DEF Kind
<1>3. CASE WindowFull(w)
  <2>1. FindsFull(w)
    BY <1>3 DEF WindowFull, FindsFull
  <2>2. Types
    BY <1>3, <1>a DEF WindowFull
  <2>. QED
    BY <2>1, <2>2 DEF Kind
<1>4. CASE \E n \in Nonce : BringNonce(w, n)
  BY <1>4 DEF BringNonce, Kind, Passes
<1>5. CASE BuildFails(w)
  <2>1. GivesUp(w)
    BY <1>5 DEF BuildFails, GivesUp, Release, Ready
  <2>2. Types
    BY <1>5, <1>b DEF BuildFails
  <2>. QED
    BY <2>1, <2>2 DEF Kind
<1>6. CASE Send(w)
  BY <1>6 DEF Send, Kind, Passes, Ready
<1>7. CASE SendGiven(w)
  <2>1. Restamps(w)
    BY <1>7 DEF SendGiven, Restamps, HoldNonce, Ready
  <2>2. Types
    BY <1>7, <1>b DEF SendGiven
  <2>. QED
    BY <2>1, <2>2 DEF Kind
<1>8. CASE Rebroadcast(w)
  <2>1. CASE Claims(w)
    <3>1. Restamps(w)
      BY <1>8, <2>1 DEF Rebroadcast, HasBytes, Restamps, HoldNonce, Ready
    <3>. QED
      BY <1>8, <1>b, <3>1 DEF Rebroadcast, Kind
  <2>2. CASE ~Claims(w)
    <3>1. Reclaims(w)
      BY <1>8, <2>2 DEF Rebroadcast, HasBytes, Reclaims, HoldNonce
    <3>. QED
      BY <1>8, <1>b, <3>1 DEF Rebroadcast, Kind
  <2>. QED
    BY <2>1, <2>2
<1>9. ASSUME NEW outcome \in Outcome, Answered(w, outcome)
      PROVE  Kind(w) /\ Types
  <2>1. CASE outcome \in {"Accepted", "Held", "Unknown"}
    <3>1. Restamps(w)
      BY <1>9, <2>1 DEF Answered, AfterOutcome, Restamps, Settle, Settled, Ready
    <3>. QED
      BY <1>9, <1>b, <2>1, <3>1 DEF Answered, AfterOutcome, Kind
  <2>2. CASE outcome = "Free"
    <3>1. GivesUp(w)
      BY <1>9, <2>2 DEF Answered, AfterOutcome, GivesUp, Settle, Settled, Ready
    <3>. QED
      BY <1>9, <1>b, <2>2, <3>1 DEF Answered, AfterOutcome, Kind
  <2>3. CASE outcome = "Used"
    <3>1. GivesUp(w)
      BY <1>9, <2>3 DEF Answered, AfterOutcome, GivesUp, Settle, Ready
    <3>. QED
      BY <1>9, <1>b, <2>3, <3>1 DEF Answered, AfterOutcome, Kind
  <2>. QED
    BY <2>1, <2>2, <2>3 DEF Outcome
<1>10. CASE NotSent(w)
  <2>1. GivesUp(w)
    BY <1>10 DEF NotSent, GivesUp, Release, Ready
  <2>2. Types
    BY <1>10, <1>b DEF NotSent
  <2>. QED
    BY <2>1, <2>2 DEF Kind
<1>11. CASE NotResent(w)
  BY <1>11 DEF NotResent, Kind, Passes
<1>. QED
  BY <1>1, <1>2, <1>3, <1>4, <1>5, <1>6, <1>7, <1>8, <1>9, <1>10, <1>11 DEF WriteStep

-----------------------------------------------------------------------------
(* What the tracker knows *)

\* Where every known used nonce is spent, no account and no answer has a base
\* the window above which would overflow.
LEMMA BaseBound ==
  ASSUME KInv
  PROVE  /\ account \in Account
         /\ account.base <= MaxSpent
         /\ chainBase \in Nat /\ chainBase < MaxNonce
         /\ \A w \in Write : seen[w] \in ChainState /\ Larger(account.base, seen[w].base) < MaxNonce
<1>1. /\ account \in Account /\ chainBase \in 0 .. MaxSpent /\ chainUsed \subseteq 1 .. MaxSpent
      /\ seen \in [Write -> ChainState]
  BY DEF KInv, LeaseTypeOK, Pruned
<1>2. account.base \in 0 .. MaxNonce
  BY <1>1 DEF Account
<1>3. CASE account.base = 0
  BY <1>1, <1>3 DEF KInv, SoundAnswer, ChainState, Larger
<1>4. CASE account.base # 0
  <2>1. Spent(account.base)
    BY <1>2, <1>4 DEF KInv, KnowledgeSound, Dead
  <2>2. account.base <= MaxSpent
    BY <1>1, <1>2, <2>1 DEF Spent
  <2>. QED
    BY <1>1, <1>2, <2>2 DEF KInv, SoundAnswer, ChainState, Larger
<1>. QED
  BY <1>3, <1>4

\* No call of the tracker forgets a used nonce or learns a wrong one.
LEMMA CallLearns ==
  ASSUME KInv, NEW w \in Write, Kind(w)
  PROVE  /\ Pruned(account')
         /\ \A n \in Nonce : Dead(account, n) => Dead(account', n)
         /\ \A n \in Nonce : Dead(account', n) => Spent(n)
<1>1. /\ Pruned(account) /\ account \in Account
      /\ \A n \in Nonce : Dead(account, n) => Spent(n)
      /\ seen[w] \in ChainState
      /\ Larger(account.base, seen[w].base) < MaxNonce
      /\ seen[w].base <= chainBase
      /\ \A n \in UsedNonces(seen[w]) : Spent(n)
      /\ chainBase \in Nat
  BY BaseBound DEF KInv, LeaseTypeOK, KnowledgeSound, SoundAnswer
<1>2. \A n \in Nonce : n <= seen[w].base => Spent(n)
  BY <1>1 DEF Spent, ChainState
<1>3. Claims(w) => nonce[w] \in Nonce
  BY DEF KInv, HasNonce, Claims
<1>4. CASE Passes(w)
  BY <1>1, <1>4 DEF Passes
<1>5. CASE Takes(w)
  <2>1. PICK n \in Nonce, lag \in Lag : Take(seen[w], n, lag)
    BY <1>5 DEF Takes
  <2>2. /\ Pruned(account')
        /\ \A m \in Nonce :
             Dead(account', m) <=> Dead(account, m) \/ m <= seen[w].base \/ m \in UsedNonces(seen[w])
    BY <1>1, <2>1, TakeLemma
  <2>. QED
    BY <1>1, <1>2, <2>2
<1>6. CASE FindsFull(w)
  <2>1. PICK lag \in Lag : TakeFull(seen[w], lag)
    BY <1>6 DEF FindsFull
  <2>2. /\ Pruned(account')
        /\ \A m \in Nonce :
             Dead(account', m) <=> Dead(account, m) \/ m <= seen[w].base \/ m \in UsedNonces(seen[w])
    BY <1>1, <2>1, TakeFullLemma
  <2>. QED
    BY <1>1, <1>2, <2>2
<1>7. CASE Restamps(w)
  BY <1>1, <1>3, <1>7, HoldLemma DEF Restamps
<1>9. CASE Reclaims(w)
  <2>1. nonce[w] \in Nonce
    BY <1>9 DEF Reclaims, KInv, HasNonce
  <2>. QED
    BY <1>1, <1>9, <2>1, HoldLemma DEF Reclaims
<1>8. CASE GivesUp(w)
  <2>1. nonce[w] \in Nonce
    BY <1>3, <1>8 DEF GivesUp
  <2>2. CASE account' = Released(account, nonce[w])
    BY <1>1, <2>1, <2>2, ReleaseLemma
  <2>3. CASE Spent(nonce[w]) /\ \E lag \in Lag : account' = Settled(account, nonce[w], "Used", lag)
    <3>1. PICK lag \in Lag : account' = Settled(account, nonce[w], "Used", lag)
      BY <2>3
    <3>2. /\ Pruned(account')
          /\ \A m \in Nonce : Dead(account', m) <=> Dead(account, m) \/ m = nonce[w]
      BY <1>1, <2>1, <3>1, UsedLemma
    <3>. QED
      BY <1>1, <2>3, <3>2
  <2>. QED
    BY <1>8, <2>2, <2>3 DEF GivesUp
<1>. QED
  BY <1>4, <1>5, <1>6, <1>7, <1>8, <1>9 DEF Kind

\* A spend keeps the chain's types, unspends nothing, and adds true answers only.
LEMMA SpendLemma ==
  ASSUME KInv, NEW n \in Nonce, Spend(n)
  PROVE  /\ chainBase' \in 0 .. MaxSpent /\ chainUsed' \in SUBSET (1 .. MaxSpent)
         /\ answers' \in SUBSET ChainState
         /\ chainBase <= chainBase'
         /\ \A m \in Nonce : Spent(m) => Spent(m)'
         /\ \A s \in answers' \ answers : SoundAnswer(s)'
<1>. DEFINE spent == chainUsed \cup {n}
<1>1. /\ chainBase \in 0 .. MaxSpent /\ chainUsed \subseteq 1 .. MaxSpent
      /\ answers \subseteq ChainState
  BY DEF KInv, LeaseTypeOK
<1>2. spent \subseteq 1 .. MaxSpent
  BY <1>1 DEF Spend
<1>3. PICK b \in chainBase .. chainBase + Window :
        /\ chainBase + 1 .. b \subseteq spent
        /\ chainBase' = b
        /\ chainUsed' = { m \in spent : m > b }
        /\ answers' = answers \cup {StateOf(b, spent), StateOf(b, {})}
  BY DEF Spend
<1>. HIDE DEF spent
<1>4. b \in 0 .. MaxSpent
  <2>1. CASE b = chainBase
    BY <1>1, <2>1
  <2>2. CASE b # chainBase
    BY <1>1, <1>2, <1>3, <2>2
  <2>. QED
    BY <2>1, <2>2
<1>5. chainUsed' \subseteq 1 .. MaxSpent
  BY <1>2, <1>3
<1>6. ASSUME NEW u \in {spent, {}}
      PROVE  /\ StateOf(b, u) \in ChainState
             /\ SoundAnswer(StateOf(b, u))'
  <2>1. StateOf(b, u) \in ChainState
    BY <1>4 DEF StateOf, ChainState
  <2>2. \A i \in StateOf(b, u).bits : b + 1 + i \in u /\ SatAdd(b, 1 + i) = b + 1 + i
    BY <1>2, <1>4, <1>6 DEF StateOf, SatAdd
  <2>3. UsedNonces(StateOf(b, u)) \subseteq spent
    BY <1>6, <2>2 DEF UsedNonces, StateOf
  <2>4. \A m \in spent : Spent(m)'
    BY <1>2, <1>3, <1>4 DEF Spent
  <2>. QED
    BY <1>3, <1>4, <2>1, <2>3, <2>4 DEF SoundAnswer, StateOf
<1>7. \A m \in Nonce : Spent(m) => Spent(m)'
  BY <1>1, <1>3, <1>4 DEF Spent, spent
<1>. QED
  BY <1>1, <1>3, <1>4, <1>5, <1>6, <1>7

\* The invariant holds at the start.
LEMMA KInvInit == LeaseInit => KInv
<1>. SUFFICES ASSUME LeaseInit PROVE KInv
  OBVIOUS
<1>1. /\ NoAnswer \in ChainState
      /\ NoAnswer.base = 0 /\ UsedNonces(NoAnswer) = {}
  BY DEF NoAnswer, StateOf, ChainState, UsedNonces
<1>2. SoundAnswer(NoAnswer)
  BY <1>1 DEF LeaseInit, SoundAnswer
<1>3. account = [base |-> 0, used |-> {}, handed |-> [n \in Nonce |-> Absent]]
  BY DEF LeaseInit, TrackerInit
<1>4. Pruned(account)
  BY <1>3 DEF Pruned, Account, Dead
<1>5. \A n \in Nonce : ~Dead(account, n)
  BY <1>3 DEF Dead
<1>. QED
  BY <1>1, <1>2, <1>4, <1>5 DEF LeaseInit, KInv, LeaseTypeOK, HasNonce, KnowledgeSound, Phase

\* Every step keeps the invariant, and no step forgets a used nonce.
LEMMA KInvStep ==
  ASSUME KInv, [LeaseNext]_leaseVars
  PROVE  /\ KInv'
         /\ \A n \in Nonce : Dead(account, n) => Dead(account, n)'
<1>1. ASSUME NEW w \in Write, WriteStep(w)
      PROVE  KInv' /\ \A n \in Nonce : Dead(account, n) => Dead(account, n)'
  <2>1. /\ Kind(w)
        /\ phase' \in [Write -> Phase] /\ nonce' \in [Write -> 0 .. MaxNonce]
        /\ seen' \in [Write -> ChainState] /\ since' \in [Write -> Age]
        /\ retries' \in [Write -> 0 .. MaxRetries]
    BY <1>1, WriteStepKind DEF KInv
  <2>2. OnlyMoves(w)
    BY <2>1 DEF Kind, Passes, Takes, FindsFull, Restamps, Reclaims, GivesUp
  <2>3. UNCHANGED <<chainBase, chainUsed, answers>>
    BY <2>2 DEF OnlyMoves, chainVars
  <2>4. /\ Pruned(account)'
        /\ \A n \in Nonce : Dead(account, n) => Dead(account, n)'
        /\ KnowledgeSound'
    BY <2>1, <2>3, CallLearns DEF KnowledgeSound, Spent
  <2>12. reclaimed' \subseteq Nonce
    BY <2>1 DEF Kind, Passes, Takes, FindsFull, Restamps, Reclaims, GivesUp, KInv, HasNonce, LeaseTypeOK
  <2>5. LeaseTypeOK'
    BY <2>1, <2>3, <2>4, <2>12 DEF KInv, LeaseTypeOK
  <2>6. HasNonce'
    <3>1. phase'[w] \notin {"idle", "asked"} => nonce'[w] \in Nonce
      BY <2>1 DEF Kind, Passes, Takes, FindsFull, Restamps, Reclaims, GivesUp, KInv, HasNonce, Claims
    <3>. QED
      BY <2>2, <3>1 DEF OnlyMoves, KInv, HasNonce
  <2>7. \A s : SoundAnswer(s)' <=> SoundAnswer(s)
    BY <2>3 DEF SoundAnswer, Spent
  <2>8. SoundAnswer(NoAnswer)
    BY DEF SoundAnswer, NoAnswer, StateOf, UsedNonces, KInv, LeaseTypeOK
  <2>9. SoundAnswer(seen'[w])
    BY <2>1, <2>8 DEF Kind, Passes, Takes, FindsFull, Restamps, Reclaims, GivesUp, KInv
  <2>10. \A v \in Write : SoundAnswer(seen[v])'
    BY <2>2, <2>7, <2>9 DEF OnlyMoves, KInv
  <2>11. \A s \in answers' : SoundAnswer(s)'
    BY <2>3, <2>7 DEF KInv
  <2>. QED
    BY <2>4, <2>5, <2>6, <2>10, <2>11 DEF KInv
<1>2. ASSUME NEW n \in Nonce, ChainSpends(n)
      PROVE  KInv' /\ \A m \in Nonce : Dead(account, m) => Dead(account, m)'
  <2>1. /\ UNCHANGED <<account, phase, nonce, seen, since, retries, reclaimed>>
        /\ chainBase' \in 0 .. MaxSpent /\ chainUsed' \in SUBSET (1 .. MaxSpent)
        /\ answers' \in SUBSET ChainState
        /\ chainBase <= chainBase'
        /\ \A m \in Nonce : Spent(m) => Spent(m)'
        /\ \A s \in answers' \ answers : SoundAnswer(s)'
    BY <1>2, SpendLemma DEF ChainSpends
  <2>2. \A s \in ChainState : SoundAnswer(s) => SoundAnswer(s)'
    <3>1. \A s \in ChainState : UsedNonces(s) \subseteq Nonce
      BY DEF ChainState, UsedNonces, SatAdd
    <3>. QED
      BY <2>1, <3>1 DEF SoundAnswer, KInv, LeaseTypeOK, ChainState
  <2>3. LeaseTypeOK' /\ HasNonce' /\ KnowledgeSound'
    BY <2>1 DEF KInv, LeaseTypeOK, HasNonce, KnowledgeSound
  <2>4. \A s \in answers' : SoundAnswer(s)'
    BY <2>1, <2>2 DEF KInv, LeaseTypeOK
  <2>5. \A w \in Write : SoundAnswer(seen[w])'
    BY <2>1, <2>2 DEF KInv, LeaseTypeOK
  <2>. QED
    BY <2>1, <2>3, <2>4, <2>5 DEF KInv
<1>3. ASSUME Pruned(account'), \A n \in Nonce : Dead(account', n) <=> Dead(account, n),
             UNCHANGED <<chainBase, chainUsed, answers, phase, nonce, seen, retries, reclaimed>>,
             since' \in [Write -> Age]
      PROVE  KInv' /\ \A n \in Nonce : Dead(account, n) => Dead(account, n)'
  BY <1>3 DEF KInv, LeaseTypeOK, HasNonce, KnowledgeSound, SoundAnswer, Spent
<1>4. CASE Query
  BY <1>3, <1>4, PruneLemma DEF Query, IsHeld, chainVars, KInv, LeaseTypeOK, Pruned
<1>5. CASE Tick
  <2>1. since' \in [Write -> Age]
    BY <1>5 DEF Tick, Older, KInv, LeaseTypeOK
  <2>. QED
    BY <1>3, <1>5, <2>1, ElapseLemma DEF Tick, chainVars, KInv, LeaseTypeOK
<1>6. CASE UNCHANGED leaseVars
  BY <1>3, <1>6 DEF leaseVars, KInv, LeaseTypeOK
<1>. QED
  BY <1>1, <1>2, <1>4, <1>5, <1>6 DEF LeaseNext

\* The types, and that the tracker's account is always pruned.
THEOREM Typing == LeaseSpec => []LeaseTypeOK
<1>1. KInv /\ [LeaseNext]_leaseVars => KInv'
  BY KInvStep
<1>2. KInv => LeaseTypeOK
  BY DEF KInv
<1>. QED
  BY KInvInit, <1>1, <1>2, PTL DEF LeaseSpec

\* What the tracker believes used is used on the chain, whatever answers it
\* merges and in whatever order (refresh(), settle()).
THEOREM Soundness == LeaseSpec => []KnowledgeSound
<1>1. KInv /\ [LeaseNext]_leaseVars => KInv'
  BY KInvStep
<1>2. KInv => KnowledgeSound
  BY DEF KInv
<1>. QED
  BY KInvInit, <1>1, <1>2, PTL DEF LeaseSpec

\* No answer and no outcome makes the tracker forget a used nonce.
THEOREM Memory == LeaseSpec => KnowledgeKept
<1>1. KInv /\ [LeaseNext]_leaseVars => KInv'
  BY KInvStep
<1>2. KInv /\ [LeaseNext]_leaseVars =>
        [\A n \in Nonce : Dead(account, n) => Dead(account, n)']_leaseVars
  BY KInvStep
<1>. QED
  BY KInvInit, <1>1, <1>2, PTL DEF LeaseSpec, KnowledgeKept

-----------------------------------------------------------------------------
(* Every stamp has an owner *)

\* NoLeak is inductive relative to KInv: a call removes the stamps of its own
\* nonce or renews them with its claim, and a refresh only removes stamps.
LEMMA NoLeakStep ==
  ASSUME KInv, NoLeak, [LeaseNext]_leaseVars
  PROVE  NoLeak'
<1>. DEFINE Owns(v, n) == Claims(v) /\ nonce[v] = n /\ since[v] = account.handed[n]
<1>1. /\ Pruned(account) /\ account \in Account
      /\ \A n \in Nonce :
           account.handed[n] # Absent => \E v \in Write : Owns(v, n)
  BY DEF KInv, LeaseTypeOK, Pruned, NoLeak
<1>2. ASSUME NEW w \in Write, WriteStep(w)
      PROVE  NoLeak'
  <2>1. Kind(w) /\ nonce' \in [Write -> 0 .. MaxNonce]
    BY <1>2, WriteStepKind DEF KInv
  <2>2. \A v \in Write \ {w} : \A n \in Nonce :
          Owns(v, n) /\ account'.handed[n] = account.handed[n] => Owns(v, n)'
    BY <2>1 DEF Kind, Passes, Takes, FindsFull, Restamps, Reclaims, GivesUp, OnlyMoves, Claims
  <2>3. CASE Passes(w)
    <3>1. \A n \in Nonce : Owns(w, n) => Owns(w, n)'
      BY <2>3 DEF Passes, Claims
    <3>. QED
      BY <1>1, <2>2, <2>3, <3>1 DEF Passes, NoLeak
  <2>4. CASE Takes(w)
    <3>1. PICK n \in Nonce, lag \in Lag :
            Take(seen[w], n, lag) /\ nonce'[w] = n /\ since'[w] = lag
      BY <2>4 DEF Takes
    <3>2. /\ account'.handed[n] = lag
          /\ \A m \in Nonce \ {n} : account'.handed[m] \in {Absent, account.handed[m]}
      BY <1>1, <3>1, BaseBound, TakeLemma
    <3>3. Owns(w, n)'
      BY <2>4, <3>1, <3>2 DEF Takes, Claims
    <3>4. ~Claims(w)
      BY <2>4 DEF Takes, Claims
    <3>. QED
      BY <1>1, <2>2, <3>2, <3>3, <3>4 DEF NoLeak
  <2>5. CASE FindsFull(w)
    <3>1. \A m \in Nonce : account'.handed[m] \in {Absent, account.handed[m]}
      BY <1>1, <2>5, BaseBound, TakeFullLemma DEF FindsFull
    <3>2. ~Claims(w)
      BY <2>5 DEF FindsFull, Claims
    <3>. QED
      BY <1>1, <2>2, <3>1, <3>2 DEF NoLeak
  <2>6. CASE Restamps(w) \/ Reclaims(w)
    <3>1. nonce[w] \in Nonce /\ nonce'[w] = nonce[w] /\ Claims(w)'
      BY <2>6 DEF Restamps, Reclaims, KInv, HasNonce, Claims
    <3>2. PICK lag \in Lag : account' = HoldOf(account, nonce[w], lag) /\ since'[w] = lag
      BY <2>6 DEF Restamps, Reclaims
    <3>3. /\ Pruned(account')
          /\ \A m \in Nonce : Dead(account', m) <=> Dead(account, m)
          /\ Dead(account, nonce[w]) \/ account'.handed[nonce[w]] = lag
          /\ \A m \in Nonce \ {nonce[w]} : account'.handed[m] \in {Absent, account.handed[m]}
      BY <1>1, <3>1, <3>2, HoldLemma
    <3>4. account'.handed[nonce[w]] # Absent => Owns(w, nonce[w])'
      BY <3>1, <3>2, <3>3 DEF Pruned
    <3>. QED
      BY <1>1, <2>2, <3>1, <3>3, <3>4 DEF NoLeak
  <2>7. CASE GivesUp(w)
    <3>1. nonce[w] \in Nonce
      BY <2>7 DEF GivesUp, KInv, HasNonce, Claims
    <3>2. \A m \in Nonce : account'.handed[m] = IF m = nonce[w] THEN Absent ELSE account.handed[m]
      <4>1. CASE account' = Released(account, nonce[w])
        BY <1>1, <3>1, <4>1, ReleaseLemma
      <4>2. CASE \E lag \in Lag : account' = Settled(account, nonce[w], "Used", lag)
        BY <1>1, <3>1, <4>2, UsedLemma
      <4>. QED
        BY <2>7, <4>1, <4>2 DEF GivesUp
    <3>. QED
      BY <1>1, <2>2, <3>1, <3>2 DEF NoLeak
  <2>. QED
    BY <2>1, <2>3, <2>4, <2>5, <2>6, <2>7 DEF Kind
<1>3. ASSUME UNCHANGED <<phase, nonce, since>>,
             \A n \in Nonce : account'.handed[n] \in {Absent, account.handed[n]}
      PROVE  NoLeak'
  BY <1>1, <1>3 DEF NoLeak, Claims
<1>4. CASE \E n \in Nonce : ChainSpends(n)
  BY <1>3, <1>4 DEF ChainSpends
<1>5. CASE Query
  BY <1>1, <1>3, <1>5, PruneLemma DEF Query, IsHeld
<1>6. CASE Tick
  <2>1. /\ \A n \in Nonce : account'.handed[n] = Older(account.handed[n])
        /\ \A w \in Write : since'[w] = Older(since[w]) /\ (Claims(w)' <=> Claims(w))
        /\ nonce' = nonce
    BY <1>1, <1>6, ElapseLemma DEF Tick, Claims
  <2>2. Older(Absent) = Absent
    BY DEF Older
  <2>. QED
    BY <1>1, <2>1, <2>2 DEF NoLeak
<1>7. CASE UNCHANGED leaseVars
  BY <1>3, <1>7 DEF leaseVars
<1>. QED
  BY <1>2, <1>4, <1>5, <1>6, <1>7 DEF LeaseNext

\* Every stamp belongs to a write with a claim of that age: no error path of a
\* write forgets its nonce.
THEOREM NoStampLeaks == LeaseSpec => []NoLeak
<1>1. LeaseInit => NoLeak
  BY DEF LeaseInit, TrackerInit, NoLeak
<1>2. KInv /\ [LeaseNext]_leaseVars => KInv'
  BY KInvStep
<1>3. KInv /\ NoLeak /\ [LeaseNext]_leaseVars => NoLeak'
  BY NoLeakStep
<1>. QED
  BY KInvInit, <1>1, <1>2, <1>3, PTL DEF LeaseSpec

\* A write is told that the window is full only when each nonce of it is spent
\* or owned by a write that stamped it within the hold and the lag.
THEOREM FullOnlyWhenFull == LeaseSpec => FullIsJustified
<1>. DEFINE Justified ==
       \A w \in Write :
         phase[w] = "asked" /\ phase'[w] = "idle" =>
           \A n \in SatAdd(account'.base, 1) .. SatAdd(account'.base, Window) :
             Spent(n) \/ \E v \in Write : Claims(v) /\ nonce[v] = n /\ since[v] < Cap
<1>1. ASSUME KInv, NoLeak, LeaseNext
      PROVE  Justified
  <2>. SUFFICES ASSUME NEW w \in Write, phase[w] = "asked", phase'[w] = "idle",
                       NEW n \in SatAdd(account'.base, 1) .. SatAdd(account'.base, Window)
                PROVE  Spent(n) \/ \E v \in Write : Claims(v) /\ nonce[v] = n /\ since[v] < Cap
    OBVIOUS
  <2>1. PICK v \in Write : WriteStep(v)
    BY <1>1 DEF LeaseNext, ChainSpends, Query, Tick
  <2>2. Kind(v)
    BY <1>1, <2>1, WriteStepKind DEF KInv
  <2>3. v = w
    BY <2>2 DEF Kind, Passes, Takes, FindsFull, Restamps, Reclaims, GivesUp, OnlyMoves
  <2>4. FindsFull(w)
    BY <2>2, <2>3 DEF Kind, Passes, Takes, Restamps, Reclaims, GivesUp, Claims
  <2>5. PICK lag \in Lag : TakeFull(seen[w], lag)
    BY <2>4 DEF FindsFull
  <2>6. /\ Pruned(account')
        /\ \A m \in Nonce :
             \/ account'.handed[m] = Absent
             \/ account'.handed[m] = account.handed[m] /\ account.handed[m] < Cap
        /\ n \in account'.used \/ account'.handed[n] # Absent
    BY <1>1, <2>5, BaseBound, TakeFullLemma
  <2>7. n \in Nonce
    BY <2>6 DEF SatAdd, Pruned, Account
  <2>8. CASE n \in account'.used
    BY <1>1, <2>2, <2>3, <2>7, <2>8, CallLearns DEF Dead
  <2>9. CASE account'.handed[n] # Absent
    BY <1>1, <2>6, <2>7, <2>9 DEF NoLeak, KInv, LeaseTypeOK, Pruned
  <2>. QED
    BY <2>6, <2>8, <2>9
<1>2. KInv /\ [LeaseNext]_leaseVars => KInv'
  BY KInvStep
<1>3. KInv /\ NoLeak /\ [LeaseNext]_leaseVars => NoLeak'
  BY NoLeakStep
<1>4. LeaseInit => NoLeak
  BY DEF LeaseInit, TrackerInit, NoLeak
<1>5. KInv /\ NoLeak /\ [LeaseNext]_leaseVars => [Justified]_leaseVars
  BY <1>1
<1>. QED
  BY KInvInit, <1>2, <1>3, <1>4, <1>5, PTL DEF LeaseSpec, FullIsJustified

-----------------------------------------------------------------------------
(* Nonces in hand lie in the chain's window *)

Taken(w) == phase[w] \notin {"idle", "asked"}

\* WithinWindow of every write that took a nonce, since one that gave its nonce
\* back may be sent again.
TakenWithin ==
  \A w \in Write : Taken(w) /\ ~OwnNonces => nonce[w] <= chainBase + Window

WInv ==
  /\ account.base <= chainBase
  /\ TakenWithin

LEMMA WInvStep ==
  ASSUME KInv, WInv, [LeaseNext]_leaseVars
  PROVE  WInv'
<1>1. /\ Pruned(account) /\ account \in Account
      /\ chainBase \in Nat /\ nonce \in [Write -> 0 .. MaxNonce]
  BY BaseBound DEF KInv, LeaseTypeOK
<1>2. ASSUME NEW w \in Write, WriteStep(w)
      PROVE  WInv'
  <2>1. Kind(w) /\ OnlyMoves(w)
    BY <1>2, WriteStepKind DEF KInv, Kind, Passes, Takes, FindsFull, Restamps, Reclaims, GivesUp
  <2>2. chainBase' = chainBase
    BY <2>1 DEF OnlyMoves, chainVars
  <2>3. \A v \in Write \ {w} : (Taken(v)' <=> Taken(v)) /\ nonce'[v] = nonce[v]
    BY <2>1 DEF OnlyMoves, Taken
  <2>4. CASE Passes(w)
    <3>1. Taken(w)' /\ ~OwnNonces => Taken(w) /\ nonce'[w] = nonce[w]
      BY <2>4 DEF Passes, Claims, Taken
    <3>. QED
      BY <2>2, <2>3, <2>4, <3>1 DEF Passes, WInv, TakenWithin
  <2>5. CASE Takes(w)
    <3>1. PICK n \in Nonce, lag \in Lag : Take(seen[w], n, lag) /\ nonce'[w] = n
      BY <2>5 DEF Takes
    <3>2. /\ account'.base = Larger(account.base, seen[w].base)
          /\ n <= account'.base + Window
      BY <1>1, <3>1, BaseBound, TakeLemma
    <3>3. account'.base <= chainBase /\ account'.base \in Int
      BY <1>1, <3>2, BaseBound DEF KInv, WInv, SoundAnswer, Larger, Account, ChainState
    <3>4. nonce'[w] <= chainBase + Window
      BY <1>1, <3>1, <3>2, <3>3
    <3>. QED
      BY <2>2, <2>3, <3>3, <3>4 DEF WInv, TakenWithin
  <2>6. CASE FindsFull(w)
    <3>1. account'.base = Larger(account.base, seen[w].base)
      BY <1>1, <2>6, BaseBound, TakeFullLemma DEF FindsFull
    <3>2. account'.base <= chainBase
      BY <1>1, <3>1, BaseBound DEF KInv, WInv, SoundAnswer, Larger, Account, ChainState
    <3>. QED
      BY <2>2, <2>3, <2>6, <3>2 DEF FindsFull, WInv, TakenWithin, Taken
  <2>7. CASE Restamps(w) \/ Reclaims(w)
    <3>1. nonce[w] \in Nonce /\ nonce'[w] = nonce[w] /\ Taken(w)
      BY <2>7 DEF Restamps, Reclaims, KInv, HasNonce, Claims, Taken
    <3>2. account'.base = account.base
      BY <1>1, <2>7, <3>1, HoldLemma DEF Restamps, Reclaims
    <3>. QED
      BY <2>2, <2>3, <3>1, <3>2 DEF WInv, TakenWithin
  <2>8. CASE GivesUp(w)
    <3>1. nonce[w] \in Nonce
      BY <2>8 DEF GivesUp, KInv, HasNonce, Claims
    <3>2. account'.base = account.base
      <4>1. CASE account' = Released(account, nonce[w])
        BY <1>1, <3>1, <4>1, ReleaseLemma
      <4>2. CASE \E lag \in Lag : account' = Settled(account, nonce[w], "Used", lag)
        <5>1. PICK lag \in Lag : account' = Settled(account, nonce[w], "Used", lag)
          BY <4>2
        <5>2. Settled(account, nonce[w], "Used", lag).base = account.base
          BY <1>1, <3>1, UsedLemma
        <5>. QED
          BY <5>1, <5>2
      <4>. QED
        BY <2>8, <4>1, <4>2 DEF GivesUp
    <3>. QED
      BY <2>2, <2>3, <2>8, <3>2 DEF GivesUp, WInv, TakenWithin, Taken, Claims
  <2>. QED
    BY <2>1, <2>4, <2>5, <2>6, <2>7, <2>8 DEF Kind
<1>3. ASSUME UNCHANGED <<phase, nonce>>, account'.base = account.base,
             chainBase <= chainBase', chainBase' \in Nat
      PROVE  WInv'
  <2>1. account.base \in Nat
    BY <1>1 DEF Account
  <2>2. account'.base <= chainBase'
    BY <1>1, <1>3, <2>1 DEF WInv
  <2>3. \A w \in Write : nonce[w] <= chainBase + Window => nonce[w] <= chainBase' + Window
    BY <1>1, <1>3
  <2>. QED
    BY <1>3, <2>2, <2>3 DEF WInv, TakenWithin, Taken
<1>4. CASE \E n \in Nonce : ChainSpends(n)
  BY <1>3, <1>4, SpendLemma DEF ChainSpends
<1>5. CASE Query
  BY <1>1, <1>3, <1>5, PruneLemma DEF Query, IsHeld, chainVars
<1>6. CASE Tick
  BY <1>1, <1>3, <1>6, ElapseLemma DEF Tick, chainVars
<1>7. CASE UNCHANGED leaseVars
  BY <1>1, <1>3, <1>7 DEF leaseVars
<1>. QED
  BY <1>2, <1>4, <1>5, <1>6, <1>7 DEF LeaseNext

\* No nonce in a write's hands lies past the window the node accepts (take()).
THEOREM InWindow == LeaseSpec => []WithinWindow
<1>1. LeaseInit => WInv
  BY DEF LeaseInit, TrackerInit, WInv, TakenWithin, Taken
<1>2. KInv /\ [LeaseNext]_leaseVars => KInv'
  BY KInvStep
<1>3. KInv /\ WInv /\ [LeaseNext]_leaseVars => WInv'
  BY WInvStep
<1>4. WInv => WithinWindow
  BY DEF WInv, TakenWithin, WithinWindow, Taken, Claims
<1>. QED
  BY KInvInit, <1>1, <1>2, <1>3, <1>4, PTL DEF LeaseSpec

-----------------------------------------------------------------------------
(* One write to a nonce *)

\* A write that stamped its nonce within the hold, or was told that it is used.
Keeps(w) == (Claims(w) /\ Current(w)) \/ phase[w] = "spent"

\* Where no caller reclaimed it, the nonce of such a write is known used or
\* stamped as recently as that.
Protected ==
  \A w \in Write :
    Keeps(w) /\ nonce[w] \notin reclaimed =>
      Dead(account, nonce[w]) \/ account.handed[nonce[w]] <= since[w]

\* No request outlives its write's hold.
FlightsCurrent == \A w \in Write : phase[w] = "flying" => Current(w)

\* A nonce that was refused as used is known used.
SpentKnown == \A w \in Write : phase[w] = "spent" => Dead(account, nonce[w])

\* LeasesDistinct, strengthened: a write whose nonce is used can be sent again, so
\* its nonce counts too.
KeptApart ==
  \A v, w \in Write :
    v # w /\ Keeps(v) /\ Keeps(w) /\ nonce[v] \notin reclaimed => nonce[v] # nonce[w]

DInv == Protected /\ FlightsCurrent /\ SpentKnown /\ KeptApart

\* Among punctual writes whose callers bring no nonces, the leases stay distinct:
\* only the holder of a current claim removes or renews its nonce's stamp.
LEMMA DInvStep ==
  ASSUME KInv, DInv, Punctual, ~OwnNonces, [LeaseNext]_leaseVars
  PROVE  DInv'
<1>1. /\ Pruned(account) /\ account \in Account
      /\ since \in [Write -> Age]
      /\ \A v \in Write : Claims(v) \/ Keeps(v) => nonce[v] \in Nonce
  BY DEF KInv, LeaseTypeOK, Pruned, HasNonce, Claims, Keeps
<1>2. account.handed \in [Nonce -> Age]
  BY <1>1 DEF Account
<1>3. ASSUME NEW w \in Write, WriteStep(w)
      PROVE  DInv'
  <2>1. Kind(w) /\ OnlyMoves(w)
    BY <1>3, WriteStepKind DEF KInv, Kind, Passes, Takes, FindsFull, Restamps, Reclaims, GivesUp
  <2>2. /\ \A n \in Nonce : Dead(account, n) => Dead(account', n)
        /\ Pruned(account')
    BY <2>1, CallLearns
  <2>3. /\ reclaimed \subseteq reclaimed'
        /\ \A v \in Write \ {w} :
             /\ Keeps(v)' <=> Keeps(v)
             /\ Current(v)' <=> Current(v)
             /\ nonce'[v] = nonce[v] /\ since'[v] = since[v] /\ phase'[v] = phase[v]
    BY <2>1 DEF OnlyMoves, Keeps, Claims, Current, Kind, Passes, Takes, FindsFull, Restamps,
                Reclaims, GivesUp
  \* It is enough that the young stamps of the other writes survive, and that w
  \* comes out protected and apart from them.
  <2>4. ASSUME \A v \in Write \ {w} :
                 Keeps(v) /\ nonce[v] \notin reclaimed' =>
                   /\ Dead(account', nonce[v]) \/ account'.handed[nonce[v]] <= since[v]
                   /\ Keeps(w)' => nonce'[w] # nonce[v],
               Keeps(w)' /\ nonce'[w] \notin reclaimed' =>
                 Dead(account', nonce'[w]) \/ account'.handed[nonce'[w]] <= since'[w],
               phase'[w] = "flying" => Current(w)',
               phase'[w] = "spent" => Dead(account', nonce'[w])
        PROVE  DInv'
    <3>1. Protected'
      BY <2>3, <2>4 DEF Protected
    <3>2. FlightsCurrent'
      BY <2>3, <2>4 DEF FlightsCurrent, DInv
    <3>3. KeptApart'
      BY <2>3, <2>4 DEF KeptApart, DInv
    <3>4. SpentKnown'
      <4>1. ASSUME NEW v \in Write \ {w}, phase[v] = "spent"
            PROVE  Dead(account', nonce[v])
        BY <1>1, <2>2, <4>1 DEF SpentKnown, DInv, Keeps
      <4>. QED
        BY <2>3, <2>4, <4>1 DEF SpentKnown
    <3>. QED
      BY <3>1, <3>2, <3>3, <3>4 DEF DInv
  <2>5. Ready(w) => Current(w)
    BY DEF Ready, InTime, DInv, FlightsCurrent
  <2>6. \A v \in Write \ {w} :
          Keeps(v) /\ nonce[v] \notin reclaimed =>
            /\ nonce[v] \in Nonce
            /\ Dead(account, nonce[v]) \/ account.handed[nonce[v]] <= since[v]
            /\ Dead(account, nonce[v]) \/ account.handed[nonce[v]] < Hold
            /\ Keeps(w) => nonce[w] # nonce[v]
    <3>1. ASSUME NEW v \in Write \ {w}, Keeps(v), nonce[v] \notin reclaimed
          PROVE  /\ nonce[v] \in Nonce
                 /\ Dead(account, nonce[v]) \/ account.handed[nonce[v]] <= since[v]
                 /\ Keeps(w) => nonce[w] # nonce[v]
      BY <1>1, <3>1 DEF DInv, Protected, KeptApart
    <3>2. ASSUME NEW v \in Write \ {w}, Keeps(v), nonce[v] \notin reclaimed
          PROVE  Dead(account, nonce[v]) \/ account.handed[nonce[v]] < Hold
      <4>1. CASE phase[v] = "spent"
        BY <4>1 DEF DInv, SpentKnown
      <4>2. CASE phase[v] # "spent"
        BY <1>1, <1>2, <3>1, <3>2, <4>2 DEF Keeps, Current
      <4>. QED
        BY <4>1, <4>2
    <3>. QED
      BY <3>1, <3>2
  <2>7. CASE Passes(w)
    <3>1. Keeps(w)' => Keeps(w) /\ nonce'[w] = nonce[w]
      BY <2>7 DEF Passes, Claims, Keeps, Current
    <3>2. account' = account /\ since'[w] = since[w] /\ (Current(w)' <=> Current(w))
          /\ reclaimed' = reclaimed
      BY <2>7 DEF Passes, Current
    <3>3. /\ phase'[w] = "flying" => Current(w)'
          /\ phase'[w] # "spent"
      BY <2>5, <2>7, <3>2 DEF Passes, Claims
    <3>4. Keeps(w)' /\ nonce'[w] \notin reclaimed' =>
            Dead(account', nonce'[w]) \/ account'.handed[nonce'[w]] <= since'[w]
      BY <3>1, <3>2 DEF DInv, Protected
    <3>. QED
      BY <2>4, <2>6, <3>1, <3>2, <3>3, <3>4
  <2>8. CASE Takes(w)
    <3>1. PICK n \in Nonce, lag \in Lag :
            Take(seen[w], n, lag) /\ nonce'[w] = n /\ since'[w] = lag
      BY <2>8 DEF Takes
    <3>2. /\ ~Dead(account', n) /\ account'.handed[n] = lag
          /\ \A m \in Nonce :
               ~Dead(account', m) /\ account.handed[m] < Hold =>
                 m # n /\ account'.handed[m] = account.handed[m]
      BY <1>1, <3>1, BaseBound, TakeLemma
    <3>3. \A v \in Write \ {w} :
            Keeps(v) /\ nonce[v] \notin reclaimed =>
              /\ Dead(account', nonce[v]) \/ account'.handed[nonce[v]] <= since[v]
              /\ nonce[v] # n
      BY <2>2, <2>6, <3>2
    <3>4. phase'[w] # "flying" /\ phase'[w] # "spent" /\ reclaimed' = reclaimed
      BY <2>8 DEF Takes
    <3>. QED
      BY <2>4, <3>1, <3>2, <3>3, <3>4
  <2>9. CASE FindsFull(w)
    <3>1. /\ \A m \in Nonce :
               ~Dead(account', m) /\ account.handed[m] < Hold =>
                 account'.handed[m] = account.handed[m]
      BY <1>1, <2>9, BaseBound, TakeFullLemma DEF FindsFull
    <3>2. \A v \in Write \ {w} :
            Keeps(v) /\ nonce[v] \notin reclaimed =>
              Dead(account', nonce[v]) \/ account'.handed[nonce[v]] <= since[v]
      BY <2>2, <2>6, <3>1
    <3>3. ~Keeps(w)' /\ phase'[w] # "flying" /\ phase'[w] # "spent" /\ reclaimed' = reclaimed
      BY <2>9 DEF FindsFull, Claims, Keeps
    <3>. QED
      BY <2>4, <3>2, <3>3
  <2>10. CASE Restamps(w) \/ Reclaims(w)
    <3>1. nonce[w] \in Nonce /\ nonce'[w] = nonce[w] /\ phase'[w] # "spent"
      BY <2>10 DEF Restamps, Reclaims, KInv, HasNonce, Claims
    <3>2. PICK lag \in Lag : account' = HoldOf(account, nonce[w], lag) /\ since'[w] = lag
      BY <2>10 DEF Restamps, Reclaims
    <3>3. /\ \A m \in Nonce : Dead(account', m) <=> Dead(account, m)
          /\ Dead(account, nonce[w]) \/ account'.handed[nonce[w]] = lag
          /\ \A m \in Nonce \ {nonce[w]} :
               ~Dead(account, m) /\ account.handed[m] < Hold =>
                 account'.handed[m] = account.handed[m]
      BY <1>1, <3>1, <3>2, HoldLemma
    \* w kept its nonce before, or reclaims it now.
    <3>4. Keeps(w) \/ nonce[w] \in reclaimed'
      BY <2>5, <2>10 DEF Restamps, Reclaims, Keeps
    <3>5. \A v \in Write \ {w} :
            Keeps(v) /\ nonce[v] \notin reclaimed' => nonce[v] # nonce[w]
      BY <2>3, <2>6, <3>4
    <3>6. \A v \in Write \ {w} :
            Keeps(v) /\ nonce[v] \notin reclaimed' =>
              Dead(account', nonce[v]) \/ account'.handed[nonce[v]] <= since[v]
      BY <2>2, <2>3, <2>6, <3>3, <3>5
    <3>7. Current(w)'
      BY <3>2 DEF Current
    <3>8. Dead(account', nonce'[w]) \/ account'.handed[nonce'[w]] <= since'[w]
      BY <3>1, <3>2, <3>3
    <3>. QED
      BY <2>4, <3>1, <3>5, <3>6, <3>7, <3>8
  <2>11. CASE GivesUp(w)
    <3>1. /\ nonce[w] \in Nonce /\ Keeps(w)
          /\ nonce'[w] = nonce[w] /\ reclaimed' = reclaimed /\ phase'[w] # "flying"
      BY <1>1, <2>5, <2>11 DEF GivesUp, Keeps
    <3>2. \A m \in Nonce \ {nonce[w]} : account'.handed[m] = account.handed[m]
      <4>1. CASE account' = Released(account, nonce[w])
        <5>1. Pruned(account) /\ nonce[w] \in Nonce
          BY <1>1, <3>1
        <5>2. \A m \in Nonce : Released(account, nonce[w]).handed[m] =
                                IF m = nonce[w] THEN Absent ELSE account.handed[m]
          BY <5>1, ReleaseLemma
        <5>. QED
          BY <4>1, <5>2
      <4>2. CASE \E lag \in Lag : account' = Settled(account, nonce[w], "Used", lag)
        <5>1. PICK lag \in Lag : account' = Settled(account, nonce[w], "Used", lag)
          BY <4>2
        <5>2. Pruned(account) /\ nonce[w] \in Nonce
          BY <1>1, <3>1
        <5>3. \A m \in Nonce : Settled(account, nonce[w], "Used", lag).handed[m] =
                                IF m = nonce[w] THEN Absent ELSE account.handed[m]
          BY <5>2, UsedLemma
        <5>. QED
          BY <5>1, <5>3
      <4>. QED
        BY <2>11, <4>1, <4>2 DEF GivesUp
    <3>3. \A v \in Write \ {w} :
            Keeps(v) /\ nonce[v] \notin reclaimed =>
              /\ Dead(account', nonce[v]) \/ account'.handed[nonce[v]] <= since[v]
              /\ nonce[v] # nonce[w]
      BY <2>2, <2>6, <3>1, <3>2
    <3>4. phase'[w] = "spent" => Dead(account', nonce[w])
      <4>1. ASSUME phase'[w] = "spent"
            PROVE  Dead(account', nonce[w])
        <5>1. PICK lag \in Lag : account' = Settled(account, nonce[w], "Used", lag)
          BY <2>11, <4>1 DEF GivesUp
        <5>2. Pruned(account) /\ nonce[w] \in Nonce
          BY <1>1, <3>1
        <5>3. Dead(Settled(account, nonce[w], "Used", lag), nonce[w])
          BY <5>2, UsedLemma
        <5>. QED
          BY <5>1, <5>3
      <4>. QED
        BY <4>1
    <3>5. Keeps(w)' => phase'[w] = "spent"
      BY <2>11 DEF GivesUp, Keeps, Claims
    <3>. QED
      BY <2>4, <3>1, <3>3, <3>4, <3>5
  <2>. QED
    BY <2>1, <2>7, <2>8, <2>9, <2>10, <2>11 DEF Kind
<1>4. ASSUME UNCHANGED <<phase, nonce, since, reclaimed>>,
             \A n \in Nonce : Dead(account, n) => Dead(account', n),
             \A n \in Nonce :
               ~Dead(account, n) /\ account.handed[n] < Hold =>
                 account'.handed[n] = account.handed[n]
      PROVE  DInv'
  <2>1. \A w \in Write : (Keeps(w)' <=> Keeps(w)) /\ (Current(w)' <=> Current(w))
    BY <1>4 DEF Keeps, Claims, Current
  <2>2. ASSUME NEW w \in Write, Keeps(w), nonce[w] \notin reclaimed
        PROVE  Dead(account', nonce[w]) \/ account'.handed[nonce[w]] <= since[w]
    <3>1. nonce[w] \in Nonce
      BY <1>1, <2>2
    <3>2. CASE Dead(account, nonce[w])
      BY <1>4, <3>1, <3>2
    <3>3. CASE ~Dead(account, nonce[w])
      <4>1. account.handed[nonce[w]] <= since[w] /\ since[w] < Hold
        BY <2>2, <3>3 DEF DInv, Protected, SpentKnown, Keeps, Current
      <4>2. account.handed[nonce[w]] \in Age /\ since[w] \in Age
        BY <1>1, <1>2, <3>1
      <4>3. account.handed[nonce[w]] < Hold
        BY <4>1, <4>2, TrackerAssumption DEF Age, Absent, Cap
      <4>4. account'.handed[nonce[w]] = account.handed[nonce[w]]
        BY <1>4, <3>1, <3>3, <4>3
      <4>. QED
        BY <4>1, <4>4
    <3>. QED
      BY <3>2, <3>3
  <2>3. Protected'
    BY <1>4, <2>1, <2>2 DEF Protected
  <2>4. SpentKnown'
    <3>1. ASSUME NEW w \in Write, phase[w] = "spent"
          PROVE  Dead(account', nonce[w])
      BY <1>1, <1>4, <3>1 DEF DInv, SpentKnown, Keeps
    <3>. QED
      BY <1>4, <3>1 DEF SpentKnown
  <2>. QED
    BY <1>4, <2>1, <2>3, <2>4 DEF DInv, FlightsCurrent, KeptApart
<1>5. CASE \E n \in Nonce : ChainSpends(n)
  BY <1>4, <1>5 DEF ChainSpends
<1>6. CASE Query
  BY <1>1, <1>4, <1>6, PruneLemma DEF Query, IsHeld
<1>7. CASE Tick
  <2>1. /\ \A n \in Nonce : Dead(account', n) <=> Dead(account, n)
        /\ \A n \in Nonce : account'.handed[n] = Older(account.handed[n])
    BY <1>1, <1>7, ElapseLemma DEF Tick
  <2>2. /\ phase' = phase /\ nonce' = nonce
        /\ \A w \in Write : since'[w] = Older(since[w])
        /\ \A w \in Write : phase[w] = "flying" => since[w] + 1 < Hold
    BY <1>7 DEF Tick
  <2>3. \A w \in Write : Current(w)' => Current(w) /\ since'[w] = since[w] + 1
    BY <1>1, <2>2 DEF Current, Older
  <2>4. \A age \in Age, bound \in Age :
          age <= bound /\ bound < Hold => Older(age) <= bound + 1
    BY DEF Older
  <2>5. reclaimed' = reclaimed /\ \A w \in Write : Keeps(w)' => Keeps(w)
    BY <1>7, <2>2, <2>3 DEF Tick, Keeps, Claims
  <2>6. ASSUME NEW w \in Write, Keeps(w)', nonce'[w] \notin reclaimed'
        PROVE  Dead(account', nonce'[w]) \/ account'.handed[nonce'[w]] <= since'[w]
    <3>1. /\ Keeps(w) /\ nonce'[w] = nonce[w] /\ nonce[w] \in Nonce
          /\ nonce[w] \notin reclaimed
      BY <1>1, <2>2, <2>5, <2>6
    <3>2. CASE Dead(account, nonce[w])
      BY <2>1, <3>1, <3>2
    <3>3. CASE ~Dead(account, nonce[w])
      <4>1. /\ account.handed[nonce[w]] <= since[w]
            /\ phase[w] # "spent"
        BY <3>1, <3>3 DEF DInv, Protected, SpentKnown
      <4>2. Current(w) /\ since'[w] = since[w] + 1
        BY <2>2, <2>3, <2>6, <4>1 DEF Keeps
      <4>3. Older(account.handed[nonce[w]]) <= since[w] + 1
        BY <1>1, <1>2, <2>4, <3>1, <4>1, <4>2 DEF Current
      <4>. QED
        BY <2>1, <3>1, <4>2, <4>3
    <3>. QED
      BY <3>2, <3>3
  <2>7. Protected'
    BY <2>6 DEF Protected
  <2>8. FlightsCurrent'
    BY <1>1, <2>2 DEF FlightsCurrent, Current, Older
  <2>9. KeptApart'
    BY <2>2, <2>5 DEF DInv, KeptApart
  <2>10. SpentKnown'
    <3>1. ASSUME NEW w \in Write, phase[w] = "spent"
          PROVE  Dead(account', nonce[w])
      BY <1>1, <2>1, <3>1 DEF DInv, SpentKnown, Keeps
    <3>. QED
      BY <2>2, <3>1 DEF SpentKnown
  <2>. QED
    BY <2>7, <2>8, <2>9, <2>10 DEF DInv
<1>8. CASE UNCHANGED leaseVars
  BY <1>4, <1>8 DEF leaseVars
<1>. QED
  BY <1>3, <1>5, <1>6, <1>7, <1>8 DEF LeaseNext

LEMMA DInvInit == LeaseInit => DInv
BY DEF LeaseInit, DInv, Protected, FlightsCurrent, SpentKnown, KeptApart, Keeps, Claims

\* Of punctual writes whose nonces all come from the tracker, no two hold one
\* nonce at a time.
THEOREM Distinctness ==
  ASSUME Punctual, ~OwnNonces
  PROVE  LeaseSpec => []LeasesDistinct
<1>1. KInv /\ [LeaseNext]_leaseVars => KInv'
  BY KInvStep
<1>2. KInv /\ DInv /\ [LeaseNext]_leaseVars => DInv'
  BY DInvStep
<1>3. DInv => LeasesDistinct
  BY DEF DInv, KeptApart, LeasesDistinct, Keeps
<1>. QED
  BY KInvInit, DInvInit, <1>1, <1>2, <1>3, PTL DEF LeaseSpec

\* Under the same conditions take() hands out no nonce another write holds.
THEOREM Freshness ==
  ASSUME Punctual, ~OwnNonces
  PROVE  LeaseSpec => TakesFresh
<1>. DEFINE Fresh ==
       \A v, w \in Write :
         /\ phase[w] = "asked" /\ phase'[w] = "leased"
         /\ v # w /\ Claims(v) /\ Current(v)
         /\ nonce[v] \notin reclaimed
         => nonce[v] # nonce'[w]
<1>1. ASSUME KInv, DInv, LeaseNext
      PROVE  Fresh
  <2>. SUFFICES ASSUME NEW v \in Write, NEW w \in Write,
                       phase[w] = "asked", phase'[w] = "leased",
                       v # w, Claims(v), Current(v), nonce[v] \notin reclaimed
                PROVE  nonce[v] # nonce'[w]
    OBVIOUS
  <2>1. PICK u \in Write : WriteStep(u)
    BY <1>1 DEF LeaseNext, ChainSpends, Query, Tick
  <2>2. Kind(u)
    BY <1>1, <2>1, WriteStepKind DEF KInv
  <2>3. u = w
    BY <2>2 DEF Kind, Passes, Takes, FindsFull, Restamps, Reclaims, GivesUp, OnlyMoves
  <2>4. OnlyMoves(w) /\ Takes(w)
    BY <2>2, <2>3 DEF Kind, Passes, Takes, FindsFull, Restamps, Reclaims, GivesUp, Claims
  <2>5. PICK lag \in Lag : since'[w] = lag
    BY <2>4 DEF Takes
  <2>6. /\ Claims(v)' /\ Current(v)' /\ nonce'[v] = nonce[v]
        /\ Claims(w)' /\ Current(w)' /\ reclaimed' = reclaimed
    BY <2>4, <2>5 DEF Takes, OnlyMoves, Claims, Current
  <2>7. DInv'
    BY <1>1, DInvStep
  <2>. QED
    BY <2>6, <2>7 DEF DInv, KeptApart, Keeps
<1>2. KInv /\ [LeaseNext]_leaseVars => KInv'
  BY KInvStep
<1>3. KInv /\ DInv /\ [LeaseNext]_leaseVars => DInv'
  BY DInvStep
<1>4. KInv /\ DInv /\ [LeaseNext]_leaseVars => [Fresh]_leaseVars
  BY <1>1
<1>. QED
  BY KInvInit, DInvInit, <1>2, <1>3, <1>4, PTL DEF LeaseSpec, TakesFresh

-----------------------------------------------------------------------------
(* A nonce no other write came by *)

\* A write that has not come by a nonce has none, and has stamped none.
Bare == \A w \in Write : phase[w] \in {"idle", "asked"} => nonce[w] = 0 /\ since[w] = Absent

Apart(w) == \A v \in Write \ {w} : nonce[v] # nonce[w]

\* A current claim to a nonce that no other write came by is stamped as recently as
\* that, or its nonce is known used, however tardy the writes are.
Stamped ==
  \A w \in Write :
    Claims(w) /\ Current(w) /\ Apart(w) =>
      Dead(account, nonce[w]) \/ account.handed[nonce[w]] = since[w]

GInv == Bare /\ Stamped

\* A call of another write touches the stamp of w's nonce only if it comes by that
\* nonce itself.
LEMMA StampSurvives ==
  ASSUME KInv, GInv, NEW v \in Write, Kind(v),
         NEW w \in Write \ {v}, Claims(w), Current(w), Apart(w)'
  PROVE  Dead(account', nonce[w]) \/ account'.handed[nonce[w]] = since[w]
<1>1. /\ Pruned(account) /\ account \in Account /\ since \in [Write -> Age]
      /\ account.handed \in [Nonce -> Age]
      /\ nonce[w] \in Nonce
  BY DEF KInv, LeaseTypeOK, Pruned, Account, HasNonce, Claims
<1>2. OnlyMoves(v)
  BY DEF Kind, Passes, Takes, FindsFull, Restamps, Reclaims, GivesUp
<1>3. nonce'[v] # nonce[w] /\ nonce'[w] = nonce[w]
  BY <1>2 DEF OnlyMoves, Apart
<1>4. nonce'[v] = nonce[v] \/ nonce[v] = 0
  BY DEF GInv, Bare, Kind, Passes, Takes, FindsFull, Restamps, Reclaims, GivesUp
<1>5. Apart(w)
  BY <1>1, <1>2, <1>3, <1>4 DEF Apart, OnlyMoves
<1>6. Dead(account, nonce[w]) => Dead(account', nonce[w])
  BY <1>1, CallLearns
<1>7. ~Dead(account, nonce[w]) =>
        account.handed[nonce[w]] = since[w] /\ account.handed[nonce[w]] < Hold
  BY <1>5 DEF GInv, Stamped, Current
<1>8. CASE Passes(v)
  BY <1>7, <1>6, <1>8 DEF Passes
<1>9. CASE Takes(v)
  <2>1. PICK n \in Nonce, lag \in Lag : Take(seen[v], n, lag)
    BY <1>9 DEF Takes
  <2>2. \A m \in Nonce : ~Dead(account', m) /\ account.handed[m] < Hold =>
                            account'.handed[m] = account.handed[m]
    BY <1>1, <2>1, BaseBound, TakeLemma
  <2>. QED
    BY <1>1, <1>6, <1>7, <2>2
<1>10. CASE FindsFull(v)
  <2>1. \A m \in Nonce : ~Dead(account', m) /\ account.handed[m] < Hold =>
                            account'.handed[m] = account.handed[m]
    BY <1>1, <1>10, BaseBound, TakeFullLemma DEF FindsFull
  <2>. QED
    BY <1>1, <1>6, <1>7, <2>1
<1>11. CASE Restamps(v) \/ Reclaims(v)
  <2>1. nonce[v] \in Nonce /\ nonce[w] \in Nonce \ {nonce[v]}
    BY <1>1, <1>3, <1>11 DEF Restamps, Reclaims, KInv, HasNonce, Claims
  <2>2. PICK lag \in Lag : account' = HoldOf(account, nonce[v], lag)
    BY <1>11 DEF Restamps, Reclaims
  <2>3. \A m \in Nonce \ {nonce[v]} :
          ~Dead(account, m) /\ account.handed[m] < Hold =>
            HoldOf(account, nonce[v], lag).handed[m] = account.handed[m]
    <3>. account \in Account /\ nonce[v] \in Nonce
      BY <1>1, <2>1
    <3>. QED
      BY HoldLemma
  <2>. QED
    BY <1>6, <1>7, <2>1, <2>2, <2>3
<1>12. CASE GivesUp(v)
  <2>1. nonce[v] \in Nonce /\ nonce[w] \in Nonce \ {nonce[v]}
    BY <1>1, <1>3, <1>12 DEF GivesUp, KInv, HasNonce, Claims
  <2>2. account'.handed[nonce[w]] = account.handed[nonce[w]]
    <3>. Pruned(account) /\ nonce[v] \in Nonce
      BY <1>1, <2>1
    <3>1. CASE account' = Released(account, nonce[v])
      <4>1. \A m \in Nonce : Released(account, nonce[v]).handed[m] =
                             IF m = nonce[v] THEN Absent ELSE account.handed[m]
        BY ReleaseLemma
      <4>. QED
        BY <2>1, <3>1, <4>1
    <3>2. CASE \E lag \in Lag : account' = Settled(account, nonce[v], "Used", lag)
      <4>1. \A m \in Nonce : account'.handed[m] =
                             IF m = nonce[v] THEN Absent ELSE account.handed[m]
        BY <3>2, UsedLemma
      <4>. QED
        BY <2>1, <4>1
    <3>. QED
      BY <1>12, <3>1, <3>2 DEF GivesUp
  <2>. QED
    BY <1>6, <1>7, <2>2
<1>. QED
  BY <1>8, <1>9, <1>10, <1>11, <1>12 DEF Kind

LEMMA GInvStep ==
  ASSUME KInv, GInv, [LeaseNext]_leaseVars
  PROVE  GInv'
<1>1. /\ Pruned(account) /\ account \in Account
      /\ since \in [Write -> Age]
      /\ \A v \in Write : Claims(v) => nonce[v] \in Nonce
  BY DEF KInv, LeaseTypeOK, Pruned, HasNonce, Claims
<1>2. account.handed \in [Nonce -> Age]
  BY <1>1 DEF Account
<1>3. ASSUME NEW v \in Write, WriteStep(v)
      PROVE  GInv'
  <2>1. Kind(v) /\ OnlyMoves(v)
    BY <1>3, WriteStepKind DEF KInv, Kind, Passes, Takes, FindsFull, Restamps, Reclaims, GivesUp
  <2>2. phase'[v] \in {"idle", "asked"} => nonce'[v] = nonce[v] /\ since'[v] = since[v]
                                        /\ phase[v] \in {"idle", "asked"}
    BY <2>1 DEF Kind, Passes, Takes, FindsFull, Restamps, Reclaims, GivesUp, Claims
  <2>3. Bare'
    BY <2>1, <2>2 DEF GInv, Bare, OnlyMoves
  <2>4. ASSUME NEW w \in Write \ {v}, Claims(w)', Current(w)', Apart(w)'
        PROVE  (Dead(account, nonce[w]) \/ account.handed[nonce[w]] = since[w])'
    <3>1. Claims(w) /\ Current(w) /\ nonce'[w] = nonce[w] /\ since'[w] = since[w]
      BY <2>1, <2>4 DEF OnlyMoves, Claims, Current
    <3>. QED
      BY <2>1, <2>4, <3>1, StampSurvives
  <2>5. ASSUME Claims(v)', Current(v)', Apart(v)'
        PROVE  (Dead(account, nonce[v]) \/ account.handed[nonce[v]] = since[v])'
    <3>1. CASE Passes(v)
      <4>1. since'[v] = since[v] /\ account' = account
        BY <3>1 DEF Passes
      <4>2. Claims(v) /\ nonce'[v] = nonce[v]
        BY <2>5, <3>1, <4>1 DEF Passes, GInv, Bare, Claims, Current
      <4>3. Current(v) /\ Apart(v)
        BY <2>1, <2>5, <4>1, <4>2 DEF Current, Apart, OnlyMoves
      <4>. QED
        BY <4>1, <4>2, <4>3 DEF GInv, Stamped
    <3>2. CASE Takes(v)
      <4>1. PICK n \in Nonce, lag \in Lag :
              Take(seen[v], n, lag) /\ nonce'[v] = n /\ since'[v] = lag
        BY <3>2 DEF Takes
      <4>2. account'.handed[n] = lag
        BY <1>1, <4>1, BaseBound, TakeLemma
      <4>. QED
        BY <4>1, <4>2
    <3>3. CASE FindsFull(v)
      BY <2>5, <3>3 DEF FindsFull, Claims
    <3>4. CASE Restamps(v) \/ Reclaims(v)
      <4>1. nonce[v] \in Nonce /\ nonce'[v] = nonce[v]
        BY <3>4 DEF Restamps, Reclaims, KInv, HasNonce, Claims
      <4>2. PICK lag \in Lag : account' = HoldOf(account, nonce[v], lag) /\ since'[v] = lag
        BY <3>4 DEF Restamps, Reclaims
      <4>3. /\ Dead(account, nonce[v]) => Dead(account', nonce[v])
            /\ Dead(account, nonce[v]) \/ account'.handed[nonce[v]] = lag
        BY <1>1, <4>1, <4>2, HoldLemma
      <4>. QED
        BY <4>1, <4>2, <4>3
    <3>5. CASE GivesUp(v)
      BY <2>5, <3>5 DEF GivesUp, Claims
    <3>. QED
      BY <2>1, <3>1, <3>2, <3>3, <3>4, <3>5 DEF Kind
  <2>. QED
    BY <2>3, <2>4, <2>5 DEF GInv, Stamped
<1>4. ASSUME UNCHANGED <<phase, nonce, since>>,
             \A n \in Nonce : Dead(account, n) => Dead(account', n),
             \A n \in Nonce :
               ~Dead(account, n) /\ account.handed[n] < Hold =>
                 account'.handed[n] = account.handed[n]
      PROVE  GInv'
  <2>1. ASSUME NEW w \in Write, Claims(w), Current(w), Apart(w)
        PROVE  Dead(account', nonce[w]) \/ account'.handed[nonce[w]] = since[w]
    BY <1>1, <1>4, <2>1 DEF GInv, Stamped, Current
  <2>. QED
    BY <1>4, <2>1 DEF GInv, Bare, Stamped, Claims, Current, Apart
<1>5. CASE \E n \in Nonce : ChainSpends(n)
  BY <1>4, <1>5 DEF ChainSpends
<1>6. CASE Query
  BY <1>1, <1>4, <1>6, PruneLemma DEF Query, IsHeld
<1>7. CASE Tick
  <2>1. /\ \A n \in Nonce : Dead(account', n) <=> Dead(account, n)
        /\ \A n \in Nonce : account'.handed[n] = Older(account.handed[n])
    BY <1>1, <1>7, ElapseLemma DEF Tick
  <2>2. /\ phase' = phase /\ nonce' = nonce
        /\ \A w \in Write : since'[w] = Older(since[w])
    BY <1>7 DEF Tick
  <2>3. \A age \in Age : Older(age) < Hold => age < Hold
    BY DEF Older
  <2>4. \A w \in Write : (Claims(w)' => Claims(w)) /\ (Apart(w)' => Apart(w))
                         /\ (Current(w)' => Current(w))
    BY <1>1, <2>2, <2>3 DEF Claims, Apart, Current
  <2>5. Bare'
    BY <2>2 DEF GInv, Bare, Older
  <2>6. Stamped'
    BY <1>1, <2>1, <2>2, <2>4 DEF GInv, Stamped
  <2>. QED
    BY <2>5, <2>6 DEF GInv
<1>8. CASE UNCHANGED leaseVars
  BY <1>4, <1>8 DEF leaseVars
<1>. QED
  BY <1>3, <1>5, <1>6, <1>7, <1>8 DEF LeaseNext

LEMMA GInvInit == LeaseInit => GInv
BY DEF LeaseInit, GInv, Bare, Stamped, Claims
=============================================================================
