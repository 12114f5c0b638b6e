---------------------------- MODULE NonceTracker ----------------------------
(***************************************************************************)
(* The nonce tracker of a client (src/nonces.rs): which nonces of one      *)
(* signing DID are known used, and which are handed out and not seen to    *)
(* land. Every method runs under one mutex and awaits nothing, so each is  *)
(* one step. A DID's account is an entry of its own in the tracker's map;  *)
(* the module keeps one of them.                                           *)
(*                                                                         *)
(* Time is kept as ages: handed[n] is how long ago nonce n was stamped,    *)
(* and Elapse makes everything one tick older. A method reads the clock    *)
(* before it takes the mutex, so the reading it uses may be `lag' ticks    *)
(* old when it runs: it stamps with age lag and sees every other stamp lag *)
(* ticks younger than it is.                                               *)
(***************************************************************************)
EXTENDS Integers, FiniteSets

CONSTANTS
  Window,     \* NONCE_WINDOW: how many nonces above the base the node accepts
  Hold,       \* NONCE_HOLD in ticks: how long a nonce handed out stays taken
  MaxLag,     \* ticks a thread may wait between its clock reading and the mutex
  MaxNonce    \* u64::MAX

ASSUME TrackerAssumption ==
  /\ Window \in Nat \ {0}
  /\ Hold \in Nat \ {0}
  /\ MaxLag \in 0 .. Hold - 1
  /\ MaxNonce \in Nat \ {0}

VARIABLE account    \* the DID's entry: its base, the used nonces above it, the stamps

Nonce == 1 .. MaxNonce
Lag == 0 .. MaxLag

\* Ages stop at Cap: every clock reading finds such a stamp lapsed.
Cap == Hold + MaxLag
Absent == Cap + 1    \* not handed out: no stamp
Age == 0 .. Absent

Account == [base : 0 .. MaxNonce, used : SUBSET Nonce, handed : [Nonce -> Age]]

\* The chain's answer: its base, and the bits set among the Window above it.
ChainState == [base : 0 .. MaxNonce, bits : SUBSET (0 .. Window - 1)]

Outcome == {"Accepted", "Free", "Held", "Unknown", "Used"}

SatAdd(n, k) == IF n + k > MaxNonce THEN MaxNonce ELSE n + k

Larger(m, n) == IF m > n THEN m ELSE n

-----------------------------------------------------------------------------
(* Reading and refreshing an account *)

\* Mutated form: bit i read as base + 2 + i.
MutUsedNonces(s) == { SatAdd(s.base, 2 + i) : i \in s.bits }

\* The nonces an answer shows used above its base.
UsedNonces(s) == { SatAdd(s.base, 1 + i) : i \in s.bits }

\* Mutated form: the latest answer's base, however old the answer is.
MutMerge(a, s) == [a EXCEPT !.base = s.base, !.used = @ \cup UsedNonces(s)]

\* An answer only adds to what is known: an older one cannot lower the base.
Merge(a, s) ==
  [a EXCEPT !.base = Larger(@, s.base), !.used = @ \cup UsedNonces(s)]

\* Mutated form: no time ever passes for a stamp.
MutElapsed(age, lag) == 0

\* How long ago a stamp of this age was, to a reading lag ticks old.
Elapsed(age, lag) == IF age > lag THEN age - lag ELSE 0

\* Drop what the base has passed, the stamps of used nonces and lapsed holds.
Prune(a, lag) ==
  LET above == { n \in a.used : n > a.base }
      kept(n) ==
        n > a.base /\ n \notin above /\ a.handed[n] # Absent /\ Elapsed(a.handed[n], lag) < Hold
  IN  [base |-> a.base,
       used |-> above,
       handed |-> [n \in Nonce |-> IF kept(n) THEN a.handed[n] ELSE Absent]]

\* Mutated forms: one nonce past the window; nonces handed out already.
MutCandidates(a) ==
  { n \in SatAdd(a.base, 1) .. SatAdd(a.base, Window + 1) :
      n \notin a.used /\ a.handed[n] = Absent }
MutCandidatesHeld(a) ==
  { n \in SatAdd(a.base, 1) .. SatAdd(a.base, Window) : n \notin a.used }

\* The nonces of the window that are neither used nor handed out.
Candidates(a) ==
  { n \in SatAdd(a.base, 1) .. SatAdd(a.base, Window) :
      n \notin a.used /\ a.handed[n] = Absent }

\* Known used: the tracker never hands such a nonce out, nor holds it.
Dead(a, n) == n <= a.base \/ n \in a.used

\* A pruned account: no used nonce at or below the base, no stamp on a nonce
\* known used. Every method leaves its account so.
Pruned(a) ==
  /\ a \in Account
  /\ \A n \in a.used : n > a.base
  /\ \A n \in Nonce : Dead(a, n) => a.handed[n] = Absent

Stamp(a, n, lag) == [a EXCEPT !.handed[n] = lag]

-----------------------------------------------------------------------------
(* The tracker's methods, each under the mutex *)

\* Mutated form: a stamp whether or not n is known used.
MutHoldOf(a, n, lag) == Stamp(Prune(a, lag), n, lag)

\* hold(): mark n taken from now, unless it is known used.
HoldOf(a, n, lag) ==
  LET fresh == Prune(a, lag) IN IF Dead(fresh, n) THEN fresh ELSE Stamp(fresh, n, lag)

\* release(): forget n's stamp, whoever took n last.
Released(a, n) == [a EXCEPT !.handed[n] = Absent]

\* Mutated form: an unknown outcome gives the nonce back.
MutSettled(a, n, outcome, lag) ==
  IF outcome \in {"Accepted", "Held"} THEN HoldOf(a, n, lag) ELSE Released(a, n)

\* settle(): what a submission's outcome leaves of its nonce.
Settled(a, n, outcome, lag) ==
  CASE outcome \in {"Accepted", "Held", "Unknown"} -> HoldOf(a, n, lag)
    [] outcome = "Free" -> Released(a, n)
    [] outcome = "Used" ->
         [Released(a, n) EXCEPT !.used = IF n > a.base THEN @ \cup {n} ELSE @]

TrackerInit ==
  account = [base |-> 0, used |-> {}, handed |-> [n \in Nonce |-> Absent]]

\* take(), given the answer s: n is the lowest candidate.
Take(s, n, lag) ==
  LET fresh == Prune(Merge(account, s), lag)
  IN  /\ n \in Candidates(fresh)
      /\ \A m \in Candidates(fresh) : n <= m
      /\ account' = Stamp(fresh, n, lag)

\* take() when the window is full: NonceWindowFull, with the refresh kept.
TakeFull(s, lag) ==
  LET fresh == Prune(Merge(account, s), lag)
  IN  /\ Candidates(fresh) = {}
      /\ account' = fresh

HoldNonce(n, lag) == account' = HoldOf(account, n, lag)

Settle(n, outcome, lag) == account' = Settled(account, n, outcome, lag)

Release(n) == account' = Released(account, n)

\* is_held(): refreshes the account as it answers.
IsHeld(lag) == account' = Prune(account, lag)

\* One tick of the clock.
Older(age) == IF age < Cap THEN age + 1 ELSE age

Elapse == account' = [account EXCEPT !.handed = [n \in Nonce |-> Older(@[n])]]

=============================================================================
