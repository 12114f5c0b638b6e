------------------------- MODULE VerifiedReads_proofs -------------------------
(***************************************************************************)
(* Verified reads, for any endpoints, lag and chain: what is returned is   *)
(* the chain's and recent, no true proof's root is called false, and stale *)
(* means stale.                                                            *)
(***************************************************************************)
EXTENDS VerifiedReads, FiniteSetTheorems, WellFoundedInduction, TLAPS

-----------------------------------------------------------------------------
(* Finite sets of numbers *)

\* A largest element: the one with the smallest set of elements above it.
LEMMA MaxExists ==
  ASSUME NEW T \in SUBSET Int, IsFiniteSet(T), T # {}
  PROVE  \E m \in T : \A x \in T : x <= m
<1>. DEFINE Up(a) == { x \in T : x >= a }
            Ups == { Up(a) : a \in T }
<1>1. IsWellFoundedOn(StrictSubsetOrdering(T), FiniteSubsetsOf(T))
  BY FS_StrictSubsetOrderingWellFounded
<1>2. \A a \in T : Up(a) \in FiniteSubsetsOf(T)
  <2>. TAKE a \in T
  <2>1. Up(a) \in SUBSET T
    OBVIOUS
  <2>2. IsFiniteSet(Up(a))
    BY <2>1, FS_Subset
  <2>. QED
    BY <2>1, <2>2 DEF FiniteSubsetsOf
<1>3. Ups # {} /\ Ups \subseteq FiniteSubsetsOf(T)
  BY <1>2
<1>4. \A U \in Ups : \E a \in T : U = Up(a)
  OBVIOUS
<1>5. \A a \in T : Up(a) \in Ups
  OBVIOUS
<1>6. ASSUME NEW a \in T, NEW b \in T, b > a
      PROVE  <<Up(b), Up(a)>> \in StrictSubsetOrdering(T)
  <2>1. a \in Int /\ b \in Int /\ \A x \in T : x \in Int
    OBVIOUS
  <2>2. \A x \in T : x >= b => x >= a
    BY <1>6, <2>1
  <2>3. Up(b) \subseteq Up(a)
    BY <2>2
  <2>4. a \in Up(a) /\ ~ (a \in Up(b))
    BY <1>6, <2>1
  <2>5. Up(a) \in SUBSET T /\ Up(b) \in SUBSET T
    OBVIOUS
  <2>6. Up(b) # Up(a)
    BY <2>4
  <2>. HIDE DEF Up
  <2>. QED
    BY <2>3, <2>5, <2>6 DEF StrictSubsetOrdering
<1>. HIDE DEF Up, Ups
<1>7. PICK U \in Ups : \A V \in Ups : ~ (<<V, U>> \in StrictSubsetOrdering(T))
  BY <1>1, <1>3, WFMin
<1>8. PICK m \in T : U = Up(m)
  BY <1>4
<1>9. \A x \in T : ~ (x > m)
  BY <1>5, <1>6, <1>7, <1>8
<1>. QED
  BY <1>9

\* A smallest element: the one with the smallest set of elements below it.
LEMMA MinExists ==
  ASSUME NEW T \in SUBSET Int, IsFiniteSet(T), T # {}
  PROVE  \E m \in T : \A x \in T : m <= x
<1>. DEFINE Down(a) == { x \in T : x <= a }
            Downs == { Down(a) : a \in T }
<1>1. IsWellFoundedOn(StrictSubsetOrdering(T), FiniteSubsetsOf(T))
  BY FS_StrictSubsetOrderingWellFounded
<1>2. \A a \in T : Down(a) \in FiniteSubsetsOf(T)
  <2>. TAKE a \in T
  <2>1. Down(a) \in SUBSET T
    OBVIOUS
  <2>2. IsFiniteSet(Down(a))
    BY <2>1, FS_Subset
  <2>. QED
    BY <2>1, <2>2 DEF FiniteSubsetsOf
<1>3. Downs # {} /\ Downs \subseteq FiniteSubsetsOf(T)
  BY <1>2
<1>4. \A U \in Downs : \E a \in T : U = Down(a)
  OBVIOUS
<1>5. \A a \in T : Down(a) \in Downs
  OBVIOUS
<1>6. ASSUME NEW a \in T, NEW b \in T, b < a
      PROVE  <<Down(b), Down(a)>> \in StrictSubsetOrdering(T)
  <2>1. a \in Int /\ b \in Int /\ \A x \in T : x \in Int
    OBVIOUS
  <2>2. \A x \in T : x <= b => x <= a
    BY <1>6, <2>1
  <2>3. Down(b) \subseteq Down(a)
    BY <2>2
  <2>4. a \in Down(a) /\ ~ (a \in Down(b))
    BY <1>6, <2>1
  <2>5. Down(a) \in SUBSET T /\ Down(b) \in SUBSET T
    OBVIOUS
  <2>6. Down(b) # Down(a)
    BY <2>4
  <2>. HIDE DEF Down
  <2>. QED
    BY <2>3, <2>5, <2>6 DEF StrictSubsetOrdering
<1>. HIDE DEF Down, Downs
<1>7. PICK U \in Downs : \A V \in Downs : ~ (<<V, U>> \in StrictSubsetOrdering(T))
  BY <1>1, <1>3, WFMin
<1>8. PICK m \in T : U = Down(m)
  BY <1>4
<1>9. \A x \in T : ~ (x < m)
  BY <1>5, <1>6, <1>7, <1>8
<1>. QED
  BY <1>9

-----------------------------------------------------------------------------
(* The latest height *)

LEMMA Cardinal ==
  ASSUME NEW S \in SUBSET Endpoint
  PROVE  IsFiniteSet(S) /\ Cardinality(S) \in Nat
BY ReadsAssumption, FS_Subset, FS_CardinalityType

\* The k-th highest answer exists: k of those that answered reached it, and no k
\* reached a higher one.
LEMMA QuorumReached ==
  ASSUME NEW S \in SUBSET Endpoint, Cardinality(S) >= Larger(Needed, 1),
         NEW a \in [S -> 1 .. MaxHeight + 1]
  PROVE  /\ \E e \in S : ReachedByQuorum(a) = a[e]
         /\ Cardinality({ e \in S : a[e] >= ReachedByQuorum(a) }) >= Quorum(Cardinality(S))
         /\ \A f \in S : Cardinality({ e \in S : a[e] >= a[f] }) >= Quorum(Cardinality(S))
                          => a[f] <= ReachedByQuorum(a)
<1>. DEFINE k == Quorum(Cardinality(S))
            by(h) == Cardinality({ e \in S : a[e] >= h })
            heights == { a[e] : e \in S }
            Best(h) == by(h) >= k /\ \A g \in heights : by(g) >= k => g <= h
            reach == { h \in heights : by(h) >= k }
<1>1. DOMAIN a = S /\ heights \subseteq 1 .. MaxHeight + 1
  OBVIOUS
<1>2. \A h \in Int : by(h) \in Nat
  <2>. TAKE h \in Int
  <2>1. { e \in S : a[e] >= h } \in SUBSET Endpoint
    OBVIOUS
  <2>. QED
    BY <2>1, Cardinal
<1>3. Cardinality(S) \in Nat /\ Cardinality(S) >= 1 /\ Cardinality(S) >= Needed
  BY Cardinal, ReadsAssumption DEF Larger
<1>4. k \in Nat /\ k <= Cardinality(S)
  BY <1>3, ReadsAssumption DEF Quorum, Larger
<1>5. IsFiniteSet(heights) /\ heights \in SUBSET Int
  <2>1. IsFiniteSet(1 .. MaxHeight + 1)
    BY FS_Interval, ReadsAssumption
  <2>2. heights \in SUBSET (1 .. MaxHeight + 1)
    BY <1>1
  <2>3. IsFiniteSet(heights)
    <3>. HIDE DEF heights
    <3>. QED
      BY <2>1, <2>2, FS_Subset
  <2>4. heights \in SUBSET Int
    BY <2>2
  <2>. QED
    BY <2>3, <2>4
<1>6. heights # {}
  <2>1. S # {}
    BY <1>3, FS_EmptySet
  <2>. QED
    BY <2>1
<1>7. reach # {}
  <2>1. PICK m \in heights : \A x \in heights : m <= x
    BY <1>5, <1>6, MinExists
  <2>2. { e \in S : a[e] >= m } = S
    BY <2>1, <1>1
  <2>3. by(m) >= k
    BY <2>2, <1>4
  <2>. QED
    BY <2>1, <2>3
<1>8. reach \in SUBSET Int /\ IsFiniteSet(reach)
  BY <1>5, FS_Subset
<1>9. PICK b \in reach : \A x \in reach : x <= b
  BY <1>7, <1>8, MaxExists
<1>10. b \in heights /\ Best(b)
  BY <1>9
<1>11. ReachedByQuorum(a) = CHOOSE h \in heights : Best(h)
  BY <1>1 DEF ReachedByQuorum
<1>12. ReachedByQuorum(a) \in heights /\ Best(ReachedByQuorum(a))
  <2>. HIDE DEF Best, heights
  <2>. QED
    BY <1>10, <1>11
<1>. QED
  BY <1>12

\* With an honest majority it is between what all honest endpoints reached and
\* what one did.
LEMMA HonestQuorum ==
  ASSUME NEW S \in SUBSET Endpoint, Cardinality(S) >= Larger(Needed, 1),
         tip \in Nat, reached \in [Honest -> 1 .. tip],
         NEW a \in Answers(S),
         Cardinality(S \cap Honest) > Cardinality(S \ Honest),
         Cardinality(S \cap Honest) >= Needed,
         NEW f \in Nat, \A e \in Honest : f <= reached[e]
  PROVE  f <= ReachedByQuorum(a) /\ ReachedByQuorum(a) <= tip
<1>. DEFINE h == ReachedByQuorum(a)
            hon == S \cap Honest
            oth == S \ Honest
            k == Quorum(Cardinality(S))
<1>1. a \in [S -> 1 .. MaxHeight + 1] /\ \A e \in hon : a[e] = reached[e]
  BY DEF Answers
<1>2. /\ \E e \in S : h = a[e]
      /\ Cardinality({ e \in S : a[e] >= h }) >= k
      /\ \A g \in S : Cardinality({ e \in S : a[e] >= a[g] }) >= k => a[g] <= h
  BY <1>1, QuorumReached
<1>3. h \in Nat
  BY <1>1, <1>2, ReadsAssumption
<1>4. /\ Cardinality(S) \in Nat /\ Cardinality(hon) \in Nat /\ Cardinality(oth) \in Nat
      /\ IsFiniteSet(S) /\ IsFiniteSet(hon) /\ IsFiniteSet(oth)
  <2>1. hon \in SUBSET Endpoint /\ oth \in SUBSET Endpoint
    OBVIOUS
  <2>. QED
    BY <2>1, Cardinal
<1>5. Cardinality(S) = Cardinality(hon) + Cardinality(oth)
  <2>1. Cardinality(S \ Honest) = Cardinality(S) - Cardinality(S \cap Honest)
    BY <1>4, FS_Difference, ReadsAssumption, FS_Subset
  <2>. QED
    BY <2>1, <1>4
<1>6. k \in Nat /\ Cardinality(oth) < k /\ k <= Cardinality(hon)
  BY <1>4, <1>5, ReadsAssumption DEF Quorum, Larger
<1>7. h <= tip
  <2>. DEFINE up == { e \in S : a[e] >= h }
  <2>1. ~ (up \subseteq oth)
    <3>1. ASSUME up \subseteq oth PROVE FALSE
      <4>1. Cardinality(up) <= Cardinality(oth)
        BY <3>1, <1>4, FS_Subset
      <4>2. Cardinality(up) \in Nat
        BY <3>1, <1>4, FS_Subset, FS_CardinalityType
      <4>. QED
        BY <4>1, <4>2, <1>2, <1>4, <1>6
    <3>. QED
      BY <3>1
  <2>2. PICK e \in hon : a[e] >= h
    BY <2>1
  <2>3. a[e] = reached[e] /\ reached[e] \in 1 .. tip
    BY <2>2, <1>1
  <2>. QED
    BY <2>2, <2>3, <1>3
<1>8. f <= h
  <2>. DEFINE T == { reached[e] : e \in hon }
  <2>1. hon # {}
    BY <1>4, FS_EmptySet
  <2>2. T # {} /\ T \in SUBSET Int /\ T \subseteq 1 .. tip
    BY <2>1
  <2>3. IsFiniteSet(T)
    BY <2>2, FS_Interval, FS_Subset
  <2>4. PICK m \in T : \A x \in T : m <= x
    BY <2>2, <2>3, MinExists
  <2>5. PICK g \in hon : m = reached[g]
    BY <2>4
  <2>. DEFINE up == { e \in S : a[e] >= a[g] }
  <2>6. a[g] = m /\ f <= m /\ m \in Nat
    BY <2>5, <2>4, <2>2, <1>1
  <2>7. hon \subseteq up
    BY <2>4, <2>6, <1>1
  <2>8. Cardinality(hon) <= Cardinality(up) /\ Cardinality(up) \in Nat
    BY <2>7, <1>4, FS_Subset, FS_CardinalityType
  <2>9. Cardinality(up) >= k
    BY <2>8, <1>4, <1>6
  <2>10. a[g] <= h
    BY <2>9, <1>2
  <2>. QED
    BY <2>6, <2>10, <1>3
<1>. QED
  BY <1>7, <1>8
-----------------------------------------------------------------------------
(* The invariant *)

\* The chain's states: roots grow, each stands for one state, and are what the
\* tip left from there on.
Chained ==
  /\ chain[0] = Genesis
  /\ \A b \in 0 .. MaxHeight : /\ chain[b].root >= 1
                             /\ (b <= tip => chain[b].root <= b + 1)
                             /\ (b > tip => chain[b] = chain[tip])
  /\ \A a, b \in 0 .. MaxHeight : a <= b => chain[a].root <= chain[b].root
  /\ \A a, b \in 0 .. MaxHeight : chain[a].root = chain[b].root => chain[a] = chain[b]

\* The proof is of the value, and of a state of the chain if its root is one.
Proven ==
  /\ proof.root = 0 \/ \E b \in 0 .. tip : proof = chain[b]
  /\ phase # "valued" => proof.value = value

\* What the read knows of the roots it has compared.
Compared ==
  /\ phase \in {"latest", "oldest"} =>
       height < tip /\ AppHash(height + 1) = proof.root /\ latest - height > MaxLag /\ MaxLag > 0
  /\ phase = "oldest" => latest <= tip
  /\ phase = "accepted" =>
       result \in 1 .. tip /\ AppHash(result) = proof.root /\ result - 1 + MaxLag >= latest
  /\ phase = "mismatch" => height < tip /\ AppHash(height + 1) # proof.root
  /\ phase = "outOfRange" =>
       \/ height > latest + MaxLag
       \/ MaxLag = 0
       \/ latest - MaxLag > 0 /\ latest <= tip /\ proof.root < AppHash(Oldest)

RInv ==
  /\ ReadsTypeOK
  /\ Chained
  /\ Proven
  /\ Compared
  /\ LatestIsReached

LEMMA RInvInit == ReadsInit => RInv
<1>. SUFFICES ASSUME ReadsInit PROVE RInv
  OBVIOUS
<1>. USE ReadsAssumption DEF ReadsInit, Genesis, First, NoVotes
<1>1. ReadsTypeOK
  BY DEF ReadsTypeOK, State, Root, Value, Block, Phase, Ended
<1>2. Chained
  BY DEF Chained
<1>3. Proven /\ Compared
  BY DEF Proven, Compared
<1>4. LatestIsReached
  BY DEF LatestIsReached, Majority
<1>. QED
  BY <1>1, <1>2, <1>3, <1>4 DEF RInv

\* A header that can be had is the chain's.
LEMMA AvailableReached ==
  ASSUME ReadsTypeOK, NEW h \in Int, Available(h)
  PROVE  h <= tip
<1>1. CASE h \in held
  BY <1>1 DEF ReadsTypeOK
<1>2. CASE \E e \in Honest : h <= reached[e]
  <2>1. PICK e \in Honest : h <= reached[e]
    BY <1>2
  <2>2. reached[e] \in 1 .. tip /\ tip \in Int
    BY DEF ReadsTypeOK, Block
  <2>. QED
    BY <2>1, <2>2
<1>. QED
  BY <1>1, <1>2 DEF Available

LEMMA HeldReached == ReadsTypeOK => HighestHeld \in 0 .. tip
<1>. SUFFICES ASSUME ReadsTypeOK PROVE HighestHeld \in 0 .. tip
  OBVIOUS
<1>1. tip \in Nat /\ held \subseteq 1 .. tip
  BY DEF ReadsTypeOK, Block
<1>2. CASE held = {}
  BY <1>1, <1>2 DEF HighestHeld
<1>3. CASE held # {}
  <2>1. IsFiniteSet(held) /\ held \in SUBSET Int
    <3>1. IsFiniteSet(1 .. tip)
      BY <1>1, FS_Interval
    <3>2. held \in SUBSET (1 .. tip)
      BY <1>1
    <3>3. IsFiniteSet(held)
      BY <3>1, <3>2, FS_Subset
    <3>4. held \in SUBSET Int
      BY <1>1
    <3>. QED
      BY <3>3, <3>4
  <2>2. \E h \in held : \A g \in held : g <= h
    BY <1>3, <2>1, MaxExists
  <2>3. HighestHeld \in held
    BY <1>3, <2>2 DEF HighestHeld
  <2>. QED
    BY <2>3, <1>1
<1>. QED
  BY <1>2, <1>3

\* The chain's next block keeps the invariant.
LEMMA ProduceKeeps == RInv /\ Produce => RInv'
<1>. SUFFICES ASSUME RInv, Produce PROVE RInv'
  OBVIOUS
<1>. USE DEF RInv
<1>1. /\ tip \in Nat /\ tip >= 1 /\ tip < MaxHeight /\ tip' = tip + 1 /\ MaxHeight \in Nat
      /\ chain \in [0 .. MaxHeight -> State]
      /\ height \in Nat /\ latest \in Nat /\ result \in Nat /\ MaxLag \in Nat
  BY ReadsAssumption DEF ReadsTypeOK, Produce, Block
<1>2. UNCHANGED <<reached, held, phase, value, proof, height, latest, result, floor, votes>>
  BY DEF Produce
<1>3. PICK s \in NextStates(chain[tip]) :
        chain' = [b \in 0 .. MaxHeight |-> IF b > tip THEN s ELSE chain[b]]
  BY DEF Produce
<1>4. \A b \in 0 .. MaxHeight : /\ chain[b].root \in Nat /\ chain[b].value \in Value
                              /\ chain[b] \in State
  BY <1>1 DEF State, Root
<1>5. /\ s \in State /\ s.root \in Nat
      /\ s = chain[tip] \/ s.root = chain[tip].root + 1
  <2>1. chain[tip].root <= tip + 1
    BY <1>1 DEF Chained
  <2>2. chain[tip] \in State /\ chain[tip].root \in Nat
    BY <1>1, <1>4
  <2>3. CASE s = chain[tip]
    BY <2>2, <2>3
  <2>4. CASE s \in { [root |-> chain[tip].root + 1, value |-> v] : v \in Value }
    BY <2>1, <2>2, <2>4, <1>1 DEF State, Root
  <2>. QED
    BY <2>3, <2>4, <1>3 DEF NextStates
<1>6. \A b \in 0 .. MaxHeight : /\ (b > tip => chain'[b] = s)
                              /\ (b <= tip => chain'[b] = chain[b])
  BY <1>1, <1>3
<1>7. ReadsTypeOK'
  <2>1. chain' \in [0 .. MaxHeight -> State]
    BY <1>1, <1>3, <1>5
  <2>2. tip' \in Block /\ 1 .. tip \subseteq 1 .. tip'
    BY <1>1 DEF Block
  <2>3. reached' \in [Honest -> 1 .. tip'] /\ held' \in SUBSET (1 .. tip')
    BY <2>2, <1>2 DEF ReadsTypeOK
  <2>. QED
    BY <2>1, <2>2, <2>3, <1>2 DEF ReadsTypeOK
<1>8. Chained'
  <2>1. chain'[0] = Genesis
    BY <1>1, <1>6 DEF Chained
  <2>2. ASSUME NEW b \in 0 .. MaxHeight
        PROVE  /\ chain'[b].root >= 1
               /\ (b <= tip' => chain'[b].root <= b + 1)
               /\ (b > tip' => chain'[b] = chain'[tip'])
    <3>1. CASE b <= tip
      BY <3>1, <1>1, <1>6 DEF Chained
    <3>2. CASE b > tip
      <4>1. chain[tip].root >= 1 /\ chain[tip].root <= tip + 1
        BY <1>1 DEF Chained
      <4>2. chain'[b] = s /\ chain'[tip'] = s
        BY <3>2, <1>1, <1>6
      <4>3. s.root >= 1 /\ s.root <= tip + 2
        BY <4>1, <1>1, <1>4, <1>5
      <4>. QED
        BY <4>2, <4>3, <3>2, <1>1, <1>5
    <3>. QED
      BY <3>1, <3>2, <1>1
  <2>3. ASSUME NEW a \in 0 .. MaxHeight, NEW b \in 0 .. MaxHeight
        PROVE  /\ (a <= b => chain'[a].root <= chain'[b].root)
               /\ (chain'[a].root = chain'[b].root => chain'[a] = chain'[b])
    <3>1. ASSUME NEW c \in 0 .. MaxHeight, c <= tip
          PROVE  chain[c].root <= s.root /\ (chain[c].root = s.root => chain[c] = s)
      <4>1. chain[c].root <= chain[tip].root
        BY <3>1, <1>1 DEF Chained
      <4>2. chain[c].root = chain[tip].root => chain[c] = chain[tip]
        BY <3>1, <1>1 DEF Chained
      <4>3. chain[c].root \in Nat /\ chain[tip].root \in Nat
        BY <1>1, <1>4
      <4>. QED
        BY <4>1, <4>2, <4>3, <1>5
    <3>2. CASE a <= tip /\ b <= tip
      BY <3>2, <1>6 DEF Chained
    <3>3. CASE a <= tip /\ b > tip
      BY <3>3, <3>1, <1>6
    <3>4. CASE a > tip /\ b <= tip
      BY <3>4, <3>1, <1>1, <1>6
    <3>5. CASE a > tip /\ b > tip
      BY <3>5, <1>5, <1>6
    <3>. QED
      BY <3>2, <3>3, <3>4, <3>5, <1>1
  <2>. QED
    BY <2>1, <2>2, <2>3 DEF Chained
<1>9. Proven'
  <2>1. ASSUME NEW b \in 0 .. tip PROVE chain'[b] = chain[b] /\ b \in 0 .. tip'
    BY <1>1, <1>6
  <2>. QED
    BY <2>1, <1>2 DEF Proven
<1>10. Compared'
  <2>1. \A h \in Nat : h >= 1 /\ h <= tip + 1 => chain'[h - 1] = chain[h - 1]
    BY <1>1, <1>6
  <2>2. height < tip => chain'[height + 1 - 1] = chain[height + 1 - 1]
    BY <2>1, <1>1
  <2>3. result \in 1 .. tip => chain'[result - 1] = chain[result - 1]
    BY <2>1, <1>1
  <2>4. latest - MaxLag > 0 /\ latest <= tip => chain'[Oldest - 1] = chain[Oldest - 1]
    BY <2>1, <1>1 DEF Oldest
  <2>. QED
    BY <2>2, <2>3, <2>4, <1>1, <1>2 DEF Compared, AppHash, Oldest
<1>11. LatestIsReached'
  BY <1>1, <1>2 DEF LatestIsReached, Majority, ReadsTypeOK
<1>. QED
  BY <1>7, <1>8, <1>9, <1>10, <1>11

\* Endpoints that catch up, syncs and pruning only move what can be had.
LEMMA StoreKeeps ==
  ASSUME RInv, Prune \/ \E e \in Honest : Advance(e) \/ Sync(e)
  PROVE  RInv'
<1>. USE DEF RInv
<1>1. UNCHANGED <<tip, chain, phase, value, proof, height, latest, result, floor, votes>>
  BY DEF Prune, Advance, Sync
<1>2. tip \in Nat /\ reached \in [Honest -> 1 .. tip] /\ held \in SUBSET (1 .. tip)
  BY DEF ReadsTypeOK, Block
<1>3. reached' \in [Honest -> 1 .. tip] /\ held' \in SUBSET (1 .. tip)
  <2>1. CASE Prune
    BY <2>1, <1>2 DEF Prune
  <2>2. ASSUME NEW e \in Honest, Advance(e) PROVE reached' \in [Honest -> 1 .. tip] /\ held' \in SUBSET (1 .. tip)
    <3>1. reached[e] + 1 \in 1 .. tip
      BY <2>2, <1>2 DEF Advance
    <3>. QED
      BY <2>2, <3>1, <1>2 DEF Advance
  <2>3. ASSUME NEW e \in Honest, Sync(e) PROVE reached' \in [Honest -> 1 .. tip] /\ held' \in SUBSET (1 .. tip)
    <3>1. reached[e] \in 1 .. tip
      BY <1>2
    <3>2. CASE SyncTo(reached[e])
      BY <2>3, <3>1, <3>2, <1>2 DEF Sync, SyncTo
    <3>3. ASSUME NEW h \in held, h < reached[e], SyncTo(h + 1) PROVE reached' \in [Honest -> 1 .. tip] /\ held' \in SUBSET (1 .. tip)
      <4>1. h + 1 \in 1 .. tip
        BY <3>1, <3>3, <1>2
      <4>. QED
        BY <2>3, <3>3, <4>1, <1>2 DEF Sync, SyncTo
    <3>. QED
      BY <2>3, <3>2, <3>3 DEF Sync
  <2>. QED
    BY <2>1, <2>2, <2>3
<1>4. ReadsTypeOK'
  BY <1>1, <1>3 DEF ReadsTypeOK
<1>5. Chained' /\ Proven' /\ LatestIsReached'
  BY <1>1 DEF Chained, Proven, LatestIsReached, Majority
<1>6. Compared'
  BY <1>1 DEF Compared, AppHash, Oldest
<1>. QED
  BY <1>4, <1>5, <1>6

LEMMA FailKeeps ==
  ASSUME RInv, NEW ending \in {"invalid", "noHeight", "noHeader"}, Fail(ending)
  PROVE  RInv'
<1>. USE DEF RInv, Fail, End, world
<1>1. ReadsTypeOK'
  BY ReadsAssumption DEF ReadsTypeOK, NoVotes, Genesis, Value, Phase, Ended, State, Root
<1>2. Chained'
  BY DEF Chained
<1>3. Proven'
  BY DEF Proven, Chained, Genesis, ReadsTypeOK, Block
<1>4. Compared'
  BY DEF Compared
<1>5. LatestIsReached'
  BY DEF LatestIsReached, Majority, NoVotes
<1>. QED
  BY <1>1, <1>2, <1>3, <1>4, <1>5

LEMMA GetValueKeeps == RInv /\ GetValue => RInv'
<1>. SUFFICES ASSUME RInv, GetValue PROVE RInv'
  OBVIOUS
<1>. USE DEF RInv, GetValue, world
<1>1. ReadsTypeOK'
  BY ReadsAssumption DEF ReadsTypeOK, NoVotes, Genesis, Value, Phase, Ended, State, Root
<1>2. Chained'
  BY DEF Chained
<1>3. Proven'
  BY DEF Proven, Chained, Genesis, ReadsTypeOK, Block
<1>4. Compared'
  BY DEF Compared
<1>5. LatestIsReached'
  BY DEF LatestIsReached, Majority, NoVotes
<1>. QED
  BY <1>1, <1>2, <1>3, <1>4, <1>5

LEMMA GetProofKeeps == RInv /\ GetProof => RInv'
<1>. SUFFICES ASSUME RInv, GetProof PROVE RInv'
  OBVIOUS
<1>1. CASE Fail("invalid")
  BY <1>1, FailKeeps
<1>2. ASSUME NEW p \in Provable, p.value = value, proof' = p,
             height' \in 1 .. MaxHeight + 1, phase' = "proven",
             UNCHANGED <<world, value, latest, result, floor, votes>>,
             phase = "valued"
      PROVE  RInv'
  <2>. USE <1>2 DEF RInv, world
  <2>1. p \in State /\ (p.root = 0 \/ \E b \in 0 .. tip : p = chain[b])
    <3>1. CASE p \in { chain[b] : b \in 0 .. tip }
      BY <3>1, ReadsAssumption DEF ReadsTypeOK, Block
    <3>2. CASE p \in [root : {0}, value : Value]
      BY <3>2, ReadsAssumption DEF State, Root
    <3>. QED
      BY <3>1, <3>2 DEF Provable
  <2>2. ReadsTypeOK'
    BY <2>1, ReadsAssumption DEF ReadsTypeOK, Phase, Ended
  <2>3. Chained' /\ Proven'
    BY <2>1 DEF Chained, Proven
  <2>4. Compared' /\ LatestIsReached'
    BY DEF Compared, LatestIsReached, Majority
  <2>. QED
    BY <2>2, <2>3, <2>4
<1>. QED
  BY <1>1, <1>2 DEF GetProof

LEMMA FindLatestKeeps == RInv /\ FindLatest => RInv'
<1>. SUFFICES ASSUME RInv, FindLatest PROVE RInv'
  OBVIOUS
<1>. USE DEF RInv
<1>0. PICK S \in SUBSET Endpoint :
        /\ Cardinality(S) >= Larger(Needed, 1)
        /\ \E a \in Answers(S) : latest' = Larger(ReachedByQuorum(a), HighestHeld)
        /\ votes' = [honest |-> Cardinality(S \cap Honest), others |-> Cardinality(S \ Honest)]
  BY DEF FindLatest
<1>1. PICK a \in Answers(S) : latest' = Larger(ReachedByQuorum(a), HighestHeld)
  BY <1>0
<1>2. PICK f \in { reached[e] : e \in Honest } :
        (\A e \in Honest : f <= reached[e]) /\ floor' = f
  BY DEF FindLatest
<1>3. /\ UNCHANGED <<world, value, proof, height>> /\ phase = "proven"
      /\ \/ phase' = "outOfRange" /\ result' = 0 /\ height > latest' + MaxLag
         \/ phase' = "next" /\ result' = result
  BY DEF FindLatest, End
<1>4. /\ tip \in Nat /\ reached \in [Honest -> 1 .. tip] /\ f \in Nat
      /\ Needed \in Nat
  BY ReadsAssumption DEF ReadsTypeOK, Block
<1>5. ReachedByQuorum(a) \in Nat
  <2>1. a \in [S -> 1 .. MaxHeight + 1]
    BY DEF Answers
  <2>2. \E e \in S : ReachedByQuorum(a) = a[e]
    BY <2>1, <1>0, QuorumReached
  <2>. QED
    BY <2>1, <2>2, ReadsAssumption
<1>6. HighestHeld \in 0 .. tip
  BY HeldReached
<1>7. votes' \in [honest : Nat, others : Nat]
  <2>1. S \cap Honest \in SUBSET Endpoint /\ S \ Honest \in SUBSET Endpoint
    OBVIOUS
  <2>2. Cardinality(S \cap Honest) \in Nat /\ Cardinality(S \ Honest) \in Nat
    BY <2>1, Cardinal
  <2>. QED
    BY <2>2, <1>0
<1>8. latest' \in Nat
  BY <1>1, <1>4, <1>5, <1>6 DEF Larger
<1>9. ReadsTypeOK'
  BY <1>2, <1>3, <1>4, <1>7, <1>8 DEF ReadsTypeOK, world, Phase, Ended
<1>10. Chained' /\ Proven'
  BY <1>3 DEF Chained, Proven, world
<1>11. Compared'
  BY <1>3 DEF Compared
<1>12. LatestIsReached'
  <2>1. ASSUME Majority' PROVE floor' <= latest' /\ latest' <= tip'
    <3>1. Cardinality(S \cap Honest) > Cardinality(S \ Honest) /\ Cardinality(S \cap Honest) >= Needed
      BY <2>1, <1>0 DEF Majority
    <3>2. f <= ReachedByQuorum(a) /\ ReachedByQuorum(a) <= tip
      BY <3>1, <1>0, <1>2, <1>4, HonestQuorum
    <3>. QED
      BY <3>2, <1>1, <1>2, <1>3, <1>4, <1>5, <1>6 DEF Larger, world
  <2>. QED
    BY <2>1 DEF LatestIsReached
<1>. QED
  BY <1>9, <1>10, <1>11, <1>12

\* What a comparison of roots leaves alone, and what is left to show of it.
LEMMA ComparisonKeeps ==
  ASSUME RInv, UNCHANGED <<world, value, proof, height, latest, floor, votes>>,
         phase # "valued", phase' \in Phase \ {"valued"}, result' \in Nat,
         phase' = "accepted" <=> result' # 0, Compared'
  PROVE  RInv'
<1>1. ReadsTypeOK'
  BY DEF RInv, ReadsTypeOK, world
<1>2. Chained' /\ Proven' /\ LatestIsReached'
  BY DEF RInv, Chained, Proven, LatestIsReached, Majority, world
<1>. QED
  BY <1>1, <1>2 DEF RInv

LEMMA CheckNextKeeps == RInv /\ CheckNext => RInv'
<1>. SUFFICES ASSUME RInv, CheckNext PROVE RInv'
  OBVIOUS
<1>1. /\ UNCHANGED <<world, value, proof, height, latest, floor, votes>>
      /\ phase = "next" /\ AppHash(height + 1)' = AppHash(height + 1)
  BY DEF CheckNext, AppHash, world
<1>2. /\ tip \in Nat /\ height \in Nat /\ latest \in Nat /\ MaxLag \in Nat
      /\ result = 0
  BY <1>1, ReadsAssumption DEF RInv, ReadsTypeOK, Block
<1>3. height + 1 <= tip
  BY <1>2, AvailableReached DEF CheckNext, RInv
<1>. USE DEF Phase, Ended, End
<1>4. CASE AppHash(height + 1) # proof.root /\ End("mismatch", 0)
  BY <1>1, <1>2, <1>3, <1>4, ComparisonKeeps DEF Compared, world
<1>5. ASSUME AppHash(height + 1) = proof.root, latest - height <= MaxLag,
             End("accepted", height + 1)
      PROVE  RInv'
  <2>1. AppHash(result)' = proof'.root
    BY <1>1, <1>5 DEF AppHash, world
  <2>. QED
    BY <1>1, <1>2, <1>3, <1>5, <2>1, ComparisonKeeps DEF Compared, world
<1>6. ASSUME AppHash(height + 1) = proof.root, latest - height > MaxLag,
             MaxLag > 0, phase' = "latest", UNCHANGED result
      PROVE  RInv'
  BY <1>1, <1>2, <1>3, <1>6, ComparisonKeeps DEF Compared, world
<1>7. ASSUME ~ (MaxLag > 0), End("outOfRange", 0)
      PROVE  RInv'
  BY <1>1, <1>2, <1>7, ComparisonKeeps DEF Compared, world
<1>. QED
  BY <1>4, <1>5, <1>6, <1>7 DEF CheckNext

LEMMA CheckLatestKeeps == RInv /\ CheckLatest => RInv'
<1>. SUFFICES ASSUME RInv, CheckLatest PROVE RInv'
  OBVIOUS
<1>1. /\ UNCHANGED <<world, value, proof, height, latest, floor, votes>>
      /\ phase = "latest"
      /\ AppHash(height + 1)' = AppHash(height + 1)
      /\ AppHash(latest)' = AppHash(latest)
  BY DEF CheckLatest, AppHash, world
<1>2. /\ tip \in Nat /\ height \in Nat /\ latest \in Nat /\ MaxLag \in Nat
      /\ result = 0
  BY <1>1, ReadsAssumption DEF RInv, ReadsTypeOK, Block
<1>3. latest <= tip
  BY <1>2, AvailableReached DEF CheckLatest, RInv
<1>4. /\ height < tip /\ AppHash(height + 1) = proof.root
      /\ latest - height > MaxLag /\ MaxLag > 0
  BY <1>1 DEF RInv, Compared
<1>. USE DEF Phase, Ended, End
<1>5. CASE AppHash(latest) = proof.root /\ End("accepted", latest)
  <2>1. AppHash(result)' = proof'.root
    BY <1>1, <1>5 DEF AppHash, world
  <2>. QED
    BY <1>1, <1>2, <1>3, <1>4, <1>5, <2>1, ComparisonKeeps DEF Compared, world
<1>6. CASE phase' = "oldest" /\ UNCHANGED result
  BY <1>1, <1>2, <1>3, <1>4, <1>6, ComparisonKeeps DEF Compared, world
<1>. QED
  BY <1>5, <1>6 DEF CheckLatest

LEMMA CheckOldestKeeps == RInv /\ CheckOldest => RInv'
<1>. SUFFICES ASSUME RInv, CheckOldest PROVE RInv'
  OBVIOUS
<1>1. /\ UNCHANGED <<world, value, proof, height, latest, floor, votes>>
      /\ phase = "oldest"
      /\ AppHash(Oldest)' = AppHash(Oldest) /\ Oldest' = Oldest
  BY DEF CheckOldest, AppHash, Oldest, world
<1>2. /\ tip \in Nat /\ tip <= MaxHeight /\ height \in Nat /\ latest \in Nat /\ MaxLag \in Nat
      /\ MaxHeight \in Nat /\ result = 0
  BY <1>1, ReadsAssumption DEF RInv, ReadsTypeOK, Block
<1>3. /\ height < tip /\ AppHash(height + 1) = proof.root
      /\ latest - height > MaxLag /\ MaxLag > 0 /\ latest <= tip
  BY <1>1 DEF RInv, Compared
<1>4. Oldest \in Nat /\ Oldest >= 2 /\ Oldest <= tip /\ Oldest - 1 + MaxLag = latest
  BY <1>2, <1>3 DEF Oldest
<1>. USE DEF Phase, Ended, End
<1>5. CASE AppHash(Oldest) = proof.root /\ End("accepted", Oldest)
  <2>1. AppHash(result)' = proof'.root
    BY <1>1, <1>5 DEF AppHash, world
  <2>. QED
    BY <1>1, <1>2, <1>4, <1>5, <2>1, ComparisonKeeps DEF Compared, world
<1>6. CASE AppHash(Oldest) # proof.root /\ End("outOfRange", 0)
  <2>1. height \in 0 .. MaxHeight /\ latest - MaxLag \in 0 .. MaxHeight /\ height <= latest - MaxLag
    BY <1>2, <1>3
  <2>2. chain[height].root <= chain[latest - MaxLag].root
    BY <2>1 DEF RInv, Chained
  <2>3. chain[height].root \in Nat /\ chain[latest - MaxLag].root \in Nat
    BY <2>1, ReadsAssumption DEF RInv, ReadsTypeOK, State, Root
  <2>4. AppHash(height + 1) = chain[height].root /\ AppHash(Oldest) = chain[latest - MaxLag].root
    <3>1. height + 1 - 1 = height /\ Oldest - 1 = latest - MaxLag
      BY <1>2 DEF Oldest
    <3>2. \A h : AppHash(h) = chain[h - 1].root
      BY Zenon DEF AppHash
    <3>3. AppHash(height + 1) = chain[height].root
      BY <3>1, <3>2, <1>2
    <3>4. AppHash(Oldest) = chain[latest - MaxLag].root
      BY <3>1, <3>2
    <3>. QED
      BY <3>3, <3>4
  <2>5. proof.root < AppHash(Oldest)
    BY <1>3, <1>6, <2>2, <2>3, <2>4
  <2>6. (proof.root < AppHash(Oldest))'
    <3>1. proof' = proof
      BY <1>1
    <3>. QED
      BY <1>1, <2>5, <3>1
  <2>7. (latest - MaxLag > 0 /\ latest <= tip)'
    BY <1>1, <1>2, <1>3 DEF world
  <2>8. Compared'
    BY <1>6, <2>6, <2>7 DEF Compared
  <2>. QED
    BY <1>1, <1>2, <1>6, <2>8, ComparisonKeeps
<1>. QED
  BY <1>5, <1>6 DEF CheckOldest

LEMMA RInvStep == RInv /\ [ReadsNext]_vars => RInv'
<1>. SUFFICES ASSUME RInv, [ReadsNext]_vars PROVE RInv'
  OBVIOUS
<1>1. CASE UNCHANGED vars
  <2>1. ReadsTypeOK' /\ Chained' /\ Proven' /\ LatestIsReached'
    BY <1>1 DEF vars, world, RInv, ReadsTypeOK, Chained, Proven, LatestIsReached, Majority
  <2>2. Compared'
    BY <1>1 DEF vars, world, RInv, Compared, AppHash, Oldest
  <2>. QED
    BY <2>1, <2>2 DEF RInv
<1>2. CASE FindNoLatest
  BY <1>2, FailKeeps DEF FindNoLatest
<1>3. CASE GiveUp
  BY <1>3, FailKeeps DEF GiveUp
<1>. QED
  BY <1>1, <1>2, <1>3, ProduceKeeps, StoreKeeps, GetValueKeeps, GetProofKeeps, FindLatestKeeps,
     CheckNextKeeps, CheckLatestKeeps, CheckOldestKeeps DEF ReadsNext

LEMMA ReadsInvariant == ReadsSpec => []RInv
BY RInvInit, RInvStep, PTL DEF ReadsSpec

-----------------------------------------------------------------------------
(* The theorems *)

\* The types of a read, its store and its chain.
THEOREM ReadsTyping == ReadsSpec => []ReadsTypeOK
BY ReadsInvariant, PTL DEF RInv

\* latest_chain_height: with an honest majority of the answers, between what all
\* honest endpoints reached and the chain's tip.
THEOREM LatestReached == ReadsSpec => []LatestIsReached
BY ReadsInvariant, PTL DEF RInv

\* get_verified: what is returned is the chain's.
THEOREM ReadsAreTrue == ReadsSpec => []AcceptedIsChains
<1>1. RInv => AcceptedIsChains
  <2>. SUFFICES ASSUME RInv, phase = "accepted"
       PROVE  /\ result - 1 \in 0 .. tip
              /\ chain[result - 1].root = proof.root
              /\ chain[result - 1].value = value
    BY DEF AcceptedIsChains
  <2>1. result \in 1 .. tip /\ chain[result - 1].root = proof.root
    BY DEF RInv, Compared, AppHash
  <2>2. tip \in Nat /\ tip <= MaxHeight /\ MaxHeight \in Nat
    BY ReadsAssumption DEF RInv, ReadsTypeOK, Block
  <2>3. result - 1 \in 0 .. tip /\ result - 1 \in 0 .. MaxHeight
    BY <2>1, <2>2
  <2>4. chain[result - 1].root >= 1
    BY <2>3 DEF RInv, Chained
  <2>5. PICK b \in 0 .. tip : proof = chain[b]
    BY <2>1, <2>4 DEF RInv, Proven
  <2>6. chain[result - 1] = chain[b]
    BY <2>1, <2>2, <2>3, <2>5 DEF RInv, Chained
  <2>7. proof.value = value
    BY DEF RInv, Proven
  <2>. QED
    BY <2>1, <2>3, <2>5, <2>6, <2>7
<1>. QED
  BY <1>1, ReadsInvariant, PTL

\* verify_root_after: and within the lag of what all honest endpoints reached.
THEOREM ReadsAreRecent == ReadsSpec => []AcceptedIsRecent
<1>1. RInv => AcceptedIsRecent
  <2>. SUFFICES ASSUME RInv, phase = "accepted", Majority
       PROVE  result - 1 + MaxLag >= floor
    BY DEF AcceptedIsRecent
  <2>1. result - 1 + MaxLag >= latest /\ floor <= latest
    BY DEF RInv, Compared, LatestIsReached
  <2>2. result \in Nat /\ MaxLag \in Nat /\ latest \in Nat /\ floor \in Nat
    BY ReadsAssumption DEF RInv, ReadsTypeOK
  <2>. QED
    BY <2>1, <2>2
<1>. QED
  BY <1>1, ReadsInvariant, PTL

\* verify_root_after: a root mismatch is never said of a state served with its
\* height.
THEOREM MismatchesAreFalse == ReadsSpec => []MismatchIsFalse
<1>1. RInv => MismatchIsFalse
  <2>. SUFFICES ASSUME RInv, phase = "mismatch" PROVE ~ Genuine
    BY DEF MismatchIsFalse
  <2>1. chain[height + 1 - 1].root # proof.root /\ height \in Nat
    BY DEF RInv, Compared, AppHash, ReadsTypeOK
  <2>2. chain[height].root # proof.root
    BY <2>1
  <2>. QED
    BY <2>2 DEF Genuine
<1>. QED
  BY <1>1, ReadsInvariant, PTL

\* verify_root_after: the two headers it looks at stand for all within the lag.
THEOREM StaleMeansStale == ReadsSpec => []StaleIsStale
<1>1. RInv => StaleIsStale
  <2>. SUFFICES ASSUME RInv, phase = "outOfRange", ~ (height > latest + MaxLag),
                       NEW b \in Larger(latest - MaxLag, 0) .. latest - 1
       PROVE  chain[b].root # proof.root
    BY DEF StaleIsStale
  <2>1. /\ tip \in Nat /\ tip <= MaxHeight /\ MaxHeight \in Nat
        /\ latest \in Nat /\ MaxLag \in Nat /\ proof.root \in Nat
    BY ReadsAssumption DEF RInv, ReadsTypeOK, Block, State, Root
  <2>2. b \in Nat /\ latest - MaxLag <= b /\ b <= latest - 1 /\ MaxLag # 0
    BY <2>1 DEF Larger
  <2>3. latest - MaxLag > 0 /\ latest <= tip /\ proof.root < chain[Oldest - 1].root
    BY <2>2 DEF RInv, Compared, AppHash
  <2>4. Oldest - 1 = latest - MaxLag
    BY <2>1 DEF Oldest
  <2>5. b \in 0 .. MaxHeight /\ latest - MaxLag \in 0 .. MaxHeight
    BY <2>1, <2>2, <2>3
  <2>6. chain[latest - MaxLag].root <= chain[b].root
    BY <2>2, <2>5 DEF RInv, Chained
  <2>7. chain[latest - MaxLag].root \in Nat /\ chain[b].root \in Nat
    BY <2>5, ReadsAssumption DEF RInv, ReadsTypeOK, State, Root
  <2>. QED
    BY <2>1, <2>3, <2>4, <2>6, <2>7
<1>. QED
  BY <1>1, ReadsInvariant, PTL
=============================================================================
