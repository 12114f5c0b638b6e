---------------------------- MODULE Answers_proofs ----------------------------
(***************************************************************************)
(* Proofs about what the SDK makes of answers and of what it signs.        *)
(***************************************************************************)
EXTENDS Answers, EnvelopeGrammar, WellFoundedInduction, SequenceTheorems, TLAPS

-----------------------------------------------------------------------------
(* Numbers, and lists one after the other *)

LEMMA Least ==
  ASSUME NEW T \in SUBSET Nat, T # {}
  PROVE  \E m \in T : \A n \in T : m <= n
  <1>1. \E m \in T : \A n \in T : ~ (<<n, m>> \in OpToRel(<, Nat))
    BY NatLessThanWellFounded, WFMin
  <1>2. PICK m \in T : \A n \in T : ~ (<<n, m>> \in OpToRel(<, Nat))
    BY <1>1
  <1>3. \A n \in T : ~(n < m)
    BY <1>2 DEF OpToRel
  <1> QED BY <1>3

\* Induction, over a set of numbers.
LEMMA Climb ==
  ASSUME NEW S, 0 \in S, \A n \in Nat : n \in S => n + 1 \in S
  PROVE  Nat \subseteq S
  <1> SUFFICES ASSUME Nat \ S # {} PROVE FALSE
    OBVIOUS
  <1>1. PICK m \in Nat \ S : \A n \in Nat \ S : m <= n
    BY Least
  <1>2. m # 0 /\ m - 1 \in Nat /\ m - 1 \notin Nat \ S
    BY <1>1
  <1> QED BY <1>1, <1>2

\* FlattenSeq's own recursion.
Flattens(f, ss, n) == f = [i \in 1 .. n |-> IF i = 1 THEN ss[i] ELSE f[i - 1] \o ss[i]]

LEMMA FlatExists ==
  ASSUME NEW ss
  PROVE  \A n \in Nat : \E f : Flattens(f, ss, n)
  <1> DEFINE Good == {n \in Nat : \E f : Flattens(f, ss, n)}
  <1>1. 0 \in Good
    <2> DEFINE f == [i \in 1 .. 0 |-> ss[i]]
    <2>1. f = [i \in 1 .. 0 |-> IF i = 1 THEN ss[i] ELSE f[i - 1] \o ss[i]]
      OBVIOUS
    <2>2. Flattens(f, ss, 0)
      BY <2>1 DEF Flattens
    <2> QED BY <2>2
  <1>2. ASSUME NEW n \in Good PROVE n + 1 \in Good
    <2>1. PICK f : Flattens(f, ss, n)
      OBVIOUS
    <2>2. \A i \in 1 .. n : f[i] = IF i = 1 THEN ss[i] ELSE f[i - 1] \o ss[i]
      BY <2>1 DEF Flattens
    <2> DEFINE last == IF n = 0 THEN ss[1] ELSE f[n] \o ss[n + 1]
               g == [i \in 1 .. n + 1 |-> IF i = n + 1 THEN last ELSE f[i]]
               h == [i \in 1 .. n + 1 |-> IF i = 1 THEN ss[i] ELSE g[i - 1] \o ss[i]]
    <2>3. \A i \in 1 .. n + 1 : g[i] = IF i = n + 1 THEN last ELSE f[i]
      OBVIOUS
    <2>4. \A i \in 1 .. n + 1 : g[i] = IF i = 1 THEN ss[i] ELSE g[i - 1] \o ss[i]
      <3>1. ASSUME NEW i \in 1 .. n
            PROVE  g[i] = IF i = 1 THEN ss[i] ELSE g[i - 1] \o ss[i]
        <4>1. g[i] = f[i] /\ (i # 1 => g[i - 1] = f[i - 1])
          BY <2>3
        <4> QED BY <2>2, <4>1
      <3>2. g[n + 1] = IF n + 1 = 1 THEN ss[n + 1] ELSE g[(n + 1) - 1] \o ss[n + 1]
        <4>1. g[n + 1] = last
          BY <2>3
        <4>2. n # 0 => g[n] = f[n] /\ (n + 1) - 1 = n
          BY <2>3
        <4> HIDE DEF g
        <4> QED BY <4>1, <4>2
      <3> HIDE DEF g
      <3> QED BY <3>1, <3>2
    <2>5. g = h
      <3>1. \A i \in 1 .. n + 1 : h[i] = g[i]
        BY <2>4
      <3> HIDE DEF last
      <3> QED BY <3>1
    <2>6. Flattens(g, ss, n + 1)
      BY <2>5, Zenon DEF Flattens
    <2> HIDE DEF g, h
    <2> QED BY <2>6
  <1> HIDE DEF Good
  <1>3. Nat \subseteq Good
    BY <1>1, <1>2, Climb
  <1> QED BY <1>3 DEF Good

LEMMA FlatUnfold ==
  ASSUME NEW ss, Len(ss) \in Nat \ {0}
  PROVE  \E f : Flattens(f, ss, Len(ss)) /\ FlattenSeq(ss) = f[Len(ss)]
  <1>1. \E f : f = [i \in 1 .. Len(ss) |-> IF i = 1 THEN ss[i] ELSE f[i - 1] \o ss[i]]
    BY FlatExists DEF Flattens
  <1> DEFINE fl == CHOOSE f : f = [i \in 1 .. Len(ss) |-> IF i = 1 THEN ss[i] ELSE f[i - 1] \o ss[i]]
  <1>2. fl = [i \in 1 .. Len(ss) |-> IF i = 1 THEN ss[i] ELSE fl[i - 1] \o ss[i]]
    BY <1>1, Zenon
  <1>3. FlattenSeq(ss) = fl[Len(ss)]
    BY Zenon DEF FlattenSeq
  <1> QED BY <1>2, <1>3, Zenon DEF Flattens

\* Concatenation, for proofs that reason about it without its definition.
Cat(s, t) == s \o t

LEMMA CatFacts ==
  ASSUME NEW S
  PROVE  /\ \A s, t \in Seq(S) : Cat(s, t) \in Seq(S)
         /\ \A s \in Seq(S) : Cat(s, <<>>) = s /\ Cat(<<>>, s) = s
         /\ \A s, t, u \in Seq(S) : Cat(Cat(s, t), u) = Cat(s, Cat(t, u))
  <1>1. ASSUME NEW s \in Seq(S), NEW t \in Seq(S) PROVE Cat(s, t) \in Seq(S)
    BY ConcatProperties DEF Cat
  <1>2. ASSUME NEW s \in Seq(S) PROVE Cat(s, <<>>) = s /\ Cat(<<>>, s) = s
    BY ConcatEmptySeq DEF Cat
  <1>3. ASSUME NEW s \in Seq(S), NEW t \in Seq(S), NEW u \in Seq(S)
        PROVE  Cat(Cat(s, t), u) = Cat(s, Cat(t, u))
    BY ConcatAssociative DEF Cat
  <1> QED BY <1>1, <1>2, <1>3

\* So the lists are put one after the other.
Runs(f, ss, S) ==
  /\ f \in [0 .. Len(ss) -> Seq(S)] /\ f[0] = <<>>
  /\ \A i \in 1 .. Len(ss) : f[i] = Cat(f[i - 1], ss[i])

LEMMA FlatRuns ==
  ASSUME NEW S, NEW ss \in Seq(Seq(S))
  PROVE  \E f : Runs(f, ss, S) /\ FlattenSeq(ss) = f[Len(ss)]
  <1> DEFINE n == Len(ss)
  <1>1. n \in Nat /\ \A i \in 1 .. n : ss[i] \in Seq(S)
    OBVIOUS
  <1>2. CASE n = 0
    <2> DEFINE f == [i \in 0 .. 0 |-> <<>>]
    <2>1. FlattenSeq(ss) = <<>>
      BY <1>2 DEF FlattenSeq
    <2>2. Runs(f, ss, S) /\ f[0] = <<>>
      BY <1>2 DEF Runs
    <2> HIDE DEF f
    <2> QED BY <1>2, <2>1, <2>2
  <1>3. CASE n # 0
    <2>1. PICK f : Flattens(f, ss, n) /\ FlattenSeq(ss) = f[n]
      BY <1>1, <1>3, FlatUnfold
    <2>2. \A i \in 1 .. n : f[i] = IF i = 1 THEN ss[i] ELSE Cat(f[i - 1], ss[i])
      BY <2>1 DEF Flattens, Cat
    <2> DEFINE Good == {i \in Nat : i \in 1 .. n => f[i] \in Seq(S)}
    <2> HIDE DEF n
    <2>3. 0 \in Good
      OBVIOUS
    <2>4. ASSUME NEW i \in Nat, i \in Good PROVE i + 1 \in Good
      <3> SUFFICES ASSUME i + 1 \in 1 .. n PROVE f[i + 1] \in Seq(S)
        OBVIOUS
      <3>1. ss[i + 1] \in Seq(S) /\ f[i + 1] = IF i = 0 THEN ss[i + 1] ELSE Cat(f[i], ss[i + 1])
        <4>1. (i + 1) - 1 = i /\ (i + 1 = 1 <=> i = 0)
          OBVIOUS
        <4> QED BY <1>1, <2>2, <4>1
      <3>2. i # 0 => f[i] \in Seq(S)
        BY <1>1, <2>4
      <3>3. \A u, v \in Seq(S) : Cat(u, v) \in Seq(S)
        BY CatFacts
      <3> QED BY <3>1, <3>2, <3>3
    <2> HIDE DEF Good
    <2>5. Nat \subseteq Good
      BY <2>3, <2>4, Climb
    <2>6. \A i \in 1 .. n : f[i] \in Seq(S)
      BY <1>1, <2>5 DEF Good
    <2> DEFINE g == [i \in 0 .. n |-> IF i = 0 THEN <<>> ELSE f[i]]
    <2>7. g \in [0 .. n -> Seq(S)] /\ g[0] = <<>> /\ \A i \in 1 .. n : g[i] = f[i]
      BY <1>1, <2>6
    <2> HIDE DEF g
    <2>8. ASSUME NEW i \in 1 .. n PROVE g[i] = Cat(g[i - 1], ss[i])
      <3>1. CASE i = 1
        <4>1. g[i] = ss[i] /\ g[i - 1] = <<>> /\ ss[i] \in Seq(S)
          BY <1>1, <2>2, <2>7, <3>1
        <4> QED BY <4>1, CatFacts
      <3>2. CASE i # 1
        <4>1. i - 1 \in 1 .. n
          BY <1>1, <3>2
        <4> QED BY <2>2, <2>7, <3>2, <4>1
      <3> QED BY <3>1, <3>2
    <2>9. Runs(g, ss, S)
      BY <2>7, <2>8 DEF Runs, n
    <2>10. g[n] = FlattenSeq(ss)
      BY <1>1, <1>3, <2>1, <2>7
    <2> QED BY <2>9, <2>10 DEF n
  <1> QED BY <1>2, <1>3

Stepwise(f, ss, S) ==
  \A k \in 1 .. Len(ss), t \in Seq(S) : Cat(f[k], t) = Cat(f[k - 1], Cat(ss[k], t))

LEMMA RunsStep ==
  ASSUME NEW S, NEW ss \in Seq(Seq(S)), NEW f, Runs(f, ss, S)
  PROVE  Stepwise(f, ss, S)
  <1> USE DEF Stepwise
  <1> TAKE k \in 1 .. Len(ss), t \in Seq(S)
  <1>1. f[k] = Cat(f[k - 1], ss[k])
    BY DEF Runs
  <1>2. f[k - 1] \in Seq(S) /\ ss[k] \in Seq(S)
    <2>1. k - 1 \in 0 .. Len(ss)
      OBVIOUS
    <2>2. f \in [0 .. Len(ss) -> Seq(S)]
      BY DEF Runs
    <2>3. f[k - 1] \in Seq(S)
      BY <2>1, <2>2, Zenon
    <2>4. ss[k] \in Seq(S)
      OBVIOUS
    <2> QED BY <2>3, <2>4
  <1>3. Cat(Cat(f[k - 1], ss[k]), t) = Cat(f[k - 1], Cat(ss[k], t))
    <2>1. \A p, q, r \in Seq(S) : Cat(Cat(p, q), r) = Cat(p, Cat(q, r))
      BY CatFacts
    <2> QED BY <1>2, <2>1, Zenon
  <1> QED BY <1>1, <1>3, Zenon

\* Of two runs of lists, each told from what follows it, the lists are told from each other:
\* Tails holds what may follow one.
Precede(a, Tails) == \A i \in 1 .. Len(a), t \in Tails : Cat(a[i], t) \in Tails
Differ(a, b, Tails) ==
  \A i \in 1 .. Len(a), t, u \in Tails :
    i <= Len(b) /\ Cat(a[i], t) = Cat(b[i], u) => a[i] = b[i] /\ t = u

TellsTo(f, g, a, b, n, Tails) ==
  \A t, u \in Tails : Cat(f[n], t) = Cat(g[n], u) => t = u /\ \A j \in 1 .. n : a[j] = b[j]

LEMMA RunsDecode ==
  ASSUME NEW S, NEW a \in Seq(Seq(S)), NEW b \in Seq(Seq(S)), NEW n \in Nat,
         n <= Len(a), n <= Len(b), NEW f, NEW g, Runs(f, a, S), Runs(g, b, S),
         NEW Tails \in SUBSET Seq(S), Precede(a, Tails), Precede(b, Tails), Differ(a, b, Tails)
  PROVE  TellsTo(f, g, a, b, n, Tails)
  <1>1. /\ \A t \in Tails : t \in Seq(S)
        /\ \A k \in 1 .. n : k \in 1 .. Len(a) /\ k \in 1 .. Len(b) /\ k <= Len(b)
    OBVIOUS
  <1>2. Stepwise(f, a, S) /\ Stepwise(g, b, S)
    BY RunsStep
  <1>3. \A t \in Tails : Cat(f[0], t) = t /\ Cat(g[0], t) = t
    <2>1. f[0] = <<>> /\ g[0] = <<>>
      BY DEF Runs
    <2> QED BY <1>1, <2>1, CatFacts
  <1> DEFINE Same(i) == \A j \in 1 .. i : a[j] = b[j]
             Told(i) == \A t, u \in Tails : Cat(f[i], t) = Cat(g[i], u) => t = u /\ Same(i)
             Good == {i \in Nat : i <= n => Told(i)}
  <1>4. 0 \in Good
    <2>1. Same(0)
      OBVIOUS
    <2> HIDE DEF Same
    <2>2. Told(0)
      BY <1>3, <2>1
    <2> HIDE DEF Told
    <2> QED BY <2>2
  <1>5. ASSUME NEW i \in Nat, i \in Good PROVE i + 1 \in Good
    <2> HIDE DEF Told
    <2> SUFFICES ASSUME i + 1 <= n PROVE Told(i + 1)
      OBVIOUS
    <2>1. PICK k \in 1 .. n : k = i + 1 /\ k - 1 = i
      OBVIOUS
    <2>2. Told(i)
      BY <1>5
    <2>3. ASSUME NEW t \in Tails, NEW u \in Tails, Cat(f[k], t) = Cat(g[k], u)
          PROVE  t = u /\ Same(k)
      <3>1. k \in 1 .. Len(a) /\ k \in 1 .. Len(b) /\ k <= Len(b) /\ t \in Seq(S) /\ u \in Seq(S)
        BY <1>1
      <3>2. Cat(a[k], t) \in Tails /\ Cat(b[k], u) \in Tails
        BY <3>1, Zenon DEF Precede
      <3>3. Cat(f[i], Cat(a[k], t)) = Cat(g[i], Cat(b[k], u))
        <4>1. Cat(f[k], t) = Cat(f[k - 1], Cat(a[k], t))
          BY <1>2, <3>1 DEF Stepwise
        <4>2. Cat(g[k], u) = Cat(g[k - 1], Cat(b[k], u))
          BY <1>2, <3>1 DEF Stepwise
        <4> QED BY <2>1, <2>3, <4>1, <4>2, Zenon
      <3>4. Cat(a[k], t) = Cat(b[k], u) /\ Same(i)
        BY <2>2, <3>2, <3>3, Zenon DEF Told
      <3>5. a[k] = b[k] /\ t = u
        BY <3>1, <3>4, Zenon DEF Differ
      <3> QED BY <2>1, <3>4, <3>5
    <2>4. Told(k)
      BY <2>3, Zenon DEF Told
    <2> QED BY <2>1, <2>4
  <1> HIDE DEF Good
  <1>6. Nat \subseteq Good
    BY <1>4, <1>5, Climb
  <1>7. Told(n)
    <2> HIDE DEF Told
    <2> QED BY <1>6 DEF Good
  <1> QED BY <1>7, Zenon DEF TellsTo

Decodes(a, b, Tails) ==
  \A t, u \in Tails : Cat(FlattenSeq(a), t) = Cat(FlattenSeq(b), u) => a = b /\ t = u

LEMMA FlatDecodes ==
  ASSUME NEW S, NEW a \in Seq(Seq(S)), NEW b \in Seq(Seq(S)), Len(a) = Len(b),
         NEW Tails \in SUBSET Seq(S), Precede(a, Tails), Precede(b, Tails), Differ(a, b, Tails)
  PROVE  Decodes(a, b, Tails)
  <1> DEFINE n == Len(a)
  <1>1. n \in Nat /\ n <= Len(a) /\ n <= Len(b)
    OBVIOUS
  <1>2. PICK f : Runs(f, a, S) /\ FlattenSeq(a) = f[n]
    BY FlatRuns
  <1>3. PICK g : Runs(g, b, S) /\ FlattenSeq(b) = g[n]
    BY FlatRuns
  <1> DEFINE Same == \A j \in 1 .. n : a[j] = b[j]
  <1>4. Same => a = b
    BY SeqEqual
  <1> HIDE DEF n
  <1>5. TellsTo(f, g, a, b, n, Tails)
    BY <1>1, <1>2, <1>3, RunsDecode
  <1>6. \A t, u \in Tails : Cat(f[n], t) = Cat(g[n], u) => t = u /\ Same
    BY <1>5, Zenon DEF TellsTo
  <1> HIDE DEF Same
  <1> QED BY <1>2, <1>3, <1>4, <1>6 DEF Decodes

\* Two lists of one length are told from each other whatever follows them.
LEMMA SameSplit ==
  ASSUME NEW S, NEW p \in Seq(S), NEW q \in Seq(S), NEW t \in Seq(S), NEW u \in Seq(S),
         Len(p) = Len(q), Cat(p, t) = Cat(q, u)
  PROVE  p = q /\ t = u
  <1>1. /\ p \o t = q \o u /\ Len(p) \in Nat /\ Len(t) \in Nat /\ Len(u) \in Nat
    BY DEF Cat
  <1>2. /\ Len(p \o t) = Len(p) + Len(t)
        /\ \A i \in 1 .. Len(p) + Len(t) : (p \o t)[i] = IF i <= Len(p) THEN p[i] ELSE t[i - Len(p)]
    BY ConcatProperties
  <1>3. /\ Len(q \o u) = Len(q) + Len(u)
        /\ \A i \in 1 .. Len(q) + Len(u) : (q \o u)[i] = IF i <= Len(q) THEN q[i] ELSE u[i - Len(q)]
    BY ConcatProperties
  <1>4. Len(t) = Len(u)
    BY <1>1, <1>2, <1>3
  <1> DEFINE c == p \o t
  <1>5. \A i \in 1 .. Len(p) : c[i] = p[i] /\ c[i] = q[i]
    BY <1>1, <1>2, <1>3, <1>4
  <1>6. \A i \in 1 .. Len(t) : c[i + Len(p)] = t[i] /\ c[i + Len(p)] = u[i]
    <2> TAKE i \in 1 .. Len(t)
    <2>1. i + Len(p) \in 1 .. Len(p) + Len(t) /\ ~(i + Len(p) <= Len(p)) /\ (i + Len(p)) - Len(p) = i
      BY <1>1
    <2> QED BY <1>1, <1>2, <1>3, <1>4, <2>1
  <1> HIDE DEF c
  <1>7. p = q
    BY <1>5, SeqEqual
  <1>8. t = u
    BY <1>4, <1>6, SeqEqual
  <1> QED BY <1>7, <1>8

LEMMA FlatPrecedes ==
  ASSUME NEW S, NEW ss \in Seq(Seq(S)), NEW Tails \in SUBSET Seq(S), Precede(ss, Tails)
  PROVE  \A t \in Tails : Cat(FlattenSeq(ss), t) \in Tails
  <1> DEFINE n == Len(ss)
  <1>1. PICK f : Runs(f, ss, S) /\ FlattenSeq(ss) = f[n]
    BY FlatRuns
  <1>2. Stepwise(f, ss, S) /\ n \in Nat /\ \A t \in Tails : t \in Seq(S)
    BY <1>1, RunsStep
  <1>3. \A t \in Tails : Cat(f[0], t) = t
    <2>1. f[0] = <<>>
      BY <1>1 DEF Runs
    <2> QED BY <1>2, <2>1, CatFacts
  <1> DEFINE In(i) == \A t \in Tails : Cat(f[i], t) \in Tails
             Good == {i \in Nat : i <= n => In(i)}
  <1>4. 0 \in Good
    <2>1. In(0)
      BY <1>3
    <2> HIDE DEF In
    <2> QED BY <2>1
  <1>5. ASSUME NEW i \in Nat, i \in Good PROVE i + 1 \in Good
    <2> HIDE DEF In
    <2> SUFFICES ASSUME i + 1 <= n PROVE In(i + 1)
      OBVIOUS
    <2>1. PICK k \in 1 .. n : k = i + 1 /\ k - 1 = i
      BY <1>2
    <2>2. In(i)
      BY <1>2, <1>5
    <2>3. ASSUME NEW t \in Tails PROVE Cat(f[k], t) \in Tails
      <3>1. Cat(ss[k], t) \in Tails
        BY Zenon DEF Precede, n
      <3>2. Cat(f[k], t) = Cat(f[k - 1], Cat(ss[k], t))
        BY <1>2 DEF Stepwise
      <3>3. Cat(f[i], Cat(ss[k], t)) \in Tails
        BY <2>2, <3>1, Zenon DEF In
      <3> QED BY <2>1, <3>2, <3>3, Zenon
    <2>4. In(k)
      BY <2>3, Zenon DEF In
    <2> QED BY <2>1, <2>4
  <1> HIDE DEF Good
  <1>6. Nat \subseteq Good
    BY <1>4, <1>5, Climb
  <1>7. In(n)
    <2> HIDE DEF In, n
    <2> QED BY <1>2, <1>6 DEF Good
  <1> HIDE DEF n
  <1> QED BY <1>1, <1>7

\* What follows the first m lists begins with the next.
LEMMA RunsGoOn ==
  ASSUME NEW S, NEW ss \in Seq(Seq(S)), NEW f, Runs(f, ss, S), NEW m \in Nat, m < Len(ss)
  PROVE  \E t \in Seq(S) : f[Len(ss)] = Cat(f[m], Cat(ss[m + 1], t))
  <1> DEFINE n == Len(ss)
             Begun(i) == \E t \in Seq(S) : f[i] = Cat(f[m], Cat(ss[m + 1], t))
             Good == {i \in Nat : m + 1 + i <= n => Begun(m + 1 + i)}
  <1>1. /\ n \in Nat /\ \A i \in 1 .. n : ss[i] \in Seq(S)
        /\ f \in [0 .. n -> Seq(S)] /\ \A i \in 1 .. n : f[i] = Cat(f[i - 1], ss[i])
    BY DEF Runs
  <1> HIDE DEF n
  <1>2. m < n /\ m + 1 \in 1 .. n /\ m \in 0 .. n /\ f[m] \in Seq(S) /\ ss[m + 1] \in Seq(S)
    <2>1. m < n /\ m + 1 \in 1 .. n /\ m \in 0 .. n
      BY <1>1 DEF n
    <2> QED BY <1>1, <2>1
  <1>3. 0 \in Good
    <2>1. f[m + 1] = Cat(f[m], ss[m + 1])
      <3>1. (m + 1) - 1 = m
        OBVIOUS
      <3> QED BY <1>1, <1>2, <3>1
    <2>2. Cat(ss[m + 1], <<>>) = ss[m + 1] /\ <<>> \in Seq(S)
      <3>1. \A x \in Seq(S) : Cat(x, <<>>) = x
        BY CatFacts
      <3>2. <<>> \in Seq(S)
        OBVIOUS
      <3> QED BY <1>2, <3>1, <3>2
    <2>3. Begun(m + 1)
      BY <2>1, <2>2
    <2> HIDE DEF Begun
    <2> QED BY <2>3
  <1>4. ASSUME NEW i \in Nat, i \in Good PROVE i + 1 \in Good
    <2> HIDE DEF Begun
    <2> SUFFICES ASSUME m + 1 + (i + 1) <= n PROVE Begun(m + 1 + (i + 1))
      OBVIOUS
    <2>1. PICK k \in 1 .. n : k = m + 1 + (i + 1) /\ k - 1 = m + 1 + i
      BY <1>1
    <2>2. Begun(k - 1)
      BY <1>1, <1>4, <2>1
    <2>3. PICK t \in Seq(S) : f[k - 1] = Cat(f[m], Cat(ss[m + 1], t))
      BY <2>2, Zenon DEF Begun
    <2>4. f[k] = Cat(f[k - 1], ss[k]) /\ ss[k] \in Seq(S)
      BY <1>1
    <2> DEFINE p == f[m]
               q == ss[m + 1]
               r == ss[k]
    <2>5. p \in Seq(S) /\ q \in Seq(S) /\ r \in Seq(S)
      BY <1>2, <2>4
    <2>6. f[k] = Cat(Cat(p, Cat(q, t)), r)
      BY <2>3, <2>4
    <2> HIDE DEF p, q, r
    <2>7. Cat(q, t) \in Seq(S) /\ Cat(t, r) \in Seq(S)
      BY <2>5, CatFacts
    <2>8. \A x, y, z \in Seq(S) : Cat(Cat(x, y), z) = Cat(x, Cat(y, z))
      BY CatFacts
    <2>9. Cat(Cat(p, Cat(q, t)), r) = Cat(p, Cat(Cat(q, t), r))
      BY <2>5, <2>7, <2>8
    <2>10. Cat(Cat(q, t), r) = Cat(q, Cat(t, r))
      BY <2>5, <2>8
    <2>11. f[k] = Cat(p, Cat(q, Cat(t, r)))
      BY <2>6, <2>9, <2>10
    <2>12. Begun(k)
      BY <2>7, <2>11 DEF Begun, p, q
    <2> QED BY <2>1, <2>12
  <1> HIDE DEF Good
  <1>5. Nat \subseteq Good
    BY <1>3, <1>4, Climb
  <1>6. n - (m + 1) \in Nat /\ m + 1 + (n - (m + 1)) = n
    BY <1>1, <1>2
  <1>7. Begun(n)
    <2> HIDE DEF Begun
    <2>1. n - (m + 1) \in Good
      BY <1>5, <1>6
    <2> QED BY <1>1, <1>6, <2>1 DEF Good
  <1> QED BY <1>7 DEF n

LEMMA FlatTyped ==
  ASSUME NEW S, NEW ss \in Seq(Seq(S))
  PROVE  FlattenSeq(ss) \in Seq(S)
  <1>1. PICK f : Runs(f, ss, S) /\ FlattenSeq(ss) = f[Len(ss)]
    BY FlatRuns
  <1>2. Len(ss) \in 0 .. Len(ss)
    OBVIOUS
  <1> QED BY <1>1, <1>2 DEF Runs

-----------------------------------------------------------------------------
(* Requests *)

USE RequestAssumption

\* What is so of a steady request, for retries never to look like replays: its try, and its
\* signature, are the reader's, with a nonce the server hasn't taken.
Steady(q) ==
  q.steady =>
    /\ identity = "reader" /\ server.warm
    /\ q.pc = "sent" => /\ q.kind \in NonceSigned => q.by = "reader"
                        /\ q.nonce \notin server.took
    /\ q.pc \in {"answered", "backoff", "failed"} => q.answer # "denied"

\* A nonce is one request's while it is under way, and not one the server took before.
Apart ==
  \A q, r \in Request :
    q # r /\ request[q].pc = "sent" /\ request[r].pc = "sent" /\ request[q].nonce > 0 =>
      request[q].nonce # request[r].nonce

\* A request that goes on has an attempt left.
Trying(q) == q.pc \in {"try", "sent", "answered", "backoff"} => q.attempt < Attempts(q.kind)

RequestInv == RequestTypeOK /\ Apart /\ \A r \in Request : Steady(request[r]) /\ Trying(request[r])

LEMMA RequestFirst == RequestInit => RequestInv
  BY DEF RequestInit, RequestInv, RequestTypeOK, Apart, Steady, Trying, NoRequest, Identity, NoIdentity,
         Pc, Kind, Answer

\* The record of a request when n nonces are drawn.
RequestFields(n) ==
  [ pc : Pc, kind : Kind, attempt : 0 .. MaxAttempts, by : Identity, nonce : 0 .. n,
    answer : Answer, steady : BOOLEAN ]

\* A request r moves to the state q, by steps that leave identity and server alone.
LEMMA RequestMoves ==
  ASSUME RequestInv, NEW r \in Request, NEW q \in RequestFields(drawn), Becomes(r, q),
         UNCHANGED <<identity, drawn, server, changes>>, Steady(q), Trying(q), q.pc # "sent"
  PROVE  RequestInv'
  <1>1. RequestTypeOK'
    BY DEF RequestInv, RequestTypeOK, RequestFields, Becomes
  <1>2. \A p \in Request : request'[p] = IF p = r THEN q ELSE request[p]
    BY DEF RequestInv, RequestTypeOK, Becomes
  <1>3. Apart'
    BY <1>2 DEF RequestInv, Apart
  <1>4. \A p \in Request : (Steady(request[p]) /\ Trying(request[p]))'
    BY <1>2 DEF RequestInv, Steady, Trying
  <1> QED BY <1>1, <1>3, <1>4 DEF RequestInv

LEMMA RequestFieldsAre ==
  ASSUME RequestInv, NEW r \in Request
  PROVE  /\ request[r] \in RequestFields(drawn) /\ drawn \in Nat
         /\ Steady(request[r]) /\ Trying(request[r])
  BY DEF RequestInv, RequestTypeOK, RequestFields

\* After an error a request tries again only while its attempts last.
LEMMA AfterErrorTyped ==
  ASSUME NEW n, NEW q \in RequestFields(n), q.attempt < Attempts(q.kind)
  PROVE  /\ AfterError(q) \in RequestFields(n)
         /\ AfterError(q).pc \in {"failed", "backoff"}
         /\ AfterError(q).steady = q.steady /\ AfterError(q).answer = q.answer
         /\ Trying(AfterError(q))
  <1> DEFINE pc == IF Final(q.answer) \/ q.attempt + 1 = Attempts(q.kind) THEN "failed" ELSE "backoff"
             e == [q EXCEPT !.attempt = @ + 1, !.pc = pc]
  <1>1. Attempts(q.kind) \in 1 .. MaxAttempts /\ q.attempt \in Nat /\ MaxAttempts \in Nat
    BY DEF Attempts, RequestFields
  <1>2. e = AfterError(q)
    BY DEF AfterError
  <1>3. pc \in {"failed", "backoff"} /\ (pc = "backoff" => q.attempt + 1 < Attempts(q.kind))
    BY <1>1
  <1> HIDE DEF pc
  <1>4. q.attempt + 1 \in 0 .. MaxAttempts /\ pc \in Pc
    BY <1>1, <1>3 DEF Pc
  <1>5. /\ e \in RequestFields(n) /\ e.pc = pc /\ e.steady = q.steady /\ e.answer = q.answer
        /\ e.kind = q.kind /\ e.attempt = q.attempt + 1
    BY <1>4 DEF RequestFields
  <1> QED BY <1>2, <1>3, <1>5 DEF Trying

\* A change of identity or a restart leaves no request steady.
LEMMA Unsettled ==
  ASSUME RequestInv, request' = Unsteady
  PROVE  /\ request' \in [Request -> RequestFields(drawn)]
         /\ \A r \in Request :
              /\ request'[r].pc = request[r].pc /\ request'[r].nonce = request[r].nonce
              /\ request'[r].attempt = request[r].attempt /\ request'[r].kind = request[r].kind
              /\ ~request'[r].steady
  <1> DEFINE q(r) == [request[r] EXCEPT !.steady = FALSE]
  <1>1. ASSUME NEW r \in Request
        PROVE  /\ q(r) \in RequestFields(drawn) /\ q(r).pc = request[r].pc
               /\ q(r).nonce = request[r].nonce /\ q(r).attempt = request[r].attempt
               /\ q(r).kind = request[r].kind /\ ~q(r).steady
    BY RequestFieldsAre DEF RequestFields
  <1>2. request' = [r \in Request |-> q(r)]
    BY DEF Unsteady
  <1> HIDE DEF q
  <1> QED BY <1>1, <1>2

LEMMA SurroundingsOK ==
  ASSUME RequestInv, (\E id \in Identity : SetIdentity(id)) \/ Restart \/ WarmUp
  PROVE  RequestInv'
  <1>1. CASE \E id \in Identity : SetIdentity(id)
    BY <1>1, Unsettled
       DEF RequestInv, RequestTypeOK, RequestFields, SetIdentity, Apart, Steady, Trying
  <1>2. CASE Restart
    BY <1>2, Unsettled
       DEF RequestInv, RequestTypeOK, RequestFields, Restart, Apart, Steady, Trying
  <1>3. CASE WarmUp
    BY <1>3 DEF RequestInv, RequestTypeOK, WarmUp, Apart, Steady, Trying
  <1> QED BY <1>1, <1>2, <1>3

LEMMA AskOK ==
  ASSUME RequestInv, NEW r \in Request, NEW kind \in Kind, Ask(r, kind)
  PROVE  RequestInv'
  <1>1. (identity = "reader" /\ server.warm) \in BOOLEAN
    BY DEF RequestInv, RequestTypeOK
  <1>2. PICK ready \in BOOLEAN :
          /\ Becomes(r, [NoRequest EXCEPT !.pc = "try", !.kind = kind, !.steady = ready])
          /\ ready => identity = "reader" /\ server.warm
    BY <1>1, Zenon DEF Ask
  <1> DEFINE q == [NoRequest EXCEPT !.pc = "try", !.kind = kind, !.steady = ready]
  <1>3. q.pc = "try" /\ q.attempt = 0 /\ q.steady = ready /\ q.kind = kind
    BY DEF NoRequest
  <1>4. q \in RequestFields(drawn)
    <2>1. drawn \in Nat
      BY RequestFieldsAre
    <2>2. NoRequest \in RequestFields(drawn)
      BY <2>1 DEF RequestFields, NoRequest, Pc, Kind, Answer, Identity, NoIdentity
    <2> QED BY <2>2 DEF RequestFields, Pc
  <1> HIDE DEF q
  <1>5. Steady(q) /\ Trying(q)
    BY <1>2, <1>3 DEF Steady, Trying, Attempts
  <1>6. Becomes(r, q) /\ UNCHANGED <<identity, drawn, server, changes>>
    BY <1>2 DEF Ask, q
  <1> QED BY <1>3, <1>4, <1>5, <1>6, RequestMoves

LEMMA LoseOK ==
  ASSUME RequestInv, NEW r \in Request, Lose(r)
  PROVE  RequestInv'
  <1> DEFINE q == [request[r] EXCEPT !.pc = "answered", !.answer = "lost"]
  <1>1. /\ q \in RequestFields(drawn) /\ q.pc = "answered" /\ q.answer = "lost"
        /\ q.steady = request[r].steady /\ q.attempt = request[r].attempt /\ q.kind = request[r].kind
    BY RequestFieldsAre DEF RequestFields, Pc, Answer
  <1>2. Becomes(r, q) /\ request[r].pc = "sent" /\ UNCHANGED <<identity, drawn, server, changes>>
    BY DEF Lose
  <1> HIDE DEF q
  <1>3. Steady(q) /\ Trying(q)
    BY <1>1, <1>2, RequestFieldsAre DEF Steady, Trying
  <1> QED BY <1>1, <1>2, <1>3, RequestMoves

LEMMA WakeOK ==
  ASSUME RequestInv, NEW r \in Request, Wake(r)
  PROVE  RequestInv'
  <1> DEFINE q == [request[r] EXCEPT !.pc = "try"]
  <1>1. /\ q \in RequestFields(drawn) /\ q.pc = "try"
        /\ q.steady = request[r].steady /\ q.attempt = request[r].attempt /\ q.kind = request[r].kind
    BY RequestFieldsAre DEF RequestFields, Pc
  <1>2. Becomes(r, q) /\ request[r].pc = "backoff" /\ UNCHANGED <<identity, drawn, server, changes>>
    BY DEF Wake
  <1> HIDE DEF q
  <1>3. Steady(q) /\ Trying(q)
    BY <1>1, <1>2, RequestFieldsAre DEF Steady, Trying
  <1> QED BY <1>1, <1>2, <1>3, RequestMoves

LEMMA ReceiveOK ==
  ASSUME RequestInv, NEW r \in Request, Receive(r)
  PROVE  RequestInv'
  <1> DEFINE got == [request[r] EXCEPT !.pc = "got"]
  <1>1. /\ got \in RequestFields(drawn) /\ got.pc = "got" /\ got.steady = request[r].steady
    BY RequestFieldsAre DEF RequestFields, Pc
  <1>2. /\ request[r].pc = "answered" /\ UNCHANGED <<identity, drawn, server, changes>>
        /\ Becomes(r, got) \/ Becomes(r, AfterError(request[r]))
    BY DEF Receive
  <1> HIDE DEF got
  <1>3. Steady(request[r]) /\ Trying(request[r]) /\ request[r] \in RequestFields(drawn)
    BY RequestFieldsAre
  <1>4. /\ AfterError(request[r]) \in RequestFields(drawn)
        /\ AfterError(request[r]).pc \in {"failed", "backoff"}
        /\ AfterError(request[r]).steady = request[r].steady
        /\ AfterError(request[r]).answer = request[r].answer
        /\ Trying(AfterError(request[r]))
    BY <1>2, <1>3, AfterErrorTyped DEF Trying
  <1>5. Steady(got) /\ Trying(got)
    BY <1>1, <1>3 DEF Steady, Trying
  <1>6. Steady(AfterError(request[r]))
    BY <1>2, <1>3, <1>4 DEF Steady
  <1>7. CASE Becomes(r, got)
    BY <1>1, <1>2, <1>5, <1>7, RequestMoves
  <1>8. CASE Becomes(r, AfterError(request[r]))
    BY <1>2, <1>4, <1>6, <1>8, RequestMoves
  <1> QED BY <1>2, <1>7, <1>8

\* The server takes a nonce that is no other request's.
LEMMA ServeOK ==
  ASSUME RequestInv, NEW r \in Request, NEW answer \in Answer, Serve(r, answer)
  PROVE  RequestInv'
  <1> DEFINE q == [request[r] EXCEPT !.pc = "answered", !.answer = answer]
             took == IF server.warm /\ request[r].nonce > 0
                     THEN server.took \cup {request[r].nonce} ELSE server.took
  <1>1. request[r] \in RequestFields(drawn) /\ Steady(request[r]) /\ Trying(request[r]) /\ drawn \in Nat
    BY RequestFieldsAre
  <1>2. /\ q \in RequestFields(drawn) /\ q.pc = "answered" /\ q.answer = answer
        /\ q.steady = request[r].steady /\ q.attempt = request[r].attempt /\ q.kind = request[r].kind
    BY <1>1 DEF RequestFields, Pc
  <1>3. /\ server \in [took : SUBSET (1 .. drawn), warm : BOOLEAN]
        /\ request \in [Request -> RequestFields(drawn)]
    BY DEF RequestInv, RequestTypeOK, RequestFields
  <1>4. /\ server' \in [took : SUBSET (1 .. drawn), warm : BOOLEAN]
        /\ server'.warm = server.warm /\ server'.took = took
    BY <1>1, <1>3 DEF Serve, RequestFields
  <1>5. /\ request[r].pc = "sent" /\ UNCHANGED <<identity, drawn, changes>>
        /\ answer \in {Judged(request[r]), "unavailable", "oversize", "lost"}
        /\ request' = [request EXCEPT ![r] = q]
    BY DEF Serve, Becomes
  <1> HIDE DEF q
  <1>6. \A p \in Request : request'[p] = IF p = r THEN q ELSE request[p]
    BY <1>3, <1>5
  <1>7. RequestTypeOK'
    <2>1. request' \in [Request -> RequestFields(drawn)]
      BY <1>2, <1>3, <1>5
    <2> QED BY <1>4, <1>5, <2>1 DEF RequestInv, RequestTypeOK, RequestFields
  <1>8. Apart'
    BY <1>2, <1>6 DEF RequestInv, Apart
  <1>9. Steady(request[r])' /\ Trying(request[r])'
    <2>1. q.steady => answer # "denied"
      BY <1>1, <1>2, <1>5 DEF Judged, Entitled, Steady
    <2> QED BY <1>1, <1>2, <1>4, <1>5, <1>6, <2>1 DEF Steady, Trying
  <1>10. ASSUME NEW p \in Request \ {r}
         PROVE  Steady(request[p])' /\ Trying(request[p])'
    <2>1. Steady(request[p]) /\ Trying(request[p]) /\ request'[p] = request[p]
      BY <1>6, RequestFieldsAre
    <2>2. request[p].pc = "sent" /\ request[r].nonce > 0 => request[p].nonce # request[r].nonce
      BY <1>5 DEF RequestInv, Apart
    <2> QED BY <1>4, <1>5, <2>1, <2>2 DEF Steady, Trying
  <1> QED BY <1>6, <1>7, <1>8, <1>9, <1>10 DEF RequestInv

\* A signature of a gated read takes a nonce nobody has.
LEMMA MakeRequestOK ==
  ASSUME RequestInv, NEW r \in Request, MakeRequest(r)
  PROVE  RequestInv'
  <1> DEFINE kind == request[r].kind
             gated == kind \in NonceSigned /\ identity # NoIdentity
             next == IF gated THEN drawn + 1 ELSE drawn
             nonce == IF gated THEN drawn + 1 ELSE 0
             by == SignedBy(kind)
             state == [request[r] EXCEPT !.by = by, !.nonce = nonce]
             refused == AfterError([state EXCEPT !.answer = "denied"])
             sent == [state EXCEPT !.pc = "sent"]
  <1>1. request[r] \in RequestFields(drawn) /\ Steady(request[r]) /\ Trying(request[r]) /\ drawn \in Nat
    BY RequestFieldsAre
  <1>2. /\ request[r].pc = "try" /\ UNCHANGED <<identity, server, changes>>
        /\ gated => drawn < MaxDrawn
        /\ IF kind \in NeedsIdentity /\ identity = NoIdentity
           THEN request' = [request EXCEPT ![r] = refused] ELSE request' = [request EXCEPT ![r] = sent]
        /\ drawn' = next
    BY <1>1 DEF MakeRequest, NonceOf, Becomes
  <1>3. /\ by \in Identity /\ (by = identity \/ kind \in Unsigned)
        /\ next \in 0 .. MaxDrawn /\ drawn <= next /\ nonce \in 0 .. next
        /\ nonce > 0 => nonce > drawn
    BY <1>1, <1>2 DEF SignedBy, RequestInv, RequestTypeOK, Identity, NoIdentity
  <1>4. /\ server \in [took : SUBSET (1 .. drawn), warm : BOOLEAN]
        /\ request \in [Request -> RequestFields(next)] /\ request[r] \in RequestFields(next)
    BY <1>1, <1>3 DEF RequestInv, RequestTypeOK, RequestFields
  <1> HIDE DEF next, nonce, by
  <1>5. /\ state \in RequestFields(next) /\ state.attempt = request[r].attempt /\ state.kind = kind
        /\ state.steady = request[r].steady
    BY <1>3, <1>4 DEF RequestFields
  <1>6. /\ sent \in RequestFields(next) /\ sent.pc = "sent" /\ sent.kind = kind /\ sent.by = by
        /\ sent.attempt = request[r].attempt /\ sent.steady = request[r].steady /\ sent.nonce = nonce
    BY <1>3, <1>4 DEF RequestFields, Pc
  <1>7. /\ [state EXCEPT !.answer = "denied"] \in RequestFields(next)
        /\ [state EXCEPT !.answer = "denied"].attempt < Attempts([state EXCEPT !.answer = "denied"].kind)
        /\ [state EXCEPT !.answer = "denied"].steady = request[r].steady
    BY <1>1, <1>2, <1>3, <1>4 DEF RequestFields, Trying, Answer
  <1>8. /\ refused \in RequestFields(next) /\ refused.pc \in {"failed", "backoff"} /\ Trying(refused)
        /\ refused.steady = request[r].steady
    <2> HIDE DEF state
    <2> QED BY <1>7, AfterErrorTyped
  <1> HIDE DEF refused, sent
  <1> DEFINE after == IF kind \in NeedsIdentity /\ identity = NoIdentity THEN refused ELSE sent
  <1>9. /\ after \in RequestFields(next) /\ after.steady = request[r].steady /\ Trying(after)
        /\ request' = [request EXCEPT ![r] = after]
        /\ after.pc = "sent" => after = sent
        /\ identity # NoIdentity => after = sent
        /\ after.pc \in {"sent", "failed", "backoff"}
    BY <1>1, <1>2, <1>6, <1>8 DEF Trying
  <1>10. \A p \in Request : request'[p] = IF p = r THEN after ELSE request[p]
    BY <1>4, <1>9
  <1> HIDE DEF after
  <1>11. RequestTypeOK'
    <2>1. request' \in [Request -> RequestFields(next)]
      BY <1>4, <1>9
    <2> QED BY <1>1, <1>2, <1>3, <1>4, <2>1 DEF RequestInv, RequestTypeOK, RequestFields
  <1>12. Apart'
    <2>1. \A p \in Request : request[p].nonce <= drawn
      BY <1>1 DEF RequestInv, RequestTypeOK
    <2> QED BY <1>1, <1>3, <1>6, <1>9, <1>10, <2>1 DEF RequestInv, Apart
  <1>13. Steady(request[r])' /\ Trying(request[r])'
    <2>1. request'[r] = after
      BY <1>10
    <2>2. after.steady => identity = "reader" /\ server.warm /\ after = sent
      BY <1>1, <1>9 DEF Steady, NoIdentity
    <2>3. kind \in NonceSigned => kind \notin Unsigned
      BY DEF NonceSigned, DataRead, Unsigned, AgentRead, LinkRead
    <2>4. nonce \notin server.took
      BY <1>1, <1>3, <1>4
    <2> QED BY <1>2, <1>3, <1>6, <1>9, <2>1, <2>2, <2>3, <2>4 DEF Steady, Trying
  <1>14. ASSUME NEW p \in Request \ {r}
         PROVE  Steady(request[p])' /\ Trying(request[p])'
    BY <1>2, <1>10, RequestFieldsAre DEF Steady, Trying
  <1> QED BY <1>11, <1>12, <1>13, <1>14 DEF RequestInv

LEMMA RequestInvSuffices == RequestInv => RightsHonored
  BY DEF RequestInv, RightsHonored, Steady

LEMMA RequestStepOK ==
  ASSUME RequestInv, RequestStep \/ UNCHANGED requestVars
  PROVE  RequestInv'
  <1>1. CASE UNCHANGED requestVars
    BY <1>1 DEF RequestInv, RequestTypeOK, Apart, Steady, Trying, requestVars
  <1> QED BY <1>1, SurroundingsOK, AskOK, MakeRequestOK, ServeOK, LoseOK, ReceiveOK, WakeOK
          DEF RequestStep

HIDE RequestAssumption

-----------------------------------------------------------------------------
(* Reads of Ethereum state *)

ReadFields ==
  [ at : {"idle", "fetched", "walking", "returned", "refused", "decoded"},
    kind : {"state", "call"}, mode : Mode,
    address : Address \cup {<<>>}, slots : Seq(Slot), block : BlockNumber \cup {<<>>},
    root : StateRoot \cup {<<>>}, proofs : Seq(StateProofs), walked : Nat,
    value : Word \cup {<<>>} ]

Past(x) == x.at \in {"walking", "returned", "decoded"}

\* What check_read_is_the_one_asked() lets through stays what was asked, ...
OneAsked(x) ==
  Past(x) /\ x.kind = "state" =>
    /\ x.proofs # <<>>
    /\ x.mode # "Disabled" =>
         /\ Len(x.proofs) = 1
         /\ <<x.proofs[1].address, x.proofs[1].block, x.proofs[1].root>> = <<x.address, x.block, x.root>>
         /\ [i \in DOMAIN x.proofs[1].storage |-> x.proofs[1].storage[i].slot] = x.slots

\* ... the proofs walked so far hold, and a read returns when all are walked, ...
Walked(x) ==
  /\ x.at \in {"idle", "fetched"} => x.walked = 0
  /\ Past(x) /\ x.mode = "Strict" =>
       /\ x.walked <= Len(x.proofs)
       /\ \A i \in 1 .. x.walked : VerifyStateProof(x.proofs[i])
       /\ x.at # "walking" => x.walked = Len(x.proofs)

\* ... and what is decoded is the value shown of the one slot.
Decoded(x) ==
  x.at = "decoded" =>
    /\ x.kind = "state" /\ Len(x.slots) = 1
    /\ x.proofs[1].storage # <<>> /\ x.value = x.proofs[1].storage[1].value

EthInv == read \in ReadFields /\ OneAsked(read) /\ Walked(read) /\ Decoded(read)

LEMMA EthFirst == EthInit => EthInv
  BY DEF EthInit, NoRead, EthInv, ReadFields, Mode, Past, OneAsked, Walked, Decoded

LEMMA FetchingOK ==
  ASSUME EthInv, Fetching
  PROVE  EthInv'
  <1>1. AskedAddress \in Address /\ AskedBlock \in BlockNumber
    BY StateAssumption DEF AskedAddress, AskedBlock
  <1>2. NoRead \in ReadFields /\ NoRead.walked = 0
    BY DEF NoRead, ReadFields, Mode
  <1>3. read' \in ReadFields /\ read'.at \in {"fetched", "refused"} /\ read'.walked = 0
    <2>1. CASE \E mode \in Mode, slots \in Slots, root \in StateRoot, proofs \in Responses :
                 FetchState(mode, AskedAddress, slots, AskedBlock, root, proofs)
      <3>1. PICK mode \in Mode, slots \in Slots, root \in StateRoot, proofs \in Responses :
                   FetchState(mode, AskedAddress, slots, AskedBlock, root, proofs)
        BY <2>1
      <3>2. slots \in Seq(Slot) /\ proofs \in Seq(StateProofs)
        BY AnswersAssumption
      <3>3. read' = [NoRead EXCEPT !.at = "fetched", !.mode = mode, !.address = AskedAddress,
                                   !.slots = slots, !.block = AskedBlock, !.root = root,
                                   !.proofs = proofs]
        BY <3>1, Zenon DEF FetchState
      <3>4. read'.at = "fetched" /\ read'.walked = 0
        BY <1>2, <3>3 DEF ReadFields
      <3>5. read' \in ReadFields
        BY <1>1, <1>2, <3>2, <3>3 DEF ReadFields
      <3> QED BY <3>4, <3>5
    <2>2. CASE \E mode \in Mode, root \in StateRoot, proofs \in Responses :
                 FetchCall(mode, AskedBlock, root, proofs)
      <3>1. PICK mode \in Mode, root \in StateRoot, proofs \in Responses :
                   FetchCall(mode, AskedBlock, root, proofs)
        BY <2>2
      <3>2. proofs \in Seq(StateProofs)
        BY AnswersAssumption
      <3>3. read' = [NoRead EXCEPT !.at = "fetched", !.kind = "call", !.mode = mode,
                                   !.block = AskedBlock, !.root = root, !.proofs = proofs]
        BY <3>1, Zenon DEF FetchCall
      <3>4. read'.at = "fetched" /\ read'.walked = 0
        BY <1>2, <3>3 DEF ReadFields
      <3>5. read' \in ReadFields
        BY <1>1, <1>2, <3>2, <3>3 DEF ReadFields
      <3> QED BY <3>4, <3>5
    <2>3. CASE FetchFails
      BY <1>2, <2>3 DEF FetchFails, ReadFields
    <2> QED BY <2>1, <2>2, <2>3 DEF Fetching
  <1> QED BY <1>3 DEF EthInv, Past, OneAsked, Walked, Decoded

LEMMA CheckOK ==
  ASSUME EthInv, Check
  PROVE  EthInv'
  <1>1. read \in ReadFields /\ read.at = "fetched" /\ read' \in ReadFields
    BY DEF EthInv, Check, ReadFields
  <1>2. CASE read'.at = "refused"
    BY <1>1, <1>2 DEF EthInv, Past, OneAsked, Walked, Decoded
  <1>3. CASE read' = [read EXCEPT !.at = "walking"]
    <2> DEFINE x == read'
    <2>1. /\ x.at = "walking" /\ x.kind = read.kind /\ x.mode = read.mode /\ x.slots = read.slots
          /\ x.address = read.address /\ x.block = read.block /\ x.root = read.root
          /\ x.proofs = read.proofs /\ x.walked = read.walked
      <3> DEFINE y == [read EXCEPT !.at = "walking"]
      <3>1. /\ y.at = "walking" /\ y.kind = read.kind /\ y.mode = read.mode /\ y.slots = read.slots
            /\ y.address = read.address /\ y.block = read.block /\ y.root = read.root
            /\ y.proofs = read.proofs /\ y.walked = read.walked
        BY <1>1 DEF ReadFields
      <3> HIDE DEF y
      <3>2. x = y
        BY <1>3 DEF y
      <3> QED BY <3>1, <3>2
    <2>2. /\ x.kind = "state" => x.proofs # <<>> /\ (x.mode # "Disabled" => ReadIsTheOneAsked)
      BY <1>3, <2>1 DEF Check
    <2>3. OneAsked(x)
      BY <2>1, <2>2 DEF OneAsked, ReadIsTheOneAsked, SlotsAsked
    <2>4. Walked(x)
      BY <1>1, <2>1 DEF EthInv, Walked, ReadFields
    <2> QED BY <1>1, <2>1, <2>3, <2>4 DEF EthInv, Decoded
  <1> QED BY <1>1, <1>2, <1>3 DEF Check, ReadFields

LEMMA WalkOK ==
  ASSUME EthInv, Walk
  PROVE  EthInv'
  <1>1. /\ read \in ReadFields /\ read.at = "walking" /\ read.walked < ToWalk
        /\ read.walked \in Nat /\ Len(read.proofs) \in Nat
    BY DEF EthInv, Walk, ReadFields
  <1>2. CASE read' = [read EXCEPT !.at = "refused"]
    BY <1>1, <1>2 DEF EthInv, ReadFields, Past, OneAsked, Walked, Decoded
  <1>3. CASE /\ VerifyStateProof(read.proofs[read.walked + 1])
             /\ read' = [read EXCEPT !.walked = @ + 1]
    <2> DEFINE x == read'
    <2>1. /\ x.at = "walking" /\ x.kind = read.kind /\ x.mode = read.mode /\ x.slots = read.slots
          /\ x.address = read.address /\ x.block = read.block /\ x.root = read.root
          /\ x.proofs = read.proofs /\ x.walked = read.walked + 1 /\ x \in ReadFields
      <3> DEFINE w == read.walked + 1
                 y == [read EXCEPT !.walked = w]
      <3>1. w \in Nat /\ x = y
        BY <1>1, <1>3
      <3> HIDE DEF x, w
      <3>2. /\ y.at = "walking" /\ y.kind = read.kind /\ y.mode = read.mode /\ y.slots = read.slots
            /\ y.address = read.address /\ y.block = read.block /\ y.root = read.root
            /\ y.proofs = read.proofs /\ y.walked = w /\ y \in ReadFields
        BY <1>1, <3>1 DEF ReadFields
      <3> HIDE DEF y
      <3> QED BY <3>1, <3>2 DEF w
    <2>2. OneAsked(x)
      BY <1>1, <2>1 DEF EthInv, Past, OneAsked
    <2>3. Walked(x)
      BY <1>1, <1>3, <2>1 DEF EthInv, Past, Walked, ToWalk
    <2> QED BY <2>1, <2>2, <2>3 DEF EthInv, Decoded
  <1> QED BY <1>2, <1>3 DEF Walk

LEMMA ReturnOK ==
  ASSUME EthInv, Return
  PROVE  EthInv'
  <1> DEFINE x == read'
  <1>1. /\ read \in ReadFields /\ read.at = "walking" /\ read.walked = ToWalk
        /\ read' = [read EXCEPT !.at = "returned"]
    BY DEF EthInv, Return
  <1>2. /\ x.at = "returned" /\ x.kind = read.kind /\ x.mode = read.mode /\ x.slots = read.slots
        /\ x.address = read.address /\ x.block = read.block /\ x.root = read.root
        /\ x.proofs = read.proofs /\ x.walked = read.walked /\ x \in ReadFields
    BY <1>1 DEF ReadFields
  <1> QED BY <1>1, <1>2 DEF EthInv, Past, OneAsked, Walked, Decoded, ToWalk

LEMMA DecodeSlotOK ==
  ASSUME EthInv, DecodeSlot
  PROVE  EthInv'
  <1>1. /\ read \in ReadFields /\ read.at = "returned" /\ read.kind = "state" /\ Len(read.slots) = 1
    BY DEF EthInv, DecodeSlot
  <1>2. CASE read' = [read EXCEPT !.at = "refused"]
    BY <1>1, <1>2 DEF EthInv, ReadFields, Past, OneAsked, Walked, Decoded
  <1>3. CASE /\ read.proofs[1].storage # <<>>
             /\ read' = [read EXCEPT !.at = "decoded", !.value = First(read.proofs[1].storage)]
    <2> DEFINE x == read'
    <2>1. /\ x.at = "decoded" /\ x.kind = read.kind /\ x.mode = read.mode /\ x.slots = read.slots
          /\ x.address = read.address /\ x.block = read.block /\ x.root = read.root
          /\ x.proofs = read.proofs /\ x.walked = read.walked
          /\ x.value = read.proofs[1].storage[1].value
      BY <1>1, <1>3 DEF ReadFields, First
    <2>2. read.proofs[1].storage[1].value \in Word
      <3>1. read.proofs \in Seq(StateProofs) /\ read.proofs # <<>>
        BY <1>1 DEF EthInv, OneAsked, Past, ReadFields
      <3>2. read.proofs[1] \in StateProofs
        BY <3>1
      <3>3. read.proofs[1].storage \in Seq(SlotProofs)
        BY <3>2 DEF StateProofs
      <3>4. read.proofs[1].storage[1] \in SlotProofs
        BY <1>3, <3>3
      <3> QED BY <3>4 DEF SlotProofs
    <2>3. x \in ReadFields
      BY <1>1, <1>3, <2>2 DEF ReadFields, First
    <2>4. OneAsked(x) /\ Walked(x) /\ Decoded(x)
      BY <1>1, <1>3, <2>1 DEF EthInv, Past, OneAsked, Walked, Decoded
    <2> QED BY <2>3, <2>4 DEF EthInv
  <1> QED BY <1>2, <1>3 DEF DecodeSlot

\* What was walked and shown of an account is what its state holds.
LEMMA ShownIsHeld ==
  ASSUME NEW p \in StateProofs, VerifyStateProof(p), NEW k \in DOMAIN p.storage
  PROVE  StateHolds(p.root, p.address, p.storage[k].slot, p.storage[k].value)
  BY DEF VerifyStateProof, VerifyAccount, VerifyStorage, StateHolds

LEMMA EthInvSuffices == EthInv => StateProved
  <1> SUFFICES ASSUME EthInv PROVE StateProved
    OBVIOUS
  <1>1. /\ read \in ReadFields /\ OneAsked(read) /\ Walked(read) /\ Decoded(read)
        /\ read.proofs \in Seq(StateProofs) /\ read.slots \in Seq(Slot)
    BY DEF EthInv, ReadFields
  <1>2. ASSUME Strictly("state") \/ Strictly("call"), NEW i \in DOMAIN read.proofs,
               NEW k \in DOMAIN read.proofs[i].storage
        PROVE  StateHolds(read.proofs[i].root, read.proofs[i].address,
                          read.proofs[i].storage[k].slot, read.proofs[i].storage[k].value)
    <2>1. read.proofs[i] \in StateProofs /\ VerifyStateProof(read.proofs[i])
      BY <1>1, <1>2 DEF Strictly, Walked, Past
    <2> QED BY <2>1, ShownIsHeld
  <1>3. ASSUME Strictly("state")
        PROVE  LET p == read.proofs[1]
               IN /\ <<p.address, p.block, p.root>> = <<read.address, read.block, read.root>>
                  /\ Len(p.storage) = Len(read.slots)
                  /\ \A i \in DOMAIN read.slots :
                       StateHolds(read.root, read.address, read.slots[i], p.storage[i].value)
    <2> DEFINE p == read.proofs[1]
    <2>1. /\ Len(read.proofs) = 1
          /\ <<p.address, p.block, p.root>> = <<read.address, read.block, read.root>>
          /\ [i \in DOMAIN p.storage |-> p.storage[i].slot] = read.slots
      BY <1>1, <1>3 DEF Strictly, OneAsked, Past
    <2>2. p.storage \in Seq(SlotProofs) /\ 1 \in DOMAIN read.proofs
      <3>1. 1 \in DOMAIN read.proofs /\ p \in StateProofs
        BY <1>1, <2>1
      <3> QED BY <3>1 DEF StateProofs
    <2>3. DOMAIN read.slots = DOMAIN p.storage
      BY <2>1
    <2>4. Len(p.storage) = Len(read.slots)
      BY <1>1, <2>2, <2>3
    <2>5. \A i \in DOMAIN read.slots : read.slots[i] = p.storage[i].slot
      BY <2>1, <2>3
    <2> HIDE DEF p
    <2>6. \A i \in DOMAIN read.slots :
            StateHolds(p.root, p.address, p.storage[i].slot, p.storage[i].value)
      BY <1>2, <1>3, <2>2, <2>3 DEF p
    <2> QED BY <2>1, <2>4, <2>5, <2>6 DEF p
  <1>4. ASSUME Strictly("state"), read.at = "decoded"
        PROVE  StateHolds(read.root, read.address, read.slots[1], read.value)
    <2>1. 1 \in DOMAIN read.slots /\ read.value = read.proofs[1].storage[1].value
      BY <1>1, <1>4 DEF Decoded
    <2> QED BY <1>3, <1>4, <2>1
  <1> QED BY <1>2, <1>3, <1>4 DEF StateProved

LEMMA EthStepOK ==
  ASSUME EthInv, Fetching \/ EthStep \/ UNCHANGED read
  PROVE  EthInv'
  <1>1. CASE UNCHANGED read
    BY <1>1 DEF EthInv, Past, OneAsked, Walked, Decoded
  <1> QED BY <1>1, FetchingOK, CheckOK, WalkOK, ReturnOK, DecodeSlotOK DEF EthStep

-----------------------------------------------------------------------------
(* Proofs of an item *)

\* What a tree of a layer's ops holds of the chain: the hash of each node's key and value,
\* and of what is attached to it; and the layer's root.
Kvs(layer) == IF layer = "root" THEN {SegmentHash(ItemRoot)} ELSE {KeyHash, Other}
Subs(layer) == IF layer = "root" THEN {NoTree} ELSE {NoTree, KeyTree}
TrueRoot(layer) == IF layer = "root" THEN TrustedRoot ELSE ItemRoot

\* A tree whose top node is open and isn't the chain's: its hash gives it away, and so does
\* that of every tree it is attached to.
Tainted(layer, tree) ==
  /\ ~tree.opaque
  /\ \/ tree.kv \notin Kvs(layer)
     \/ tree.left \notin Subs(layer)
     \/ tree.right \notin Subs(layer)

IsTree(t) == t = [opaque |-> t.opaque, kv |-> t.kv, left |-> t.left, right |-> t.right]
IsSeq(s) == \E S : s \in Seq(S)

ProofShape ==
  /\ proof = [ at |-> proof.at, layer |-> proof.layer, nodes |-> proof.nodes,
               stack |-> proof.stack, carried |-> proof.carried, root |-> proof.root,
               lower |-> proof.lower, value |-> proof.value ]
  /\ proof.layer \in Layer

ChainOK ==
  /\ chain \in [holds : Held, onlyItems : BOOLEAN]
  /\ chain.onlyItems => chain.holds # Subtree

\* A node that shows the key asked, and isn't the chain's, has tainted a tree of the stack.
ReadSoFar ==
  /\ IsSeq(proof.stack) /\ \A i \in DOMAIN proof.stack : IsTree(proof.stack[i])
  /\ IsSeq(proof.carried)
  /\ \A c \in DOMAIN proof.carried :
       /\ proof.carried[c] \in Nodes[proof.layer] /\ Shows(proof.carried[c])
       /\ proof.carried[c].hash \notin Kvs(proof.layer) =>
            \E i \in DOMAIN proof.stack : Tainted(proof.layer, proof.stack[i])
  /\ proof.layer = "item" /\ proof.root = TrustedRoot => proof.lower = ItemRoot

ProofInv ==
  /\ ChainOK /\ ProofShape
  /\ proof.at = "reading" => ReadSoFar
  /\ proof.at \in {"proved", "accepted"} /\ proof.root = TrustedRoot => proof.value = chain.holds
  /\ proof.at = "accepted" => proof.root = TrustedRoot

LEMMA TaintShows ==
  ASSUME NEW layer \in Layer, NEW t, Tainted(layer, t)
  PROVE  HashOf(t) \notin Subs(layer) /\ HashOf(t) # TrueRoot(layer)
  BY DEF Tainted, Layer, HashOf, TreeHash, Kvs, Subs, TrueRoot, TrustedRoot, ItemRoot, KeyTree, NoTree

LEMMA AttachedIs ==
  ASSUME NEW t, IsTree(t), NEW child, NEW side \in {"left", "right"}
  PROVE  LET a == Attached(t, child, side)
         IN /\ IsTree(a) /\ a.opaque = t.opaque /\ a.kv = t.kv
            /\ a.left = IF side = "left" THEN HashOf(child) ELSE t.left
            /\ a.right = IF side = "left" THEN t.right ELSE HashOf(child)
  <1> DEFINE h == HashOf(child)
             a == IF side = "left" THEN [t EXCEPT !.left = h] ELSE [t EXCEPT !.right = h]
  <1>1. a = IF side = "left" THEN [opaque |-> t.opaque, kv |-> t.kv, left |-> h, right |-> t.right]
                             ELSE [opaque |-> t.opaque, kv |-> t.kv, left |-> t.left, right |-> h]
    BY DEF IsTree
  <1>2. a = Attached(t, child, side)
    BY DEF Attached
  <1> HIDE DEF a, h
  <1>3. /\ IsTree(a) /\ a.opaque = t.opaque /\ a.kv = t.kv
        /\ a.left = IF side = "left" THEN h ELSE t.left
        /\ a.right = IF side = "left" THEN t.right ELSE h
    BY <1>1 DEF IsTree
  <1> QED BY <1>2, <1>3 DEF h

LEMMA TaintStays ==
  ASSUME NEW layer \in Layer, NEW parent, IsTree(parent), NEW child,
         NEW side \in {"left", "right"}, MayJoin(parent), Free(parent, side),
         Tainted(layer, parent) \/ Tainted(layer, child)
  PROVE  Tainted(layer, Attached(parent, child, side))
  <1>1. NoTree \in Subs(layer)
    BY DEF Subs
  <1>2. Tainted(layer, child) => HashOf(child) \notin Subs(layer)
    BY TaintShows
  <1> QED BY <1>1, <1>2, AttachedIs DEF Tainted, MayJoin, Free

LEMMA Appended ==
  ASSUME NEW s, IsSeq(s), NEW e
  PROVE  /\ IsSeq(Append(s, e)) /\ Len(s) \in Nat /\ DOMAIN s = 1 .. Len(s)
         /\ DOMAIN Append(s, e) = 1 .. Len(s) + 1
         /\ \A i \in 1 .. Len(s) : Append(s, e)[i] = s[i]
         /\ Append(s, e)[Len(s) + 1] = e
  <1>1. PICK S : s \in Seq(S)
    BY DEF IsSeq
  <1> DEFINE T == S \cup {e}
  <1>2. s \in Seq(T)
    BY <1>1
  <1>3. Append(s, e) \in Seq(T)
    BY <1>2
  <1> QED BY <1>2, <1>3 DEF IsSeq

LEMMA Shortened ==
  ASSUME NEW s, IsSeq(s), NEW n \in Nat, n <= Len(s)
  PROVE  /\ IsSeq(SubSeq(s, 1, n)) /\ Len(SubSeq(s, 1, n)) = n
         /\ \A i \in 1 .. n : SubSeq(s, 1, n)[i] = s[i]
  <1>1. PICK S : s \in Seq(S)
    BY DEF IsSeq
  <1>2. SubSeq(s, 1, n) \in Seq(S)
    BY <1>1
  <1> QED BY <1>1, <1>2 DEF IsSeq

LEMMA ProofFirst == ProofInit => ProofInv
  BY DEF ProofInit, ProofInv, ProofShape, ChainOK, NoProof, Layer, Held

LEMMA RefuseOK ==
  ASSUME ProofInv, Refuse, UNCHANGED chain
  PROVE  ProofInv'
  BY DEF Refuse, ProofInv, ProofShape, ChainOK, NoProof, Layer

LEMMA BeginOK ==
  ASSUME ProofInv, Proving
  PROVE  ProofInv'
  <1>1. ASSUME NEW at \in {"reading", "refused"}, proof' = [NoProof EXCEPT !.at = at], ChainOK'
        PROVE  ProofInv'
    <2>1. /\ proof'.at = at /\ proof'.layer = "root" /\ proof'.stack = <<>> /\ proof'.carried = <<>>
          /\ ProofShape'
      BY <1>1 DEF NoProof, ProofShape, Layer
    <2>2. IsSeq(<<>>)
      BY DEF IsSeq
    <2> QED BY <1>1, <2>1, <2>2 DEF ProofInv, ReadSoFar
  <1>2. ChainOK'
    <2>1. PICK holds \in Held, onlyItems \in BOOLEAN :
            /\ onlyItems => holds # Subtree
            /\ chain' = [holds |-> holds, onlyItems |-> onlyItems]
      BY Zenon DEF Proving, ProofBegin, ProofOfAnswer
    <2>2. chain' \in [holds : Held, onlyItems : BOOLEAN] /\ chain'.holds = holds
      BY <2>1
    <2>3. chain'.onlyItems = onlyItems
      BY <2>1, Zenon
    <2> QED BY <2>1, <2>2, <2>3, Zenon DEF ChainOK
  <1>3. PICK goes \in BOOLEAN :
          proof' = [NoProof EXCEPT !.at = IF goes THEN "reading" ELSE "refused"]
    BY Zenon DEF Proving, ProofBegin, ProofOfAnswer
  <1> QED
    <2>1. CASE goes
      BY <1>1, <1>2, <1>3, <2>1
    <2>2. CASE ~goes
      BY <1>1, <1>2, <1>3, <2>2
    <2> QED BY <2>1, <2>2

\* While the chain and the layer stay, so does what is the chain's.
LEMMA ChainKept ==
  ASSUME UNCHANGED chain, proof'.layer = proof.layer
  PROVE  /\ Nodes' = Nodes /\ TrustedRoot' = TrustedRoot /\ ItemRoot' = ItemRoot
         /\ Kvs(proof.layer)' = Kvs(proof.layer) /\ Subs(proof.layer)' = Subs(proof.layer)
  BY DEF Nodes, TrustedRoot, ItemRoot, Kvs, Subs, KeyHash, KeyTree, ValueHash, SegmentHash

LEMMA PushOK ==
  ASSUME ProofInv, NEW node \in Nodes[proof.layer], Push(node)
  PROVE  ProofInv'
  <1>1. ReadSoFar /\ proof.at = "reading" /\ proof.layer \in Layer /\ UNCHANGED chain
    BY DEF ProofInv, Push, ProofShape
  <1>2. CASE Refuse
    BY <1>1, <1>2, RefuseOK
  <1>3. CASE proof' = [proof EXCEPT !.nodes = @ + 1,
                                    !.stack = Append(@, Placed(node)),
                                    !.carried = IF Shows(node) THEN Append(@, node) ELSE @]
    <2> DEFINE stack == proof.stack
               carried == proof.carried
               n == Len(stack)
    <2>1. /\ ProofShape' /\ proof'.at = "reading" /\ proof'.layer = proof.layer
          /\ proof'.root = proof.root /\ proof'.lower = proof.lower
          /\ proof'.stack = Append(stack, Placed(node))
          /\ proof'.carried = IF Shows(node) THEN Append(carried, node) ELSE carried
      BY <1>1, <1>3 DEF ProofInv, ProofShape
    <2>2. /\ IsSeq(proof'.stack) /\ n \in Nat /\ DOMAIN stack = 1 .. n
          /\ DOMAIN proof'.stack = 1 .. n + 1
          /\ \A i \in 1 .. n : proof'.stack[i] = stack[i]
          /\ proof'.stack[n + 1] = Placed(node)
      BY <1>1, <2>1, Appended DEF ReadSoFar
    <2>3. IsTree(Placed(node)) /\ (Shows(node) => ~Placed(node).opaque) /\ Placed(node).kv = node.hash
      BY DEF IsTree, Placed, Shows
    <2>4. \A i \in DOMAIN proof'.stack : IsTree(proof'.stack[i])
      BY <1>1, <2>2, <2>3 DEF ReadSoFar
    <2>5. (\E i \in DOMAIN stack : Tainted(proof.layer, stack[i]))
            => \E i \in DOMAIN proof'.stack : Tainted(proof.layer, proof'.stack[i])
      BY <2>2
    <2>6. Shows(node) /\ node.hash \notin Kvs(proof.layer)
            => \E i \in DOMAIN proof'.stack : Tainted(proof.layer, proof'.stack[i])
      BY <2>2, <2>3 DEF Tainted
    <2>7. /\ IsSeq(proof'.carried)
          /\ \A c \in DOMAIN proof'.carried :
               \/ proof'.carried[c] = node /\ Shows(node)
               \/ c \in DOMAIN carried /\ proof'.carried[c] = carried[c]
      <3>1. IsSeq(carried)
        BY <1>1 DEF ReadSoFar
      <3>2. CASE ~Shows(node)
        BY <2>1, <3>1, <3>2
      <3>3. CASE Shows(node)
        <4> DEFINE m == Len(carried)
        <4>1. /\ IsSeq(proof'.carried) /\ m \in Nat /\ DOMAIN carried = 1 .. m
              /\ DOMAIN proof'.carried = 1 .. m + 1
              /\ \A i \in 1 .. m : proof'.carried[i] = carried[i]
              /\ proof'.carried[m + 1] = node
          BY <2>1, <3>1, <3>3, Appended
        <4> HIDE DEF m
        <4> QED BY <3>3, <4>1
      <3> QED BY <3>2, <3>3
    <2>8. \A c \in DOMAIN proof'.carried :
            /\ proof'.carried[c] \in Nodes[proof.layer] /\ Shows(proof'.carried[c])
            /\ proof'.carried[c].hash \notin Kvs(proof.layer) =>
                 \E i \in DOMAIN proof'.stack : Tainted(proof.layer, proof'.stack[i])
      BY <1>1, <2>5, <2>6, <2>7 DEF ReadSoFar
    <2>9. /\ Nodes' = Nodes /\ TrustedRoot' = TrustedRoot /\ ItemRoot' = ItemRoot
          /\ Kvs(proof.layer)' = Kvs(proof.layer) /\ Subs(proof.layer)' = Subs(proof.layer)
      BY <1>1, <2>1, ChainKept
    <2>10. \A t : Tainted(proof.layer, t)' <=> Tainted(proof.layer, t)
      BY <2>9 DEF Tainted
    <2>11. /\ IsSeq(proof.stack)' /\ IsSeq(proof.carried)'
           /\ (\A i \in DOMAIN proof.stack : IsTree(proof.stack[i]))'
      BY <2>2, <2>4, <2>7
    <2>12. (\A c \in DOMAIN proof.carried :
              /\ proof.carried[c] \in Nodes[proof.layer] /\ Shows(proof.carried[c])
              /\ proof.carried[c].hash \notin Kvs(proof.layer) =>
                   \E i \in DOMAIN proof.stack : Tainted(proof.layer, proof.stack[i]))'
      BY <2>1, <2>8, <2>9, <2>10
    <2>13. ReadSoFar'
      BY <1>1, <2>1, <2>9, <2>11, <2>12 DEF ReadSoFar
    <2> QED BY <1>1, <2>1, <2>13 DEF ProofInv, ChainOK
  <1> QED BY <1>2, <1>3 DEF Push

LEMMA JoinOK ==
  ASSUME ProofInv, NEW parentLast \in BOOLEAN, NEW side \in {"left", "right"}, Join(parentLast, side)
  PROVE  ProofInv'
  <1> DEFINE stack == proof.stack
             n == Len(stack)
             parent == IF parentLast THEN stack[n] ELSE stack[n - 1]
             child == IF parentLast THEN stack[n - 1] ELSE stack[n]
  <1>1. ReadSoFar /\ proof.at = "reading" /\ proof.layer \in Layer /\ UNCHANGED chain
    BY DEF ProofInv, Join, ProofShape
  <1>2. CASE Refuse
    BY <1>1, <1>2, RefuseOK
  <1>3. CASE /\ n >= 2 /\ MayJoin(parent) /\ Free(parent, side)
             /\ proof' = [proof EXCEPT !.stack =
                            Append(SubSeq(@, 1, Len(@) - 2), Attached(parent, child, side))]
    <2> DEFINE rest == SubSeq(stack, 1, n - 2)
               tree == Attached(parent, child, side)
    <2>1. /\ ProofShape' /\ proof'.at = "reading" /\ proof'.layer = proof.layer
          /\ proof'.root = proof.root /\ proof'.lower = proof.lower /\ proof'.carried = proof.carried
          /\ proof'.stack = Append(rest, tree)
      BY <1>1, <1>3 DEF ProofInv, ProofShape
    <2>2. IsSeq(stack) /\ n \in Nat /\ DOMAIN stack = 1 .. n
      BY <1>1, Appended DEF ReadSoFar
    <2>3. IsSeq(rest) /\ Len(rest) = n - 2 /\ \A i \in 1 .. n - 2 : rest[i] = stack[i]
      <3>1. n - 2 \in Nat /\ n - 2 <= Len(stack)
        BY <1>3, <2>2
      <3> HIDE DEF n
      <3> QED BY <2>2, <3>1, Shortened
    <2>4. /\ IsSeq(proof'.stack) /\ DOMAIN proof'.stack = 1 .. n - 1
          /\ \A i \in 1 .. n - 2 : proof'.stack[i] = stack[i]
          /\ proof'.stack[n - 1] = tree
      <3>1. /\ IsSeq(Append(rest, tree)) /\ DOMAIN Append(rest, tree) = 1 .. (n - 2) + 1
            /\ \A i \in 1 .. n - 2 : Append(rest, tree)[i] = rest[i]
            /\ Append(rest, tree)[(n - 2) + 1] = tree
        BY <2>3, Appended
      <3>2. (n - 2) + 1 = n - 1
        BY <2>2
      <3> HIDE DEF rest, tree, n
      <3> QED BY <2>1, <2>3, <3>1, <3>2
    <2>5. n \in 1 .. n /\ n - 1 \in 1 .. n /\ IsTree(parent)
      <3>1. n \in 1 .. n /\ n - 1 \in 1 .. n
        BY <1>3, <2>2
      <3>2. \A i \in 1 .. n : IsTree(stack[i])
        BY <1>1, <2>2 DEF ReadSoFar
      <3> HIDE DEF n, stack
      <3> QED BY <3>1, <3>2
    <2>6. IsTree(tree)
      BY <2>5, AttachedIs
    <2>7. Tainted(proof.layer, parent) \/ Tainted(proof.layer, child) => Tainted(proof.layer, tree)
      BY <1>1, <1>3, <2>5, TaintStays
    <2>8. ASSUME NEW i \in DOMAIN stack, Tainted(proof.layer, stack[i])
          PROVE  \E k \in DOMAIN proof'.stack : Tainted(proof.layer, proof'.stack[k])
      <3>1. CASE i \in 1 .. n - 2
        BY <2>2, <2>4, <2>8, <3>1
      <3>2. CASE i \in {n - 1, n}
        <4>1. Tainted(proof.layer, tree)
          BY <2>7, <2>8, <3>2
        <4> HIDE DEF tree
        <4> QED BY <1>3, <2>2, <2>4, <4>1
      <3> QED BY <2>2, <3>1, <3>2
    <2> HIDE DEF tree, rest
    <2>9. \A i \in DOMAIN proof'.stack : IsTree(proof'.stack[i])
      BY <1>1, <1>3, <2>2, <2>4, <2>6 DEF ReadSoFar
    <2>10. ProofShape' /\ ReadSoFar'
      <3>1. /\ Nodes' = Nodes /\ TrustedRoot' = TrustedRoot /\ ItemRoot' = ItemRoot
            /\ Kvs(proof.layer)' = Kvs(proof.layer) /\ Subs(proof.layer)' = Subs(proof.layer)
        BY <1>1, <2>1, ChainKept
      <3>2. \A t : Tainted(proof.layer, t)' <=> Tainted(proof.layer, t)
        BY <3>1 DEF Tainted
      <3>3. (\A c \in DOMAIN proof.carried :
                /\ proof.carried[c] \in Nodes[proof.layer] /\ Shows(proof.carried[c])
                /\ proof.carried[c].hash \notin Kvs(proof.layer) =>
                     \E i \in DOMAIN proof.stack : Tainted(proof.layer, proof.stack[i]))'
        <4>1. \A c \in DOMAIN proof.carried :
                /\ proof.carried[c] \in Nodes[proof.layer] /\ Shows(proof.carried[c])
                /\ proof.carried[c].hash \notin Kvs(proof.layer) =>
                     \E i \in DOMAIN proof'.stack : Tainted(proof.layer, proof'.stack[i])
          BY <1>1, <2>8 DEF ReadSoFar
        <4> QED BY <2>1, <3>1, <3>2, <4>1
      <3>4. /\ IsSeq(proof.stack)' /\ IsSeq(proof.carried)'
            /\ (\A i \in DOMAIN proof.stack : IsTree(proof.stack[i]))'
        BY <1>1, <2>1, <2>4, <2>9 DEF ReadSoFar
      <3> QED BY <1>1, <2>1, <3>1, <3>3, <3>4 DEF ReadSoFar
    <2> QED BY <1>1, <2>1, <2>10 DEF ProofInv, ChainOK
  <1> QED BY <1>2, <1>3 DEF Join

\* A tree that is the layer's root is of the chain's, and so is the node it shows.
LEMMA RootIsTrue ==
  ASSUME ReadSoFar, proof.layer \in Layer, OneTree, Len(proof.carried) = 1,
         HashOf(proof.stack[1]) = TrueRoot(proof.layer)
  PROVE  proof.carried[1].hash \in Kvs(proof.layer)
  <1>1. DOMAIN proof.stack = {1} /\ 1 \in DOMAIN proof.carried
    BY DEF ReadSoFar, IsSeq, OneTree
  <1>2. ~Tainted(proof.layer, proof.stack[1])
    BY TaintShows
  <1> QED BY <1>1, <1>2 DEF ReadSoFar

LEMMA EndRootOK ==
  ASSUME ProofInv, EndRootLayer
  PROVE  ProofInv'
  <1> DEFINE node == proof.carried[1]
  <1>1. /\ ReadSoFar /\ proof.at = "reading" /\ proof.layer = "root" /\ proof.layer \in Layer
        /\ UNCHANGED chain
    BY DEF ProofInv, EndRootLayer, ProofShape
  <1>2. CASE Refuse
    BY <1>1, <1>2, RefuseOK
  <1>3. CASE /\ OneTree /\ Len(proof.carried) = 1 /\ node.form = "KVValueHash"
             /\ proof' = [NoProof EXCEPT !.at = "reading", !.layer = "item",
                                         !.root = HashOf(proof.stack[1]), !.lower = node.value]
    <2>1. /\ ProofShape' /\ proof'.at = "reading" /\ proof'.layer = "item"
          /\ proof'.root = HashOf(proof.stack[1]) /\ proof'.lower = node.value
          /\ proof'.stack = <<>> /\ proof'.carried = <<>>
      BY <1>3 DEF NoProof, ProofShape, Layer
    <2>2. ASSUME HashOf(proof.stack[1]) = TrustedRoot
          PROVE  node.value = ItemRoot
      <3>1. node.hash = SegmentHash(ItemRoot)
        BY <1>1, <1>3, <2>2, RootIsTrue DEF Kvs, TrueRoot
      <3>2. node \in Nodes["root"]
        BY <1>1, <1>3 DEF ReadSoFar, IsSeq
      <3>3. node.hash = KvHash("segment", Combined("subtree", node.value))
        BY <1>3, <3>2 DEF Nodes, Node, Opaque, Hidden
      <3> QED BY <3>1, <3>3 DEF SegmentHash, KvHash, Combined
    <2>3. TrustedRoot' = TrustedRoot /\ ItemRoot' = ItemRoot
      BY <1>1 DEF TrustedRoot, ItemRoot, KeyTree, KeyHash, ValueHash, SegmentHash
    <2>4. IsSeq(<<>>)
      BY DEF IsSeq
    <2>5. ReadSoFar'
      BY <2>1, <2>2, <2>3, <2>4 DEF ReadSoFar
    <2> QED BY <1>1, <2>1, <2>5 DEF ProofInv, ChainOK
  <1> QED BY <1>2, <1>3 DEF EndRootLayer

\* The value a node binds is the chain's, when its hash is.
LEMMA BoundIsHeld ==
  ASSUME ChainOK, NEW value \in Value, Unambiguous(value),
         KvHash("key", ValueHash(value)) \in {KeyHash, Other}
  PROVE  value = chain.holds
  <1>1. ValueHash(value) = ValueHash(chain.holds)
    BY DEF KeyHash, Other, KvHash
  <1>2. CASE chain.holds # Subtree
    BY <1>1, <1>2 DEF ValueHash
  <1>3. CASE chain.holds = Subtree
    <2>1. value \notin {Amb, Subtree}
      BY <1>3, ProofAssumption DEF ChainOK, Unambiguous
    <2> QED BY <1>1, <1>3, <2>1 DEF ValueHash, SubtreeHash, Combined
  <1> QED BY <1>2, <1>3

LEMMA EndItemOK ==
  ASSUME ProofInv, EndItemLayer
  PROVE  ProofInv'
  <1> DEFINE node == proof.carried[1]
  <1>1. /\ ReadSoFar /\ proof.at = "reading" /\ proof.layer = "item" /\ proof.layer \in Layer
        /\ UNCHANGED chain
    BY DEF ProofInv, EndItemLayer, ProofShape
  <1>2. CASE Refuse
    BY <1>1, <1>2, RefuseOK
  <1>3. CASE /\ OneTree /\ Len(proof.carried) = 1 /\ Binds(node) /\ Unambiguous(node.value)
             /\ HashOf(proof.stack[1]) = proof.lower
             /\ proof' = [NoProof EXCEPT !.at = "proved", !.root = proof.root, !.value = node.value]
    <2>1. /\ ProofShape' /\ proof'.at = "proved" /\ proof'.root = proof.root
          /\ proof'.value = node.value
      BY <1>3 DEF NoProof, ProofShape, Layer
    <2>2. ASSUME proof.root = TrustedRoot
          PROVE  node.value = chain.holds
      <3>1. HashOf(proof.stack[1]) = ItemRoot
        BY <1>1, <1>3, <2>2 DEF ReadSoFar
      <3>2. node.hash \in {KeyHash, Other}
        BY <1>1, <1>3, <3>1, RootIsTrue DEF Kvs, TrueRoot
      <3>3. node \in Nodes["item"]
        BY <1>1, <1>3 DEF ReadSoFar, IsSeq
      <3>4. node.value \in Value /\ node.hash = KvHash("key", ValueHash(node.value))
        BY <1>3, <3>3 DEF Binds, Nodes, Node, Opaque, Hidden
      <3> QED BY <1>3, <3>2, <3>4, BoundIsHeld DEF ProofInv
    <2>3. TrustedRoot' = TrustedRoot
      BY <1>1 DEF TrustedRoot, ItemRoot, KeyTree, KeyHash, ValueHash, SegmentHash
    <2> QED BY <1>1, <2>1, <2>2, <2>3 DEF ProofInv, ChainOK
  <1> QED BY <1>2, <1>3 DEF EndItemLayer

LEMMA CompareOK ==
  ASSUME ProofInv, NEW value \in Value, Compare(value)
  PROVE  ProofInv'
  <1>1. proof.at = "proved" /\ UNCHANGED chain
    BY DEF Compare
  <1>2. CASE Refuse
    BY <1>1, <1>2, RefuseOK
  <1>3. CASE Accepts(value) /\ proof' = [proof EXCEPT !.at = "accepted", !.value = value]
    <2>1. /\ ProofShape' /\ proof'.at = "accepted" /\ proof'.root = proof.root
          /\ proof'.value = value
      BY <1>3 DEF ProofInv, ProofShape
    <2>2. TrustedRoot' = TrustedRoot
      BY <1>1 DEF TrustedRoot, ItemRoot, KeyTree, KeyHash, ValueHash, SegmentHash
    <2> QED BY <1>1, <1>3, <2>1, <2>2 DEF ProofInv, ChainOK, Accepts
  <1> QED BY <1>2, <1>3 DEF Compare

LEMMA ProofStepOK ==
  ASSUME ProofInv, Proving \/ ProofStep \/ UNCHANGED proofVars
  PROVE  ProofInv'
  <1>1. CASE UNCHANGED proofVars
    <2>1. UNCHANGED <<chain, proof>>
      BY <1>1 DEF proofVars
    <2>2. /\ Nodes' = Nodes /\ TrustedRoot' = TrustedRoot /\ ItemRoot' = ItemRoot
          /\ Kvs(proof.layer)' = Kvs(proof.layer) /\ Subs(proof.layer)' = Subs(proof.layer)
      BY <2>1, ChainKept
    <2>3. \A t : Tainted(proof.layer, t)' <=> Tainted(proof.layer, t)
      BY <2>2 DEF Tainted
    <2>4. ReadSoFar => ReadSoFar'
      BY <2>1, <2>2, <2>3 DEF ReadSoFar
    <2> QED BY <2>1, <2>2, <2>4 DEF ProofInv, ProofShape, ChainOK
  <1> QED BY <1>1, BeginOK, PushOK, JoinOK, EndRootOK, EndItemOK, CompareOK DEF ProofStep

LEMMA ProofInvSuffices == ProofInv => ItemProved
  BY DEF ProofInv, ItemProved

-----------------------------------------------------------------------------
(* A block's completeness *)

\* What a preimage is made of.
Atom == Cell \cup Nat \cup Block \cup {"WILLOW_CRYPTO_EVENTS_V1"}

LEMMA LogParts ==
  ASSUME NEW x \in Logs, NEW t \in Seq(Atom)
  PROVE  /\ LogBytes(x) \in Seq(Atom)
         /\ <<x.address, Len(x.topics)>> \in Seq(Atom) /\ <<Len(x.data)>> \in Seq(Atom)
         /\ x.topics \in Seq(Atom) /\ x.data \in Seq(Atom)
         /\ Cat(LogBytes(x), t) =
              Cat(<<x.address, Len(x.topics)>>, Cat(x.topics, Cat(<<Len(x.data)>>, Cat(x.data, t))))
  <1> DEFINE head == <<x.address, Len(x.topics)>>
             size == <<Len(x.data)>>
             topics == x.topics
             data == x.data
  <1>1. /\ topics \in Seq(Cell) /\ data \in Seq(Cell) /\ x.address \in Cell
        /\ Len(topics) \in Nat /\ Len(data) \in Nat
    BY DEF Logs
  <1>2. topics \in Seq(Atom) /\ data \in Seq(Atom)
    BY <1>1, SeqMonotonic DEF Atom
  <1>3. head \in Seq(Atom) /\ size \in Seq(Atom)
    BY <1>1 DEF Atom
  <1>4. LogBytes(x) = Cat(Cat(Cat(head, topics), size), data)
    BY DEF LogBytes, Cat
  <1> HIDE DEF head, topics, size, data
  <1>5. Cat(head, topics) \in Seq(Atom) /\ Cat(Cat(head, topics), size) \in Seq(Atom)
    BY <1>2, <1>3, CatFacts, Zenon
  <1>6. LogBytes(x) \in Seq(Atom)
    <2>1. Cat(Cat(Cat(head, topics), size), data) \in Seq(Atom)
      BY <1>2, <1>5, CatFacts
    <2> QED BY <1>4, <2>1
  <1>7. Cat(data, t) \in Seq(Atom) /\ Cat(size, Cat(data, t)) \in Seq(Atom)
    BY <1>2, <1>3, CatFacts, Zenon
  <1>8. \A p, q, r \in Seq(Atom) : Cat(Cat(p, q), r) = Cat(p, Cat(q, r))
    BY CatFacts
  <1>9. Cat(Cat(Cat(Cat(head, topics), size), data), t)
          = Cat(Cat(Cat(head, topics), size), Cat(data, t))
    BY <1>2, <1>5, <1>8
  <1>10. Cat(Cat(Cat(head, topics), size), Cat(data, t))
          = Cat(Cat(head, topics), Cat(size, Cat(data, t)))
    BY <1>3, <1>5, <1>7, <1>8
  <1>11. Cat(Cat(head, topics), Cat(size, Cat(data, t)))
          = Cat(head, Cat(topics, Cat(size, Cat(data, t))))
    BY <1>2, <1>3, <1>7, <1>8
  <1>12. Cat(LogBytes(x), t) = Cat(head, Cat(topics, Cat(size, Cat(data, t))))
    BY <1>4, <1>9, <1>10, <1>11
  <1> QED BY <1>2, <1>3, <1>6, <1>12 DEF head, topics, size, data

\* A log is told from any other, whatever follows either.
LEMMA LogDecodes ==
  ASSUME NEW x \in Logs, NEW y \in Logs, NEW t \in Seq(Atom), NEW u \in Seq(Atom),
         Cat(LogBytes(x), t) = Cat(LogBytes(y), u)
  PROVE  x = y /\ t = u
  <1> DEFINE hx == <<x.address, Len(x.topics)>>
             hy == <<y.address, Len(y.topics)>>
             cx == <<Len(x.data)>>
             cy == <<Len(y.data)>>
             dx == Cat(x.data, t)
             dy == Cat(y.data, u)
             tx == Cat(x.topics, Cat(cx, dx))
             ty == Cat(y.topics, Cat(cy, dy))
  <1>1. /\ hx \in Seq(Atom) /\ hy \in Seq(Atom) /\ cx \in Seq(Atom) /\ cy \in Seq(Atom)
        /\ x.topics \in Seq(Atom) /\ y.topics \in Seq(Atom)
        /\ x.data \in Seq(Atom) /\ y.data \in Seq(Atom)
        /\ Cat(hx, tx) = Cat(hy, ty)
    BY LogParts
  <1>2. Len(hx) = Len(hy) /\ Len(cx) = Len(cy)
    OBVIOUS
  <1> HIDE DEF hx, hy, cx, cy
  <1>3. dx \in Seq(Atom) /\ dy \in Seq(Atom)
    BY <1>1, CatFacts, Zenon
  <1> HIDE DEF dx, dy
  <1>4. Cat(cx, dx) \in Seq(Atom) /\ Cat(cy, dy) \in Seq(Atom)
    BY <1>1, <1>3, CatFacts, Zenon
  <1>5. tx \in Seq(Atom) /\ ty \in Seq(Atom)
    BY <1>1, <1>4, CatFacts, Zenon
  <1> HIDE DEF tx, ty
  <1>6. hx = hy /\ tx = ty
    BY <1>1, <1>2, <1>5, SameSplit
  <1>7. x.address = y.address /\ Len(x.topics) = Len(y.topics)
    BY <1>6 DEF hx, hy
  <1>8. x.topics = y.topics /\ Cat(cx, dx) = Cat(cy, dy)
    BY <1>1, <1>4, <1>6, <1>7, SameSplit DEF tx, ty
  <1>9. cx = cy /\ dx = dy
    BY <1>1, <1>2, <1>3, <1>8, SameSplit
  <1>10. Len(x.data) = Len(y.data)
    BY <1>9 DEF cx, cy
  <1>11. x.data = y.data /\ t = u
    BY <1>1, <1>9, <1>10, SameSplit DEF dx, dy
  <1> QED BY <1>7, <1>8, <1>11 DEF Logs

Parts(logs) == [i \in DOMAIN logs |-> LogBytes(logs[i])]

LEMMA PartsTyped ==
  ASSUME NEW x \in Seq(Logs)
  PROVE  /\ Parts(x) \in Seq(Seq(Atom)) /\ Len(Parts(x)) = Len(x)
         /\ \A i \in 1 .. Len(x) : x[i] \in Logs /\ Parts(x)[i] = LogBytes(x[i])
  <1>1. Len(x) \in Nat /\ DOMAIN x = 1 .. Len(x) /\ \A i \in 1 .. Len(x) : x[i] \in Logs
    OBVIOUS
  <1>2. \A i \in 1 .. Len(x) : LogBytes(x[i]) \in Seq(Atom)
    <2>1. <<>> \in Seq(Atom)
      OBVIOUS
    <2> QED BY <1>1, <2>1, LogParts
  <1>3. Parts(x) \in [1 .. Len(x) -> Seq(Atom)] /\ \A i \in 1 .. Len(x) : Parts(x)[i] = LogBytes(x[i])
    BY <1>1, <1>2 DEF Parts
  <1>4. Parts(x) \in Seq(Seq(Atom)) /\ Len(Parts(x)) = Len(x)
    <2> HIDE DEF Parts
    <2> QED BY <1>1, <1>3
  <1> QED BY <1>1, <1>3, <1>4

\* Different log sets of a block have different hashes.
LEMMA HashTells ==
  ASSUME NEW x \in Seq(Logs), NEW y \in Seq(Logs), NEW block \in Block,
         CanonicalHash(block, x) = CanonicalHash(block, y)
  PROVE  x = y
  <1> DEFINE a == Parts(x)
             b == Parts(y)
             hx == <<"WILLOW_CRYPTO_EVENTS_V1", block, Len(x)>>
             hy == <<"WILLOW_CRYPTO_EVENTS_V1", block, Len(y)>>
             fx == FlattenSeq(a)
             fy == FlattenSeq(b)
  <1>1. /\ a \in Seq(Seq(Atom)) /\ Len(a) = Len(x)
        /\ \A i \in 1 .. Len(x) : x[i] \in Logs /\ a[i] = LogBytes(x[i])
    BY PartsTyped
  <1>2. /\ b \in Seq(Seq(Atom)) /\ Len(b) = Len(y)
        /\ \A i \in 1 .. Len(y) : y[i] \in Logs /\ b[i] = LogBytes(y[i])
    BY PartsTyped
  <1> HIDE DEF a, b
  <1>3. fx \in Seq(Atom) /\ fy \in Seq(Atom)
    BY <1>1, <1>2, FlatTyped
  <1>4. Cat(hx, fx) = Cat(hy, fy)
    BY DEF CanonicalHash, Cat, Parts, a, b
  <1>5. hx \in Seq(Atom) /\ hy \in Seq(Atom) /\ Len(hx) = Len(hy)
    <2>1. Len(x) \in Nat /\ Len(y) \in Nat
      OBVIOUS
    <2>2. /\ "WILLOW_CRYPTO_EVENTS_V1" \in Atom /\ block \in Atom
          /\ Len(x) \in Atom /\ Len(y) \in Atom
      BY <2>1 DEF Atom
    <2> QED BY <2>2
  <1> HIDE DEF hx, hy, fx, fy
  <1>6. hx = hy /\ fx = fy
    BY <1>3, <1>4, <1>5, SameSplit
  <1>7. Len(x) = Len(y)
    BY <1>6 DEF hx, hy
  <1>8. Precede(a, Seq(Atom)) /\ Precede(b, Seq(Atom))
    <2>1. /\ \A i \in 1 .. Len(a) : a[i] \in Seq(Atom)
          /\ \A i \in 1 .. Len(b) : b[i] \in Seq(Atom)
      BY <1>1, <1>2
    <2> QED BY <2>1, CatFacts DEF Precede
  <1>9. Differ(a, b, Seq(Atom))
    <2> USE DEF Differ
    <2> TAKE i \in 1 .. Len(a), t \in Seq(Atom), u \in Seq(Atom)
    <2>1. x[i] \in Logs /\ y[i] \in Logs /\ a[i] = LogBytes(x[i]) /\ b[i] = LogBytes(y[i])
      BY <1>1, <1>2, <1>7
    <2>2. Cat(LogBytes(x[i]), t) = Cat(LogBytes(y[i]), u) => x[i] = y[i] /\ t = u
      BY <2>1, LogDecodes
    <2> QED BY <2>1, <2>2
  <1>10. <<>> \in Seq(Atom) /\ Cat(fx, <<>>) = Cat(fy, <<>>)
    BY <1>6
  <1>11. Len(a) = Len(b) /\ Seq(Atom) \in SUBSET Seq(Atom)
    BY <1>1, <1>2, <1>7
  <1>12. a = b
    <2>1. Decodes(a, b, Seq(Atom))
      BY <1>1, <1>2, <1>8, <1>9, <1>11, FlatDecodes
    <2> QED BY <1>10, <2>1 DEF Decodes, fx, fy
  <1>13. \A i \in 1 .. Len(x) : x[i] = y[i]
    <2> TAKE i \in 1 .. Len(x)
    <2>1. x[i] \in Logs /\ y[i] \in Logs /\ LogBytes(x[i]) = LogBytes(y[i])
      BY <1>1, <1>2, <1>7, <1>12
    <2>2. <<>> \in Seq(Atom) /\ Cat(LogBytes(x[i]), <<>>) = Cat(LogBytes(y[i]), <<>>)
      BY <2>1
    <2> QED BY <2>1, <2>2, LogDecodes
  <1> QED BY <1>7, <1>13, SeqEqual

\* The commitment compared with is that of the block's logs, and a verdict is on what was served.
CheckShape ==
  check = [ at |-> check.at, commitment |-> check.commitment, served |-> check.served,
            result |-> check.result ]

CompletenessInv ==
  /\ truth \in Matched \cup {<<>>} /\ CheckShape
  /\ check.at # "done" => check.result = "none"
  /\ check.at = "serve" => check.commitment = CanonicalHash("asked", truth)
  /\ check.result \in {"complete", "incomplete"} =>
       (check.result = "complete" <=> check.served = truth)

LEMMA CompletenessFirst == CompletenessInit => CompletenessInv
  BY DEF CompletenessInit, CompletenessInv, CheckShape, NoCheck

LEMMA TruthTyped ==
  ASSUME CompletenessInv PROVE truth \in Seq(Logs)
  <1>1. <<>> \in Seq(Logs)
    OBVIOUS
  <1> QED BY <1>1, CompletenessAssumption DEF CompletenessInv

LEMMA CompletenessStepOK ==
  ASSUME CompletenessInv, Checking \/ CompletenessStep \/ UNCHANGED completenessVars
  PROVE  CompletenessInv'
  <1>0. truth \in Seq(Logs)
    BY TruthTyped
  <1> USE DEF CompletenessInv, CheckShape
  <1>1. CASE UNCHANGED completenessVars
    <2>1. UNCHANGED <<truth, check>>
      BY <1>1 DEF completenessVars
    <2> QED BY <2>1 DEF CanonicalHash
  <1>2. CASE Checking
    BY <1>2 DEF Checking, BeginCheck
  <1>3. ASSUME NEW block \in Block, ReadAnchor(block)
        PROVE  CompletenessInv'
    <2>1. CanonicalHash("asked", truth)' = CanonicalHash("asked", truth) /\ UNCHANGED truth
      BY <1>3 DEF ReadAnchor, CanonicalHash
    <2>2. CASE NamesTheAsked(block)
      <3>1. Anchor(block) = CanonicalHash("asked", truth)
        BY <2>2 DEF NamesTheAsked, Anchor
      <3> QED BY <1>3, <2>1, <2>2, <3>1 DEF ReadAnchor
    <2>3. CASE ~NamesTheAsked(block)
      BY <1>3, <2>1, <2>3 DEF ReadAnchor, Verdict
    <2> QED BY <2>2, <2>3
  <1>4. CASE NoAnchor \/ NotServed
    BY <1>4 DEF NoAnchor, NotServed, Verdict
  <1>5. ASSUME NEW logs \in Served, ServeLogs(logs)
        PROVE  CompletenessInv'
    <2>1. VerifyServedEvents(logs) <=> logs = truth
      <3>1. check.commitment = CanonicalHash("asked", truth) /\ logs \in Seq(Logs)
        BY <1>5, CompletenessAssumption DEF ServeLogs
      <3>2. "asked" \in Block
        BY DEF Block
      <3>3. CanonicalHash("asked", logs) = CanonicalHash("asked", truth) => logs = truth
        BY <1>0, <3>1, <3>2, HashTells
      <3> QED BY <3>1, <3>3 DEF VerifyServedEvents
    <2>2. /\ UNCHANGED truth /\ CheckShape' /\ check'.at = "done" /\ check'.served = logs
          /\ check'.result = IF logs = truth THEN "complete" ELSE "incomplete"
      BY <1>5, <2>1 DEF ServeLogs
    <2> QED BY <2>2
  <1> QED BY <1>1, <1>2, <1>3, <1>4, <1>5 DEF CompletenessStep

LEMMA CompletenessInvSuffices == CompletenessInv => VerdictIsTrue
  BY DEF CompletenessInv, VerdictIsTrue

-----------------------------------------------------------------------------
(* Signatures *)

\* Texts that hold no mark, each behind something, are told from each other when what follows
\* each begins with the mark, or is nothing.
Free1(S, mark) == {text \in Seq(S) : ~Has(text, mark)}
After(S, mark) == {t \in Seq(S) : t = <<>> \/ t[1] = mark}

LEMMA TextShorter ==
  ASSUME NEW S, NEW mark, NEW p \in Seq(S), NEW q \in Free1(S, mark),
         NEW t \in After(S, mark), NEW u \in Seq(S), Cat(p, t) = Cat(q, u)
  PROVE  Len(q) <= Len(p)
  <1> SUFFICES ASSUME Len(p) < Len(q) PROVE FALSE
    BY DEF Free1
  <1>1. /\ q \in Seq(S) /\ t \in Seq(S) /\ Len(p) \in Nat /\ Len(q) \in Nat
        /\ Len(t) \in Nat /\ Len(u) \in Nat /\ p \o t = q \o u
    BY DEF Free1, After, Cat
  <1>2. /\ Len(p \o t) = Len(p) + Len(t)
        /\ \A i \in 1 .. Len(p) + Len(t) : (p \o t)[i] = IF i <= Len(p) THEN p[i] ELSE t[i - Len(p)]
    BY <1>1, ConcatProperties
  <1>3. /\ Len(q \o u) = Len(q) + Len(u)
        /\ \A i \in 1 .. Len(q) + Len(u) : (q \o u)[i] = IF i <= Len(q) THEN q[i] ELSE u[i - Len(q)]
    BY <1>1, ConcatProperties
  <1> DEFINE c == p \o t
             k == Len(p) + 1
  <1>4. k \in 1 .. Len(q) /\ k \in 1 .. Len(p) + Len(t) /\ k - Len(p) = 1 /\ ~(k <= Len(p))
    BY <1>1, <1>2, <1>3
  <1>5. c[k] = t[1] /\ c[k] = q[k]
    <2>1. (p \o t)[k] = t[1]
      BY <1>2, <1>4
    <2>2. (q \o u)[k] = q[k]
      BY <1>1, <1>3, <1>4
    <2> QED BY <1>1, <2>1, <2>2
  <1> HIDE DEF c
  <1>6. t # <<>>
    BY <1>1, <1>4
  <1>7. q[k] = mark
    BY <1>5, <1>6 DEF After
  <1> QED BY <1>1, <1>4, <1>7 DEF Free1, Has

LEMMA TextSplit ==
  ASSUME NEW S, NEW mark, NEW p \in Free1(S, mark), NEW q \in Free1(S, mark),
         NEW t \in After(S, mark), NEW u \in After(S, mark), Cat(p, t) = Cat(q, u)
  PROVE  p = q /\ t = u
  <1>1. p \in Seq(S) /\ q \in Seq(S) /\ t \in Seq(S) /\ u \in Seq(S)
    BY DEF Free1, After
  <1>2. Len(q) <= Len(p) /\ Len(p) <= Len(q)
    <2>1. Len(q) <= Len(p)
      BY <1>1, TextShorter
    <2>2. Cat(q, u) = Cat(p, t)
      OBVIOUS
    <2>3. Len(p) <= Len(q)
      BY <1>1, <2>2, TextShorter
    <2> QED BY <2>1, <2>3
  <1>3. Len(p) = Len(q)
    BY <1>1, <1>2
  <1> QED BY <1>1, <1>3, SameSplit

\* A piece is a head, that begins with the mark, and a text.
Heads(S, mark) == {h \in Seq(S) : h # <<>> /\ h[1] = mark}

LEMMA PieceFacts ==
  ASSUME NEW S, NEW mark, NEW h \in Seq(S), h # <<>>, h[1] = mark, NEW p \in Seq(S)
  PROVE  /\ Cat(h, p) \in Seq(S) /\ After(S, mark) \in SUBSET Seq(S)
         /\ \A t \in Seq(S) : /\ Cat(Cat(h, p), t) \in After(S, mark)
                              /\ Cat(Cat(h, p), t) = Cat(h, Cat(p, t)) /\ Cat(p, t) \in Seq(S)
  <1>1. Cat(h, p) \in Seq(S) /\ After(S, mark) \in SUBSET Seq(S)
    BY CatFacts DEF After
  <1>2. ASSUME NEW t \in Seq(S)
        PROVE  /\ Cat(Cat(h, p), t) \in After(S, mark)
               /\ Cat(Cat(h, p), t) = Cat(h, Cat(p, t)) /\ Cat(p, t) \in Seq(S)
    <2> DEFINE r == Cat(p, t)
    <2>1. r \in Seq(S) /\ Cat(Cat(h, p), t) = Cat(h, r)
      BY CatFacts
    <2> HIDE DEF r
    <2>2. Cat(h, r) \in Seq(S) /\ Cat(h, r)[1] = mark
      <3>1. Len(h) >= 1 /\ Len(h) \in Nat /\ Len(r) \in Nat
        BY <2>1
      <3>2. h \o r \in Seq(S) /\ (h \o r)[1] = h[1]
        BY <2>1, <3>1, ConcatProperties
      <3> QED BY <3>2 DEF Cat
    <2> QED BY <2>1, <2>2 DEF After, r
  <1> QED BY <1>1, <1>2

Splits(h, S, mark) ==
  \A p, q \in Free1(S, mark) : \A t, u \in After(S, mark) :
    Cat(Cat(h, p), t) = Cat(Cat(h, q), u) => p = q /\ t = u

LEMMA PieceSplit ==
  ASSUME NEW S, NEW mark, NEW h \in Heads(S, mark)
  PROVE  Splits(h, S, mark)
  <1> SUFFICES ASSUME NEW p \in Free1(S, mark), NEW q \in Free1(S, mark),
                      NEW t \in After(S, mark), NEW u \in After(S, mark),
                      Cat(Cat(h, p), t) = Cat(Cat(h, q), u)
               PROVE  p = q /\ t = u
    BY DEF Splits
  <1>1. /\ p \in Seq(S) /\ q \in Seq(S) /\ t \in Seq(S) /\ u \in Seq(S)
        /\ h \in Seq(S) /\ h # <<>> /\ h[1] = mark
    BY DEF Free1, After, Heads
  <1>2. /\ Cat(h, Cat(p, t)) = Cat(h, Cat(q, u))
        /\ Cat(p, t) \in Seq(S) /\ Cat(q, u) \in Seq(S)
    BY <1>1, PieceFacts
  <1>3. Cat(p, t) = Cat(q, u)
    BY <1>1, <1>2, SameSplit
  <1> QED BY <1>3, TextSplit

\* The pieces of a message: ss is of n heads, each with its text.
Pieces(ss, heads, texts, n) ==
  Len(ss) = n /\ \A i \in 1 .. n : ss[i] = Cat(heads[i], texts[i])

LEMMA PiecesPrecede ==
  ASSUME NEW S, NEW mark, NEW n \in Nat, NEW heads \in [1 .. n -> Heads(S, mark)],
         NEW texts \in [1 .. n -> Seq(S)], NEW ss \in Seq(Seq(S)), Pieces(ss, heads, texts, n)
  PROVE  Precede(ss, After(S, mark))
  <1> SUFFICES ASSUME NEW i \in 1 .. Len(ss), NEW t \in After(S, mark)
               PROVE  Cat(ss[i], t) \in After(S, mark)
    BY DEF Precede
  <1> DEFINE h == heads[i]
             p == texts[i]
  <1>1. h \in Heads(S, mark) /\ p \in Seq(S) /\ ss[i] = Cat(h, p) /\ t \in Seq(S)
    BY DEF Pieces, After
  <1> HIDE DEF h, p
  <1>2. h \in Seq(S) /\ h # <<>> /\ h[1] = mark
    BY <1>1 DEF Heads
  <1>3. Cat(Cat(h, p), t) \in After(S, mark)
    BY <1>1, <1>2, PieceFacts
  <1> QED BY <1>1, <1>3

PiecesApart(a, b, p, q, S, mark, n) ==
  \A i \in 1 .. n : \A t, u \in After(S, mark) :
    Cat(a[i], t) = Cat(b[i], u) => p[i] = q[i] /\ t = u

LEMMA PiecesDiffer ==
  ASSUME NEW S, NEW mark, NEW n \in Nat, NEW heads \in [1 .. n -> Heads(S, mark)],
         NEW p \in [1 .. n -> Free1(S, mark)], NEW q \in [1 .. n -> Free1(S, mark)],
         NEW a, NEW b, Pieces(a, heads, p, n), Pieces(b, heads, q, n)
  PROVE  PiecesApart(a, b, p, q, S, mark, n)
  <1> SUFFICES ASSUME NEW i \in 1 .. n, NEW t \in After(S, mark), NEW u \in After(S, mark),
                      Cat(a[i], t) = Cat(b[i], u)
               PROVE  p[i] = q[i] /\ t = u
    BY DEF PiecesApart
  <1>1. /\ heads[i] \in Heads(S, mark) /\ p[i] \in Free1(S, mark) /\ q[i] \in Free1(S, mark)
        /\ a[i] = Cat(heads[i], p[i]) /\ b[i] = Cat(heads[i], q[i])
    BY DEF Pieces
  <1>2. Splits(heads[i], S, mark)
    BY <1>1, PieceSplit
  <1> DEFINE h == heads[i]
             x == p[i]
             y == q[i]
  <1>3. /\ Cat(Cat(h, x), t) = Cat(Cat(h, y), u) /\ Splits(h, S, mark)
        /\ x \in Free1(S, mark) /\ y \in Free1(S, mark)
    BY <1>1, <1>2
  <1> HIDE DEF h, x, y
  <1>4. x = y /\ t = u
    BY <1>3 DEF Splits
  <1> QED BY <1>4 DEF x, y

\* So the texts are told from each other.
PiecesTold(a, b, p, q, S, mark) ==
  \A t, u \in After(S, mark) :
    Cat(FlattenSeq(a), t) = Cat(FlattenSeq(b), u) => p = q /\ t = u

LEMMA ApartTold ==
  ASSUME NEW S, NEW mark, NEW n \in Nat, NEW heads \in [1 .. n -> Heads(S, mark)],
         NEW p \in [1 .. n -> Seq(S)], NEW q \in [1 .. n -> Seq(S)],
         NEW a \in Seq(Seq(S)), NEW b \in Seq(Seq(S)),
         Pieces(a, heads, p, n), Pieces(b, heads, q, n), PiecesApart(a, b, p, q, S, mark, n)
  PROVE  PiecesTold(a, b, p, q, S, mark)
  <1> DEFINE T == After(S, mark)
  <1>1. T \in SUBSET Seq(S)
    BY DEF After
  <1>2. Precede(a, T) /\ Precede(b, T)
    BY PiecesPrecede
  <1>3. /\ Len(a) = n /\ Len(b) = n /\ Len(a) = Len(b)
        /\ \A i \in 1 .. n : a[i] = Cat(heads[i], p[i]) /\ b[i] = Cat(heads[i], q[i])
    BY DEF Pieces
  <1>4. Differ(a, b, T)
    <2> SUFFICES ASSUME NEW i \in 1 .. n, NEW t \in T, NEW u \in T, Cat(a[i], t) = Cat(b[i], u)
                 PROVE  a[i] = b[i] /\ t = u
      BY <1>3 DEF Differ
    <2>1. p[i] = q[i] /\ t = u
      BY Zenon DEF PiecesApart
    <2> QED BY <1>3, <2>1
  <1>5. Decodes(a, b, T)
    BY <1>1, <1>2, <1>3, <1>4, FlatDecodes
  <1>6. a = b => p = q
    <2> SUFFICES ASSUME a = b PROVE p = q
      OBVIOUS
    <2>1. <<>> \in T
      BY DEF After
    <2>2. \A i \in 1 .. n : p[i] = q[i]
      BY <2>1 DEF PiecesApart
    <2> QED BY <2>2
  <1> QED BY <1>5, <1>6, Zenon DEF Decodes, PiecesTold

LEMMA PiecesTell ==
  ASSUME NEW S, NEW mark, NEW n \in Nat, NEW heads \in [1 .. n -> Heads(S, mark)],
         NEW p \in [1 .. n -> Free1(S, mark)], NEW q \in [1 .. n -> Free1(S, mark)],
         NEW a \in Seq(Seq(S)), NEW b \in Seq(Seq(S)),
         Pieces(a, heads, p, n), Pieces(b, heads, q, n)
  PROVE  PiecesTold(a, b, p, q, S, mark)
  <1>1. p \in [1 .. n -> Seq(S)] /\ q \in [1 .. n -> Seq(S)]
    BY DEF Free1
  <1>2. PiecesApart(a, b, p, q, S, mark, n)
    BY PiecesDiffer
  <1> QED BY <1>1, <1>2, ApartTold

TextsOf(labels, fields) == [i \in 1 .. Len(labels) |-> fields[labels[i]]]

\* Texts by label, none holding the mark.
FreeOf(labels, fields, S, mark) == \A i \in 1 .. Len(labels) : fields[labels[i]] \in Free1(S, mark)
TextsIn(labels, fields, S) == \A i \in 1 .. Len(labels) : fields[labels[i]] \in Seq(S)

LineSeq(labels, fields) == [i \in DOMAIN labels |-> Line(labels[i], fields[labels[i]])]
LineHeads(labels) == [i \in 1 .. Len(labels) |-> <<NL, labels[i]>>]

LEMMA LinesPieces ==
  ASSUME NEW S, NL \in S, NEW labels \in Seq(S), NEW fields, TextsIn(labels, fields, S)
  PROVE  /\ LineSeq(labels, fields) \in Seq(Seq(S))
         /\ LineHeads(labels) \in [1 .. Len(labels) -> Heads(S, NL)]
         /\ TextsOf(labels, fields) \in [1 .. Len(labels) -> Seq(S)]
         /\ Pieces(LineSeq(labels, fields), LineHeads(labels), TextsOf(labels, fields), Len(labels))
         /\ LinesOf(labels, fields) = FlattenSeq(LineSeq(labels, fields))
  <1> DEFINE n == Len(labels)
             ss == LineSeq(labels, fields)
             heads == LineHeads(labels)
             texts == TextsOf(labels, fields)
  <1>1. n \in Nat /\ DOMAIN labels = 1 .. n /\ \A i \in 1 .. n : labels[i] \in S
    OBVIOUS
  <1>2. \A i \in 1 .. n : <<NL, labels[i]>> \in Heads(S, NL)
    BY <1>1 DEF Heads
  <1>3. heads \in [1 .. n -> Heads(S, NL)] /\ \A i \in 1 .. n : heads[i] = <<NL, labels[i]>>
    BY <1>2 DEF LineHeads
  <1>4. texts \in [1 .. n -> Seq(S)] /\ \A i \in 1 .. n : texts[i] = fields[labels[i]]
    BY DEF TextsOf, TextsIn
  <1>5. DOMAIN ss = 1 .. n /\ \A i \in 1 .. n : ss[i] = Cat(<<NL, labels[i]>>, fields[labels[i]])
    BY <1>1 DEF LineSeq, Line, Cat
  <1>6. ss = [i \in 1 .. n |-> ss[i]]
    BY <1>1 DEF LineSeq
  <1>7. LinesOf(labels, fields) = FlattenSeq(ss)
    BY DEF LinesOf, LineSeq
  <1> HIDE DEF ss, heads, texts, n
  <1>8. \A i \in 1 .. n : ss[i] = Cat(heads[i], texts[i]) /\ ss[i] \in Seq(S)
    <2>1. \A i \in 1 .. n : heads[i] \in Seq(S) /\ texts[i] \in Seq(S)
      BY <1>3, <1>4 DEF Heads
    <2>2. \A i \in 1 .. n : ss[i] = Cat(heads[i], texts[i])
      BY <1>3, <1>4, <1>5
    <2>3. \A u, v \in Seq(S) : Cat(u, v) \in Seq(S)
      BY CatFacts
    <2> QED BY <2>1, <2>2, <2>3
  <1>9. ss \in Seq(Seq(S)) /\ Len(ss) = n
    BY <1>1, <1>6, <1>8
  <1> QED BY <1>3, <1>4, <1>7, <1>8, <1>9 DEF Pieces, n, ss, heads, texts

LinesTold(labels, x, y, S) ==
  \A t, u \in After(S, NL) :
    Cat(LinesOf(labels, x), t) = Cat(LinesOf(labels, y), u) =>
      TextsOf(labels, x) = TextsOf(labels, y) /\ t = u

LEMMA LinesTell ==
  ASSUME NEW S, NL \in S, NEW labels \in Seq(S), NEW x, NEW y,
         FreeOf(labels, x, S, NL), FreeOf(labels, y, S, NL)
  PROVE  LinesTold(labels, x, y, S)
  <1> DEFINE n == Len(labels)
             a == LineSeq(labels, x)
             b == LineSeq(labels, y)
             heads == LineHeads(labels)
             p == TextsOf(labels, x)
             q == TextsOf(labels, y)
  <1>1. TextsIn(labels, x, S) /\ TextsIn(labels, y, S) /\ n \in Nat
    BY DEF TextsIn, FreeOf, Free1
  <1>2. /\ a \in Seq(Seq(S)) /\ b \in Seq(Seq(S)) /\ heads \in [1 .. n -> Heads(S, NL)]
        /\ Pieces(a, heads, p, n) /\ Pieces(b, heads, q, n)
        /\ LinesOf(labels, x) = FlattenSeq(a) /\ LinesOf(labels, y) = FlattenSeq(b)
    BY <1>1, LinesPieces
  <1>3. p \in [1 .. n -> Free1(S, NL)] /\ q \in [1 .. n -> Free1(S, NL)]
    BY DEF TextsOf, FreeOf
  <1> HIDE DEF a, b, heads, n, p, q
  <1>4. PiecesTold(a, b, p, q, S, NL)
    BY <1>1, <1>2, <1>3, PiecesTell
  <1> QED BY <1>2, <1>4 DEF PiecesTold, LinesTold, p, q

LEMMA LinesFollow ==
  ASSUME NEW S, NL \in S, NEW labels \in Seq(S), NEW x, TextsIn(labels, x, S)
  PROVE  /\ LinesOf(labels, x) \in Seq(S) /\ LinesOf(labels, x) \in After(S, NL)
         /\ \A t \in After(S, NL) : Cat(LinesOf(labels, x), t) \in After(S, NL)
         /\ labels # <<>> => \E r \in Seq(S) : LinesOf(labels, x) = Cat(<<NL, labels[1]>>, r)
  <1> DEFINE n == Len(labels)
             a == LineSeq(labels, x)
             heads == LineHeads(labels)
             p == TextsOf(labels, x)
             T == After(S, NL)
  <1>1. /\ a \in Seq(Seq(S)) /\ heads \in [1 .. n -> Heads(S, NL)] /\ p \in [1 .. n -> Seq(S)]
        /\ Pieces(a, heads, p, n) /\ LinesOf(labels, x) = FlattenSeq(a) /\ n \in Nat
    BY LinesPieces
  <1>2. T \in SUBSET Seq(S) /\ <<>> \in T
    BY DEF After
  <1>3. heads[1] = <<NL, labels[1]>> \/ n = 0
    BY <1>1 DEF LineHeads
  <1>4. labels # <<>> => n # 0
    OBVIOUS
  <1>5. Precede(a, T)
    BY <1>1, PiecesPrecede
  <1> HIDE DEF a, heads, p, T, n
  <1>6. FlattenSeq(a) \in Seq(S) /\ \A t \in T : Cat(FlattenSeq(a), t) \in T
    BY <1>1, <1>2, <1>5, FlatTyped, FlatPrecedes
  <1>7. FlattenSeq(a) \in T
    <2>1. Cat(FlattenSeq(a), <<>>) = FlattenSeq(a)
      BY <1>6, CatFacts
    <2> QED BY <1>2, <1>6, <2>1
  <1>8. ASSUME n # 0
        PROVE  \E r \in Seq(S) : FlattenSeq(a) = Cat(<<NL, labels[1]>>, r)
    <2>1. PICK f : Runs(f, a, S) /\ FlattenSeq(a) = f[Len(a)]
      BY <1>1, FlatRuns
    <2>2. Len(a) = n /\ a[1] = Cat(heads[1], p[1]) /\ heads[1] \in Seq(S) /\ p[1] \in Seq(S)
      <3>1. 1 \in 1 .. n
        BY <1>1, <1>8
      <3> QED BY <1>1, <3>1 DEF Pieces, Heads
    <2>3. PICK t \in Seq(S) : f[Len(a)] = Cat(f[0], Cat(a[0 + 1], t))
      <3>1. 0 \in Nat /\ 0 < Len(a)
        BY <1>1, <1>8, <2>2
      <3> QED BY <1>1, <2>1, <3>1, RunsGoOn
    <2>4. f[0] = <<>> /\ a[0 + 1] = Cat(heads[1], p[1])
      BY <2>1, <2>2 DEF Runs
    <2> DEFINE h == heads[1]
               c == p[1]
    <2>5. FlattenSeq(a) = Cat(<<>>, Cat(Cat(h, c), t)) /\ h \in Seq(S) /\ c \in Seq(S)
      BY <2>1, <2>2, <2>3, <2>4
    <2>6. h = <<NL, labels[1]>>
      BY <1>3, <1>8
    <2> HIDE DEF h, c
    <2>7. Cat(h, c) \in Seq(S) /\ Cat(c, t) \in Seq(S) /\ Cat(Cat(h, c), t) \in Seq(S)
      BY <2>5, CatFacts
    <2>8. Cat(Cat(h, c), t) = Cat(h, Cat(c, t))
      BY <2>5, CatFacts
    <2>9. Cat(<<>>, Cat(Cat(h, c), t)) = Cat(Cat(h, c), t)
      BY <2>7, CatFacts
    <2> QED BY <2>5, <2>6, <2>7, <2>8, <2>9
  <1> QED BY <1>1, <1>4, <1>6, <1>7, <1>8 DEF T

-----------------------------------------------------------------------------
\* What a message is made of.
Labels ==
  {"Subgrove", "Key", "Owner", "DataHash", "Nonce", "Filename", "ContentType", "TotalSize",
   "ContentHash", "ChunkCount", "ChunkSize", "ChunkMerkleRoot", "Encryption", "Config", "Node",
   "Amount", "From", "To", "Memo", "DID", "KeyID", "Method", "Target", "Timestamp", "BodyHash",
   "Indexer", "Document", "Revokee", "Sender", "NewEpoch", "Grants", "Grantee", "GranteeKey",
   "KeyEpoch", "EphemeralKey", "EncryptedKey", "GrantedBy", "GrantedAt", "Path", "Query", "Body"}
Sym == Token \cup {NL, Colon} \cup MessageKind \cup Labels \cup {ToString(n) : n \in Nat}

LEMMA KindsAre ==
  /\ DOMAIN Lines = {"StoreData", "UpdateData", "DeleteData", "StoreFileManifest", "DeleteFileManifest",
                     "RegisterSubgrove", "UnregisterStorageNode", "FundSubgrove", "Transfer"}
  /\ DOMAIN BareLines = {"willow-request-v2", "ClaimSubgroveIndexing", "UpdateDid"}
  /\ DOMAIN Joined = {"RevokeSubgroveKey", "DeregisterSubgrove"}
  /\ DOMAIN Others = {"GrantSubgroveKey", "RotateSubgroveKey", "RegisterDid", "LegacyRequest"}
  BY DEF Lines, BareLines, Joined, Others

LEMMA FieldsAre ==
  /\ \A k \in DOMAIN Lines : FieldsOf(k) = Lines[k]
  /\ \A k \in DOMAIN BareLines : FieldsOf(k) = BareLines[k]
  /\ \A k \in DOMAIN Joined : FieldsOf(k) = Joined[k]
  /\ \A k \in DOMAIN Others : FieldsOf(k) = Others[k]
  <1>1. /\ DOMAIN Lines \cap DOMAIN BareLines = {} /\ DOMAIN Lines \cap DOMAIN Joined = {}
        /\ DOMAIN Lines \cap DOMAIN Others = {} /\ DOMAIN BareLines \cap DOMAIN Joined = {}
        /\ DOMAIN BareLines \cap DOMAIN Others = {} /\ DOMAIN Joined \cap DOMAIN Others = {}
    BY KindsAre
  <1>2. \A k \in DOMAIN Lines : FieldsOf(k) = Lines[k]
    BY <1>1 DEF FieldsOf
  <1>3. \A k \in DOMAIN BareLines : FieldsOf(k) = BareLines[k]
    BY <1>1 DEF FieldsOf
  <1>4. \A k \in DOMAIN Joined : FieldsOf(k) = Joined[k]
    BY <1>1 DEF FieldsOf
  <1>5. \A k \in DOMAIN Others : FieldsOf(k) = Others[k]
    BY <1>1 DEF FieldsOf
  <1> QED BY <1>2, <1>3, <1>4, <1>5

LEMMA LabelsTyped ==
  ASSUME NEW k \in MessageKind
  PROVE  FieldsOf(k) \in Seq(Sym) /\ FieldsOf(k) # <<>>
  <1>1. FieldsOf(k) \in Seq(Labels) /\ FieldsOf(k) # <<>>
    <2>1. CASE k \in DOMAIN Lines
      <3>1. Lines["StoreData"] \in Seq(Labels) /\ Lines["UpdateData"] \in Seq(Labels)
            /\ Lines["StoreData"] # <<>> /\ Lines["UpdateData"] # <<>>
        BY DEF Lines, Labels
      <3>2. Lines["DeleteData"] \in Seq(Labels) /\ Lines["DeleteFileManifest"] \in Seq(Labels)
            /\ Lines["DeleteData"] # <<>> /\ Lines["DeleteFileManifest"] # <<>>
        BY DEF Lines, Labels
      <3>3. Lines["StoreFileManifest"] \in Seq(Labels) /\ Lines["StoreFileManifest"] # <<>>
        BY DEF Lines, Manifest, Labels
      <3>4. Lines["RegisterSubgrove"] \in Seq(Labels) /\ Lines["UnregisterStorageNode"] \in Seq(Labels)
            /\ Lines["RegisterSubgrove"] # <<>> /\ Lines["UnregisterStorageNode"] # <<>>
        BY DEF Lines, Labels
      <3>5. Lines["FundSubgrove"] \in Seq(Labels) /\ Lines["Transfer"] \in Seq(Labels)
            /\ Lines["FundSubgrove"] # <<>> /\ Lines["Transfer"] # <<>>
        BY DEF Lines, Labels
      <3>6. Lines[k] \in Seq(Labels) /\ Lines[k] # <<>>
        <4> HIDE DEF Lines, Labels
        <4> QED BY <2>1, <3>1, <3>2, <3>3, <3>4, <3>5, KindsAre
      <3> QED BY <2>1, <3>6, FieldsAre
    <2>2. CASE k \in DOMAIN BareLines
      <3>1. BareLines["willow-request-v2"] \in Seq(Labels) /\ BareLines["willow-request-v2"] # <<>>
        BY DEF BareLines, RequestLines, Labels
      <3>2. BareLines["ClaimSubgroveIndexing"] \in Seq(Labels) /\ BareLines["UpdateDid"] \in Seq(Labels)
            /\ BareLines["ClaimSubgroveIndexing"] # <<>> /\ BareLines["UpdateDid"] # <<>>
        BY DEF BareLines, Labels
      <3> QED BY <2>2, <3>1, <3>2, FieldsAre, KindsAre
    <2>3. CASE k \in DOMAIN Joined
      <3>1. Joined["RevokeSubgroveKey"] \in Seq(Labels) /\ Joined["DeregisterSubgrove"] \in Seq(Labels)
            /\ Joined["RevokeSubgroveKey"] # <<>> /\ Joined["DeregisterSubgrove"] # <<>>
        BY DEF Joined, Labels
      <3> QED BY <2>3, <3>1, FieldsAre, KindsAre
    <2>4. CASE k \in DOMAIN Others
      <3>1. Others["GrantSubgroveKey"] \in Seq(Labels) /\ Others["RotateSubgroveKey"] \in Seq(Labels)
            /\ Others["RegisterDid"] \in Seq(Labels) /\ Others["GrantSubgroveKey"] # <<>>
            /\ Others["RotateSubgroveKey"] # <<>> /\ Others["RegisterDid"] # <<>>
        BY DEF Others, Labels
      <3>2. Others["LegacyRequest"] \in Seq(Labels) /\ Others["LegacyRequest"] # <<>>
        BY DEF Others, Labels
      <3> QED BY <2>4, <3>1, <3>2, FieldsAre, KindsAre
    <2> QED BY <2>1, <2>2, <2>3, <2>4 DEF MessageKind
  <1>2. Labels \subseteq Sym
    BY DEF Sym
  <1> QED BY <1>1, <1>2, SeqMonotonic

LEMMA GrantLinesTyped == GrantLines \in Seq(Sym) /\ GrantLines[1] = "Grantee" /\ GrantLines # <<>>
  <1>1. GrantLines \in Seq(Labels)
    BY DEF GrantLines, Labels
  <1>2. Labels \subseteq Sym
    BY DEF Sym
  <1> QED BY <1>1, <1>2, SeqMonotonic DEF GrantLines

LEMMA SymHas ==
  /\ NL \in Sym /\ Colon \in Sym /\ Token \subseteq Sym /\ MessageKind \subseteq Sym
  /\ \A n \in Nat : ToString(n) \in Sym
  /\ Seq(Token) \subseteq Seq(Sym)
  <1>1. /\ NL \in Sym /\ Colon \in Sym /\ Token \subseteq Sym /\ MessageKind \subseteq Sym
        /\ \A n \in Nat : ToString(n) \in Sym
    BY DEF Sym
  <1>2. Seq(Token) \subseteq Seq(Sym)
    BY <1>1, SeqMonotonic
  <1> QED BY <1>1, <1>2

\* What each message is made of, behind its kind, if it begins with one.
Headless(x) == x.kind \in {"RegisterDid", "LegacyRequest"}
Body(x) ==
  CASE x.kind \in DOMAIN Lines -> LinesOf(Lines[x.kind], x.fields)
    [] x.kind \in DOMAIN BareLines -> Behind(NL, BareLines[x.kind], x.fields)
    [] x.kind \in DOMAIN Joined -> Behind(Colon, Joined[x.kind], x.fields)
    [] x.kind = "GrantSubgroveKey" -> GrantSubgroveKey(x)
    [] x.kind = "RotateSubgroveKey" -> RotateSubgroveKey(x)

LEMMA BodyIs ==
  ASSUME NEW x
  PROVE  /\ x.kind \in DOMAIN Lines => Body(x) = LinesOf(FieldsOf(x.kind), x.fields)
         /\ x.kind \in DOMAIN BareLines => Body(x) = Behind(NL, FieldsOf(x.kind), x.fields)
         /\ x.kind \in DOMAIN Joined => Body(x) = Behind(Colon, FieldsOf(x.kind), x.fields)
         /\ x.kind = "GrantSubgroveKey" => Body(x) = GrantSubgroveKey(x)
         /\ x.kind = "RotateSubgroveKey" => Body(x) = RotateSubgroveKey(x)
         /\ x.kind = "RegisterDid" => Message(x) = x.fields["Document"]
         /\ x.kind = "LegacyRequest" => Message(x) = LegacyMessage(x.fields)
         /\ ~Headless(x) => Message(x) = Cat(<<x.kind>>, Body(x))
  <1>1. x.kind \in DOMAIN Lines => Body(x) = LinesOf(Lines[x.kind], x.fields)
    BY KindsAre DEF Body
  <1>2. x.kind \in DOMAIN BareLines => Body(x) = Behind(NL, BareLines[x.kind], x.fields)
    BY KindsAre DEF Body
  <1>3. x.kind \in DOMAIN Joined => Body(x) = Behind(Colon, Joined[x.kind], x.fields)
    BY KindsAre DEF Body
  <1>4. /\ x.kind = "GrantSubgroveKey" => Body(x) = GrantSubgroveKey(x)
        /\ x.kind = "RotateSubgroveKey" => Body(x) = RotateSubgroveKey(x)
    BY KindsAre DEF Body
  <1>5. /\ x.kind = "RegisterDid" => Message(x) = x.fields["Document"]
        /\ x.kind = "LegacyRequest" => Message(x) = LegacyMessage(x.fields)
        /\ ~Headless(x) => Message(x) = Cat(<<x.kind>>, Body(x))
    <2>1. x.kind = "RegisterDid" => Message(x) = x.fields["Document"]
      BY Zenon DEF Message
    <2>2. x.kind = "LegacyRequest" => Message(x) = LegacyMessage(x.fields)
      <3>1. "LegacyRequest" # "RegisterDid"
        OBVIOUS
      <3> QED BY <3>1, Zenon DEF Message
    <2>3. ~Headless(x) => Message(x) = Cat(<<x.kind>>, Body(x))
      <3>1. ~Headless(x) => x.kind # "RegisterDid" /\ x.kind # "LegacyRequest"
        BY DEF Headless
      <3> QED BY <3>1, Zenon DEF Message, Body, Cat
    <2> QED BY <2>1, <2>2, <2>3
  <1> QED BY <1>1, <1>2, <1>3, <1>4, <1>5, FieldsAre

LEMMA IntentTyped ==
  ASSUME NEW x \in Intent
  PROVE  /\ x.kind \in MessageKind /\ x.fields \in Texted(FieldsOf(x.kind))
         /\ x.grants \in Seq(Texted(GrantLines))
         /\ x = [kind |-> x.kind, fields |-> x.fields, grants |-> x.grants]
         /\ x.kind = "GrantSubgroveKey" => Len(x.grants) = 1
         /\ x.kind \notin {"GrantSubgroveKey", "RotateSubgroveKey"} => x.grants = <<>>
  <1>1. Asked(x)
    BY IntentAssumption
  <1>2. x \in [kind : {x.kind}, fields : Texted(FieldsOf(x.kind)), grants : Seq(Texted(GrantLines))]
    BY <1>1, Zenon DEF Asked
  <1> QED BY <1>1, <1>2 DEF Asked

\* A record of texts is what its texts are, and its lines that hold no line break may be split.
LEMMA TextedIs ==
  ASSUME NEW labels \in Seq(Sym), NEW f \in Texted(labels)
  PROVE  /\ TextsIn(labels, f, Sym)
         /\ FieldsOk(f) => FreeOf(labels, f, Sym, NL)
         /\ \A g \in Texted(labels) : TextsOf(labels, f) = TextsOf(labels, g) => f = g
  <1>1. \A i \in 1 .. Len(labels) : labels[i] \in DOMAIN f /\ f[labels[i]] \in Seq(Token)
    BY DEF Texted
  <1>2. Seq(Token) \subseteq Seq(Sym)
    BY SymHas
  <1>3. TextsIn(labels, f, Sym)
    BY <1>1, <1>2 DEF TextsIn
  <1>4. FieldsOk(f) => FreeOf(labels, f, Sym, NL)
    <2> SUFFICES ASSUME FieldsOk(f), NEW i \in 1 .. Len(labels)
                 PROVE  f[labels[i]] \in Free1(Sym, NL)
      BY DEF FreeOf
    <2>1. ~Has(f[labels[i]], NL) /\ f[labels[i]] \in Seq(Sym)
      BY <1>1, <1>2 DEF FieldsOk, FieldOk
    <2> QED BY <2>1 DEF Free1
  <1>5. ASSUME NEW g \in Texted(labels), TextsOf(labels, f) = TextsOf(labels, g) PROVE f = g
    <2> DEFINE D == {labels[i] : i \in DOMAIN labels}
    <2>1. f \in [D -> Seq(Token)] /\ g \in [D -> Seq(Token)]
      BY DEF Texted
    <2>2. \A i \in 1 .. Len(labels) : f[labels[i]] = g[labels[i]]
      <3> TAKE i \in 1 .. Len(labels)
      <3>1. TextsOf(labels, f)[i] = f[labels[i]] /\ TextsOf(labels, g)[i] = g[labels[i]]
        BY DEF TextsOf
      <3> QED BY <1>5, <3>1
    <2>3. \A label \in D : f[label] = g[label]
      BY <2>2
    <2> HIDE DEF D
    <2> QED BY <2>1, <2>3
  <1> QED BY <1>3, <1>4, <1>5

\* The texts that are behind a mark each.
BehindSeq(mark, labels, fields) == [i \in DOMAIN labels |-> <<mark>> \o fields[labels[i]]]
BehindHeads(mark, labels) == [i \in 1 .. Len(labels) |-> <<mark>>]

LEMMA BehindPieces ==
  ASSUME NEW S, NEW mark \in S, NEW labels \in Seq(S), NEW fields, TextsIn(labels, fields, S)
  PROVE  /\ BehindSeq(mark, labels, fields) \in Seq(Seq(S))
         /\ BehindHeads(mark, labels) \in [1 .. Len(labels) -> Heads(S, mark)]
         /\ TextsOf(labels, fields) \in [1 .. Len(labels) -> Seq(S)]
         /\ Pieces(BehindSeq(mark, labels, fields), BehindHeads(mark, labels),
                   TextsOf(labels, fields), Len(labels))
         /\ Behind(mark, labels, fields) = FlattenSeq(BehindSeq(mark, labels, fields))
  <1> DEFINE n == Len(labels)
             ss == BehindSeq(mark, labels, fields)
             heads == BehindHeads(mark, labels)
             texts == TextsOf(labels, fields)
  <1>1. n \in Nat /\ DOMAIN labels = 1 .. n
    OBVIOUS
  <1>2. <<mark>> \in Heads(S, mark)
    BY DEF Heads
  <1>3. heads \in [1 .. n -> Heads(S, mark)] /\ \A i \in 1 .. n : heads[i] = <<mark>>
    BY <1>2 DEF BehindHeads
  <1>4. texts \in [1 .. n -> Seq(S)] /\ \A i \in 1 .. n : texts[i] = fields[labels[i]]
    BY DEF TextsOf, TextsIn
  <1>5. DOMAIN ss = 1 .. n /\ \A i \in 1 .. n : ss[i] = Cat(<<mark>>, fields[labels[i]])
    BY <1>1 DEF BehindSeq, Cat
  <1>6. ss = [i \in 1 .. n |-> ss[i]]
    BY <1>1 DEF BehindSeq
  <1>7. Behind(mark, labels, fields) = FlattenSeq(ss)
    BY DEF Behind, BehindSeq
  <1> HIDE DEF ss, heads, texts, n
  <1>8. \A i \in 1 .. n : ss[i] = Cat(heads[i], texts[i]) /\ ss[i] \in Seq(S)
    <2>1. \A i \in 1 .. n : heads[i] \in Seq(S) /\ texts[i] \in Seq(S)
      BY <1>3, <1>4 DEF Heads
    <2>2. \A i \in 1 .. n : ss[i] = Cat(heads[i], texts[i])
      BY <1>3, <1>4, <1>5
    <2>3. \A u, v \in Seq(S) : Cat(u, v) \in Seq(S)
      BY CatFacts
    <2> QED BY <2>1, <2>2, <2>3
  <1>9. ss \in Seq(Seq(S)) /\ Len(ss) = n
    BY <1>1, <1>6, <1>8
  <1> QED BY <1>3, <1>4, <1>7, <1>8, <1>9 DEF Pieces, n, ss, heads, texts

\* Nothing but the lines behind a mark: what the texts must be for theirs to be told.
LEMMA BehindTell ==
  ASSUME NEW S, NEW mark \in S, NEW labels \in Seq(S), NEW x, NEW y,
         TextsIn(labels, x, S), TextsIn(labels, y, S),
         PiecesApart(BehindSeq(mark, labels, x), BehindSeq(mark, labels, y),
                     TextsOf(labels, x), TextsOf(labels, y), S, mark, Len(labels)),
         Behind(mark, labels, x) = Behind(mark, labels, y)
  PROVE  TextsOf(labels, x) = TextsOf(labels, y)
  <1> DEFINE n == Len(labels)
             a == BehindSeq(mark, labels, x)
             b == BehindSeq(mark, labels, y)
             heads == BehindHeads(mark, labels)
             p == TextsOf(labels, x)
             q == TextsOf(labels, y)
  <1>1. /\ a \in Seq(Seq(S)) /\ b \in Seq(Seq(S)) /\ heads \in [1 .. n -> Heads(S, mark)]
        /\ p \in [1 .. n -> Seq(S)] /\ q \in [1 .. n -> Seq(S)]
        /\ Pieces(a, heads, p, n) /\ Pieces(b, heads, q, n) /\ n \in Nat
        /\ FlattenSeq(a) = FlattenSeq(b)
    BY BehindPieces
  <1>2. PiecesApart(a, b, p, q, S, mark, n)
    OBVIOUS
  <1> HIDE DEF a, b, heads, n, p, q
  <1>3. PiecesTold(a, b, p, q, S, mark)
    BY <1>1, <1>2, ApartTold
  <1>4. <<>> \in After(S, mark)
    BY DEF After
  <1> QED BY <1>1, <1>3, <1>4 DEF PiecesTold, p, q

LEMMA BehindFree ==
  ASSUME NEW S, NEW mark \in S, NEW labels \in Seq(S), NEW x, NEW y,
         FreeOf(labels, x, S, mark), FreeOf(labels, y, S, mark),
         Behind(mark, labels, x) = Behind(mark, labels, y)
  PROVE  TextsOf(labels, x) = TextsOf(labels, y)
  <1> DEFINE n == Len(labels)
             a == BehindSeq(mark, labels, x)
             b == BehindSeq(mark, labels, y)
             heads == BehindHeads(mark, labels)
             p == TextsOf(labels, x)
             q == TextsOf(labels, y)
  <1>1. TextsIn(labels, x, S) /\ TextsIn(labels, y, S) /\ n \in Nat
    BY DEF TextsIn, FreeOf, Free1
  <1>2. /\ heads \in [1 .. n -> Heads(S, mark)] /\ Pieces(a, heads, p, n) /\ Pieces(b, heads, q, n)
    BY <1>1, BehindPieces
  <1>3. p \in [1 .. n -> Free1(S, mark)] /\ q \in [1 .. n -> Free1(S, mark)]
    BY DEF TextsOf, FreeOf
  <1> HIDE DEF a, b, heads, n, p, q
  <1>4. PiecesApart(a, b, p, q, S, mark, n)
    BY <1>1, <1>2, <1>3, PiecesDiffer
  <1> QED BY <1>1, <1>4, BehindTell DEF a, b, p, q, n

LEMMA Begins ==
  ASSUME NEW S, NL \in S, NEW label \in S, NEW r \in Seq(S)
  PROVE  /\ Cat(<<NL, label>>, r) \in After(S, NL)
         /\ Cat(<<NL, label>>, r)[2] = label
  <1> DEFINE h == <<NL, label>>
  <1>1. h \in Seq(S) /\ Len(h) = 2 /\ h[1] = NL /\ h[2] = label /\ Len(r) \in Nat
    OBVIOUS
  <1> HIDE DEF h
  <1>2. h \o r \in Seq(S) /\ (h \o r)[1] = h[1] /\ (h \o r)[2] = h[2]
    BY <1>1, ConcatProperties
  <1>3. h \o r \in After(S, NL) /\ (h \o r)[2] = label
    BY <1>1, <1>2 DEF After
  <1> QED BY <1>3 DEF Cat, h

\* Grants, one after the other.
Grant == Texted(GrantLines)
GrantSeq(grants) == [i \in DOMAIN grants |-> GrantText(grants[i])]

LEMMA GrantFacts ==
  ASSUME NEW grant \in Grant
  PROVE  /\ GrantText(grant) \in Seq(Sym)
         /\ \A t \in After(Sym, NL) : Cat(GrantText(grant), t) \in After(Sym, NL)
         /\ \E r \in Seq(Sym) : GrantText(grant) = Cat(<<NL, "Grantee">>, r)
  <1>1. TextsIn(GrantLines, grant, Sym) /\ NL \in Sym
    BY GrantLinesTyped, TextedIs, SymHas DEF Grant
  <1> QED BY <1>1, GrantLinesTyped, LinesFollow DEF GrantText

LEMMA GrantTold ==
  ASSUME NEW a \in Grant, NEW b \in Grant, FieldsOk(a), FieldsOk(b),
         NEW t \in After(Sym, NL), NEW u \in After(Sym, NL),
         Cat(GrantText(a), t) = Cat(GrantText(b), u)
  PROVE  a = b /\ t = u
  <1>1. FreeOf(GrantLines, a, Sym, NL) /\ FreeOf(GrantLines, b, Sym, NL) /\ NL \in Sym
    BY GrantLinesTyped, TextedIs, SymHas DEF Grant
  <1>2. LinesTold(GrantLines, a, b, Sym)
    BY <1>1, GrantLinesTyped, LinesTell
  <1>3. TextsOf(GrantLines, a) = TextsOf(GrantLines, b) /\ t = u
    BY <1>2 DEF LinesTold, GrantText
  <1> QED BY <1>3, GrantLinesTyped, TextedIs DEF Grant

Clean(grants) == \A i \in DOMAIN grants : FieldsOk(grants[i])

LEMMA GrantsTyped ==
  ASSUME NEW a \in Seq(Grant)
  PROVE  /\ GrantSeq(a) \in Seq(Seq(Sym)) /\ Len(GrantSeq(a)) = Len(a)
         /\ \A i \in 1 .. Len(a) : a[i] \in Grant /\ GrantSeq(a)[i] = GrantText(a[i])
         /\ Precede(GrantSeq(a), After(Sym, NL))
  <1> DEFINE n == Len(a)
             ss == GrantSeq(a)
  <1>1. n \in Nat /\ DOMAIN a = 1 .. n /\ \A i \in 1 .. n : a[i] \in Grant
    OBVIOUS
  <1>2. /\ DOMAIN ss = 1 .. n /\ \A i \in 1 .. n : ss[i] = GrantText(a[i])
        /\ ss = [i \in 1 .. n |-> ss[i]]
    BY <1>1 DEF GrantSeq
  <1> HIDE DEF ss, n
  <1>3. \A i \in 1 .. n : ss[i] \in Seq(Sym)
    BY <1>1, <1>2, GrantFacts
  <1>4. ss \in Seq(Seq(Sym)) /\ Len(ss) = n
    BY <1>1, <1>2, <1>3
  <1>5. Precede(ss, After(Sym, NL))
    <2> SUFFICES ASSUME NEW i \in 1 .. n, NEW t \in After(Sym, NL)
                 PROVE  Cat(ss[i], t) \in After(Sym, NL)
      BY <1>4 DEF Precede
    <2>1. ss[i] = GrantText(a[i]) /\ a[i] \in Grant
      BY <1>1, <1>2
    <2> QED BY <2>1, GrantFacts
  <1> QED BY <1>1, <1>2, <1>4, <1>5 DEF ss, n

LEMMA GrantsDiffer ==
  ASSUME NEW a \in Seq(Grant), NEW b \in Seq(Grant), Clean(a), Clean(b)
  PROVE  Differ(GrantSeq(a), GrantSeq(b), After(Sym, NL))
  <1> SUFFICES ASSUME NEW i \in 1 .. Len(a), NEW t \in After(Sym, NL), NEW u \in After(Sym, NL),
                      i <= Len(b), Cat(GrantSeq(a)[i], t) = Cat(GrantSeq(b)[i], u)
               PROVE  GrantSeq(a)[i] = GrantSeq(b)[i] /\ t = u
    BY GrantsTyped DEF Differ
  <1>1. i \in 1 .. Len(b) /\ i \in DOMAIN a /\ i \in DOMAIN b
    OBVIOUS
  <1>2. /\ GrantSeq(a)[i] = GrantText(a[i]) /\ GrantSeq(b)[i] = GrantText(b[i])
        /\ a[i] \in Grant /\ b[i] \in Grant /\ FieldsOk(a[i]) /\ FieldsOk(b[i])
    BY <1>1, GrantsTyped DEF Clean
  <1>3. a[i] = b[i] /\ t = u
    BY <1>2, GrantTold
  <1> QED BY <1>2, <1>3

\* No grant is taken for the line that follows the last.
Closing(S) == {t \in After(S, NL) : \E r \in Seq(S) : t = Cat(<<NL, "Nonce">>, r)}

LEMMA NotLonger ==
  ASSUME NEW a \in Seq(Grant), NEW b \in Seq(Grant), Clean(a), Clean(b),
         NEW t \in Closing(Sym), NEW u \in Closing(Sym),
         Cat(FlattenSeq(GrantSeq(a)), t) = Cat(FlattenSeq(GrantSeq(b)), u)
  PROVE  ~(Len(a) < Len(b))
  <1> SUFFICES ASSUME Len(a) < Len(b) PROVE FALSE
    OBVIOUS
  <1> DEFINE T == After(Sym, NL)
             A == GrantSeq(a)
             B == GrantSeq(b)
             m == Len(a)
  <1>1. /\ A \in Seq(Seq(Sym)) /\ B \in Seq(Seq(Sym)) /\ Len(A) = m /\ Len(B) = Len(b)
        /\ Precede(A, T) /\ Precede(B, T) /\ Differ(A, B, T)
        /\ T \in SUBSET Seq(Sym) /\ t \in T /\ u \in T
    BY GrantsTyped, GrantsDiffer DEF After, Closing
  <1>2. m \in Nat /\ m <= Len(A) /\ m <= Len(B) /\ m < Len(B) /\ m + 1 \in 1 .. Len(b)
    BY <1>1
  <1>3. \E r \in Seq(Sym) : B[m + 1] = Cat(<<NL, "Grantee">>, r)
    BY <1>2, GrantsTyped, GrantFacts
  <1> HIDE DEF T, A, B, m
  <1>4. PICK f : Runs(f, A, Sym) /\ FlattenSeq(A) = f[m]
    BY <1>1, FlatRuns
  <1>5. PICK g : Runs(g, B, Sym) /\ FlattenSeq(B) = g[Len(B)]
    BY <1>1, FlatRuns
  <1>6. TellsTo(f, g, A, B, m, T)
    BY <1>1, <1>2, <1>4, <1>5, RunsDecode
  <1>7. PICK v \in Seq(Sym) : g[Len(B)] = Cat(g[m], Cat(B[m + 1], v))
    BY <1>1, <1>2, <1>5, RunsGoOn
  <1>8. PICK w \in Seq(Sym) : B[m + 1] = Cat(<<NL, "Grantee">>, w)
    BY <1>3
  <1> DEFINE h == <<NL, "Grantee">>
             p == g[m]
  <1>9. h \in Seq(Sym) /\ NL \in Sym /\ "Grantee" \in Sym /\ "Nonce" \in Sym
    BY SymHas DEF Sym, Labels
  <1>10. p \in Seq(Sym) /\ u \in Seq(Sym)
    <2>1. m \in 0 .. Len(B) /\ g \in [0 .. Len(B) -> Seq(Sym)]
      BY <1>2, <1>5 DEF Runs
    <2> QED BY <1>1, <2>1
  <1>11. Cat(f[m], t) = Cat(Cat(p, Cat(Cat(h, w), v)), u)
    BY <1>4, <1>5, <1>7, <1>8 DEF A, B
  <1> HIDE DEF h, p
  <1> DEFINE e == Cat(w, Cat(v, u))
  <1>12. Cat(Cat(p, Cat(Cat(h, w), v)), u) = Cat(p, Cat(h, e)) /\ e \in Seq(Sym)
    <2>1. \A x, y, z \in Seq(Sym) : Cat(Cat(x, y), z) = Cat(x, Cat(y, z))
      BY CatFacts
    <2>2. \A x, y \in Seq(Sym) : Cat(x, y) \in Seq(Sym)
      BY CatFacts
    <2>3. Cat(h, w) \in Seq(Sym) /\ Cat(v, u) \in Seq(Sym)
      BY <1>9, <1>10, <2>2
    <2>4. Cat(Cat(h, w), v) \in Seq(Sym)
      BY <2>2, <2>3
    <2>5. Cat(Cat(p, Cat(Cat(h, w), v)), u) = Cat(p, Cat(Cat(Cat(h, w), v), u))
      BY <1>10, <2>1, <2>4
    <2>6. Cat(Cat(Cat(h, w), v), u) = Cat(Cat(h, w), Cat(v, u))
      BY <1>10, <2>1, <2>3
    <2>7. Cat(Cat(h, w), Cat(v, u)) = Cat(h, Cat(w, Cat(v, u)))
      BY <1>9, <2>1, <2>3
    <2>8. e \in Seq(Sym)
      BY <2>2, <2>3
    <2> QED BY <2>5, <2>6, <2>7, <2>8
  <1> HIDE DEF e
  <1> DEFINE y == Cat(h, e)
  <1>13. y \in T /\ y[2] = "Grantee"
    BY <1>9, <1>12, Begins DEF T, h
  <1>14. Cat(f[m], t) = Cat(g[m], y)
    BY <1>11, <1>12 DEF p
  <1> HIDE DEF y
  <1>15. t = y
    BY <1>1, <1>6, <1>13, <1>14 DEF TellsTo
  <1>16. PICK r \in Seq(Sym) : t = Cat(<<NL, "Nonce">>, r)
    BY DEF Closing
  <1>17. t[2] = "Nonce"
    BY <1>9, <1>16, Begins
  <1> QED BY <1>13, <1>15, <1>17

LEMMA GrantsTell ==
  ASSUME NEW a \in Seq(Grant), NEW b \in Seq(Grant), Clean(a), Clean(b),
         NEW t \in Closing(Sym), NEW u \in Closing(Sym),
         Cat(FlattenSeq(GrantSeq(a)), t) = Cat(FlattenSeq(GrantSeq(b)), u)
  PROVE  a = b /\ t = u
  <1>1. Len(a) = Len(b)
    <2>1. ~(Len(a) < Len(b))
      BY NotLonger
    <2>2. Cat(FlattenSeq(GrantSeq(b)), u) = Cat(FlattenSeq(GrantSeq(a)), t)
      OBVIOUS
    <2>3. ~(Len(b) < Len(a))
      BY <2>2, NotLonger
    <2> QED BY <2>1, <2>3
  <1> DEFINE T == After(Sym, NL)
             A == GrantSeq(a)
             B == GrantSeq(b)
  <1>2. /\ A \in Seq(Seq(Sym)) /\ B \in Seq(Seq(Sym)) /\ Len(A) = Len(B)
        /\ Precede(A, T) /\ Precede(B, T) /\ Differ(A, B, T)
        /\ T \in SUBSET Seq(Sym) /\ t \in T /\ u \in T /\ <<>> \in T
    <2>1. /\ A \in Seq(Seq(Sym)) /\ B \in Seq(Seq(Sym)) /\ Len(A) = Len(a) /\ Len(B) = Len(b)
          /\ Precede(A, T) /\ Precede(B, T)
      BY GrantsTyped
    <2>2. Differ(A, B, T)
      BY GrantsDiffer
    <2>3. T \in SUBSET Seq(Sym) /\ t \in T /\ u \in T /\ <<>> \in T
      BY DEF After, Closing
    <2> QED BY <1>1, <2>1, <2>2, <2>3
  <1> HIDE DEF T, A, B
  <1>3. Decodes(A, B, T)
    BY <1>2, FlatDecodes
  <1>4. A = B /\ t = u
    BY <1>2, <1>3 DEF Decodes, A, B
  <1>5. ASSUME NEW i \in 1 .. Len(a) PROVE a[i] = b[i]
    <2>1. /\ A[i] = GrantText(a[i]) /\ B[i] = GrantText(b[i])
          /\ a[i] \in Grant /\ b[i] \in Grant /\ FieldsOk(a[i]) /\ FieldsOk(b[i])
      <3>1. i \in 1 .. Len(b) /\ i \in DOMAIN a /\ i \in DOMAIN b
        BY <1>1
      <3>2. A[i] = GrantText(a[i]) /\ a[i] \in Grant
        BY GrantsTyped DEF A
      <3>3. B[i] = GrantText(b[i]) /\ b[i] \in Grant
        BY <3>1, GrantsTyped DEF B
      <3>4. FieldsOk(a[i]) /\ FieldsOk(b[i])
        BY <3>1, Zenon DEF Clean
      <3> QED BY <3>2, <3>3, <3>4
    <2>2. Cat(GrantText(a[i]), <<>>) = Cat(GrantText(b[i]), <<>>)
      BY <1>4, <2>1
    <2>3. <<>> \in After(Sym, NL)
      BY <1>2 DEF T
    <2> DEFINE c == a[i]
               d == b[i]
    <2>4. /\ c \in Grant /\ d \in Grant /\ FieldsOk(c) /\ FieldsOk(d)
          /\ Cat(GrantText(c), <<>>) = Cat(GrantText(d), <<>>)
      BY <2>1, <2>2
    <2> HIDE DEF c, d
    <2>5. c = d
      BY <2>3, <2>4, GrantTold
    <2> QED BY <2>5 DEF c, d
  <1> QED BY <1>1, <1>4, <1>5, SeqEqual

LEMMA FieldsGive ==
  ASSUME NEW x \in Intent, NEW y \in Intent, x.kind = y.kind, x.grants = y.grants,
         TextsOf(FieldsOf(x.kind), x.fields) = TextsOf(FieldsOf(x.kind), y.fields)
  PROVE  x = y
  <1> DEFINE labels == FieldsOf(x.kind)
             f == x.fields
             g == y.fields
  <1>1. x.kind \in MessageKind /\ f \in Texted(labels) /\ g \in Texted(labels)
    BY IntentTyped
  <1>2. labels \in Seq(Sym)
    BY <1>1, LabelsTyped
  <1>3. TextsOf(labels, f) = TextsOf(labels, g)
    OBVIOUS
  <1> HIDE DEF labels, f, g
  <1>4. f = g
    BY <1>1, <1>2, <1>3, TextedIs
  <1> QED BY <1>4, IntentTyped DEF f, g

\* Of the kinds with labelled lines.
LEMMA LinesMeant ==
  ASSUME NEW x \in Intent, NEW y \in Intent, x.kind = y.kind, x.kind \in DOMAIN Lines,
         FieldsOk(x.fields), FieldsOk(y.fields), Body(x) = Body(y)
  PROVE  x = y
  <1> DEFINE labels == FieldsOf(x.kind)
             f == x.fields
             g == y.fields
  <1>1. x.kind \in MessageKind /\ f \in Texted(labels) /\ g \in Texted(labels)
    BY IntentTyped
  <1>2. labels \in Seq(Sym) /\ NL \in Sym
    BY <1>1, LabelsTyped, SymHas
  <1>3. LinesOf(labels, f) = LinesOf(labels, g)
    BY BodyIs
  <1>4. FieldsOk(f) /\ FieldsOk(g)
    OBVIOUS
  <1> HIDE DEF labels, f, g
  <1>5. FreeOf(labels, f, Sym, NL) /\ FreeOf(labels, g, Sym, NL)
    BY <1>1, <1>2, <1>4, TextedIs
  <1>6. LinesTold(labels, f, g, Sym)
    BY <1>2, <1>5, LinesTell
  <1>7. <<>> \in After(Sym, NL)
    BY DEF After
  <1>8. TextsOf(labels, f) = TextsOf(labels, g)
    BY <1>3, <1>6, <1>7 DEF LinesTold
  <1>9. x.grants = y.grants
    BY IntentTyped, KindsAre
  <1> QED BY <1>8, <1>9, FieldsGive DEF labels, f, g

\* Of those with lines alone.
LEMMA BareMeant ==
  ASSUME NEW x \in Intent, NEW y \in Intent, x.kind = y.kind,
         \/ x.kind = "UpdateDid"
         \/ x.kind = "willow-request-v2" /\ FieldsOk(x.fields) /\ FieldsOk(y.fields),
         Body(x) = Body(y)
  PROVE  x = y
  <1> DEFINE labels == FieldsOf(x.kind)
             f == x.fields
             g == y.fields
  <1>1. x.kind \in MessageKind /\ f \in Texted(labels) /\ g \in Texted(labels)
    BY IntentTyped
  <1>2. labels \in Seq(Sym) /\ NL \in Sym
    BY <1>1, LabelsTyped, SymHas
  <1>3. Behind(NL, labels, f) = Behind(NL, labels, g)
    BY BodyIs, KindsAre
  <1>4. FieldsOk(f) /\ FieldsOk(g)
    <2> SUFFICES ASSUME x.kind = "UpdateDid" PROVE FieldsOk(f) /\ FieldsOk(g)
      OBVIOUS
    <2>1. Asked(x) /\ Asked(y)
      BY IntentAssumption
    <2>2. labels = <<"Document", "Nonce">>
      BY FieldsAre, KindsAre DEF BareLines
    <2>3. {labels[i] : i \in DOMAIN labels} = {"Document", "Nonce"}
      BY <2>2
    <2>4. DOMAIN f = {"Document", "Nonce"} /\ DOMAIN g = {"Document", "Nonce"}
      BY <1>1, <2>3 DEF Texted
    <2> QED BY <2>1, <2>4 DEF Asked, FieldsOk, FieldOk
  <1> HIDE DEF labels, f, g
  <1>5. FreeOf(labels, f, Sym, NL) /\ FreeOf(labels, g, Sym, NL)
    BY <1>1, <1>2, <1>4, TextedIs
  <1>6. TextsOf(labels, f) = TextsOf(labels, g)
    BY <1>2, <1>3, <1>5, BehindFree
  <1>7. x.grants = y.grants
    BY IntentTyped
  <1> QED BY <1>6, <1>7, FieldsGive DEF labels, f, g

\* Of the one whose texts are joined with colons: those that hold colons have one length.
LEMMA LongSplit ==
  ASSUME NEW S, NEW h \in Seq(S), NEW p \in Seq(S), NEW q \in Seq(S), Len(p) = Len(q),
         NEW t \in Seq(S), NEW u \in Seq(S), Cat(Cat(h, p), t) = Cat(Cat(h, q), u)
  PROVE  p = q /\ t = u
  <1>1. /\ Cat(Cat(h, p), t) = Cat(h, Cat(p, t)) /\ Cat(Cat(h, q), u) = Cat(h, Cat(q, u))
        /\ Cat(p, t) \in Seq(S) /\ Cat(q, u) \in Seq(S)
    BY CatFacts
  <1> DEFINE v == Cat(p, t)
             w == Cat(q, u)
  <1>2. v \in Seq(S) /\ w \in Seq(S) /\ Cat(h, v) = Cat(h, w)
    BY <1>1
  <1> HIDE DEF v, w
  <1>3. v = w
    BY <1>2, SameSplit
  <1> QED BY <1>3, SameSplit DEF v, w

LEMMA RevokeMeant ==
  ASSUME NEW x \in Intent, NEW y \in Intent, KeyRevoke(x), KeyRevoke(y), Body(x) = Body(y)
  PROVE  x = y
  <1> DEFINE labels == FieldsOf(x.kind)
             f == x.fields
             g == y.fields
             a == BehindSeq(Colon, labels, f)
             b == BehindSeq(Colon, labels, g)
             p == TextsOf(labels, f)
             q == TextsOf(labels, g)
             heads == BehindHeads(Colon, labels)
  <1>1. /\ x.kind = "RevokeSubgroveKey" /\ y.kind = "RevokeSubgroveKey"
        /\ ~Has(f["Subgrove"], Colon) /\ ~Has(g["Subgrove"], Colon)
        /\ ValidDid(f["Revokee"]) /\ ValidDid(g["Revokee"])
        /\ ValidDid(f["Sender"]) /\ ValidDid(g["Sender"])
    BY DEF KeyRevoke
  <1>2. x.kind \in MessageKind /\ f \in Texted(labels) /\ g \in Texted(labels)
    BY <1>1, IntentTyped
  <1>3. labels = <<"Subgrove", "Revokee", "Sender", "Nonce">>
    BY <1>1, FieldsAre, KindsAre DEF Joined
  <1>4. ~Has(f["Nonce"], Colon) /\ ~Has(g["Nonce"], Colon)
    <2>1. {labels[i] : i \in DOMAIN labels} = {"Subgrove", "Revokee", "Sender", "Nonce"}
      BY <1>3
    <2>2. "Nonce" \in DOMAIN f /\ "Nonce" \in DOMAIN g
      BY <1>2, <2>1 DEF Texted
    <2>3. Asked(x) /\ Asked(y)
      BY IntentAssumption
    <2> QED BY <2>2, <2>3 DEF Asked
  <1>5. labels \in Seq(Sym) /\ Colon \in Sym /\ Len(labels) = 4
    BY <1>2, <1>3, LabelsTyped, SymHas
  <1>6. Behind(Colon, labels, f) = Behind(Colon, labels, g)
    BY <1>1, BodyIs, KindsAre
  <1>7. x.grants = y.grants
    BY <1>1, IntentTyped
  <1>8. TextsIn(labels, f, Sym) /\ TextsIn(labels, g, Sym)
    <2> HIDE DEF labels, f, g
    <2> QED BY <1>2, <1>5, TextedIs
  <1>9. /\ p[1] = f["Subgrove"] /\ p[2] = f["Revokee"] /\ p[3] = f["Sender"] /\ p[4] = f["Nonce"]
        /\ q[1] = g["Subgrove"] /\ q[2] = g["Revokee"] /\ q[3] = g["Sender"] /\ q[4] = g["Nonce"]
    <2> HIDE DEF f, g
    <2> QED BY <1>3 DEF TextsOf
  <1> HIDE DEF labels, f, g
  <1>10. /\ heads \in [1 .. 4 -> Heads(Sym, Colon)] /\ Pieces(a, heads, p, 4) /\ Pieces(b, heads, q, 4)
         /\ p \in [1 .. 4 -> Seq(Sym)] /\ q \in [1 .. 4 -> Seq(Sym)]
    <2>1. /\ heads \in [1 .. Len(labels) -> Heads(Sym, Colon)]
          /\ Pieces(a, heads, p, Len(labels)) /\ p \in [1 .. Len(labels) -> Seq(Sym)]
      BY <1>5, <1>8, BehindPieces
    <2>2. Pieces(b, heads, q, Len(labels)) /\ q \in [1 .. Len(labels) -> Seq(Sym)]
      BY <1>5, <1>8, BehindPieces
    <2> HIDE DEF a, b, heads, p, q
    <2> QED BY <1>5, <2>1, <2>2
  <1>11. /\ p[1] \in Free1(Sym, Colon) /\ q[1] \in Free1(Sym, Colon)
         /\ p[4] \in Free1(Sym, Colon) /\ q[4] \in Free1(Sym, Colon)
         /\ Len(p[2]) = 5 /\ Len(q[2]) = 5 /\ Len(p[3]) = 5 /\ Len(q[3]) = 5
    <2>1. p[1] \in Seq(Sym) /\ q[1] \in Seq(Sym) /\ p[4] \in Seq(Sym) /\ q[4] \in Seq(Sym)
      BY <1>10
    <2> HIDE DEF p, q
    <2> QED BY <1>1, <1>4, <1>9, <2>1 DEF Free1, ValidDid
  <1> HIDE DEF a, b, p, q, heads
  <1>12. PiecesApart(a, b, p, q, Sym, Colon, 4)
    <2> SUFFICES ASSUME NEW i \in 1 .. 4, NEW t \in After(Sym, Colon), NEW u \in After(Sym, Colon),
                        Cat(a[i], t) = Cat(b[i], u)
                 PROVE  p[i] = q[i] /\ t = u
      BY DEF PiecesApart
    <2> DEFINE h == heads[i]
               c == p[i]
               d == q[i]
    <2>1. /\ h \in Heads(Sym, Colon) /\ h \in Seq(Sym) /\ c \in Seq(Sym) /\ d \in Seq(Sym)
          /\ Cat(Cat(h, c), t) = Cat(Cat(h, d), u) /\ t \in Seq(Sym) /\ u \in Seq(Sym)
      BY <1>10 DEF Pieces, Heads, After
    <2>2. \/ c \in Free1(Sym, Colon) /\ d \in Free1(Sym, Colon)
          \/ Len(c) = Len(d)
      <3>1. i = 1 \/ i = 2 \/ i = 3 \/ i = 4
        OBVIOUS
      <3> QED BY <1>11, <3>1
    <2> HIDE DEF h, c, d
    <2>3. CASE c \in Free1(Sym, Colon) /\ d \in Free1(Sym, Colon)
      <3>1. Splits(h, Sym, Colon)
        BY <2>1, PieceSplit
      <3>2. c = d /\ t = u
        BY <2>1, <2>3, <3>1 DEF Splits
      <3> QED BY <3>2 DEF c, d
    <2>4. CASE Len(c) = Len(d)
      <3>1. c = d /\ t = u
        BY <2>1, <2>4, LongSplit
      <3> QED BY <3>1 DEF c, d
    <2> QED BY <2>2, <2>3, <2>4
  <1>13. p = q
    <2>1. PiecesApart(a, b, p, q, Sym, Colon, Len(labels))
      BY <1>5, <1>12
    <2> USE DEF a, b, p, q
    <2> QED BY <1>5, <1>6, <1>8, <2>1, BehindTell
  <1> QED BY <1>1, <1>7, <1>13, FieldsGive DEF labels, f, g, p, q

\* Some of a message's lines.
LEMMA PartIs ==
  ASSUME NEW labels \in Seq(Sym), NEW f \in Texted(labels), NEW part \in Seq(Sym),
         \A i \in 1 .. Len(part) : \E j \in 1 .. Len(labels) : part[i] = labels[j]
  PROVE  /\ TextsIn(part, f, Sym)
         /\ FieldsOk(f) => FreeOf(part, f, Sym, NL)
  <1>1. TextsIn(labels, f, Sym) /\ (FieldsOk(f) => FreeOf(labels, f, Sym, NL))
    BY TextedIs
  <1>2. TextsIn(part, f, Sym)
    BY <1>1 DEF TextsIn
  <1>3. FieldsOk(f) => FreeOf(part, f, Sym, NL)
    BY <1>1 DEF FreeOf
  <1> QED BY <1>2, <1>3

LEMMA PartTyped ==
  ASSUME NEW labels \in Seq(Sym), NEW f \in Texted(labels), NEW part \in Seq(Sym), FieldsOk(f),
         \A i \in 1 .. Len(part) : \E j \in 1 .. Len(labels) : part[i] = labels[j]
  PROVE  /\ LinesOf(part, f) \in Seq(Sym) /\ LinesOf(part, f) \in After(Sym, NL)
         /\ FreeOf(part, f, Sym, NL)
         /\ part = <<"Nonce">> => LinesOf(part, f) \in Closing(Sym)
  <1>1. TextsIn(part, f, Sym) /\ FreeOf(part, f, Sym, NL) /\ NL \in Sym
    BY PartIs, SymHas
  <1>2. /\ LinesOf(part, f) \in Seq(Sym) /\ LinesOf(part, f) \in After(Sym, NL)
        /\ part # <<>> => \E r \in Seq(Sym) : LinesOf(part, f) = Cat(<<NL, part[1]>>, r)
    BY <1>1, LinesFollow
  <1>3. part = <<"Nonce">> => part # <<>> /\ part[1] = "Nonce"
    OBVIOUS
  <1> QED BY <1>1, <1>2, <1>3 DEF Closing

\* Of the one with one grant.
LEMMA GrantMeant ==
  ASSUME NEW x \in Intent, NEW y \in Intent, KeyGrant(x), KeyGrant(y), Body(x) = Body(y)
  PROVE  x = y
  <1> DEFINE labels == FieldsOf(x.kind)
             f == x.fields
             g == y.fields
             c == x.grants[1]
             d == y.grants[1]
             part == <<"Subgrove", "Sender">>
             last == <<"Nonce">>
  <1>1. /\ x.kind = "GrantSubgroveKey" /\ y.kind = "GrantSubgroveKey"
        /\ FieldsOk(f) /\ FieldsOk(g) /\ FieldsOk(c) /\ FieldsOk(d)
    BY DEF KeyGrant, GrantOk
  <1>2. x.kind \in MessageKind /\ f \in Texted(labels) /\ g \in Texted(labels)
    BY <1>1, IntentTyped
  <1>3. labels = <<"Subgrove", "Sender", "Nonce">>
    BY <1>1, FieldsAre, KindsAre DEF Others
  <1>4. labels \in Seq(Sym) /\ Len(labels) = 3 /\ part \in Seq(Sym) /\ last \in Seq(Sym)
    <2>1. labels \in Seq(Sym)
      BY <1>2, LabelsTyped
    <2> QED BY <1>3, <2>1 DEF Sym, Labels
  <1>5. /\ x.grants \in Seq(Grant) /\ y.grants \in Seq(Grant) /\ Len(x.grants) = 1 /\ Len(y.grants) = 1
    BY <1>1, IntentTyped DEF Grant
  <1>6. c \in Grant /\ d \in Grant
    BY <1>5
  <1>7. Len(part) = 2 /\ part[1] = "Subgrove" /\ part[2] = "Sender" /\ Len(last) = 1 /\ last[1] = "Nonce"
    OBVIOUS
  <1>8. /\ \A i \in 1 .. Len(part) : \E j \in 1 .. Len(labels) : part[i] = labels[j]
        /\ \A i \in 1 .. Len(last) : \E j \in 1 .. Len(labels) : last[i] = labels[j]
    <2>1. \A i \in 1 .. Len(part) : part[i] = labels[i] /\ i \in 1 .. Len(labels)
      BY <1>3, <1>7
    <2>2. \A i \in 1 .. Len(last) : last[i] = labels[3] /\ 3 \in 1 .. Len(labels)
      BY <1>3, <1>7
    <2> QED BY <2>1, <2>2
  <1> HIDE DEF f, g, c, d
  <1>9. /\ LinesOf(part, f) \o GrantText(c) \o LinesOf(last, f)
             = LinesOf(part, g) \o GrantText(d) \o LinesOf(last, g)
    <2>1. Body(x) = LinesOf(part, f) \o GrantText(c) \o LinesOf(last, f)
      BY <1>1, BodyIs, Zenon DEF GrantSubgroveKey, f, c
    <2>2. Body(y) = LinesOf(part, g) \o GrantText(d) \o LinesOf(last, g)
      BY <1>1, BodyIs, Zenon DEF GrantSubgroveKey, g, d
    <2> QED BY <2>1, <2>2, Zenon
  <1> HIDE DEF labels, part, last
  <1>10. /\ LinesOf(part, f) \in Seq(Sym) /\ LinesOf(part, g) \in Seq(Sym)
         /\ LinesOf(last, f) \in After(Sym, NL) /\ LinesOf(last, g) \in After(Sym, NL)
         /\ FreeOf(part, f, Sym, NL) /\ FreeOf(part, g, Sym, NL)
         /\ FreeOf(last, f, Sym, NL) /\ FreeOf(last, g, Sym, NL)
    <2>1. LinesOf(part, f) \in Seq(Sym) /\ FreeOf(part, f, Sym, NL)
      BY <1>1, <1>2, <1>4, <1>8, PartTyped
    <2>2. LinesOf(part, g) \in Seq(Sym) /\ FreeOf(part, g, Sym, NL)
      BY <1>1, <1>2, <1>4, <1>8, PartTyped
    <2>3. LinesOf(last, f) \in After(Sym, NL) /\ FreeOf(last, f, Sym, NL)
      BY <1>1, <1>2, <1>4, <1>8, PartTyped
    <2>4. LinesOf(last, g) \in After(Sym, NL) /\ FreeOf(last, g, Sym, NL)
      BY <1>1, <1>2, <1>4, <1>8, PartTyped
    <2> QED BY <2>1, <2>2, <2>3, <2>4
  <1>11. /\ GrantText(c) \in Seq(Sym) /\ GrantText(d) \in Seq(Sym)
         /\ Cat(GrantText(c), LinesOf(last, f)) \in After(Sym, NL)
         /\ Cat(GrantText(d), LinesOf(last, g)) \in After(Sym, NL)
    BY <1>6, <1>10, GrantFacts
  <1> DEFINE A == LinesOf(part, f)
             B == LinesOf(part, g)
             G == GrantText(c)
             H == GrantText(d)
             M == LinesOf(last, f)
             N == LinesOf(last, g)
  <1>12. Cat(A, Cat(G, M)) = Cat(B, Cat(H, N))
    <2>1. /\ Cat(Cat(A, G), M) = Cat(Cat(B, H), N)
          /\ A \in Seq(Sym) /\ B \in Seq(Sym) /\ G \in Seq(Sym) /\ H \in Seq(Sym)
          /\ M \in Seq(Sym) /\ N \in Seq(Sym)
      BY <1>9, <1>10, <1>11 DEF Cat, After
    <2> HIDE DEF A, B, G, H, M, N
    <2>2. Cat(Cat(A, G), M) = Cat(A, Cat(G, M)) /\ Cat(Cat(B, H), N) = Cat(B, Cat(H, N))
      BY <2>1, CatFacts
    <2> QED BY <2>1, <2>2
  <1>13. LinesTold(part, f, g, Sym) /\ LinesTold(last, f, g, Sym)
    BY <1>4, <1>10, LinesTell, SymHas
  <1>14. TextsOf(part, f) = TextsOf(part, g) /\ Cat(G, M) = Cat(H, N)
    BY <1>11, <1>12, <1>13, Zenon DEF LinesTold
  <1>15. c = d /\ M = N
    BY <1>1, <1>6, <1>10, <1>14, GrantTold
  <1>16. TextsOf(last, f) = TextsOf(last, g)
    <2>1. <<>> \in After(Sym, NL)
      BY DEF After
    <2>2. Cat(M, <<>>) = Cat(N, <<>>)
      BY <1>15
    <2> QED BY <1>13, <2>1, <2>2, Zenon DEF LinesTold
  <1>17. TextsOf(labels, f) = TextsOf(labels, g)
    <2>1. /\ TextsOf(part, f)[1] = f["Subgrove"] /\ TextsOf(part, f)[2] = f["Sender"]
          /\ TextsOf(part, g)[1] = g["Subgrove"] /\ TextsOf(part, g)[2] = g["Sender"]
          /\ TextsOf(last, f)[1] = f["Nonce"] /\ TextsOf(last, g)[1] = g["Nonce"]
      BY <1>7 DEF TextsOf
    <2>2. f["Subgrove"] = g["Subgrove"] /\ f["Sender"] = g["Sender"] /\ f["Nonce"] = g["Nonce"]
      BY <1>14, <1>16, <2>1
    <2>3. \A i \in 1 .. Len(labels) : f[labels[i]] = g[labels[i]]
      BY <1>3, <2>2
    <2> QED BY <2>3 DEF TextsOf
  <1>18. x.grants = y.grants
    BY <1>5, <1>15, SeqEqual DEF c, d
  <1> QED BY <1>1, <1>17, <1>18, FieldsGive DEF labels, f, g

\* What is behind the lines of a rotation: how many grants, the grants, and the nonce.
GrantsLine(x) == Line("Grants", <<ToString(Len(x.grants))>>)

LEMMA RotationIs ==
  ASSUME NEW x \in Intent, KeyRotation(x)
  PROVE  /\ x.kind = "RotateSubgroveKey" /\ FieldsOk(x.fields)
         /\ x.grants \in Seq(Grant) /\ Clean(x.grants)
         /\ GrantsLine(x) \in Seq(Sym) /\ Len(GrantsLine(x)) = 3
         /\ \A t \in Seq(Sym) : Cat(GrantsLine(x), t) \in After(Sym, NL)
         /\ Body(x) = Cat(Cat(Cat(LinesOf(<<"Subgrove", "Sender", "NewEpoch">>, x.fields),
                                  GrantsLine(x)),
                              FlattenSeq(GrantSeq(x.grants))),
                          LinesOf(<<"Nonce">>, x.fields))
  <1>1. x.kind = "RotateSubgroveKey" /\ FieldsOk(x.fields) /\ Clean(x.grants)
    BY DEF KeyRotation, GrantOk, Clean
  <1>2. x.grants \in Seq(Grant)
    BY IntentTyped DEF Grant
  <1> DEFINE h == <<NL, "Grants">>
             c == <<ToString(Len(x.grants))>>
  <1>3. /\ h \in Seq(Sym) /\ c \in Seq(Sym) /\ GrantsLine(x) = Cat(h, c) /\ h # <<>> /\ h[1] = NL
        /\ Len(h) = 2 /\ Len(c) = 1
    <2>1. "Grants" \in Sym /\ NL \in Sym
      BY SymHas DEF Sym, Labels
    <2>2. Len(x.grants) \in Nat
      BY <1>2
    <2>3. ToString(Len(x.grants)) \in Sym
      BY <2>2, SymHas
    <2>4. GrantsLine(x) = Cat(h, c)
      BY Zenon DEF GrantsLine, Line, Cat
    <2> QED BY <2>1, <2>3, <2>4
  <1> HIDE DEF h, c
  <1>4. /\ Cat(h, c) \in Seq(Sym) /\ \A t \in Seq(Sym) : Cat(Cat(h, c), t) \in After(Sym, NL)
    BY <1>3, PieceFacts
  <1>5. Len(Cat(h, c)) = 3
    <2>1. Len(h \o c) = Len(h) + Len(c)
      BY <1>3, ConcatProperties
    <2> QED BY <1>3, <2>1 DEF Cat
  <1>6. Body(x) = LinesOf(<<"Subgrove", "Sender", "NewEpoch">>, x.fields) \o GrantsLine(x)
                    \o FlattenSeq(GrantSeq(x.grants)) \o LinesOf(<<"Nonce">>, x.fields)
    BY <1>1, BodyIs, Zenon DEF RotateSubgroveKey, GrantsLine, GrantSeq
  <1> QED BY <1>1, <1>2, <1>3, <1>4, <1>5, <1>6 DEF Cat

\* Of the one with any number.
LEMMA RotateMeant ==
  ASSUME NEW x \in Intent, NEW y \in Intent, KeyRotation(x), KeyRotation(y), Body(x) = Body(y)
  PROVE  x = y
  <1> DEFINE labels == FieldsOf(x.kind)
             f == x.fields
             g == y.fields
             part == <<"Subgrove", "Sender", "NewEpoch">>
             last == <<"Nonce">>
  <1>1. /\ x.kind = "RotateSubgroveKey" /\ y.kind = "RotateSubgroveKey"
        /\ FieldsOk(f) /\ FieldsOk(g)
        /\ x.grants \in Seq(Grant) /\ y.grants \in Seq(Grant) /\ Clean(x.grants) /\ Clean(y.grants)
        /\ GrantsLine(x) \in Seq(Sym) /\ GrantsLine(y) \in Seq(Sym)
        /\ Len(GrantsLine(x)) = Len(GrantsLine(y))
        /\ \A t \in Seq(Sym) : Cat(GrantsLine(x), t) \in After(Sym, NL)
        /\ \A t \in Seq(Sym) : Cat(GrantsLine(y), t) \in After(Sym, NL)
    BY RotationIs
  <1>2. x.kind \in MessageKind /\ f \in Texted(labels) /\ g \in Texted(labels)
    BY <1>1, IntentTyped
  <1>3. labels = <<"Subgrove", "Sender", "NewEpoch", "Nonce">>
    BY <1>1, FieldsAre, KindsAre DEF Others
  <1>4. labels \in Seq(Sym) /\ Len(labels) = 4 /\ part \in Seq(Sym) /\ last \in Seq(Sym)
    <2>1. labels \in Seq(Sym)
      BY <1>2, LabelsTyped
    <2> QED BY <1>3, <2>1 DEF Sym, Labels
  <1>5. /\ Len(part) = 3 /\ part[1] = "Subgrove" /\ part[2] = "Sender" /\ part[3] = "NewEpoch"
        /\ Len(last) = 1 /\ last[1] = "Nonce"
    OBVIOUS
  <1>6. /\ \A i \in 1 .. Len(part) : \E j \in 1 .. Len(labels) : part[i] = labels[j]
        /\ \A i \in 1 .. Len(last) : \E j \in 1 .. Len(labels) : last[i] = labels[j]
    <2>1. \A i \in 1 .. Len(part) : part[i] = labels[i] /\ i \in 1 .. Len(labels)
      BY <1>3, <1>5
    <2>2. \A i \in 1 .. Len(last) : last[i] = labels[4] /\ 4 \in 1 .. Len(labels)
      BY <1>3, <1>5
    <2> QED BY <2>1, <2>2
  <1>7. /\ Body(x) = Cat(Cat(Cat(LinesOf(part, f), GrantsLine(x)), FlattenSeq(GrantSeq(x.grants))),
                         LinesOf(last, f))
        /\ Body(y) = Cat(Cat(Cat(LinesOf(part, g), GrantsLine(y)), FlattenSeq(GrantSeq(y.grants))),
                         LinesOf(last, g))
    BY RotationIs
  <1> HIDE DEF f, g
  <1>8. last = <<"Nonce">>
    OBVIOUS
  <1> HIDE DEF labels, part, last
  <1>9. /\ LinesOf(part, f) \in Seq(Sym) /\ LinesOf(part, g) \in Seq(Sym)
        /\ LinesOf(last, f) \in Closing(Sym) /\ LinesOf(last, g) \in Closing(Sym)
        /\ FreeOf(part, f, Sym, NL) /\ FreeOf(part, g, Sym, NL)
        /\ FreeOf(last, f, Sym, NL) /\ FreeOf(last, g, Sym, NL)
    <2>1. LinesOf(part, f) \in Seq(Sym) /\ FreeOf(part, f, Sym, NL)
      BY <1>1, <1>2, <1>4, <1>6, <1>8, PartTyped
    <2>2. LinesOf(part, g) \in Seq(Sym) /\ FreeOf(part, g, Sym, NL)
      BY <1>1, <1>2, <1>4, <1>6, <1>8, PartTyped
    <2>3. LinesOf(last, f) \in Closing(Sym) /\ FreeOf(last, f, Sym, NL)
      <3>1. labels \in Seq(Sym) /\ last \in Seq(Sym) /\ f \in Texted(labels) /\ FieldsOk(f)
        BY <1>1, <1>2, <1>4
      <3>2. \A i \in 1 .. Len(last) : \E j \in 1 .. Len(labels) : last[i] = labels[j]
        BY <1>6
      <3> QED BY <1>8, <3>1, <3>2, PartTyped
    <2>4. LinesOf(last, g) \in Closing(Sym) /\ FreeOf(last, g, Sym, NL)
      <3>1. labels \in Seq(Sym) /\ last \in Seq(Sym) /\ g \in Texted(labels) /\ FieldsOk(g)
        BY <1>1, <1>2, <1>4
      <3>2. \A i \in 1 .. Len(last) : \E j \in 1 .. Len(labels) : last[i] = labels[j]
        BY <1>6
      <3> QED BY <1>8, <3>1, <3>2, PartTyped
    <2> QED BY <2>1, <2>2, <2>3, <2>4
  <1> DEFINE A == LinesOf(part, f)
             B == LinesOf(part, g)
             K == GrantsLine(x)
             L == GrantsLine(y)
             G == FlattenSeq(GrantSeq(x.grants))
             H == FlattenSeq(GrantSeq(y.grants))
             M == LinesOf(last, f)
             N == LinesOf(last, g)
  <1>10. /\ Cat(Cat(Cat(A, K), G), M) = Cat(Cat(Cat(B, L), H), N)
         /\ A \in Seq(Sym) /\ B \in Seq(Sym) /\ K \in Seq(Sym) /\ L \in Seq(Sym)
         /\ G \in Seq(Sym) /\ H \in Seq(Sym) /\ M \in Seq(Sym) /\ N \in Seq(Sym)
    <2>1. G \in Seq(Sym) /\ H \in Seq(Sym)
      BY <1>1, GrantsTyped, FlatTyped
    <2>2. M \in Seq(Sym) /\ N \in Seq(Sym)
      BY <1>9 DEF Closing, After
    <2> HIDE DEF G, H, M, N
    <2> QED BY <1>1, <1>7, <1>9, <2>1, <2>2 DEF G, H, M, N
  <1>11. /\ Cat(A, Cat(K, Cat(G, M))) = Cat(B, Cat(L, Cat(H, N)))
         /\ Cat(G, M) \in Seq(Sym) /\ Cat(H, N) \in Seq(Sym)
    <2> HIDE DEF A, B, K, L, G, H, M, N
    <2>1. \A p, q, r \in Seq(Sym) : Cat(Cat(p, q), r) = Cat(p, Cat(q, r))
      BY CatFacts
    <2>2. \A p, q \in Seq(Sym) : Cat(p, q) \in Seq(Sym)
      BY CatFacts
    <2>3. Cat(G, M) \in Seq(Sym) /\ Cat(H, N) \in Seq(Sym) /\ Cat(A, K) \in Seq(Sym) /\ Cat(B, L) \in Seq(Sym)
      BY <1>10, <2>2
    <2>4. Cat(Cat(Cat(A, K), G), M) = Cat(Cat(A, K), Cat(G, M))
      BY <1>10, <2>1, <2>3
    <2>5. Cat(Cat(A, K), Cat(G, M)) = Cat(A, Cat(K, Cat(G, M)))
      BY <1>10, <2>1, <2>3
    <2>6. Cat(Cat(Cat(B, L), H), N) = Cat(Cat(B, L), Cat(H, N))
      BY <1>10, <2>1, <2>3
    <2>7. Cat(Cat(B, L), Cat(H, N)) = Cat(B, Cat(L, Cat(H, N)))
      BY <1>10, <2>1, <2>3
    <2> QED BY <1>10, <2>3, <2>4, <2>5, <2>6, <2>7
  <1>12. LinesTold(part, f, g, Sym) /\ LinesTold(last, f, g, Sym)
    BY <1>4, <1>9, LinesTell, SymHas
  <1>13. Cat(K, Cat(G, M)) \in After(Sym, NL) /\ Cat(L, Cat(H, N)) \in After(Sym, NL)
    <2> HIDE DEF G, H, M, N
    <2> QED BY <1>1, <1>11
  <1>14. TextsOf(part, f) = TextsOf(part, g) /\ Cat(K, Cat(G, M)) = Cat(L, Cat(H, N))
    BY <1>11, <1>12, <1>13, Zenon DEF LinesTold
  <1>15. Cat(G, M) = Cat(H, N)
    <2> DEFINE v == Cat(G, M)
               w == Cat(H, N)
    <2>1. Cat(K, v) = Cat(L, w) /\ Len(K) = Len(L) /\ v \in Seq(Sym) /\ w \in Seq(Sym)
      BY <1>1, <1>11, <1>14, Zenon
    <2> HIDE DEF v, w, K, L
    <2>2. v = w
      BY <1>10, <2>1, SameSplit
    <2> QED BY <2>2 DEF v, w
  <1>16. x.grants = y.grants /\ M = N
    BY <1>1, <1>9, <1>15, GrantsTell
  <1>17. TextsOf(last, f) = TextsOf(last, g)
    <2>1. <<>> \in After(Sym, NL)
      BY DEF After
    <2>2. Cat(M, <<>>) = Cat(N, <<>>)
      BY <1>16
    <2> QED BY <1>12, <2>1, <2>2, Zenon DEF LinesTold
  <1>18. TextsOf(labels, f) = TextsOf(labels, g)
    <2>1. /\ TextsOf(part, f)[1] = f["Subgrove"] /\ TextsOf(part, f)[2] = f["Sender"]
          /\ TextsOf(part, g)[1] = g["Subgrove"] /\ TextsOf(part, g)[2] = g["Sender"]
          /\ TextsOf(part, f)[3] = f["NewEpoch"] /\ TextsOf(part, g)[3] = g["NewEpoch"]
          /\ TextsOf(last, f)[1] = f["Nonce"] /\ TextsOf(last, g)[1] = g["Nonce"]
      BY <1>5 DEF TextsOf
    <2>2. /\ f["Subgrove"] = g["Subgrove"] /\ f["Sender"] = g["Sender"]
          /\ f["NewEpoch"] = g["NewEpoch"] /\ f["Nonce"] = g["Nonce"]
      BY <1>14, <1>17, <2>1
    <2>3. \A i \in 1 .. Len(labels) : f[labels[i]] = g[labels[i]]
      BY <1>3, <2>2
    <2> QED BY <2>3 DEF TextsOf
  <1> QED BY <1>1, <1>16, <1>18, FieldsGive DEF labels, f, g

\* What is signed is what the SDK checks, or a definition.
Signable(x) == Checked(x) \/ (x.kind = "RegisterSubgrove" /\ FieldsOk(x.fields))

LEMMA SignableIs ==
  ASSUME NEW x, Signable(x)
  PROVE  /\ x.kind = "RotateSubgroveKey" => KeyRotation(x)
         /\ x.kind = "GrantSubgroveKey" => KeyGrant(x)
         /\ x.kind = "RevokeSubgroveKey" => KeyRevoke(x)
         /\ x.kind = "willow-request-v2" => FieldsOk(x.fields)
         /\ x.kind \in DOMAIN Lines /\ ~AsTheyCome(x) => FieldsOk(x.fields)
  <1> USE DEF Signable, Checked, DataWrite, FileWrite, StorageNode, Registration, KeyGrant,
              KeyRotation, KeyRevoke, DidWrite, AsTheyCome, Spending, Transferring, Read, OtherRequest
  <1>1. x.kind = "RotateSubgroveKey" => KeyRotation(x)
    OBVIOUS
  <1>2. x.kind = "GrantSubgroveKey" => KeyGrant(x)
    OBVIOUS
  <1>3. x.kind = "RevokeSubgroveKey" => KeyRevoke(x)
    OBVIOUS
  <1>4. x.kind = "willow-request-v2" => FieldsOk(x.fields)
    OBVIOUS
  <1>5. x.kind \in DOMAIN Lines /\ ~AsTheyCome(x) => FieldsOk(x.fields)
    BY KindsAre
  <1> QED BY <1>1, <1>2, <1>3, <1>4, <1>5

LEMMA BodyTyped ==
  ASSUME NEW x \in Intent, Signable(x), ~Headless(x)
  PROVE  Body(x) \in Seq(Sym)
  <1> DEFINE labels == FieldsOf(x.kind)
             f == x.fields
  <1>1. x.kind \in MessageKind /\ f \in Texted(labels) /\ NL \in Sym /\ Colon \in Sym
    BY IntentTyped, SymHas
  <1>2. labels \in Seq(Sym)
    BY <1>1, LabelsTyped
  <1>3. TextsIn(labels, f, Sym)
    <2> HIDE DEF labels, f
    <2> QED BY <1>1, <1>2, TextedIs
  <1>4. CASE x.kind \in DOMAIN Lines
    <2>1. Body(x) = LinesOf(labels, f)
      BY <1>4, BodyIs
    <2> HIDE DEF labels, f
    <2> QED BY <1>1, <1>2, <1>3, <2>1, LinesFollow
  <1>5. ASSUME NEW mark \in {NL, Colon}, Body(x) = Behind(mark, labels, f) PROVE Body(x) \in Seq(Sym)
    <2>1. mark \in Sym
      BY <1>1
    <2> HIDE DEF labels, f
    <2>2. /\ BehindSeq(mark, labels, f) \in Seq(Seq(Sym))
          /\ Behind(mark, labels, f) = FlattenSeq(BehindSeq(mark, labels, f))
      BY <1>2, <1>3, <2>1, BehindPieces
    <2> QED BY <1>5, <2>2, FlatTyped
  <1>6. CASE x.kind \in DOMAIN BareLines
    BY <1>5, <1>6, BodyIs
  <1>7. CASE x.kind \in DOMAIN Joined
    BY <1>5, <1>7, BodyIs
  <1>8. \A p, q \in Seq(Sym) : Cat(p, q) \in Seq(Sym)
    BY CatFacts
  <1>9. \A label \in {"Subgrove", "Sender", "NewEpoch", "Nonce"} : label \in Sym
    BY DEF Sym, Labels
  <1>10. CASE x.kind = "GrantSubgroveKey"
    <2>1. labels = <<"Subgrove", "Sender", "Nonce">> /\ FieldsOk(f)
      BY <1>10, SignableIs, FieldsAre, KindsAre DEF Others, KeyGrant
    <2>2. x.grants[1] \in Grant
      <3>1. x.grants \in Seq(Grant) /\ Len(x.grants) = 1
        BY <1>10, IntentTyped DEF Grant
      <3> QED BY <3>1
    <2>3. GrantText(x.grants[1]) \in Seq(Sym)
      BY <2>2, GrantFacts
    <2>4. Body(x) = Cat(Cat(LinesOf(<<"Subgrove", "Sender">>, f), GrantText(x.grants[1])),
                        LinesOf(<<"Nonce">>, f))
      BY <1>10, BodyIs, Zenon DEF GrantSubgroveKey, Cat
    <2>5. /\ TextsIn(<<"Subgrove", "Sender">>, f, Sym) /\ TextsIn(<<"Nonce">>, f, Sym)
          /\ <<"Subgrove", "Sender">> \in Seq(Sym) /\ <<"Nonce">> \in Seq(Sym)
      <3>1. f["Subgrove"] \in Seq(Sym) /\ f["Sender"] \in Seq(Sym) /\ f["Nonce"] \in Seq(Sym)
        <4> HIDE DEF f
        <4> QED BY <1>3, <2>1 DEF TextsIn
      <3> HIDE DEF f
      <3> QED BY <1>9, <3>1 DEF TextsIn
    <2>6. LinesOf(<<"Subgrove", "Sender">>, f) \in Seq(Sym) /\ LinesOf(<<"Nonce">>, f) \in Seq(Sym)
      <3> HIDE DEF f
      <3> QED BY <1>1, <2>5, LinesFollow
    <2> QED BY <1>8, <2>3, <2>4, <2>6
  <1>11. CASE x.kind = "RotateSubgroveKey"
    <2> DEFINE part == <<"Subgrove", "Sender", "NewEpoch">>
               last == <<"Nonce">>
    <2>1. KeyRotation(x) /\ labels = <<"Subgrove", "Sender", "NewEpoch", "Nonce">>
      BY <1>11, SignableIs, FieldsAre, KindsAre DEF Others
    <2>2. /\ GrantsLine(x) \in Seq(Sym) /\ x.grants \in Seq(Grant)
          /\ Body(x) = Cat(Cat(Cat(LinesOf(part, f), GrantsLine(x)), FlattenSeq(GrantSeq(x.grants))),
                           LinesOf(last, f))
      BY <2>1, RotationIs
    <2>3. FlattenSeq(GrantSeq(x.grants)) \in Seq(Sym)
      BY <2>2, GrantsTyped, FlatTyped
    <2>4. TextsIn(part, f, Sym) /\ TextsIn(last, f, Sym) /\ part \in Seq(Sym) /\ last \in Seq(Sym)
      <3>1. /\ f["Subgrove"] \in Seq(Sym) /\ f["Sender"] \in Seq(Sym) /\ f["NewEpoch"] \in Seq(Sym)
            /\ f["Nonce"] \in Seq(Sym)
        <4> HIDE DEF f
        <4> QED BY <1>3, <2>1 DEF TextsIn
      <3> HIDE DEF f
      <3> QED BY <1>9, <3>1 DEF TextsIn
    <2> HIDE DEF part, last, f
    <2>5. LinesOf(part, f) \in Seq(Sym) /\ LinesOf(last, f) \in Seq(Sym)
      BY <1>1, <2>4, LinesFollow
    <2> QED BY <1>8, <2>2, <2>3, <2>5
  <1> QED BY <1>1, <1>4, <1>6, <1>7, <1>10, <1>11, KindsAre DEF MessageKind, Headless

\* A message tells its kind: a document begins with none, nor with a method.
LEMMA FirstOf ==
  ASSUME NEW S, NEW p \in Seq(S), NEW q \in Seq(S), Len(p) = 1
  PROVE  /\ p \o q \in Seq(S) /\ Len(p \o q) = 1 + Len(q) /\ Len(q) \in Nat
         /\ (p \o q)[1] = p[1]
  <1>1. /\ Len(p \o q) = Len(p) + Len(q)
        /\ \A i \in 1 .. Len(p) + Len(q) : (p \o q)[i] = IF i <= Len(p) THEN p[i] ELSE q[i - Len(p)]
    BY ConcatProperties
  <1>2. Len(q) \in Nat /\ p \o q \in Seq(S)
    OBVIOUS
  <1> DEFINE r == p \o q
  <1> HIDE DEF r
  <1>3. \A i \in 1 .. 1 + Len(q) : r[i] = IF i <= 1 THEN p[i] ELSE q[i - 1]
    BY <1>1 DEF r
  <1>4. 1 \in 1 .. 1 + Len(q) /\ 1 <= 1
    BY <1>2
  <1>5. r[1] = p[1]
    BY <1>3, <1>4
  <1> QED BY <1>2, <1>1, <1>5 DEF r

LEMMA BeginsWithKind ==
  ASSUME NEW x \in Intent, Signable(x), ~Headless(x)
  PROVE  Message(x) # <<>> /\ Message(x)[1] = x.kind
  <1> DEFINE k == <<x.kind>>
             b == Body(x)
  <1>1. Message(x) = k \o b
    BY BodyIs DEF Cat
  <1>2. k \in Seq(Sym) /\ Len(k) = 1 /\ k[1] = x.kind
    BY IntentTyped, SymHas
  <1>3. b \in Seq(Sym)
    BY BodyTyped
  <1> HIDE DEF k, b
  <1>4. Len(b) \in Nat /\ k \o b \in Seq(Sym) /\ Len(k \o b) = Len(k) + Len(b) /\ (k \o b)[1] = k[1]
    BY <1>2, <1>3, FirstOf
  <1> QED BY <1>1, <1>2, <1>4

LEMMA DocumentIs ==
  ASSUME NEW x \in Intent, x.kind = "RegisterDid"
  PROVE  /\ Message(x) = x.fields["Document"] /\ Message(x) \in Seq(Token)
         /\ Message(x) # <<>> => Message(x)[1] \notin MessageKind \cup Method
         /\ FieldsOf(x.kind) = <<"Document">>
  <1>1. x.fields \in Texted(FieldsOf(x.kind)) /\ FieldsOf(x.kind) = <<"Document">>
    BY IntentTyped, FieldsAre, KindsAre DEF Others
  <1>2. {<<"Document">>[i] : i \in DOMAIN <<"Document">>} = {"Document"}
    OBVIOUS
  <1>3. DOMAIN x.fields = {"Document"} /\ x.fields["Document"] \in Seq(Token)
    BY <1>1, <1>2 DEF Texted
  <1>4. Asked(x)
    BY IntentAssumption
  <1>5. Message(x) = x.fields["Document"]
    BY BodyIs
  <1>6. x.fields["Document"] # <<>> => x.fields["Document"][1] \notin MessageKind \cup Method
    BY <1>3, <1>4 DEF Asked
  <1> QED BY <1>1, <1>3, <1>5, <1>6

LEMMA LegacyIs ==
  ASSUME NEW x \in Intent, x.kind = "LegacyRequest"
  PROVE  /\ \E method \in Method : x.fields["Method"] = <<method>>
         /\ x.fields["Method"] \in Seq(Sym) /\ Len(x.fields["Method"]) = 1
         /\ x.fields["Path"] \in Seq(Sym)
         /\ x.fields["Timestamp"] \in Free1(Sym, Colon)
         /\ Message(x) =
              Cat(x.fields["Method"],
                  Cat(<<Colon>>, Cat(x.fields["Path"], Cat(<<Colon>>, x.fields["Timestamp"]))))
  <1> DEFINE f == x.fields
             c == <<Colon>>
  <1>1. f \in Texted(FieldsOf(x.kind)) /\ x.kind \in MessageKind
    BY IntentTyped
  <1>2. FieldsOf(x.kind) = <<"Method", "Path", "Query", "Timestamp", "Body">>
    BY FieldsAre, KindsAre DEF Others
  <1>3. {<<"Method", "Path", "Query", "Timestamp", "Body">>[i] :
           i \in DOMAIN <<"Method", "Path", "Query", "Timestamp", "Body">>}
          = {"Method", "Path", "Query", "Timestamp", "Body"}
    OBVIOUS
  <1>4. f["Method"] \in Seq(Token) /\ f["Path"] \in Seq(Token) /\ f["Timestamp"] \in Seq(Token)
    BY <1>1, <1>2, <1>3 DEF Texted
  <1>5. Asked(x)
    BY IntentAssumption
  <1>6. (\E method \in Method : f["Method"] = <<method>>) /\ ~Has(f["Timestamp"], Colon)
    BY <1>5 DEF Asked
  <1>7. f["Method"] \in Seq(Sym) /\ f["Path"] \in Seq(Sym) /\ f["Timestamp"] \in Seq(Sym)
        /\ c \in Seq(Sym)
    BY <1>4, SymHas
  <1>8. f["Timestamp"] \in Free1(Sym, Colon)
    <2> HIDE DEF f
    <2> QED BY <1>6, <1>7 DEF Free1
  <1>9. Len(f["Method"]) = 1
    BY <1>6
  <1>10. Message(x) = Cat(Cat(Cat(Cat(f["Method"], c), f["Path"]), c), f["Timestamp"])
    BY BodyIs, Zenon DEF LegacyMessage, Cat
  <1>11. ASSUME NEW m \in Seq(Sym), NEW d \in Seq(Sym), NEW p \in Seq(Sym), NEW t \in Seq(Sym)
         PROVE  Cat(Cat(Cat(Cat(m, d), p), d), t) = Cat(m, Cat(d, Cat(p, Cat(d, t))))
    <2>1. \A u, v, w \in Seq(Sym) : Cat(Cat(u, v), w) = Cat(u, Cat(v, w))
      BY CatFacts
    <2>2. \A u, v \in Seq(Sym) : Cat(u, v) \in Seq(Sym)
      BY CatFacts
    <2>3. Cat(d, t) \in Seq(Sym) /\ Cat(m, d) \in Seq(Sym) /\ Cat(Cat(m, d), p) \in Seq(Sym)
          /\ Cat(p, Cat(d, t)) \in Seq(Sym)
      BY <2>2
    <2>4. Cat(Cat(Cat(Cat(m, d), p), d), t) = Cat(Cat(Cat(m, d), p), Cat(d, t))
      BY <2>1, <2>3
    <2>5. Cat(Cat(Cat(m, d), p), Cat(d, t)) = Cat(Cat(m, d), Cat(p, Cat(d, t)))
      BY <2>1, <2>3
    <2>6. Cat(Cat(m, d), Cat(p, Cat(d, t))) = Cat(m, Cat(d, Cat(p, Cat(d, t))))
      BY <2>1, <2>3
    <2> QED BY <2>4, <2>5, <2>6
  <1>12. Message(x) = Cat(f["Method"], Cat(c, Cat(f["Path"], Cat(c, f["Timestamp"]))))
    <2> HIDE DEF f, c
    <2> QED BY <1>7, <1>10, <1>11
  <1> HIDE DEF f
  <1> QED BY <1>6, <1>7, <1>8, <1>9, <1>12 DEF f

LEMMA BeginsWithMethod ==
  ASSUME NEW x \in Intent, x.kind = "LegacyRequest"
  PROVE  /\ Message(x) # <<>> /\ Message(x)[1] \in Method /\ Message(x)[1] \notin MessageKind
         /\ <<Message(x)[1]>> = x.fields["Method"]
  <1> DEFINE m == x.fields["Method"]
             r == Cat(<<Colon>>, Cat(x.fields["Path"], Cat(<<Colon>>, x.fields["Timestamp"])))
  <1>1. m \in Seq(Sym) /\ Len(m) = 1 /\ Message(x) = m \o r
    BY LegacyIs DEF Cat
  <1>2. PICK method \in Method : m = <<method>>
    BY LegacyIs
  <1>3. r \in Seq(Sym)
    <2>1. x.fields["Path"] \in Seq(Sym) /\ x.fields["Timestamp"] \in Seq(Sym) /\ <<Colon>> \in Seq(Sym)
      BY LegacyIs, SymHas DEF Free1
    <2>2. \A u, v \in Seq(Sym) : Cat(u, v) \in Seq(Sym)
      BY CatFacts
    <2> QED BY <2>1, <2>2
  <1> HIDE DEF m, r
  <1>4. Message(x) \in Seq(Sym) /\ Len(Message(x)) = 1 + Len(r) /\ Message(x)[1] = m[1]
    <2>1. m \o r \in Seq(Sym) /\ Len(m \o r) = 1 + Len(r) /\ (m \o r)[1] = m[1]
      BY <1>1, <1>3, FirstOf
    <2> QED BY <1>1, <2>1
  <1>5. Message(x) # <<>> /\ Message(x)[1] = method /\ <<Message(x)[1]>> = m
    BY <1>2, <1>3, <1>4
  <1>6. method \notin MessageKind
    BY KindsAre DEF Method, MessageKind
  <1> QED BY <1>5, <1>6 DEF m

LEMMA KindTold ==
  ASSUME NEW x \in Intent, NEW y \in Intent, Signable(x), Signable(y), Message(x) = Message(y)
  PROVE  x.kind = y.kind
  <1>1. ASSUME NEW z \in Intent, Signable(z)
        PROVE  /\ ~Headless(z) => /\ Message(z) # <<>> /\ Message(z)[1] = z.kind
                              /\ Message(z)[1] \in MessageKind
               /\ z.kind = "RegisterDid" => (Message(z) # <<>> => Message(z)[1] \notin MessageKind \cup Method)
               /\ z.kind = "LegacyRequest" =>
                    /\ Message(z) # <<>>
                    /\ Message(z)[1] \in Method /\ Message(z)[1] \notin MessageKind
    <2>1. ~Headless(z) => Message(z) # <<>> /\ Message(z)[1] = z.kind /\ Message(z)[1] \in MessageKind
      BY <1>1, BeginsWithKind, IntentTyped
    <2>2. z.kind = "RegisterDid" => (Message(z) # <<>> => Message(z)[1] \notin MessageKind \cup Method)
      BY DocumentIs
    <2>3. z.kind = "LegacyRequest" =>
            /\ Message(z) # <<>>
            /\ Message(z)[1] \in Method /\ Message(z)[1] \notin MessageKind
      BY BeginsWithMethod
    <2> QED BY <2>1, <2>2, <2>3
  <1> DEFINE m == Message(x)
  <1>2. /\ ~Headless(x) => m # <<>> /\ m[1] = x.kind /\ m[1] \in MessageKind
        /\ x.kind = "RegisterDid" => (m # <<>> => m[1] \notin MessageKind \cup Method)
        /\ x.kind = "LegacyRequest" => m # <<>> /\ m[1] \in Method /\ m[1] \notin MessageKind
    BY <1>1
  <1>3. /\ ~Headless(y) => m # <<>> /\ m[1] = y.kind /\ m[1] \in MessageKind
        /\ y.kind = "RegisterDid" => (m # <<>> => m[1] \notin MessageKind \cup Method)
        /\ y.kind = "LegacyRequest" => m # <<>> /\ m[1] \in Method /\ m[1] \notin MessageKind
    BY <1>1
  <1> HIDE DEF m
  <1> QED BY <1>2, <1>3 DEF Headless

\* Texts that begin with a mark, the longer without another, end what is one in one place.
NoMore(w, mark) == \A i \in 2 .. Len(w) : w[i] # mark

LEMMA LastMark ==
  ASSUME NEW S, NEW mark, NEW p \in Seq(S), NEW q \in Seq(S), NEW v \in Seq(S), NEW w \in Seq(S),
         Len(v) >= 1, v[1] = mark, Len(v) <= Len(w), NoMore(w, mark), Cat(p, v) = Cat(q, w)
  PROVE  Len(p) = Len(q)
  <1>1. /\ Len(p \o v) = Len(p) + Len(v)
        /\ \A i \in 1 .. Len(p) + Len(v) : (p \o v)[i] = IF i <= Len(p) THEN p[i] ELSE v[i - Len(p)]
    BY ConcatProperties
  <1>2. /\ Len(q \o w) = Len(q) + Len(w)
        /\ \A i \in 1 .. Len(q) + Len(w) : (q \o w)[i] = IF i <= Len(q) THEN q[i] ELSE w[i - Len(q)]
    BY ConcatProperties
  <1>3. Len(p) \in Nat /\ Len(q) \in Nat /\ Len(v) \in Nat /\ Len(w) \in Nat
    OBVIOUS
  <1>4. Len(p) + Len(v) = Len(q) + Len(w)
    BY <1>1, <1>2 DEF Cat
  <1> DEFINE r == q \o w
             i == Len(p) + 1
  <1>5. r[i] = v[1]
    <2>1. \A k \in 1 .. Len(p) + Len(v) : r[k] = IF k <= Len(p) THEN p[k] ELSE v[k - Len(p)]
      BY <1>1 DEF Cat
    <2>2. i \in 1 .. Len(p) + Len(v) /\ ~(i <= Len(p)) /\ i - Len(p) = 1
      BY <1>3
    <2> HIDE DEF r, i
    <2> QED BY <2>1, <2>2
  <1>6. \A k \in 1 .. Len(q) + Len(w) : r[k] = IF k <= Len(q) THEN q[k] ELSE w[k - Len(q)]
    BY <1>2
  <1> HIDE DEF r
  <1>7. SUFFICES ASSUME Len(p) # Len(q) PROVE FALSE
    OBVIOUS
  <1>8. i \in 1 .. Len(q) + Len(w) /\ ~(i <= Len(q)) /\ i - Len(q) \in 2 .. Len(w)
    BY <1>3, <1>4, <1>7
  <1> HIDE DEF i
  <1>9. r[i] = w[i - Len(q)]
    BY <1>6, <1>8
  <1> QED BY <1>5, <1>8, <1>9 DEF NoMore

LEMMA LastTold ==
  ASSUME NEW S, NEW mark \in S, NEW p \in Seq(S), NEW q \in Seq(S),
         NEW t \in Free1(S, mark), NEW u \in Free1(S, mark), Len(t) <= Len(u),
         Cat(p, Cat(<<mark>>, t)) = Cat(q, Cat(<<mark>>, u))
  PROVE  p = q /\ t = u
  <1> DEFINE c == <<mark>>
  <1>1. t \in Seq(S) /\ u \in Seq(S) /\ c \in Seq(S) /\ Len(c) = 1 /\ c[1] = mark
        /\ Len(t) \in Nat /\ Len(u) \in Nat
    BY DEF Free1
  <1>2. \A i \in 1 .. Len(u) : u[i] # mark
    BY DEF Free1, Has
  <1> HIDE DEF c
  <1> DEFINE v == c \o t
             w == c \o u
  <1>3. v \in Seq(S) /\ Len(v) = 1 + Len(t) /\ v[1] = mark
    <2>1. v \in Seq(S) /\ Len(v) = 1 + Len(t) /\ v[1] = c[1]
      BY <1>1, FirstOf
    <2> QED BY <1>1, <2>1
  <1>4. w \in Seq(S) /\ Len(w) = 1 + Len(u) /\ \A i \in 2 .. 1 + Len(u) : w[i] = u[i - 1]
    <2>1. w \in Seq(S) /\ Len(w) = 1 + Len(u)
      BY <1>1, FirstOf
    <2>2. \A i \in 1 .. Len(c) + Len(u) : w[i] = IF i <= Len(c) THEN c[i] ELSE u[i - Len(c)]
      BY <1>1, ConcatProperties
    <2>3. \A i \in 2 .. 1 + Len(u) : w[i] = u[i - 1]
      <3> HIDE DEF w
      <3> QED BY <1>1, <2>2
    <2> QED BY <2>1, <2>3
  <1>5. Cat(p, v) = Cat(q, w)
    BY DEF Cat, c
  <1> HIDE DEF v, w
  <1>6. NoMore(w, mark)
    <2> SUFFICES ASSUME NEW i \in 2 .. Len(w) PROVE w[i] # mark
      BY DEF NoMore
    <2>1. i \in 2 .. 1 + Len(u) /\ i - 1 \in 1 .. Len(u)
      BY <1>1, <1>4
    <2>2. w[i] = u[i - 1]
      BY <1>4, <2>1
    <2> QED BY <1>2, <2>1, <2>2
  <1>7. Len(v) >= 1 /\ Len(v) <= Len(w)
    BY <1>1, <1>3, <1>4
  <1>8. Len(p) = Len(q)
    <2>1. p \in Seq(S) /\ q \in Seq(S) /\ v \in Seq(S) /\ w \in Seq(S) /\ v[1] = mark
      BY <1>3, <1>4
    <2> QED BY <1>5, <1>6, <1>7, <2>1, LastMark
  <1>9. p = q /\ v = w
    BY <1>3, <1>4, <1>5, <1>8, SameSplit
  <1>10. Cat(c, t) = Cat(c, u)
    BY <1>9 DEF v, w, Cat
  <1>11. t = u
    BY <1>1, <1>10, SameSplit
  <1> QED BY <1>9, <1>11

\* The older form of a request tells its method, its path and its time.
LEMMA LegacyTold ==
  ASSUME NEW x \in Intent, NEW y \in Intent, x.kind = "LegacyRequest", y.kind = "LegacyRequest",
         Message(x) = Message(y)
  PROVE  SameRoute(x, y)
  <1> DEFINE c == <<Colon>>
             p == x.fields["Path"]
             q == y.fields["Path"]
             t == x.fields["Timestamp"]
             u == y.fields["Timestamp"]
             m == x.fields["Method"]
             n == y.fields["Method"]
             v == Cat(p, Cat(c, t))
             w == Cat(q, Cat(c, u))
  <1>1. m = n
    BY BeginsWithMethod
  <1>2. /\ Cat(m, Cat(c, v)) = Cat(n, Cat(c, w)) /\ m \in Seq(Sym) /\ n \in Seq(Sym)
        /\ p \in Seq(Sym) /\ q \in Seq(Sym) /\ t \in Free1(Sym, Colon) /\ u \in Free1(Sym, Colon)
    BY LegacyIs
  <1>3. c \in Seq(Sym) /\ t \in Seq(Sym) /\ u \in Seq(Sym) /\ Colon \in Sym
    BY <1>2, SymHas DEF Free1
  <1> HIDE DEF c, p, q, t, u, m, n
  <1>4. v \in Seq(Sym) /\ w \in Seq(Sym) /\ Cat(c, v) \in Seq(Sym) /\ Cat(c, w) \in Seq(Sym)
    <2>1. \A a, b \in Seq(Sym) : Cat(a, b) \in Seq(Sym)
      BY CatFacts
    <2> QED BY <1>2, <1>3, <2>1
  <1> HIDE DEF v, w
  <1>5. Cat(c, v) = Cat(c, w)
    BY <1>1, <1>2, <1>4, SameSplit
  <1>6. v = w
    BY <1>3, <1>4, <1>5, SameSplit
  <1>7. Cat(p, Cat(<<Colon>>, t)) = Cat(q, Cat(<<Colon>>, u))
    BY <1>6 DEF v, w, c
  <1>8. Len(t) \in Nat /\ Len(u) \in Nat
    BY <1>3
  <1>9. CASE Len(t) <= Len(u)
    <2>1. p = q /\ t = u
      BY <1>2, <1>3, <1>7, <1>9, LastTold
    <2> QED BY <1>1, <2>1 DEF SameRoute, m, n, p, q, t, u
  <1>10. CASE Len(u) <= Len(t)
    <2>1. p = q /\ t = u
      BY <1>2, <1>3, <1>7, <1>10, LastTold
    <2> QED BY <1>1, <2>1 DEF SameRoute, m, n, p, q, t, u
  <1> QED BY <1>8, <1>9, <1>10

\* And of all but those and the kinds signed as they come, a message is of one thing alone.
LEMMA MessageTold ==
  ASSUME NEW x \in Intent, NEW y \in Intent, Signable(x), Signable(y), Message(x) = Message(y),
         ~AsTheyCome(x), ~OtherRequest(x)
  PROVE  x = y
  <1>1. x.kind = y.kind /\ x.kind \in MessageKind /\ ~AsTheyCome(y)
    BY KindTold, IntentTyped DEF AsTheyCome, Spending, Transferring
  <1>2. ASSUME ~Headless(x) PROVE Body(x) = Body(y)
    <2> DEFINE k == <<x.kind>>
               a == Body(x)
               b == Body(y)
    <2>1. Cat(k, a) = Cat(k, b)
      BY <1>1, <1>2, BodyIs DEF Headless
    <2>2. k \in Seq(Sym) /\ a \in Seq(Sym) /\ b \in Seq(Sym)
      BY <1>1, <1>2, BodyTyped, SymHas DEF Headless
    <2> HIDE DEF k, a, b
    <2>3. a = b
      BY <2>1, <2>2, SameSplit
    <2> QED BY <2>3 DEF a, b
  <1>3. CASE x.kind \in DOMAIN Lines
    <2>1. FieldsOk(x.fields) /\ FieldsOk(y.fields)
      BY <1>1, <1>3, SignableIs
    <2>2. ~Headless(x)
      BY <1>3, KindsAre DEF Headless
    <2> QED BY <1>1, <1>2, <1>3, <2>1, <2>2, LinesMeant
  <1>4. CASE x.kind \in DOMAIN BareLines
    <2>1. x.kind = "UpdateDid" \/ x.kind = "willow-request-v2"
      BY <1>4, KindsAre DEF AsTheyCome, Transferring
    <2>2. x.kind = "willow-request-v2" => FieldsOk(x.fields) /\ FieldsOk(y.fields)
      BY <1>1, SignableIs
    <2>3. ~Headless(x)
      BY <2>1 DEF Headless
    <2> QED BY <1>1, <1>2, <2>1, <2>2, <2>3, BareMeant
  <1>5. CASE x.kind \in DOMAIN Joined
    <2>1. x.kind = "RevokeSubgroveKey"
      BY <1>5, KindsAre DEF AsTheyCome, Spending
    <2>2. KeyRevoke(x) /\ KeyRevoke(y)
      BY <1>1, <2>1, SignableIs
    <2> QED BY <1>2, <2>1, <2>2, RevokeMeant DEF Headless
  <1>6. CASE x.kind = "GrantSubgroveKey"
    <2>1. KeyGrant(x) /\ KeyGrant(y)
      BY <1>1, <1>6, SignableIs
    <2> QED BY <1>2, <1>6, <2>1, GrantMeant DEF Headless
  <1>7. CASE x.kind = "RotateSubgroveKey"
    <2>1. KeyRotation(x) /\ KeyRotation(y)
      BY <1>1, <1>7, SignableIs
    <2> QED BY <1>2, <1>7, <2>1, RotateMeant DEF Headless
  <1>8. CASE x.kind = "RegisterDid"
    <2>1. x.fields["Document"] = y.fields["Document"] /\ FieldsOf(x.kind) = <<"Document">>
      BY <1>1, <1>8, DocumentIs
    <2>2. TextsOf(FieldsOf(x.kind), x.fields) = TextsOf(FieldsOf(x.kind), y.fields)
      <3> DEFINE f == x.fields
                 g == y.fields
      <3>1. \A i \in 1 .. Len(<<"Document">>) : f[<<"Document">>[i]] = g[<<"Document">>[i]]
        BY <2>1
      <3> HIDE DEF f, g
      <3>2. TextsOf(<<"Document">>, f) = TextsOf(<<"Document">>, g)
        BY <3>1 DEF TextsOf
      <3> QED BY <2>1, <3>2 DEF f, g
    <2>3. x.grants = y.grants
      BY <1>1, <1>8, IntentTyped
    <2> QED BY <1>1, <2>2, <2>3, FieldsGive
  <1> QED BY <1>1, <1>3, <1>4, <1>5, <1>6, <1>7, <1>8, KindsAre DEF MessageKind, OtherRequest

\* What was signed was asked for and checked, and what is accepted was signed, as something.
SigningInv ==
  /\ \A s \in signed : s.what \in Intent /\ Signable(s.what) /\ s.message = Message(s.what)
  /\ accepted # Nothing =>
       /\ accepted \in Intent /\ Signable(accepted)
       /\ \E s \in signed : s.message = Message(accepted)

LEMMA SigningFirst == SigningInit => SigningInv
  BY DEF SigningInit, SigningInv

LEMMA SigningStepOK ==
  ASSUME SigningInv, SigningStep \/ UNCHANGED signingVars
  PROVE  SigningInv'
  <1>1. CASE UNCHANGED signingVars
    BY <1>1 DEF SigningInv, signingVars
  <1>2. ASSUME NEW x \in Intent, Sign(x) \/ SignDefinition(x) PROVE SigningInv'
    <2> DEFINE new == [what |-> x, message |-> Message(x)]
    <2>1. Signable(x)
      <3>1. Sign(x) => Checked(x)
        BY Zenon DEF Sign
      <3>2. SignDefinition(x) => x.kind = "RegisterSubgrove" /\ FieldsOk(x.fields)
        BY Zenon DEF SignDefinition
      <3> QED BY <1>2, <3>1, <3>2, Zenon DEF Signable
    <2>2. signed' = signed \cup {new} /\ accepted' = accepted
      BY <1>2, Zenon DEF Sign, SignDefinition
    <2>3. new.what = x /\ new.message = Message(x)
      OBVIOUS
    <2> HIDE DEF new
    <2>4. \A s \in signed' : s.what \in Intent /\ Signable(s.what) /\ s.message = Message(s.what)
      BY <2>1, <2>2, <2>3 DEF SigningInv
    <2> QED BY <2>2, <2>4 DEF SigningInv
  <1>3. ASSUME NEW x \in Intent, Accept(x) PROVE SigningInv'
    <2>1. /\ Checked(x) /\ signed' = signed /\ accepted' = x
          /\ \E s \in signed : s.message = Message(x)
      BY <1>3, Zenon DEF Accept
    <2>2. Signable(x)
      BY <2>1, Zenon DEF Signable
    <2> QED BY <2>1, <2>2 DEF SigningInv
  <1> QED BY <1>1, <1>2, <1>3 DEF SigningStep

LEMMA SigningInvSuffices == SigningInv => SignedIsMeant
  <1> SUFFICES ASSUME SigningInv, accepted # Nothing
               PROVE  \E s \in signed : Meant(s.what, accepted)
    BY DEF SignedIsMeant
  <1>1. accepted \in Intent /\ Signable(accepted)
    BY DEF SigningInv
  <1>2. PICK s \in signed : s.message = Message(accepted)
    BY DEF SigningInv
  <1>3. s.what \in Intent /\ Signable(s.what) /\ Message(accepted) = Message(s.what)
    BY <1>2 DEF SigningInv
  <1>4. accepted.kind = s.what.kind
    BY <1>1, <1>3, KindTold
  <1>5. ~OtherRequest(accepted) /\ ~AsTheyCome(accepted) => s.what = accepted
    BY <1>1, <1>3, MessageTold
  <1>6. OtherRequest(accepted) => SameRoute(s.what, accepted)
    <2> SUFFICES ASSUME OtherRequest(accepted) PROVE SameRoute(s.what, accepted)
      OBVIOUS
    <2>1. accepted.kind = "LegacyRequest" /\ s.what.kind = "LegacyRequest" /\ Message(s.what) = Message(accepted)
      BY <1>3, <1>4 DEF OtherRequest
    <2> QED BY <1>1, <1>3, <2>1, LegacyTold
  <1> QED BY <1>4, <1>5, <1>6 DEF Meant

-----------------------------------------------------------------------------
(* A proof's envelope *)

USE ScanAssumption

\* What is behind a number or a byte string: shorter bytes, of which there is one reading.
LEMMA VarintFacts ==
  ASSUME NEW bs \in Seq(Byte)
  PROVE  /\ \A v \in Varint(bs) : /\ v.value \in Nat /\ v.rest \in Seq(Byte)
                                  /\ Len(v.rest) + 1 <= Len(bs)
         /\ \A v, w \in Varint(bs) : v = w
  <1>1. CASE bs = <<>>
    BY <1>1 DEF Varint
  <1>2. CASE bs # <<>> /\ bs[1] < WideTag
    <2>1. Varint(bs) = {[value |-> bs[1], rest |-> Tail(bs)]}
      BY <1>2 DEF Varint
    <2>2. bs[1] \in Nat /\ Tail(bs) \in Seq(Byte) /\ Len(Tail(bs)) + 1 <= Len(bs)
      BY <1>2 DEF Byte
    <2> QED BY <2>1, <2>2
  <1>3. CASE bs # <<>> /\ bs[1] = WideTag /\ Len(bs) >= 3
    <2> DEFINE n == bs[2] * (MaxByte + 1) + bs[3]
    <2>1. Varint(bs) = {[value |-> n, rest |-> Drop(bs, 3)]}
      BY <1>3 DEF Varint
    <2>2. n \in Nat
      <3>1. bs[2] \in Nat /\ bs[3] \in Nat /\ MaxByte + 1 \in Nat
        BY <1>3 DEF Byte
      <3> DEFINE a == bs[2]
                 b == bs[3]
                 c == MaxByte + 1
      <3>2. \A i, j, k \in Nat : i * j + k \in Nat
        OBVIOUS
      <3>3. a \in Nat /\ b \in Nat /\ c \in Nat
        BY <3>1
      <3> HIDE DEF a, b, c
      <3>4. a * c + b \in Nat
        BY <3>2, <3>3
      <3> QED BY <3>4 DEF a, b, c
    <2>3. Drop(bs, 3) \in Seq(Byte) /\ Len(Drop(bs, 3)) + 1 <= Len(bs)
      BY <1>3 DEF Drop
    <2> HIDE DEF n
    <2> QED BY <2>1, <2>2, <2>3
  <1>4. CASE bs # <<>> /\ ~(bs[1] < WideTag) /\ ~(bs[1] = WideTag /\ Len(bs) >= 3)
    <2>1. Varint(bs) = {}
      BY <1>4 DEF Varint
    <2> QED BY <2>1
  <1> QED BY <1>1, <1>2, <1>3, <1>4

LEMMA StringFacts ==
  ASSUME NEW bs \in Seq(Byte)
  PROVE  /\ \A r \in AfterString(bs) : r \in Seq(Byte) /\ Len(r) + 1 <= Len(bs)
         /\ \A r, s \in AfterString(bs) : r = s
  <1>1. ASSUME NEW r \in AfterString(bs)
        PROVE  \E v \in Varint(bs) : v.value <= Len(v.rest) /\ r = Drop(v.rest, v.value)
    BY DEF AfterString
  <1>2. ASSUME NEW r \in AfterString(bs) PROVE r \in Seq(Byte) /\ Len(r) + 1 <= Len(bs)
    <2>1. PICK v \in Varint(bs) : v.value <= Len(v.rest) /\ r = Drop(v.rest, v.value)
      BY <1>1
    <2>2. v.value \in Nat /\ v.rest \in Seq(Byte) /\ Len(v.rest) + 1 <= Len(bs)
      BY VarintFacts
    <2> DEFINE n == v.value
               t == v.rest
    <2>3. r = SubSeq(t, n + 1, Len(t)) /\ n \in Nat /\ t \in Seq(Byte) /\ n <= Len(t)
      BY <2>1, <2>2 DEF Drop
    <2> HIDE DEF n, t
    <2>4. r \in Seq(Byte) /\ Len(r) <= Len(t)
      BY <2>3
    <2> QED BY <2>2, <2>4 DEF t
  <1>3. ASSUME NEW r \in AfterString(bs), NEW s \in AfterString(bs) PROVE r = s
    <2>1. PICK v \in Varint(bs) : r = Drop(v.rest, v.value)
      BY <1>1
    <2>2. PICK w \in Varint(bs) : s = Drop(w.rest, w.value)
      BY <1>1
    <2>3. v = w
      BY VarintFacts
    <2> QED BY <2>1, <2>2, <2>3
  <1> QED BY <1>2, <1>3

-----------------------------------------------------------------------------
(* The decoder, one call after the other *)

\* The decoder exists: a table of it for every number of bytes does.
TableTo(f, k) == f = [n \in 0 .. k |-> LowersBy(IF n = 0 THEN NoLowers ELSE f[n - 1])]

LEMMA TablesExist == \A k \in Nat : \E f : TableTo(f, k)
  <1> DEFINE Good == {k \in Nat : \E f : TableTo(f, k)}
  <1>1. 0 \in Good
    <2> DEFINE f == [n \in 0 .. 0 |-> LowersBy(NoLowers)]
               g == [n \in 0 .. 0 |-> LowersBy(IF n = 0 THEN NoLowers ELSE f[n - 1])]
    <2>1. f = g
      <3>1. \A n \in 0 .. 0 : g[n] = LowersBy(NoLowers)
        OBVIOUS
      <3> QED BY <3>1
    <2>2. TableTo(f, 0)
      BY <2>1, Zenon DEF TableTo
    <2> HIDE DEF f
    <2> QED BY <2>2
  <1>2. ASSUME NEW k \in Nat, k \in Good PROVE k + 1 \in Good
    <2>1. PICK f : TableTo(f, k)
      BY <1>2
    <2> DEFINE g == [n \in 0 .. k + 1 |-> IF n = k + 1 THEN LowersBy(f[k]) ELSE f[n]]
               h == [n \in 0 .. k + 1 |-> LowersBy(IF n = 0 THEN NoLowers ELSE g[n - 1])]
    <2>2. \A n \in 0 .. k : f[n] = LowersBy(IF n = 0 THEN NoLowers ELSE f[n - 1])
      <3> DEFINE e(n) == LowersBy(IF n = 0 THEN NoLowers ELSE f[n - 1])
      <3>1. f = [n \in 0 .. k |-> e(n)]
        BY <2>1, Zenon DEF TableTo
      <3> HIDE DEF e
      <3>2. \A n \in 0 .. k : f[n] = e(n)
        BY <3>1, Zenon
      <3> QED BY <3>2 DEF e
    <2>3. \A n \in 0 .. k + 1 : g[n] = IF n = k + 1 THEN LowersBy(f[k]) ELSE f[n]
      OBVIOUS
    <2>4. \A n \in 0 .. k + 1 : g[n] = LowersBy(IF n = 0 THEN NoLowers ELSE g[n - 1])
      <3>1. ASSUME NEW n \in 0 .. k
            PROVE  g[n] = LowersBy(IF n = 0 THEN NoLowers ELSE g[n - 1])
        <4>1. g[n] = f[n] /\ (n # 0 => g[n - 1] = f[n - 1])
          BY <2>3
        <4> HIDE DEF g
        <4>2. CASE n = 0
          BY <2>2, <4>1, <4>2
        <4>3. CASE n # 0
          BY <2>2, <4>1, <4>3
        <4> QED BY <4>2, <4>3
      <3>2. g[k + 1] = LowersBy(g[k]) /\ k + 1 # 0 /\ (k + 1) - 1 = k
        BY <2>3
      <3> HIDE DEF g
      <3> QED BY <3>1, <3>2
    <2>5. g = h
      <3> DEFINE e(n) == LowersBy(IF n = 0 THEN NoLowers ELSE g[n - 1])
      <3>1. \A n \in 0 .. k + 1 : h[n] = g[n]
        BY <2>4
      <3>2. DOMAIN g = 0 .. k + 1 /\ DOMAIN h = 0 .. k + 1
        OBVIOUS
      <3>3. g = [n \in 0 .. k + 1 |-> g[n]] /\ h = [n \in 0 .. k + 1 |-> h[n]]
        OBVIOUS
      <3> HIDE DEF g, h
      <3> QED BY <3>1, <3>3
    <2>6. TableTo(g, k + 1)
      BY <2>5, Zenon DEF TableTo
    <2> HIDE DEF g, h
    <2> QED BY <2>6
  <1> HIDE DEF Good
  <1>3. Nat \subseteq Good
    BY <1>1, <1>2, Climb
  <1> QED BY <1>3 DEF Good

\* One table's column is the other's.
LEMMA TableRows ==
  ASSUME NEW k \in Nat, NEW f, TableTo(f, k)
  PROVE  \A n \in 0 .. k : f[n] = LowersBy(IF n = 0 THEN NoLowers ELSE f[n - 1])
  <1> DEFINE e(n) == LowersBy(IF n = 0 THEN NoLowers ELSE f[n - 1])
  <1>1. f = [n \in 0 .. k |-> e(n)]
    BY Zenon DEF TableTo
  <1> HIDE DEF e
  <1>2. \A n \in 0 .. k : f[n] = e(n)
    BY <1>1, Zenon
  <1> QED BY <1>2 DEF e

LEMMA TablesAgree ==
  ASSUME NEW f, NEW g, NEW j \in Nat, NEW k \in Nat, TableTo(f, j), TableTo(g, k)
  PROVE  \A n \in Nat : n <= j /\ n <= k => f[n] = g[n]
  <1> DEFINE Good == {n \in Nat : n <= j /\ n <= k => f[n] = g[n]}
  <1>1. /\ \A n \in 0 .. j : f[n] = LowersBy(IF n = 0 THEN NoLowers ELSE f[n - 1])
        /\ \A n \in 0 .. k : g[n] = LowersBy(IF n = 0 THEN NoLowers ELSE g[n - 1])
    BY TableRows
  <1>2. f[0] = LowersBy(NoLowers) /\ g[0] = LowersBy(NoLowers)
    <2>1. 0 \in 0 .. j /\ 0 \in 0 .. k
      OBVIOUS
    <2> QED BY <1>1, <2>1
  <1>3. 0 \in Good
    BY <1>2
  <1>4. ASSUME NEW n \in Nat, n \in Good PROVE n + 1 \in Good
    <2> SUFFICES ASSUME n + 1 <= j, n + 1 <= k PROVE f[n + 1] = g[n + 1]
      OBVIOUS
    <2>1. n + 1 \in 0 .. j /\ n + 1 \in 0 .. k /\ n + 1 # 0 /\ (n + 1) - 1 = n
      OBVIOUS
    <2>2. f[n] = g[n]
      BY <1>4
    <2>3. f[n + 1] = LowersBy(f[n]) /\ g[n + 1] = LowersBy(g[n])
      BY <1>1, <2>1
    <2> QED BY <2>2, <2>3
  <1> HIDE DEF Good
  <1>5. Nat \subseteq Good
    BY <1>3, <1>4, Climb
  <1> QED BY <1>5 DEF Good

LEMMA LowersAre ==
  \A size \in Nat : Lowers[size] = LowersBy(IF size = 0 THEN NoLowers ELSE Lowers[size - 1])
  <1> DEFINE T(n) == CHOOSE f : TableTo(f, n)
             F == [n \in Nat |-> T(n)[n]]
             e(n) == LowersBy(IF n = 0 THEN NoLowers ELSE F[n - 1])
             G == [n \in Nat |-> LowersBy(IF n = 0 THEN NoLowers ELSE F[n - 1])]
  <1>1. \A n \in Nat : TableTo(T(n), n)
    BY TablesExist
  <1>2. \A n \in Nat : F[n] = T(n)[n]
    BY Zenon
  <1>3. ASSUME NEW n \in Nat PROVE F[n] = LowersBy(IF n = 0 THEN NoLowers ELSE F[n - 1])
    <2> HIDE DEF T, F
    <2>1. T(n)[n] = LowersBy(IF n = 0 THEN NoLowers ELSE T(n)[n - 1])
      BY <1>1, TableRows
    <2>2. CASE n = 0
      BY <1>2, <2>1, <2>2
    <2>3. CASE n # 0
      <3>1. n - 1 \in Nat /\ n - 1 <= n
        BY <2>3
      <3>2. T(n - 1)[n - 1] = T(n)[n - 1]
        BY <1>1, <3>1, TablesAgree
      <3>3. F[n - 1] = T(n - 1)[n - 1]
        BY <1>2, <3>1
      <3> QED BY <1>2, <2>1, <2>3, <3>2, <3>3
    <2> QED BY <2>2, <2>3
  <1>4. F = G
    <2>1. \A n \in Nat : G[n] = F[n]
      BY <1>3
    <2>2. F = [n \in Nat |-> F[n]] /\ G = [n \in Nat |-> G[n]]
      OBVIOUS
    <2> HIDE DEF F, G
    <2> QED BY <2>1, <2>2
  <1>5. \E f : f = [n \in Nat |-> LowersBy(IF n = 0 THEN NoLowers ELSE f[n - 1])]
    <2>1. F = [n \in Nat |-> LowersBy(IF n = 0 THEN NoLowers ELSE F[n - 1])]
      BY <1>4, Zenon
    <2> HIDE DEF F
    <2> QED BY <2>1
  <1>6. Lowers = [n \in Nat |-> LowersBy(IF n = 0 THEN NoLowers ELSE Lowers[n - 1])]
    <2> DEFINE L == CHOOSE f : f = [n \in Nat |-> LowersBy(IF n = 0 THEN NoLowers ELSE f[n - 1])]
    <2>1. L = [n \in Nat |-> LowersBy(IF n = 0 THEN NoLowers ELSE L[n - 1])]
      BY <1>5, Zenon
    <2>2. Lowers = L
      BY Zenon DEF Lowers
    <2> HIDE DEF L
    <2> QED BY <2>1, <2>2, Zenon
  <1> DEFINE d(n) == LowersBy(IF n = 0 THEN NoLowers ELSE Lowers[n - 1])
  <1>7. Lowers = [n \in Nat |-> d(n)]
    BY <1>6, Zenon
  <1> HIDE DEF d
  <1>8. \A n \in Nat : Lowers[n] = d(n)
    BY <1>7, Zenon
  <1> QED BY <1>8 DEF d

LEMMA ReadingHas ==
  ASSUME NEW d \in Reading
  PROVE  /\ d.rest \in Seq(Byte) /\ d.depth \in Nat /\ d.layers \in Nat /\ Len(d.rest) \in Nat
         /\ LET l == [d EXCEPT !.layers = @ + 1]
            IN /\ l \in Reading /\ l.rest = d.rest /\ l.depth = d.depth
               /\ l.layers = d.layers + 1 /\ l.layers >= 1
  <1> DEFINE l == [d EXCEPT !.layers = @ + 1]
  <1>1. d.rest \in Seq(Byte) /\ d.depth \in Nat /\ d.layers \in Nat
    BY DEF Reading
  <1>2. Len(d.rest) \in Nat
    BY <1>1
  <1>3. l \in Reading /\ l.rest = d.rest /\ l.depth = d.depth /\ l.layers = d.layers + 1
    BY <1>1 DEF Reading
  <1>4. d.layers + 1 >= 1
    BY <1>1
  <1> HIDE DEF l
  <1>5. l.layers >= 1
    BY <1>3, <1>4
  <1> QED BY <1>1, <1>2, <1>3, <1>5 DEF l

\* What a reading of lower layers takes, three bytes of each at least, and of a layer, two.
Sound(g) ==
  \A n \in Nat, bs \in Seq(Byte) : \A r \in g[n][bs] : r \in Reading /\ Len(r.rest) + 3 * n <= Len(bs)

LEMMA LayerOne ==
  ASSUME NEW g, NEW bs \in Seq(Byte), NEW l
  PROVE  l \in LayerBy(g, bs) <=>
           \E rest \in AfterString(bs) : \E v \in Varint(rest) : \E d \in g[v.value][v.rest] :
              l = [d EXCEPT !.layers = @ + 1]
  BY DEF LayerBy

LEMMA LayerSound ==
  ASSUME NEW g, Sound(g), NEW bs \in Seq(Byte), NEW l \in LayerBy(g, bs)
  PROVE  l \in Reading /\ Len(l.rest) + 2 <= Len(bs) /\ l.layers >= 1
  <1>1. PICK rest \in AfterString(bs) : \E v \in Varint(rest) : \E d \in g[v.value][v.rest] :
               l = [d EXCEPT !.layers = @ + 1]
    BY LayerOne
  <1>2. rest \in Seq(Byte) /\ Len(rest) + 1 <= Len(bs)
    BY StringFacts
  <1>a. PICK v \in Varint(rest) : \E d \in g[v.value][v.rest] : l = [d EXCEPT !.layers = @ + 1]
    BY <1>1
  <1>3. PICK d \in g[v.value][v.rest] : l = [d EXCEPT !.layers = @ + 1]
    BY <1>a
  <1>4. v.value \in Nat /\ v.rest \in Seq(Byte) /\ Len(v.rest) + 1 <= Len(rest)
    BY <1>2, VarintFacts
  <1>5. d \in Reading /\ Len(d.rest) + 3 * v.value <= Len(v.rest)
    BY <1>4 DEF Sound
  <1>6. l \in Reading /\ l.rest = d.rest /\ l.layers = d.layers + 1
    BY <1>3, <1>5, ReadingHas
  <1>7. Len(l.rest) \in Nat /\ Len(v.rest) \in Nat /\ Len(rest) \in Nat /\ Len(bs) \in Nat /\ d.layers \in Nat
    <2>1. Len(l.rest) \in Nat /\ d.layers \in Nat
      BY <1>5, <1>6, ReadingHas
    <2>2. Len(v.rest) \in Nat /\ Len(rest) \in Nat /\ Len(bs) \in Nat
      BY <1>2, <1>4
    <2> QED BY <2>1, <2>2
  <1>8. Len(l.rest) <= Len(v.rest)
    <2> DEFINE n == v.value
               a == Len(l.rest)
               b == Len(v.rest)
    <2>1. n \in Nat /\ a \in Nat /\ b \in Nat /\ a + 3 * n <= b
      BY <1>4, <1>5, <1>6, <1>7
    <2> HIDE DEF n, a, b
    <2>2. a <= b
      BY <2>1
    <2> QED BY <2>2 DEF a, b
  <1>9. Len(l.rest) + 2 <= Len(bs)
    <2> DEFINE a == Len(l.rest)
               b == Len(v.rest)
               c == Len(rest)
               e == Len(bs)
    <2>1. /\ a \in Nat /\ b \in Nat /\ c \in Nat /\ e \in Nat
          /\ a <= b /\ b + 1 <= c /\ c + 1 <= e
      BY <1>2, <1>4, <1>7, <1>8
    <2> HIDE DEF a, b, c, e
    <2>2. a + 2 <= e
      BY <2>1
    <2> QED BY <2>2 DEF a, e
  <1> QED BY <1>6, <1>7, <1>9

LEMMA LowersZero ==
  ASSUME NEW g, NEW bs \in Seq(Byte)
  PROVE  LowersBy(g)[0][bs] = {[rest |-> bs, depth |-> 0, layers |-> 0]}
  BY DEF LowersBy

LEMMA LowersOne ==
  ASSUME NEW g, NEW n \in Nat, n # 0, NEW bs \in Seq(Byte), NEW r
  PROVE  r \in LowersBy(g)[n][bs] <=>
           \E rest \in AfterString(bs) : \E first \in LayerBy(g, rest) :
             \E others \in g[n - 1][first.rest] : r = Joint(first, others)
  <1>1. LowersBy(g)[n][bs] =
          UNION {UNION {{Joint(first, others) : others \in g[n - 1][first.rest]} :
                          first \in LayerBy(g, rest)} :
                   rest \in AfterString(bs)}
    BY DEF LowersBy
  <1> QED BY <1>1

LEMMA JointFacts ==
  ASSUME NEW first \in Reading, NEW others \in Reading
  PROVE  /\ Joint(first, others) \in Reading /\ Joint(first, others).rest = others.rest
         /\ Joint(first, others).layers = first.layers + others.layers
         /\ \A m \in Int : Joint(first, others).depth <= m <=> first.depth + 1 <= m /\ others.depth <= m
  <1> DEFINE r == Joint(first, others)
             a == first.depth
             b == others.depth
             d == Deeper(first, others)
  <1>1. /\ a \in Nat /\ b \in Nat /\ first.layers \in Nat /\ others.layers \in Nat
        /\ others.rest \in Seq(Byte)
    BY ReadingHas
  <1>2. d = IF a + 1 > b THEN a + 1 ELSE b
    BY DEF Deeper
  <1>3. r = [rest |-> others.rest, depth |-> d, layers |-> first.layers + others.layers]
    BY DEF Joint
  <1> HIDE DEF r, a, b, d
  <1>4. d \in Nat /\ \A m \in Int : d <= m <=> a + 1 <= m /\ b <= m
    BY <1>1, <1>2
  <1>5. first.layers + others.layers \in Nat
    BY <1>1
  <1>6. /\ r \in Reading /\ r.rest = others.rest /\ r.depth = d
        /\ r.layers = first.layers + others.layers
    BY <1>1, <1>3, <1>4, <1>5 DEF Reading
  <1>7. \A m \in Int : r.depth <= m <=> a + 1 <= m /\ b <= m
    BY <1>4, <1>6
  <1> QED BY <1>6, <1>7 DEF r, a, b

LEMMA StepSound ==
  ASSUME NEW g, Sound(g)
  PROVE  Sound(LowersBy(g))
  <1> SUFFICES ASSUME NEW n \in Nat, NEW bs \in Seq(Byte), NEW r \in LowersBy(g)[n][bs]
               PROVE  r \in Reading /\ Len(r.rest) + 3 * n <= Len(bs)
    BY DEF Sound
  <1>1. CASE n = 0
    BY <1>1, LowersZero DEF Reading
  <1>2. CASE n # 0
    <2>1. PICK rest \in AfterString(bs) : \E first \in LayerBy(g, rest) :
                 \E others \in g[n - 1][first.rest] : r = Joint(first, others)
      BY <1>2, LowersOne
    <2>a. PICK first \in LayerBy(g, rest) : \E others \in g[n - 1][first.rest] : r = Joint(first, others)
      BY <2>1
    <2>2. PICK others \in g[n - 1][first.rest] : r = Joint(first, others)
      BY <2>a
    <2>3. rest \in Seq(Byte) /\ Len(rest) + 1 <= Len(bs)
      BY StringFacts
    <2>4. first \in Reading /\ Len(first.rest) + 2 <= Len(rest)
      BY <2>3, LayerSound
    <2>5. first.rest \in Seq(Byte) /\ n - 1 \in Nat
      BY <1>2, <2>4 DEF Reading
    <2>6. others \in Reading /\ Len(others.rest) + 3 * (n - 1) <= Len(first.rest)
      BY <2>5 DEF Sound
    <2>7. r \in Reading /\ r.rest = others.rest
      BY <2>2, <2>4, <2>6, JointFacts
    <2>8. Len(others.rest) \in Nat /\ Len(first.rest) \in Nat /\ Len(rest) \in Nat /\ Len(bs) \in Nat
      <3>1. Len(others.rest) \in Nat /\ Len(first.rest) \in Nat
        BY <2>4, <2>6, ReadingHas
      <3>2. Len(rest) \in Nat /\ Len(bs) \in Nat
        BY <2>3
      <3> QED BY <3>1, <3>2
    <2> DEFINE a == Len(others.rest)
               b == Len(first.rest)
               c == Len(rest)
               e == Len(bs)
    <2>9. /\ a \in Nat /\ b \in Nat /\ c \in Nat /\ e \in Nat
          /\ a + 3 * (n - 1) <= b /\ b + 2 <= c /\ c + 1 <= e
      BY <2>3, <2>4, <2>6, <2>8
    <2> HIDE DEF a, b, c, e
    <2>10. a + 3 * n <= e
      BY <2>9
    <2> QED BY <2>7, <2>10 DEF a, e
  <1> QED BY <1>1, <1>2

LEMMA LowersSound == \A k \in Nat : Sound(Lowers[k])
  <1> DEFINE Good == {k \in Nat : Sound(Lowers[k])}
  <1>1. Sound(NoLowers)
    BY DEF Sound, NoLowers
  <1>2. Lowers[0] = LowersBy(NoLowers)
    BY LowersAre
  <1>3. 0 \in Good
    BY <1>1, <1>2, StepSound
  <1>4. ASSUME NEW k \in Nat, k \in Good PROVE k + 1 \in Good
    <2>1. k + 1 \in Nat /\ k + 1 # 0 /\ (k + 1) - 1 = k
      OBVIOUS
    <2>2. Lowers[k + 1] = LowersBy(Lowers[k])
      BY <2>1, LowersAre
    <2>3. Sound(Lowers[k])
      BY <1>4
    <2> QED BY <2>1, <2>2, <2>3, StepSound
  <1> HIDE DEF Good
  <1>5. Nat \subseteq Good
    BY <1>3, <1>4, Climb
  <1> QED BY <1>5 DEF Good

\* Decoders that agree on what is shorter agree on as many bytes and one.
Agree(g, h, k) == \A n \in Nat, bs \in Seq(Byte) : Len(bs) <= k => g[n][bs] = h[n][bs]

LEMMA LayerSame ==
  ASSUME NEW g, NEW h, NEW bs \in Seq(Byte),
         \A rest \in AfterString(bs) : \A v \in Varint(rest) : g[v.value][v.rest] = h[v.value][v.rest]
  PROVE  LayerBy(g, bs) = LayerBy(h, bs)
  <1> DEFINE a == LayerBy(g, bs)
             b == LayerBy(h, bs)
  <1>1. ASSUME NEW l \in a PROVE l \in b
    <2>1. PICK rest \in AfterString(bs) : \E v \in Varint(rest) : \E d \in g[v.value][v.rest] :
                 l = [d EXCEPT !.layers = @ + 1]
      BY LayerOne
    <2>2. PICK v \in Varint(rest) : \E d \in g[v.value][v.rest] : l = [d EXCEPT !.layers = @ + 1]
      BY <2>1
    <2>3. PICK d \in g[v.value][v.rest] : l = [d EXCEPT !.layers = @ + 1]
      BY <2>2
    <2>4. d \in h[v.value][v.rest]
      BY <2>3
    <2> QED BY <2>3, <2>4, LayerOne
  <1>2. ASSUME NEW l \in b PROVE l \in a
    <2>1. PICK rest \in AfterString(bs) : \E v \in Varint(rest) : \E d \in h[v.value][v.rest] :
                 l = [d EXCEPT !.layers = @ + 1]
      BY LayerOne
    <2>2. PICK v \in Varint(rest) : \E d \in h[v.value][v.rest] : l = [d EXCEPT !.layers = @ + 1]
      BY <2>1
    <2>3. PICK d \in h[v.value][v.rest] : l = [d EXCEPT !.layers = @ + 1]
      BY <2>2
    <2>4. d \in g[v.value][v.rest]
      BY <2>3
    <2> QED BY <2>3, <2>4, LayerOne
  <1> HIDE DEF a, b
  <1>3. a \subseteq b /\ b \subseteq a
    BY <1>1, <1>2
  <1>4. a = b
    BY <1>3
  <1> QED BY <1>4 DEF a, b

LEMMA LayersAgree ==
  ASSUME NEW g, NEW h, NEW k \in Nat, Agree(g, h, k), NEW bs \in Seq(Byte), Len(bs) <= k + 1
  PROVE  LayerBy(g, bs) = LayerBy(h, bs)
  <1>1. ASSUME NEW rest \in AfterString(bs), NEW v \in Varint(rest)
        PROVE  g[v.value][v.rest] = h[v.value][v.rest]
    <2>1. rest \in Seq(Byte) /\ Len(rest) + 1 <= Len(bs)
      BY StringFacts
    <2>2. v.value \in Nat /\ v.rest \in Seq(Byte) /\ Len(v.rest) + 1 <= Len(rest)
      BY <2>1, VarintFacts
    <2>3. Len(v.rest) <= k
      <3>1. Len(v.rest) \in Nat /\ Len(rest) \in Nat /\ Len(bs) \in Nat
        BY <2>1, <2>2
      <3> QED BY <2>1, <2>2, <3>1
    <2> QED BY <2>2, <2>3 DEF Agree
  <1> QED BY <1>1, LayerSame

LEMMA StepAgrees ==
  ASSUME NEW g, NEW h, NEW k \in Nat, Sound(g), Agree(g, h, k)
  PROVE  Agree(LowersBy(g), LowersBy(h), k + 1)
  <1> SUFFICES ASSUME NEW n \in Nat, NEW bs \in Seq(Byte), Len(bs) <= k + 1, NEW r
               PROVE  r \in LowersBy(g)[n][bs] <=> r \in LowersBy(h)[n][bs]
    <2>1. ASSUME NEW n \in Nat, NEW bs \in Seq(Byte), Len(bs) <= k + 1
          PROVE  LowersBy(g)[n][bs] = LowersBy(h)[n][bs]
      <3> DEFINE a == LowersBy(g)[n][bs]
                 b == LowersBy(h)[n][bs]
      <3>1. \A r : r \in a <=> r \in b
        BY <2>1
      <3>3. a = UNION {a} /\ b = UNION {b}
        OBVIOUS
      <3> HIDE DEF a, b
      <3>4. UNION {a} = UNION {b}
        BY <3>1
      <3> QED BY <3>3, <3>4 DEF a, b
    <2> QED BY <2>1 DEF Agree
  <1>1. CASE n = 0
    BY <1>1, LowersZero
  <1>2. CASE n # 0
    <2>1. ASSUME NEW rest \in AfterString(bs)
          PROVE  /\ LayerBy(g, rest) = LayerBy(h, rest)
                 /\ \A first \in LayerBy(g, rest) : g[n - 1][first.rest] = h[n - 1][first.rest]
      <3>1. rest \in Seq(Byte) /\ Len(rest) + 1 <= Len(bs)
        BY StringFacts
      <3>2. Len(rest) \in Nat /\ Len(bs) \in Nat /\ Len(rest) <= k /\ Len(rest) <= k + 1
        BY <3>1
      <3>3. LayerBy(g, rest) = LayerBy(h, rest)
        BY <3>1, <3>2, LayersAgree
      <3>4. ASSUME NEW first \in LayerBy(g, rest) PROVE g[n - 1][first.rest] = h[n - 1][first.rest]
        <4>1. first.rest \in Seq(Byte) /\ Len(first.rest) + 2 <= Len(rest) /\ n - 1 \in Nat
          BY <1>2, <3>1, LayerSound DEF Reading
        <4>2. Len(first.rest) <= k
          BY <3>2, <4>1
        <4> QED BY <4>1, <4>2 DEF Agree
      <3> QED BY <3>3, <3>4
    <2>2. r \in LowersBy(g)[n][bs] <=>
            \E rest \in AfterString(bs) : \E first \in LayerBy(g, rest) :
              \E others \in g[n - 1][first.rest] : r = Joint(first, others)
      BY <1>2, LowersOne
    <2>3. r \in LowersBy(h)[n][bs] <=>
            \E rest \in AfterString(bs) : \E first \in LayerBy(h, rest) :
              \E others \in h[n - 1][first.rest] : r = Joint(first, others)
      BY <1>2, LowersOne
    <2> QED BY <2>1, <2>2, <2>3, Zenon
  <1> QED BY <1>1, <1>2

\* So more bytes than there are make no difference.
LEMMA LowersStay ==
  \A k \in Nat : Agree(Lowers[k], Lowers[k + 1], k)
  <1> DEFINE Good == {k \in Nat : Agree(Lowers[k], Lowers[k + 1], k)}
  <1>0. \A k \in Nat : Lowers[k + 1] = LowersBy(Lowers[k])
    <2>1. ASSUME NEW k \in Nat PROVE Lowers[k + 1] = LowersBy(Lowers[k])
      <3>1. k + 1 \in Nat /\ k + 1 # 0 /\ (k + 1) - 1 = k
        OBVIOUS
      <3> QED BY <3>1, LowersAre
    <2> QED BY <2>1
  <1>1. 0 \in Good
    <2> SUFFICES ASSUME NEW n \in Nat, NEW bs \in Seq(Byte), Len(bs) <= 0
                 PROVE  Lowers[0][n][bs] = Lowers[0 + 1][n][bs]
      BY DEF Agree
    <2>1. Lowers[0] = LowersBy(NoLowers) /\ Lowers[0 + 1] = LowersBy(Lowers[0])
      BY <1>0, LowersAre
    <2>2. AfterString(bs) = {}
      <3>1. ASSUME NEW r \in AfterString(bs) PROVE FALSE
        <4>1. r \in Seq(Byte) /\ Len(r) + 1 <= Len(bs)
          BY StringFacts
        <4> QED BY <4>1
      <3> QED BY <3>1
    <2>3. CASE n = 0
      BY <2>1, <2>3, LowersZero
    <2>4. CASE n # 0
      <3>1. \A r : r \notin LowersBy(NoLowers)[n][bs] /\ r \notin LowersBy(Lowers[0])[n][bs]
        BY <2>2, <2>4, LowersOne
      <3> DEFINE a == LowersBy(NoLowers)[n][bs]
                 b == LowersBy(Lowers[0])[n][bs]
      <3>2. (\A r : r \notin a) /\ (\A r : r \notin b)
        BY <3>1
      <3>3. a = {} /\ b = {}
        <4> HIDE DEF a, b
        <4> QED BY <3>2
      <3> QED BY <2>1, <3>3
    <2> QED BY <2>3, <2>4
  <1>2. ASSUME NEW k \in Nat, k \in Good PROVE k + 1 \in Good
    <2>1. k + 1 \in Nat /\ Sound(Lowers[k]) /\ Agree(Lowers[k], Lowers[k + 1], k)
      BY <1>2, LowersSound
    <2>2. Lowers[k + 1] = LowersBy(Lowers[k]) /\ Lowers[(k + 1) + 1] = LowersBy(Lowers[k + 1])
      BY <1>0, <2>1
    <2>3. Agree(LowersBy(Lowers[k]), LowersBy(Lowers[k + 1]), k + 1)
      BY <2>1, StepAgrees
    <2> QED BY <2>1, <2>2, <2>3
  <1> HIDE DEF Good
  <1>3. Nat \subseteq Good
    BY <1>1, <1>2, Climb
  <1> QED BY <1>3 DEF Good

LEMMA LowersEnough ==
  ASSUME NEW bs \in Seq(Byte), NEW n \in Nat
  PROVE  \A k \in Nat : Len(bs) <= k => Lowers[k][n][bs] = LowersOf(n, bs)
  <1> DEFINE Good == {k \in Nat : Lowers[Len(bs) + k][n][bs] = LowersOf(n, bs)}
             m == Len(bs)
  <1>0. m \in Nat
    OBVIOUS
  <1>1. 0 \in Good
    BY <1>0 DEF LowersOf
  <1>2. ASSUME NEW k \in Nat, k \in Good PROVE k + 1 \in Good
    <2>1. m + k \in Nat /\ m <= m + k /\ m + (k + 1) = (m + k) + 1
      BY <1>0
    <2>2. Lowers[m + k][n][bs] = Lowers[(m + k) + 1][n][bs]
      BY <2>1, LowersStay DEF Agree
    <2>3. Lowers[m + k][n][bs] = LowersOf(n, bs)
      BY <1>2
    <2>4. Lowers[m + (k + 1)][n][bs] = LowersOf(n, bs)
      BY <2>1, <2>2, <2>3
    <2> QED BY <2>4
  <1>3. Nat \subseteq Good
    <2> HIDE DEF Good
    <2> QED BY <1>1, <1>2, Climb
  <1>4. ASSUME NEW k \in Nat, m <= k PROVE Lowers[k][n][bs] = LowersOf(n, bs)
    <2>1. k - m \in Nat /\ m + (k - m) = k
      BY <1>0, <1>4
    <2>2. Lowers[m + (k - m)][n][bs] = LowersOf(n, bs)
      BY <1>3, <2>1
    <2> QED BY <2>1, <2>2
  <1> QED BY <1>4

\* The decoder's own equations, whatever bytes there are.
LEMMA LayerIs ==
  ASSUME NEW bs \in Seq(Byte), NEW l
  PROVE  l \in LayerOf(bs) <=>
           \E rest \in AfterString(bs) : \E v \in Varint(rest) : \E d \in LowersOf(v.value, v.rest) :
              l = [d EXCEPT !.layers = @ + 1]
  <1>1. ASSUME NEW rest \in AfterString(bs), NEW v \in Varint(rest)
        PROVE  Lowers[Len(bs)][v.value][v.rest] = LowersOf(v.value, v.rest)
    <2>1. rest \in Seq(Byte) /\ Len(rest) + 1 <= Len(bs)
      BY StringFacts
    <2>2. v.value \in Nat /\ v.rest \in Seq(Byte) /\ Len(v.rest) + 1 <= Len(rest)
      BY <2>1, VarintFacts
    <2>3. Len(bs) \in Nat /\ Len(v.rest) <= Len(bs)
      <3>1. Len(v.rest) \in Nat /\ Len(rest) \in Nat /\ Len(bs) \in Nat
        BY <2>1, <2>2
      <3> QED BY <2>1, <2>2, <3>1
    <2> QED BY <2>2, <2>3, LowersEnough
  <1> DEFINE g == Lowers[Len(bs)]
  <1>2. l \in LayerBy(g, bs) <=>
           \E rest \in AfterString(bs) : \E v \in Varint(rest) : \E d \in g[v.value][v.rest] :
              l = [d EXCEPT !.layers = @ + 1]
    BY LayerOne
  <1>3. \A rest \in AfterString(bs) : \A v \in Varint(rest) : g[v.value][v.rest] = LowersOf(v.value, v.rest)
    BY <1>1
  <1>4. LayerOf(bs) = LayerBy(g, bs)
    BY DEF LayerOf
  <1> HIDE DEF g
  <1>5. ASSUME l \in LayerOf(bs)
        PROVE  \E rest \in AfterString(bs) : \E v \in Varint(rest) : \E d \in LowersOf(v.value, v.rest) :
                 l = [d EXCEPT !.layers = @ + 1]
    <2>1. PICK rest \in AfterString(bs) : \E v \in Varint(rest) : \E d \in g[v.value][v.rest] :
                 l = [d EXCEPT !.layers = @ + 1]
      BY <1>2, <1>4, <1>5
    <2>2. PICK v \in Varint(rest) : \E d \in g[v.value][v.rest] : l = [d EXCEPT !.layers = @ + 1]
      BY <2>1
    <2>3. PICK d \in g[v.value][v.rest] : l = [d EXCEPT !.layers = @ + 1]
      BY <2>2
    <2>4. d \in LowersOf(v.value, v.rest)
      BY <1>3, <2>3
    <2> QED BY <2>3, <2>4
  <1>6. ASSUME NEW rest \in AfterString(bs), NEW v \in Varint(rest), NEW d \in LowersOf(v.value, v.rest),
               l = [d EXCEPT !.layers = @ + 1]
        PROVE  l \in LayerOf(bs)
    <2>1. d \in g[v.value][v.rest]
      BY <1>3, <1>6
    <2> QED BY <1>2, <1>4, <1>6, <2>1
  <1> QED BY <1>5, <1>6

LEMMA LayerRead ==
  ASSUME NEW bs \in Seq(Byte), NEW l \in LayerOf(bs)
  PROVE  l \in Reading /\ Len(l.rest) + 2 <= Len(bs) /\ l.layers >= 1
  <1>1. Sound(Lowers[Len(bs)])
    BY LowersSound
  <1> QED BY <1>1, LayerSound DEF LayerOf

LEMMA LowersRead ==
  ASSUME NEW n \in Nat, NEW bs \in Seq(Byte), NEW r \in LowersOf(n, bs)
  PROVE  r \in Reading /\ Len(r.rest) + 3 * n <= Len(bs)
  <1>1. Sound(Lowers[Len(bs)])
    BY LowersSound
  <1> QED BY <1>1 DEF LowersOf, Sound

LEMMA NoMoreLowers ==
  ASSUME NEW bs \in Seq(Byte)
  PROVE  LowersOf(0, bs) = {[rest |-> bs, depth |-> 0, layers |-> 0]}
  <1>1. Len(bs) \in Nat
    OBVIOUS
  <1>2. Lowers[Len(bs)] = LowersBy(IF Len(bs) = 0 THEN NoLowers ELSE Lowers[Len(bs) - 1])
    BY <1>1, LowersAre
  <1> QED BY <1>2, LowersZero DEF LowersOf

LEMMA MoreLowers ==
  ASSUME NEW n \in Nat, n # 0, NEW bs \in Seq(Byte), NEW r
  PROVE  r \in LowersOf(n, bs) <=>
           \E rest \in AfterString(bs) : \E first \in LayerOf(rest) :
             \E others \in LowersOf(n - 1, first.rest) : r = Joint(first, others)
  <1> DEFINE k == Len(bs)
             g == Lowers[k]
  <1>1. k \in Nat /\ k + 1 \in Nat /\ k + 1 # 0 /\ (k + 1) - 1 = k /\ k <= k + 1 /\ k <= k
    OBVIOUS
  <1>2. Lowers[k + 1] = LowersBy(g)
    BY <1>1, LowersAre
  <1>3. Lowers[k + 1][n][bs] = LowersOf(n, bs)
    BY <1>1, LowersEnough
  <1>4. LowersOf(n, bs) = LowersBy(g)[n][bs]
    BY <1>2, <1>3
  <1>5. Sound(g)
    BY <1>1, LowersSound
  <1>6. ASSUME NEW rest \in AfterString(bs)
        PROVE  /\ LayerBy(g, rest) = LayerOf(rest)
               /\ \A first \in LayerBy(g, rest) : g[n - 1][first.rest] = LowersOf(n - 1, first.rest)
    <2>1. rest \in Seq(Byte) /\ Len(rest) + 1 <= k
      BY StringFacts
    <2>2. Len(rest) \in Nat /\ Len(rest) <= k
      BY <1>1, <2>1
    <2> DEFINE h == Lowers[Len(rest)]
    <2>3. ASSUME NEW s \in AfterString(rest), NEW v \in Varint(s)
          PROVE  g[v.value][v.rest] = h[v.value][v.rest]
      <3>1. s \in Seq(Byte) /\ Len(s) + 1 <= Len(rest)
        BY <2>1, StringFacts
      <3>2. v.value \in Nat /\ v.rest \in Seq(Byte) /\ Len(v.rest) + 1 <= Len(s)
        BY <3>1, VarintFacts
      <3>3. Len(v.rest) <= k /\ Len(v.rest) <= Len(rest)
        <4>1. Len(v.rest) \in Nat /\ Len(s) \in Nat
          BY <3>1, <3>2
        <4> QED BY <1>1, <2>2, <3>1, <3>2, <4>1
      <3>4. g[v.value][v.rest] = LowersOf(v.value, v.rest)
        BY <1>1, <3>2, <3>3, LowersEnough
      <3>5. h[v.value][v.rest] = LowersOf(v.value, v.rest)
        BY <2>2, <3>2, <3>3, LowersEnough
      <3> HIDE DEF g, h
      <3> QED BY <3>4, <3>5
    <2>4. LayerBy(g, rest) = LayerOf(rest)
      <3>1. LayerOf(rest) = LayerBy(h, rest)
        BY DEF LayerOf
      <3> HIDE DEF g, h
      <3> QED BY <2>1, <2>3, <3>1, LayerSame
    <2>5. ASSUME NEW first \in LayerBy(g, rest)
          PROVE  g[n - 1][first.rest] = LowersOf(n - 1, first.rest)
      <3>1. first.rest \in Seq(Byte) /\ Len(first.rest) + 2 <= Len(rest) /\ n - 1 \in Nat
        BY <1>5, <2>1, LayerSound DEF Reading
      <3>2. Len(first.rest) <= k
        BY <1>1, <2>2, <3>1
      <3> QED BY <1>1, <3>1, <3>2, LowersEnough
    <2> QED BY <2>4, <2>5
  <1>7. r \in LowersBy(g)[n][bs] <=>
          \E rest \in AfterString(bs) : \E first \in LayerBy(g, rest) :
            \E others \in g[n - 1][first.rest] : r = Joint(first, others)
    BY LowersOne
  <1> HIDE DEF g, k
  <1> QED BY <1>4, <1>6, <1>7, Zenon

-----------------------------------------------------------------------------
(* What the decoder has left to do, where the scan is *)

Place == [rest : Seq(Byte), layers : Nat]

\* The layers open are finished, the deepest first, each from where the one in it ended.
Finishes(open, p) ==
  /\ p \in [0 .. Len(open) -> Place]
  /\ \A k \in 1 .. Len(open) : \E r \in LowersOf(open[k], p[k].rest) :
       /\ r.depth + (k - 1) <= MaxLayerDepth
       /\ p[k - 1] = [rest |-> r.rest, layers |-> p[k].layers + r.layers]

\* And then an envelope ends, within the limits.
Ends(open, bs, layers) ==
  \E p : /\ Finishes(open, p) /\ p[Len(open)] = [rest |-> bs, layers |-> layers]
         /\ p[0].rest \in {<<0>>, <<1>>} /\ p[0].layers <= MaxLayers

LEMMA EndsAtOnce ==
  ASSUME NEW bs \in Seq(Byte), NEW layers \in Nat
  PROVE  Ends(<<>>, bs, layers) <=> bs \in {<<0>>, <<1>>} /\ layers <= MaxLayers
  <1> DEFINE here == [rest |-> bs, layers |-> layers]
  <1>0. here \in Place /\ here.rest = bs /\ here.layers = layers /\ Len(<<>>) = 0
    BY DEF Place
  <1> HIDE DEF here
  <1>1. ASSUME Ends(<<>>, bs, layers) PROVE bs \in {<<0>>, <<1>>} /\ layers <= MaxLayers
    <2>1. PICK p : p[0] = here /\ p[0].rest \in {<<0>>, <<1>>} /\ p[0].layers <= MaxLayers
      BY <1>0, <1>1 DEF Ends, here
    <2> QED BY <1>0, <2>1
  <1> DEFINE last == {<<0>>, <<1>>}
  <1>2. ASSUME bs \in last, layers <= MaxLayers PROVE Ends(<<>>, bs, layers)
    <2> DEFINE p == [k \in 0 .. 0 |-> here]
    <2>1. p \in [0 .. 0 -> Place] /\ p[0] = here
      BY <1>0
    <2> HIDE DEF p
    <2>2. Finishes(<<>>, p)
      BY <1>0, <2>1 DEF Finishes
    <2> QED BY <1>0, <1>2, <2>1, <2>2 DEF Ends, here
  <1> QED BY <1>1, <1>2

LEMMA EndsAfter ==
  ASSUME NEW open \in Seq(Nat), NEW n \in Nat, NEW bs \in Seq(Byte), NEW layers \in Nat
  PROVE  Ends(Append(open, n), bs, layers) <=>
           \E r \in LowersOf(n, bs) :
             r.depth + Len(open) <= MaxLayerDepth /\ Ends(open, r.rest, layers + r.layers)
  <1> DEFINE m == Len(open)
             deeper == Append(open, n)
             here == [rest |-> bs, layers |-> layers]
  <1>0. /\ m \in Nat /\ Len(deeper) = m + 1 /\ deeper[m + 1] = n
        /\ \A k \in 1 .. m : deeper[k] = open[k]
    OBVIOUS
  <1>1. here \in Place /\ here.rest = bs /\ here.layers = layers
    BY DEF Place
  <1> HIDE DEF m, deeper, here
  <1>2. ASSUME Ends(deeper, bs, layers)
        PROVE  \E r \in LowersOf(n, bs) :
                 r.depth + m <= MaxLayerDepth /\ Ends(open, r.rest, layers + r.layers)
    <2>1. PICK p : /\ Finishes(deeper, p) /\ p[m + 1] = here
                   /\ p[0].rest \in {<<0>>, <<1>>} /\ p[0].layers <= MaxLayers
      BY <1>0, <1>2 DEF Ends, here
    <2>2. p \in [0 .. m + 1 -> Place]
      BY <1>0, <2>1 DEF Finishes
    <2>3. PICK r \in LowersOf(n, bs) :
             /\ r.depth + m <= MaxLayerDepth
             /\ p[m] = [rest |-> r.rest, layers |-> layers + r.layers]
      <3>1. m + 1 \in 1 .. m + 1 /\ (m + 1) - 1 = m
        BY <1>0
      <3>2. \E r \in LowersOf(deeper[m + 1], p[m + 1].rest) :
               /\ r.depth + ((m + 1) - 1) <= MaxLayerDepth
               /\ p[(m + 1) - 1] = [rest |-> r.rest, layers |-> p[m + 1].layers + r.layers]
        BY <1>0, <2>1, <3>1 DEF Finishes
      <3> QED BY <1>0, <1>1, <2>1, <3>1, <3>2
    <2> DEFINE q == [k \in 0 .. m |-> p[k]]
    <2>4. q \in [0 .. m -> Place] /\ \A k \in 0 .. m : q[k] = p[k]
      BY <1>0, <2>2
    <2> HIDE DEF q
    <2>5. Finishes(open, q)
      <3>1. ASSUME NEW k \in 1 .. m
            PROVE  \E s \in LowersOf(open[k], q[k].rest) :
                     /\ s.depth + (k - 1) <= MaxLayerDepth
                     /\ q[k - 1] = [rest |-> s.rest, layers |-> q[k].layers + s.layers]
        <4>1. k \in 1 .. m + 1 /\ k \in 0 .. m /\ k - 1 \in 0 .. m
          BY <1>0
        <4>2. \E s \in LowersOf(deeper[k], p[k].rest) :
                 /\ s.depth + (k - 1) <= MaxLayerDepth
                 /\ p[k - 1] = [rest |-> s.rest, layers |-> p[k].layers + s.layers]
          BY <1>0, <2>1, <4>1 DEF Finishes
        <4>3. deeper[k] = open[k] /\ q[k] = p[k] /\ q[k - 1] = p[k - 1]
          BY <1>0, <2>4, <4>1
        <4> QED BY <4>2, <4>3
      <3> QED BY <2>4, <3>1 DEF Finishes, m
    <2>6. q[0] = p[0] /\ q[m] = p[m]
      BY <1>0, <2>4
    <2>7. Ends(open, r.rest, layers + r.layers)
      BY <2>1, <2>3, <2>5, <2>6 DEF Ends, m
    <2> QED BY <2>3, <2>7
  <1>3. ASSUME NEW r \in LowersOf(n, bs), r.depth + m <= MaxLayerDepth,
               Ends(open, r.rest, layers + r.layers)
        PROVE  Ends(deeper, bs, layers)
    <2>1. PICK p : /\ Finishes(open, p) /\ p[m] = [rest |-> r.rest, layers |-> layers + r.layers]
                   /\ p[0].rest \in {<<0>>, <<1>>} /\ p[0].layers <= MaxLayers
      BY <1>3 DEF Ends, m
    <2>2. p \in [0 .. m -> Place]
      BY <2>1 DEF Finishes, m
    <2> DEFINE q == [k \in 0 .. m + 1 |-> IF k = m + 1 THEN here ELSE p[k]]
    <2>3. /\ q \in [0 .. m + 1 -> Place] /\ q[m + 1] = here
          /\ \A k \in 0 .. m : q[k] = p[k]
      BY <1>0, <1>1, <2>2
    <2> HIDE DEF q
    <2>4. ASSUME NEW k \in 1 .. m + 1
          PROVE  \E s \in LowersOf(deeper[k], q[k].rest) :
                   /\ s.depth + (k - 1) <= MaxLayerDepth
                   /\ q[k - 1] = [rest |-> s.rest, layers |-> q[k].layers + s.layers]
      <3>1. CASE k = m + 1
        <4>1. k - 1 = m /\ q[m] = p[m] /\ q[k] = here /\ deeper[k] = n
          BY <1>0, <2>3, <3>1
        <4> QED BY <1>1, <1>3, <2>1, <4>1
      <3>2. CASE k # m + 1
        <4>1. k \in 1 .. m /\ k \in 0 .. m /\ k - 1 \in 0 .. m
          BY <1>0, <3>2
        <4>2. \E s \in LowersOf(open[k], p[k].rest) :
                 /\ s.depth + (k - 1) <= MaxLayerDepth
                 /\ p[k - 1] = [rest |-> s.rest, layers |-> p[k].layers + s.layers]
          BY <2>1, <4>1 DEF Finishes, m
        <4>3. deeper[k] = open[k] /\ q[k] = p[k] /\ q[k - 1] = p[k - 1]
          BY <1>0, <2>3, <4>1
        <4> QED BY <4>2, <4>3
      <3> QED BY <3>1, <3>2
    <2>5. Finishes(deeper, q)
      BY <1>0, <2>3, <2>4 DEF Finishes
    <2>6. q[0] = p[0]
      BY <1>0, <2>3
    <2> QED BY <1>0, <2>1, <2>3, <2>5, <2>6 DEF Ends, here
  <1> QED BY <1>2, <1>3 DEF m, deeper

\* A layer that is done ends where the one it lies in goes on.
LEMMA EndsDone ==
  ASSUME NEW open \in Seq(Nat), Len(open) <= MaxLayerDepth, NEW bs \in Seq(Byte), NEW layers \in Nat
  PROVE  Ends(Append(open, 0), bs, layers) <=> Ends(open, bs, layers)
  <1> DEFINE none == [rest |-> bs, depth |-> 0, layers |-> 0]
  <1>1. LowersOf(0, bs) = {none} /\ none.rest = bs /\ none.depth = 0 /\ none.layers = 0
    BY NoMoreLowers
  <1> HIDE DEF none
  <1>2. layers + 0 = layers /\ 0 + Len(open) <= MaxLayerDepth
    OBVIOUS
  <1> QED BY <1>1, <1>2, EndsAfter

LEMMA LastOf ==
  ASSUME NEW S, NEW s \in Seq(S), s # <<>>
  PROVE  \E t \in Seq(S) : \E x \in S : s = Append(t, x) /\ Len(s) = Len(t) + 1
  <1>1. PICK t \in Seq(S), x \in S : s = Append(t, x)
    BY SequenceEmptyOrAppend
  <1>2. Len(s) = Len(t) + 1
    BY <1>1, AppendProperties
  <1> QED BY <1>1, <1>2

\* Layers that were counted stay counted.
LEMMA EndsWithin ==
  ASSUME NEW open \in Seq(Nat), NEW bs \in Seq(Byte), NEW layers \in Nat, Ends(open, bs, layers)
  PROVE  layers <= MaxLayers
  <1> DEFINE Good == {m \in Nat : \A o \in Seq(Nat), b \in Seq(Byte), l \in Nat :
                                    Len(o) = m /\ Ends(o, b, l) => l <= MaxLayers}
  <1>1. 0 \in Good
    <2>1. ASSUME NEW o \in Seq(Nat), NEW b \in Seq(Byte), NEW l \in Nat, Len(o) = 0, Ends(o, b, l)
          PROVE  l <= MaxLayers
      <3>1. o = <<>>
        BY <2>1
      <3> QED BY <2>1, <3>1, EndsAtOnce
    <2> QED BY <2>1
  <1>2. ASSUME NEW m \in Nat, m \in Good PROVE m + 1 \in Good
    <2>1. ASSUME NEW o \in Seq(Nat), NEW b \in Seq(Byte), NEW l \in Nat, Len(o) = m + 1, Ends(o, b, l)
          PROVE  l <= MaxLayers
      <3>0. o # <<>>
        BY <2>1
      <3>a. PICK t \in Seq(Nat) : \E n \in Nat : o = Append(t, n) /\ Len(o) = Len(t) + 1
        <4>1. \E t \in Seq(Nat) : \E n \in Nat : o = Append(t, n) /\ Len(o) = Len(t) + 1
          BY <2>1, <3>0, LastOf, Zenon
        <4> QED BY <4>1, Zenon
      <3>1. PICK n \in Nat : o = Append(t, n) /\ Len(o) = Len(t) + 1
        BY <3>a, Zenon
      <3>2. PICK r \in LowersOf(n, b) : Ends(t, r.rest, l + r.layers)
        BY <2>1, <3>1, EndsAfter
      <3>3. r.rest \in Seq(Byte) /\ r.layers \in Nat
        BY LowersRead, ReadingHas
      <3>4. Len(t) = m /\ l + r.layers \in Nat
        <4>1. Len(t) \in Nat /\ Len(t) + 1 = m + 1
          BY <2>1, <3>1
        <4>2. Len(t) = m
          BY <4>1
        <4>3. l + r.layers \in Nat
          <5> DEFINE more == r.layers
          <5>1. more \in Nat
            BY <3>3
          <5> HIDE DEF more
          <5>2. l + more \in Nat
            BY <5>1
          <5> QED BY <5>2 DEF more
        <4> QED BY <4>2, <4>3
      <3>5. l + r.layers <= MaxLayers
        BY <1>2, <3>2, <3>3, <3>4
      <3> QED BY <3>3, <3>5
    <2> QED BY <2>1
  <1>3. Nat \subseteq Good
    <2> HIDE DEF Good
    <2> QED BY <1>1, <1>2, Climb
  <1>4. Len(open) \in Good
    BY <1>3
  <1> QED BY <1>4

\* Closing the deep layers that are done makes no difference.
LEMMA UnfinishedIs ==
  ASSUME NEW open \in Seq(Nat)
  PROVE  \E k \in 0 .. Len(open) :
           /\ Unfinished(open) = SubSeq(open, 1, k)
           /\ \A i \in k + 1 .. Len(open) : open[i] = 0
           /\ k > 0 => open[k] > 0
  <1> DEFINE T == {k \in 0 .. Len(open) : \A i \in k + 1 .. Len(open) : open[i] = 0}
             Fits(k) == /\ \A i \in k + 1 .. Len(open) : open[i] = 0
                        /\ k > 0 => open[k] > 0
  <1>0. Len(open) \in Nat /\ \A i \in 1 .. Len(open) : open[i] \in Nat
    OBVIOUS
  <1>1. Len(open) \in T /\ T \in SUBSET Nat
    BY <1>0
  <1>2. PICK m \in T : \A n \in T : m <= n
    <2> HIDE DEF T
    <2>1. T # {}
      BY <1>1
    <2> QED BY <1>1, <2>1, Least
  <1>3. m > 0 => open[m] > 0
    <2> SUFFICES ASSUME m > 0, open[m] = 0 PROVE FALSE
      BY <1>0
    <2>1. m - 1 \in T
      BY <1>0, <1>2
    <2>2. m \in Nat
      BY <1>1
    <2>3. m <= m - 1
      <3> HIDE DEF T
      <3> QED BY <1>2, <2>1
    <2> QED BY <2>2, <2>3
  <1>4. \E k \in 0 .. Len(open) : Fits(k)
    BY <1>2, <1>3
  <1> DEFINE c == CHOOSE k \in 0 .. Len(open) : Fits(k)
  <1>5. c \in 0 .. Len(open) /\ Fits(c)
    <2> HIDE DEF Fits
    <2> QED BY <1>4
  <1>6. Unfinished(open) = SubSeq(open, 1, c)
    BY Zenon DEF Unfinished
  <1> HIDE DEF c
  <1> QED BY <1>5, <1>6

LEMMA SubSeqNext ==
  ASSUME NEW open \in Seq(Nat), NEW j \in Nat, j + 1 <= Len(open)
  PROVE  /\ SubSeq(open, 1, j + 1) = Append(SubSeq(open, 1, j), open[j + 1])
         /\ SubSeq(open, 1, j) \in Seq(Nat) /\ Len(SubSeq(open, 1, j)) = j
         /\ open[j + 1] \in Nat
  <1>1. /\ 1 \in 1 .. Len(open) /\ j + 1 \in 1 .. Len(open) /\ Len(open) \in Nat
        /\ open[j + 1] \in Nat
    OBVIOUS
  <1>2. SubSeq(open, 1, j + 1) = SubSeq(open, 1, (j + 1) - 1) \o <<open[j + 1]>>
    BY <1>1, SubSeqRecursiveSecond
  <1>3. SubSeq(open, 1, j) \in Seq(Nat) /\ Len(SubSeq(open, 1, j)) = j
    BY <1>1
  <1>4. (j + 1) - 1 = j
    OBVIOUS
  <1>5. Append(SubSeq(open, 1, j), open[j + 1]) = SubSeq(open, 1, j) \o <<open[j + 1]>>
    BY <1>1, <1>3, AppendIsConcat
  <1> QED BY <1>1, <1>2, <1>3, <1>4, <1>5

LEMMA EndsUnfinished ==
  ASSUME NEW open \in Seq(Nat), Len(open) <= MaxLayerDepth + 1,
         NEW bs \in Seq(Byte), NEW layers \in Nat
  PROVE  /\ Ends(Unfinished(open), bs, layers) <=> Ends(open, bs, layers)
         /\ Unfinished(open) \in Seq(Nat) /\ Len(Unfinished(open)) <= Len(open)
         /\ Unfinished(open) # <<>> => Unfinished(open)[Len(Unfinished(open))] > 0
  <1>1. PICK k \in 0 .. Len(open) :
           /\ Unfinished(open) = SubSeq(open, 1, k)
           /\ \A i \in k + 1 .. Len(open) : open[i] = 0
           /\ k > 0 => open[k] > 0
    BY UnfinishedIs
  <1> DEFINE n == Len(open)
             E(i) == Ends(SubSeq(open, 1, i), bs, layers)
             Good == {i \in Nat : k + i <= n => (E(k + i) <=> E(k))}
  <1>2. n \in Nat /\ k \in Nat /\ k <= n
    BY <1>1
  <1>3. 0 \in Good
    BY <1>2
  <1>4. ASSUME NEW i \in Nat, i \in Good PROVE i + 1 \in Good
    <2> SUFFICES ASSUME k + (i + 1) <= n PROVE E(k + (i + 1)) <=> E(k)
      OBVIOUS
    <2> DEFINE j == k + i
               o == SubSeq(open, 1, j)
    <2>1. j \in Nat /\ j + 1 <= n /\ j + 1 \in k + 1 .. n /\ k + (i + 1) = j + 1 /\ j <= MaxLayerDepth
      BY <1>2
    <2>2. SubSeq(open, 1, j + 1) = Append(o, open[j + 1]) /\ o \in Seq(Nat) /\ Len(o) = j
      BY <2>1, SubSeqNext
    <2>3. open[j + 1] = 0
      BY <1>1, <2>1
    <2> HIDE DEF o
    <2>4. Ends(Append(o, 0), bs, layers) <=> Ends(o, bs, layers)
      BY <2>1, <2>2, EndsDone
    <2>5. E(j + 1) <=> E(j)
      BY <2>2, <2>3, <2>4 DEF o
    <2>6. E(j) <=> E(k)
      BY <1>4, <2>1
    <2> HIDE DEF E
    <2> QED BY <2>1, <2>5, <2>6
  <1>5. Nat \subseteq Good
    <2> HIDE DEF Good
    <2> QED BY <1>3, <1>4, Climb
  <1>6. n - k \in Good /\ k + (n - k) = n
    BY <1>2, <1>5
  <1>7. E(n) <=> E(k)
    <2> HIDE DEF E
    <2> QED BY <1>6
  <1>8. SubSeq(open, 1, n) = open
    BY SubSeqFull
  <1>9. SubSeq(open, 1, k) \in Seq(Nat) /\ Len(SubSeq(open, 1, k)) = k
        /\ \A i \in 1 .. k : SubSeq(open, 1, k)[i] = open[i]
    BY <1>2
  <1>10. SubSeq(open, 1, k) # <<>> => k > 0
    BY <1>2, <1>9
  <1> DEFINE o == SubSeq(open, 1, k)
             u == Unfinished(open)
  <1>11. u = o /\ Len(o) = k /\ o \in Seq(Nat)
    BY <1>1, <1>9
  <1>12. o # <<>> => o[Len(o)] > 0
    <2> HIDE DEF o
    <2>1. SUFFICES ASSUME o # <<>> PROVE o[k] > 0
      BY <1>11
    <2>2. k > 0
      BY <2>1, <1>10 DEF o
    <2>3. k \in 1 .. k
      BY <1>2, <2>2
    <2> QED BY <1>1, <1>9, <2>2, <2>3 DEF o
  <1>13. Ends(u, bs, layers) <=> Ends(open, bs, layers)
    BY <1>7, <1>8, <1>11
  <1> HIDE DEF o, u
  <1>14. Len(u) <= Len(open) /\ (u # <<>> => u[Len(u)] > 0)
    BY <1>2, <1>11, <1>12
  <1> QED BY <1>11, <1>13, <1>14 DEF u

-----------------------------------------------------------------------------
(* The scan *)

Going == {"layer", "lower", "options"}

\* Wherever the scan x of bs is, bs is decodable exactly when what the decoder has left to do
\* there succeeds.
ScanOK(bs, x) ==
  /\ x \in ScanFields
  /\ x.at = "version" => x.bytes = bs /\ x.open = <<>> /\ x.layers = 0
  /\ x.at \in Going => /\ Len(bs) <= MaxProofBytes /\ x.layers <= MaxLayers
                       /\ Len(x.open) <= MaxLayerDepth + 1
  /\ x.at = "layer" =>
       (Decodable(bs) <=> \E l \in LayerOf(x.bytes) :
                            /\ l.depth + Len(x.open) <= MaxLayerDepth
                            /\ Ends(x.open, l.rest, x.layers + l.layers))
  /\ x.at = "lower" => (Decodable(bs) <=> Ends(x.open, x.bytes, x.layers))
  /\ x.at = "options" => (Decodable(bs) <=> x.bytes \in {<<0>>, <<1>>})
  /\ x.at = "passed" => Decodable(bs)
  /\ x.at = "refused" => ~Decodable(bs)

ScanInv == input \in Seq(Byte) /\ ScanOK(input, scan)

LEMMA ScanNow ==
  ASSUME ScanInv
  PROVE  /\ scan \in ScanFields /\ scan.at \in Stage /\ scan.bytes \in Seq(Byte)
         /\ scan.open \in Seq(Nat) /\ scan.layers \in Nat /\ input \in Seq(Byte)
         /\ Len(scan.open) \in Nat /\ Len(scan.bytes) \in Nat /\ Len(input) \in Nat
  BY DEF ScanInv, ScanOK, ScanFields

LEMMA VersionOK ==
  ASSUME ScanInv, scan.at = "version"
  PROVE  /\ \A y \in ScanVersion : ScanOK(input, y)
         /\ ScanVersion = {} => ~Decodable(input)
  <1>1. /\ input \in Seq(Byte) /\ scan \in ScanFields
        /\ scan.bytes = input /\ scan.open = <<>> /\ scan.layers = 0
    BY DEF ScanInv, ScanOK
  <1>2. ASSUME NEW y \in ScanVersion PROVE ScanOK(input, y)
    <2>1. PICK v \in Varint(input) : /\ v.value = 0 /\ Len(input) <= MaxProofBytes
                                     /\ y = [scan EXCEPT !.at = "layer", !.bytes = v.rest]
      BY <1>1, <1>2 DEF ScanVersion
    <2>2. v.rest \in Seq(Byte)
      BY <1>1, VarintFacts
    <2>3. /\ y \in ScanFields /\ y.at = "layer" /\ y.bytes = v.rest /\ y.open = <<>> /\ y.layers = 0
      BY <1>1, <2>1, <2>2 DEF ScanFields, Stage
    <2>4. Decodable(input) <=> \E l \in LayerOf(v.rest) :
                                 /\ l.rest \in {<<0>>, <<1>>}
                                 /\ l.depth <= MaxLayerDepth /\ l.layers <= MaxLayers
      <3>1. \A w \in Varint(input) : w = v
        BY <1>1, VarintFacts
      <3> QED BY <2>1, <3>1 DEF Decodable
    <2>5. ASSUME NEW l \in LayerOf(v.rest)
          PROVE  /\ l.rest \in {<<0>>, <<1>>} /\ l.layers <= MaxLayers <=> Ends(<<>>, l.rest, 0 + l.layers)
                 /\ l.depth <= MaxLayerDepth <=> l.depth + Len(<<>>) <= MaxLayerDepth
      <3>1. l.rest \in Seq(Byte) /\ l.layers \in Nat /\ l.depth \in Nat
        BY <2>2, LayerRead DEF Reading
      <3>2. 0 + l.layers = l.layers /\ l.depth + Len(<<>>) = l.depth
        BY <3>1
      <3> QED BY <3>1, <3>2, EndsAtOnce
    <2>6. Decodable(input) <=> \E l \in LayerOf(y.bytes) :
                                 /\ l.depth + Len(y.open) <= MaxLayerDepth
                                 /\ Ends(y.open, l.rest, y.layers + l.layers)
      BY <2>3, <2>4, <2>5
    <2>7. Len(y.open) = 0 /\ 0 <= MaxLayers /\ 0 <= MaxLayerDepth + 1
      BY <2>3
    <2> QED BY <2>1, <2>3, <2>6, <2>7 DEF ScanOK
  <1>3. ASSUME ScanVersion = {}, Decodable(input) PROVE FALSE
    <2>1. Len(input) <= MaxProofBytes /\ \E v \in Varint(input) : v.value = 0
      BY <1>3 DEF Decodable
    <2> QED BY <1>1, <1>3, <2>1 DEF ScanVersion
  <1> QED BY <1>2, <1>3

LEMMA LayerStep ==
  ASSUME ScanInv, scan.at = "layer"
  PROVE  /\ \A y \in ScanLayer : ScanOK(input, y)
         /\ ScanLayer = {} => ~Decodable(input)
  <1> DEFINE bs == scan.bytes
             open == scan.open
             layers == scan.layers
             Varints == UNION {Varint(b) : b \in AfterString(bs)}
             Fitting == {m \in Varints : m.value <= Len(m.rest) \div 3}
             To(n) == [at |-> "lower", bytes |-> n.rest, open |-> Append(open, n.value),
                       layers |-> layers + 1]
  <1>1. /\ bs \in Seq(Byte) /\ open \in Seq(Nat) /\ layers \in Nat /\ Len(open) \in Nat
        /\ Len(input) <= MaxProofBytes /\ layers <= MaxLayers /\ Len(open) <= MaxLayerDepth + 1
        /\ Decodable(input) <=> \E l \in LayerOf(bs) : /\ l.depth + Len(open) <= MaxLayerDepth
                                                       /\ Ends(open, l.rest, layers + l.layers)
    BY ScanNow DEF ScanInv, ScanOK, Going
  <1>2. ScanLayer = IF layers = MaxLayers \/ Len(open) > MaxLayerDepth THEN {}
                    ELSE {To(n) : n \in Fitting}
    BY Zenon DEF ScanLayer
  <1>3. \A n \in Varints : n.value \in Nat /\ n.rest \in Seq(Byte)
    BY <1>1, StringFacts, VarintFacts
  <1>4. \A m, n \in Varints : m = n
    <2>1. ASSUME NEW m \in Varints, NEW n \in Varints PROVE m = n
      <3>1. PICK b \in AfterString(bs) : m \in Varint(b)
        OBVIOUS
      <3>2. PICK c \in AfterString(bs) : n \in Varint(c)
        OBVIOUS
      <3>3. b = c /\ b \in Seq(Byte)
        BY <1>1, StringFacts
      <3> QED BY <3>1, <3>2, <3>3, VarintFacts
    <2> QED BY <2>1
  <1>5. ASSUME NEW l
        PROVE  l \in LayerOf(bs) <=> \E n \in Varints : \E d \in LowersOf(n.value, n.rest) :
                                       l = [d EXCEPT !.layers = @ + 1]
    <2>1. l \in LayerOf(bs) <=>
            \E b \in AfterString(bs) : \E v \in Varint(b) : \E d \in LowersOf(v.value, v.rest) :
              l = [d EXCEPT !.layers = @ + 1]
      BY <1>1, LayerIs
    <2> QED BY <2>1
  <1> HIDE DEF Varints, To, bs, open, layers
  <1>6. ASSUME NEW n \in Varints, NEW d \in LowersOf(n.value, n.rest)
        PROVE  n \in Fitting
    <2>1. n.value \in Nat /\ n.rest \in Seq(Byte) /\ d.rest \in Seq(Byte)
          /\ Len(d.rest) + 3 * n.value <= Len(n.rest)
      BY <1>3, LowersRead DEF Reading
    <2> DEFINE v == n.value
               a == Len(d.rest)
               b == Len(n.rest)
    <2>2. v \in Nat /\ a \in Nat /\ b \in Nat /\ a + 3 * v <= b
      BY <2>1
    <2> HIDE DEF v, a, b
    <2>3. v <= b \div 3
      BY <2>2
    <2> QED BY <2>3 DEF v, b
  <1>7. ASSUME NEW n \in Varints, ~(layers = MaxLayers \/ Len(open) > MaxLayerDepth)
        PROVE  ScanOK(input, To(n))
    <2>1. n.value \in Nat /\ n.rest \in Seq(Byte) /\ layers + 1 \in Nat
          /\ Append(open, n.value) \in Seq(Nat) /\ Len(Append(open, n.value)) = Len(open) + 1
      BY <1>1, <1>3
    <2>2. /\ To(n) \in ScanFields /\ To(n).at = "lower" /\ To(n).bytes = n.rest
          /\ To(n).open = Append(open, n.value) /\ To(n).layers = layers + 1
      BY <2>1 DEF To, ScanFields, Stage
    <2>3. layers + 1 <= MaxLayers /\ Len(open) + 1 <= MaxLayerDepth + 1
      BY <1>1, <1>7
    <2>4. ASSUME NEW d \in LowersOf(n.value, n.rest)
          PROVE  LET l == [d EXCEPT !.layers = @ + 1]
                 IN l.depth = d.depth /\ l.rest = d.rest /\ layers + l.layers = (layers + 1) + d.layers
      <3>1. d \in Reading
        BY <2>1, LowersRead
      <3> DEFINE l == [d EXCEPT !.layers = @ + 1]
      <3>2. l.depth = d.depth /\ l.rest = d.rest /\ l.layers = d.layers + 1 /\ d.layers \in Nat
        BY <3>1 DEF Reading
      <3> HIDE DEF l
      <3>3. layers + l.layers = (layers + 1) + d.layers
        <4> DEFINE a == d.layers
                   c == l.layers
        <4>1. a \in Nat /\ c = a + 1 /\ layers \in Nat
          BY <1>1, <3>2
        <4> HIDE DEF a, c
        <4>2. layers + c = (layers + 1) + a
          BY <4>1
        <4> QED BY <4>2 DEF a, c
      <3> QED BY <3>2, <3>3 DEF l
    <2>5. Ends(Append(open, n.value), n.rest, layers + 1) <=>
            \E d \in LowersOf(n.value, n.rest) :
               d.depth + Len(open) <= MaxLayerDepth /\ Ends(open, d.rest, (layers + 1) + d.layers)
      BY <1>1, <2>1, EndsAfter
    <2>6. ASSUME Decodable(input) PROVE Ends(Append(open, n.value), n.rest, layers + 1)
      <3>1. PICK l \in LayerOf(bs) : /\ l.depth + Len(open) <= MaxLayerDepth
                                     /\ Ends(open, l.rest, layers + l.layers)
        BY <1>1, <2>6
      <3>2. PICK m \in Varints : \E d \in LowersOf(m.value, m.rest) : l = [d EXCEPT !.layers = @ + 1]
        BY <1>5
      <3>3. m = n
        BY <1>4
      <3>4. PICK d \in LowersOf(n.value, n.rest) : l = [d EXCEPT !.layers = @ + 1]
        BY <3>2, <3>3
      <3> QED BY <2>4, <2>5, <3>1, <3>4
    <2>7. ASSUME Ends(Append(open, n.value), n.rest, layers + 1) PROVE Decodable(input)
      <3>1. PICK d \in LowersOf(n.value, n.rest) :
               d.depth + Len(open) <= MaxLayerDepth /\ Ends(open, d.rest, (layers + 1) + d.layers)
        BY <2>5, <2>7
      <3>2. [d EXCEPT !.layers = @ + 1] \in LayerOf(bs)
        BY <1>5
      <3> QED BY <1>1, <2>4, <3>1, <3>2
    <2> HIDE DEF To
    <2> QED BY <1>1, <2>2, <2>1, <2>3, <2>6, <2>7 DEF ScanOK, Going
  <1>8. ASSUME NEW y \in ScanLayer PROVE ScanOK(input, y)
    <2>1. ~(layers = MaxLayers \/ Len(open) > MaxLayerDepth)
      BY <1>2, <1>8
    <2>2. PICK n \in Fitting : y = To(n)
      BY <1>2, <1>8, <2>1
    <2> QED BY <1>7, <2>1, <2>2
  <1>9. ASSUME ScanLayer = {}, Decodable(input) PROVE FALSE
    <2>1. PICK l \in LayerOf(bs) : /\ l.depth + Len(open) <= MaxLayerDepth
                                   /\ Ends(open, l.rest, layers + l.layers)
      BY <1>1, <1>9
    <2>2. l \in Reading /\ l.layers >= 1
      BY <1>1, LayerRead
    <2>3. layers + l.layers <= MaxLayers
      <3>1. l.rest \in Seq(Byte) /\ layers + l.layers \in Nat
        BY <1>1, <2>2 DEF Reading
      <3> QED BY <1>1, <2>1, <3>1, EndsWithin
    <2>4. ~(layers = MaxLayers \/ Len(open) > MaxLayerDepth)
      BY <1>1, <2>1, <2>2, <2>3 DEF Reading
    <2>5. PICK n \in Varints : \E d \in LowersOf(n.value, n.rest) : l = [d EXCEPT !.layers = @ + 1]
      BY <1>5
    <2>6. n \in Fitting
      BY <1>6, <2>5
    <2>7. To(n) \in ScanLayer
      BY <1>2, <2>4, <2>6
    <2> QED BY <1>9, <2>7
  <1> QED BY <1>8, <1>9

LEMMA LastLess ==
  ASSUME NEW o \in Seq(Nat), NEW n \in Nat, n - 1 \in Nat
  PROVE  [Append(o, n) EXCEPT ![Len(o) + 1] = @ - 1] = Append(o, n - 1)
  <1> DEFINE m == Len(o)
             s == Append(o, n)
             t == Append(o, n - 1)
             u == [s EXCEPT ![m + 1] = @ - 1]
  <1>1. /\ m \in Nat /\ s \in Seq(Nat) /\ t \in Seq(Nat)
        /\ Len(s) = m + 1 /\ Len(t) = m + 1 /\ s[m + 1] = n /\ t[m + 1] = n - 1
        /\ \A i \in 1 .. m : s[i] = o[i] /\ t[i] = o[i]
    BY AppendProperties
  <1> HIDE DEF m, s, t
  <1>2. u \in Seq(Nat) /\ Len(u) = m + 1
    BY <1>1
  <1>3. \A i \in 1 .. m + 1 : u[i] = t[i]
    BY <1>1
  <1> HIDE DEF u
  <1>4. u = t
    BY <1>1, <1>2, <1>3
  <1> QED BY <1>4 DEF u, s, t, m

LEMMA LowerStep ==
  ASSUME ScanInv, scan.at = "lower"
  PROVE  /\ \A y \in ScanLower : ScanOK(input, y)
         /\ ScanLower = {} => ~Decodable(input)
  <1> DEFINE bs == scan.bytes
             layers == scan.layers
             open == Unfinished(scan.open)
             deep == Len(open)
  <1>1. /\ bs \in Seq(Byte) /\ layers \in Nat /\ scan.open \in Seq(Nat) /\ scan \in ScanFields
        /\ Len(scan.open) \in Nat
        /\ Len(input) <= MaxProofBytes /\ layers <= MaxLayers /\ Len(scan.open) <= MaxLayerDepth + 1
        /\ Decodable(input) <=> Ends(scan.open, bs, layers)
    BY ScanNow DEF ScanInv, ScanOK, Going
  <1>2. /\ open \in Seq(Nat) /\ deep \in Nat /\ deep <= MaxLayerDepth + 1
        /\ open # <<>> => open[deep] > 0
        /\ Decodable(input) <=> Ends(open, bs, layers)
    <2>1. /\ Ends(open, bs, layers) <=> Ends(scan.open, bs, layers)
          /\ open \in Seq(Nat) /\ Len(open) <= Len(scan.open)
          /\ open # <<>> => open[Len(open)] > 0
      BY <1>1, EndsUnfinished, Zenon
    <2> HIDE DEF open
    <2>2. deep \in Nat
      BY <2>1
    <2> DEFINE m == Len(scan.open)
    <2>3. m \in Nat /\ deep <= m /\ m <= MaxLayerDepth + 1 /\ MaxLayerDepth \in Nat
      BY <1>1, <2>1
    <2> HIDE DEF m, deep
    <2>4. deep <= MaxLayerDepth + 1
      BY <2>2, <2>3
    <2>5. Decodable(input) <=> Ends(open, bs, layers)
      BY <1>1, <2>1, Zenon
    <2> QED BY <2>1, <2>2, <2>4, <2>5 DEF deep
  <1> HIDE DEF open
  <1>3. CASE deep = 0
    <2>1. open = <<>>
      BY <1>2, <1>3
    <2> DEFINE y == [scan EXCEPT !.at = "options", !.open = open]
    <2>2. ScanLower = {y}
      BY <1>3 DEF ScanLower, open
    <2>3. /\ y \in ScanFields /\ y.at = "options" /\ y.bytes = bs /\ y.open = <<>> /\ y.layers = layers
      BY <1>1, <1>2, <2>1 DEF ScanFields, Stage
    <2>4. Decodable(input) <=> bs \in {<<0>>, <<1>>}
      BY <1>1, <1>2, <2>1, EndsAtOnce
    <2>5. ScanOK(input, y)
      <3>1. Len(y.open) = 0 /\ 0 <= MaxLayerDepth + 1
        BY <2>3
      <3> HIDE DEF y
      <3> QED BY <1>1, <2>3, <2>4, <3>1 DEF ScanOK, Going
    <2> QED BY <2>2, <2>5
  <1>4. CASE deep # 0
    <2>1. PICK o \in Seq(Nat), n \in Nat : open = Append(o, n) /\ deep = Len(o) + 1
      <3>1. open # <<>>
        BY <1>4
      <3> QED BY <1>2, <3>1, LastOf
    <2>2. /\ Len(o) \in Nat /\ open[deep] = n /\ n # 0 /\ n - 1 \in Nat /\ [open EXCEPT ![deep] = @ - 1] = Append(o, n - 1)
      <3>1. Len(o) \in Nat /\ open[deep] = n
        BY <2>1
      <3>2. n # 0 /\ n - 1 \in Nat
        BY <1>2, <1>4, <3>1
      <3>3. [Append(o, n) EXCEPT ![Len(o) + 1] = @ - 1] = Append(o, n - 1)
        BY <3>1, <3>2, LastLess
      <3> QED BY <2>1, <3>1, <3>2, <3>3
    <2> DEFINE less == Append(o, n - 1)
               To(b) == [scan EXCEPT !.at = "layer", !.bytes = b, !.open = less]
    <2>3. ScanLower = {To(b) : b \in AfterString(bs)}
      <3>1. ScanLower = {[scan EXCEPT !.at = "layer", !.bytes = b, !.open = [open EXCEPT ![deep] = @ - 1]] :
                           b \in AfterString(bs)}
        BY <1>4, Zenon DEF ScanLower, open
      <3> QED BY <2>2, <3>1
    <2>4. less \in Seq(Nat) /\ Len(less) = deep
      BY <2>1, <2>2
    <2> HIDE DEF less
    <2>5. Decodable(input) <=>
            \E r \in LowersOf(n, bs) :
              r.depth + Len(o) <= MaxLayerDepth /\ Ends(o, r.rest, layers + r.layers)
      BY <1>1, <1>2, <2>1, EndsAfter
    <2>6. ASSUME NEW b \in AfterString(bs), NEW l \in LayerOf(b)
          PROVE  /\ l \in Reading
                 /\ Ends(less, l.rest, layers + l.layers) <=>
                      \E others \in LowersOf(n - 1, l.rest) :
                         /\ others.depth + Len(o) <= MaxLayerDepth
                         /\ Ends(o, others.rest, (layers + l.layers) + others.layers)
                 /\ \A others \in LowersOf(n - 1, l.rest) :
                      LET r == Joint(l, others)
                      IN /\ r.rest = others.rest /\ layers + r.layers = (layers + l.layers) + others.layers
                         /\ r.depth + Len(o) <= MaxLayerDepth <=>
                              l.depth + deep <= MaxLayerDepth /\ others.depth + Len(o) <= MaxLayerDepth
      <3>1. b \in Seq(Byte)
        BY <1>1, StringFacts
      <3>2. l \in Reading /\ l.rest \in Seq(Byte) /\ l.layers \in Nat /\ l.depth \in Nat
        BY <3>1, LayerRead DEF Reading
      <3>3. layers + l.layers \in Nat
        BY <1>1, <3>2
      <3>4. Ends(less, l.rest, layers + l.layers) <=>
                      \E others \in LowersOf(n - 1, l.rest) :
                         /\ others.depth + Len(o) <= MaxLayerDepth
                         /\ Ends(o, others.rest, (layers + l.layers) + others.layers)
        BY <2>2, <3>2, <3>3, EndsAfter DEF less
      <3>5. ASSUME NEW others \in LowersOf(n - 1, l.rest)
            PROVE  LET r == Joint(l, others)
                   IN /\ r.rest = others.rest /\ layers + r.layers = (layers + l.layers) + others.layers
                      /\ r.depth + Len(o) <= MaxLayerDepth <=>
                           l.depth + deep <= MaxLayerDepth /\ others.depth + Len(o) <= MaxLayerDepth
        <4> DEFINE r == Joint(l, others)
                   m == MaxLayerDepth - Len(o)
        <4>1. others \in Reading /\ others.depth \in Nat /\ others.layers \in Nat
          <5>1. others \in Reading
            BY <2>2, <3>2, LowersRead
          <5> QED BY <5>1 DEF Reading
        <4>2. m \in Int
          BY <2>2
        <4>3. /\ r \in Reading /\ r.rest = others.rest /\ r.layers = l.layers + others.layers
              /\ r.depth <= m <=> l.depth + 1 <= m /\ others.depth <= m
          BY <3>2, <4>1, <4>2, JointFacts
        <4>4. r.depth \in Nat
          BY <4>3 DEF Reading
        <4> HIDE DEF r
        <4>5. /\ r.depth <= m <=> r.depth + Len(o) <= MaxLayerDepth
              /\ others.depth <= m <=> others.depth + Len(o) <= MaxLayerDepth
              /\ l.depth + 1 <= m <=> l.depth + deep <= MaxLayerDepth
          <5> DEFINE a == r.depth
                     d == others.depth
                     c == l.depth
                     e == Len(o)
          <5>1. a \in Nat /\ d \in Nat /\ c \in Nat /\ e \in Nat /\ deep = e + 1 /\ MaxLayerDepth \in Nat
            BY <2>1, <2>2, <3>2, <4>1, <4>4
          <5> HIDE DEF a, d, c, e, deep
          <5>2. /\ a <= MaxLayerDepth - e <=> a + e <= MaxLayerDepth
                /\ d <= MaxLayerDepth - e <=> d + e <= MaxLayerDepth
                /\ c + 1 <= MaxLayerDepth - e <=> c + deep <= MaxLayerDepth
            BY <5>1
          <5> QED BY <5>2 DEF a, d, c, e
        <4>6. layers + r.layers = (layers + l.layers) + others.layers
          <5> DEFINE a == l.layers
                     d == others.layers
                     c == r.layers
          <5>1. a \in Nat /\ d \in Nat /\ c = a + d /\ layers \in Nat
            BY <1>1, <3>2, <4>1, <4>3
          <5> HIDE DEF a, d, c
          <5>2. layers + c = (layers + a) + d
            BY <5>1
          <5> QED BY <5>2 DEF a, d, c
        <4> QED BY <4>3, <4>5, <4>6 DEF r
      <3> QED BY <3>2, <3>4, <3>5
    <2>7. ASSUME NEW b \in AfterString(bs), NEW l \in LayerOf(b),
                 l.depth + deep <= MaxLayerDepth, Ends(less, l.rest, layers + l.layers)
          PROVE  Decodable(input)
      <3>1. PICK others \in LowersOf(n - 1, l.rest) :
               /\ others.depth + Len(o) <= MaxLayerDepth
               /\ Ends(o, others.rest, (layers + l.layers) + others.layers)
        BY <2>6, <2>7
      <3> DEFINE r == Joint(l, others)
      <3>2. r \in LowersOf(n, bs)
        BY <1>1, <2>2, <2>7, <3>1, MoreLowers
      <3>3. /\ r.rest = others.rest /\ layers + r.layers = (layers + l.layers) + others.layers
            /\ r.depth + Len(o) <= MaxLayerDepth <=>
                 l.depth + deep <= MaxLayerDepth /\ others.depth + Len(o) <= MaxLayerDepth
        BY <2>6, <2>7, <3>1
      <3> HIDE DEF r
      <3> QED BY <2>5, <2>7, <3>1, <3>2, <3>3
    <2>8. ASSUME Decodable(input)
          PROVE  \E b \in AfterString(bs) : \E l \in LayerOf(b) :
                   l.depth + deep <= MaxLayerDepth /\ Ends(less, l.rest, layers + l.layers)
      <3>1. PICK r \in LowersOf(n, bs) :
               r.depth + Len(o) <= MaxLayerDepth /\ Ends(o, r.rest, layers + r.layers)
        BY <2>5, <2>8
      <3>2. PICK b \in AfterString(bs) : \E l \in LayerOf(b) :
               \E others \in LowersOf(n - 1, l.rest) : r = Joint(l, others)
        BY <1>1, <2>2, MoreLowers
      <3>3. PICK l \in LayerOf(b) : \E others \in LowersOf(n - 1, l.rest) : r = Joint(l, others)
        BY <3>2
      <3>4. PICK others \in LowersOf(n - 1, l.rest) : r = Joint(l, others)
        BY <3>3
      <3>5. /\ r.rest = others.rest /\ layers + r.layers = (layers + l.layers) + others.layers
            /\ r.depth + Len(o) <= MaxLayerDepth <=>
                 l.depth + deep <= MaxLayerDepth /\ others.depth + Len(o) <= MaxLayerDepth
        BY <2>6, <3>4
      <3>6. l.depth + deep <= MaxLayerDepth /\ others.depth + Len(o) <= MaxLayerDepth
        BY <3>1, <3>5
      <3>7. Ends(o, others.rest, (layers + l.layers) + others.layers)
        BY <3>1, <3>5
      <3>8. Ends(less, l.rest, layers + l.layers)
        BY <2>6, <3>6, <3>7
      <3> QED BY <3>6, <3>8
    <2>9. ASSUME NEW b \in AfterString(bs) PROVE ScanOK(input, To(b))
      <3>1. b \in Seq(Byte) /\ \A c \in AfterString(bs) : c = b
        BY <1>1, StringFacts
      <3>2. /\ To(b) \in ScanFields /\ To(b).at = "layer" /\ To(b).bytes = b
            /\ To(b).open = less /\ To(b).layers = layers
        BY <1>1, <2>4, <3>1 DEF ScanFields, Stage
      <3>3. Decodable(input) <=> \E l \in LayerOf(b) :
               l.depth + deep <= MaxLayerDepth /\ Ends(less, l.rest, layers + l.layers)
        BY <2>7, <2>8, <3>1
      <3> HIDE DEF To
      <3> QED BY <1>1, <1>2, <2>4, <3>2, <3>3 DEF ScanOK, Going
    <2>10. ASSUME ScanLower = {}, Decodable(input) PROVE FALSE
      <3>1. PICK b \in AfterString(bs) : TRUE
        BY <2>8, <2>10
      <3>2. To(b) \in ScanLower
        BY <2>3
      <3> QED BY <2>10, <3>2
    <2> HIDE DEF To
    <2> QED BY <2>3, <2>9, <2>10
  <1> QED BY <1>3, <1>4

LEMMA OptionsOK ==
  ASSUME ScanInv, scan.at = "options"
  PROVE  /\ \A y \in ScanOptions : ScanOK(input, y)
         /\ ScanOptions = {} => ~Decodable(input)
  <1> DEFINE y == [scan EXCEPT !.at = "passed", !.bytes = <<>>]
  <1>1. /\ scan \in ScanFields
        /\ Decodable(input) <=> scan.bytes \in {<<0>>, <<1>>}
    BY DEF ScanInv, ScanOK
  <1>2. y \in ScanFields /\ y.at = "passed"
    <2>1. ASSUME NEW none \in Seq(Byte), NEW x, x = [scan EXCEPT !.at = "passed", !.bytes = none]
          PROVE  x \in ScanFields /\ x.at = "passed"
      BY <1>1, <2>1 DEF ScanFields, Stage
    <2>2. <<>> \in Seq(Byte)
      BY EmptySeq
    <2> QED BY <2>1, <2>2, Zenon
  <1>3. ScanOptions = IF scan.bytes \in {<<0>>, <<1>>} THEN {y} ELSE {}
    BY DEF ScanOptions
  <1> HIDE DEF y
  <1>4. Decodable(input) => ScanOK(input, y)
    BY <1>2 DEF ScanOK, Going
  <1>5. CASE scan.bytes \in {<<0>>, <<1>>}
    BY <1>1, <1>3, <1>4, <1>5
  <1>6. CASE scan.bytes \notin {<<0>>, <<1>>}
    <2>1. ScanOptions = {}
      BY <1>3, <1>6, Zenon
    <2>2. ~Decodable(input)
      BY <1>1, <1>6, Zenon
    <2> QED BY <2>1, <2>2, Zenon
  <1> QED BY <1>5, <1>6

LEMMA ScanFirst == ScanInit => ScanInv
  BY DEF ScanInit, ScanInv, ScanOK, NoScan, ScanFields, Stage, Going

LEMMA ScanBeginOK ==
  ASSUME NEW bs \in Seq(Byte), ScanBegin(bs)
  PROVE  ScanInv'
  <1> DEFINE x == [NoScan EXCEPT !.at = "version", !.bytes = bs]
  <1>1. input' = bs /\ scan' = x
    BY DEF ScanBegin
  <1>2. x \in ScanFields /\ x.at = "version" /\ x.bytes = bs /\ x.open = <<>> /\ x.layers = 0
    <2>1. NoScan \in ScanFields /\ NoScan.open = <<>> /\ NoScan.layers = 0
      <3>1. \A none \in Seq(Byte), no \in Seq(Nat) :
              [at |-> "idle", bytes |-> none, open |-> no, layers |-> 0] \in ScanFields
        BY DEF ScanFields, Stage
      <3>2. <<>> \in Seq(Byte) /\ <<>> \in Seq(Nat)
        OBVIOUS
      <3> QED BY <3>1, <3>2, Zenon DEF NoScan
    <2> QED BY <2>1 DEF ScanFields, Stage
  <1> HIDE DEF x
  <1>3. ScanOK(bs, x)
    BY <1>2 DEF ScanOK, Going
  <1> QED BY <1>1, <1>3 DEF ScanInv

LEMMA ScanStepOK ==
  ASSUME ScanInv, ScanStep
  PROVE  ScanInv'
  <1>1. /\ \A y \in Reads : ScanOK(input, y)
        /\ scan.at \in {"version", "layer", "lower", "options"} /\ Reads = {} => ~Decodable(input)
    BY VersionOK, LayerStep, LowerStep, OptionsOK DEF Reads
  <1>2. input \in Seq(Byte) /\ scan \in ScanFields
    BY ScanNow
  <1>3. CASE ScanGoesOn
    BY <1>1, <1>2, <1>3 DEF ScanGoesOn, ScanInv
  <1>4. CASE ScanRefuses
    <2> DEFINE x == [scan EXCEPT !.at = "refused"]
    <2>1. scan' = x /\ input' = input /\ ~Decodable(input)
      BY <1>1, <1>4 DEF ScanRefuses
    <2>2. x \in ScanFields /\ x.at = "refused"
      BY <1>2 DEF ScanFields, Stage
    <2> HIDE DEF x
    <2>3. ScanOK(input, x)
      BY <2>1, <2>2 DEF ScanOK, Going
    <2> QED BY <1>2, <2>1, <2>3 DEF ScanInv
  <1> QED BY <1>3, <1>4 DEF ScanStep

LEMMA ScanInvSuffices == ScanInv => ScanIsDecoding
  BY DEF ScanInv, ScanOK, ScanIsDecoding

HIDE ScanAssumption

-----------------------------------------------------------------------------
(* An answer's cost *)

LEMMA TextFacts ==
  ASSUME NEW t \in Texts
  PROVE  /\ t.kind \in Kinds /\ t.bytes \in Seq(JsonByte)
         /\ t.items \in Seq(Texts) /\ t.gaps \in Seq(Seq(JsonByte)) /\ IsText(t)
         /\ \A i \in DOMAIN t.items : t.items[i] \in Texts
         /\ DOMAIN t.items = 1 .. Len(t.items) /\ Len(t.items) \in Nat
  <1>1. /\ t \in [kind : Kinds, bytes : Seq(JsonByte), items : Seq(Texts), gaps : Seq(Seq(JsonByte))]
        /\ IsText(t)
    BY TextsAssumption
  <1>2. t.items \in Seq(Texts)
    BY <1>1
  <1>3. \A i \in DOMAIN t.items : t.items[i] \in Texts
    BY <1>2
  <1>4. DOMAIN t.items = 1 .. Len(t.items) /\ Len(t.items) \in Nat
    BY <1>2
  <1> QED BY <1>1, <1>2, <1>3, <1>4

\* Sequences, with their lengths.
LEMMA CatHas ==
  ASSUME NEW S, NEW s \in Seq(S), NEW r \in Seq(S)
  PROVE  /\ Cat(s, r) \in Seq(S) /\ Len(Cat(s, r)) = Len(s) + Len(r)
         /\ \A i \in 1 .. Len(s) : Cat(s, r)[i] = s[i]
         /\ \A i \in 1 .. Len(r) : Cat(s, r)[Len(s) + i] = r[i]
  BY DEF Cat

LEMMA JsonCat ==
  /\ \A s, r \in Seq(JsonByte) :
       /\ Cat(s, r) \in Seq(JsonByte) /\ Len(Cat(s, r)) = Len(s) + Len(r)
       /\ Len(s) \in Nat /\ Len(r) \in Nat
  /\ \A x \in JsonByte : <<x>> \in Seq(JsonByte) /\ Len(<<x>>) = 1
  <1>1. \A s, r \in Seq(JsonByte) : Cat(s, r) \in Seq(JsonByte) /\ Len(Cat(s, r)) = Len(s) + Len(r)
    BY CatHas
  <1>2. \A s \in Seq(JsonByte) : Len(s) \in Nat
    OBVIOUS
  <1>3. \A x \in JsonByte : <<x>> \in Seq(JsonByte) /\ Len(<<x>>) = 1
    OBVIOUS
  <1> QED BY <1>1, <1>2, <1>3

\* What a container's bytes are made of.
Ending(t) == Cat(t.gaps[Len(t.gaps)], <<Closer(t.kind)>>)

LEMMA BracketsTyped ==
  \A kind : Opener(kind) \in JsonByte /\ Closer(kind) \in JsonByte
  BY DEF Opener, Closer, JsonByte

LEMMA MembersTyped ==
  ASSUME NEW t \in Texts, t.kind \in Container
  PROVE  /\ Len(t.gaps) = Len(t.items) + 1 /\ \A i \in 1 .. Len(t.gaps) : t.gaps[i] \in Seq(JsonByte)
         /\ Members(t) \in Seq(Seq(JsonByte)) /\ Len(Members(t)) = Len(t.items)
         /\ \A i \in 1 .. Len(t.items) : Members(t)[i] = Cat(t.gaps[i], t.items[i].bytes)
         /\ Ending(t) \in Seq(JsonByte) /\ <<Opener(t.kind)>> \in Seq(JsonByte)
         /\ t.bytes = Cat(<<Opener(t.kind)>>, Cat(FlattenSeq(Members(t)), Ending(t)))
         /\ \A i \in 1 .. Len(t.gaps) : IsGap(t, i)
  <1> DEFINE n == Len(t.items)
  <1>1. /\ t.bytes \in Seq(JsonByte) /\ t.gaps \in Seq(Seq(JsonByte)) /\ IsText(t)
        /\ \A i \in 1 .. n : t.items[i] \in Texts
        /\ DOMAIN t.items = 1 .. n /\ n \in Nat
    BY TextFacts
  <1>2. Holding(t)
    BY <1>1 DEF IsText, Container
  <1>3. Len(t.gaps) = n + 1 /\ \A i \in 1 .. n + 1 : t.gaps[i] \in Seq(JsonByte)
    BY <1>1, <1>2 DEF Holding
  <1>4. \A i \in 1 .. n + 1 : IsGap(t, i)
    BY <1>1, <1>2, <1>3 DEF Holding
  <1> DEFINE member(i) == Cat(t.gaps[i], t.items[i].bytes)
  <1>5. \A i \in 1 .. n : member(i) \in Seq(JsonByte)
    <2> TAKE i \in 1 .. n
    <2>1. t.gaps[i] \in Seq(JsonByte) /\ t.items[i].bytes \in Seq(JsonByte)
      <3>1. t.items[i] \in Texts
        BY <1>1
      <3> QED BY <1>1, <1>3, <3>1, TextFacts
    <2> QED BY <2>1, JsonCat, Zenon
  <1>6. Members(t) = [i \in 1 .. n |-> member(i)]
    BY <1>1 DEF Members, Cat
  <1> HIDE DEF member
  <1>7. Members(t) \in Seq(Seq(JsonByte)) /\ Len(Members(t)) = n /\ \A i \in 1 .. n : Members(t)[i] = member(i)
    BY <1>1, <1>5, <1>6
  <1>8. <<Opener(t.kind)>> \in Seq(JsonByte) /\ <<Closer(t.kind)>> \in Seq(JsonByte)
    BY BracketsTyped, JsonCat
  <1>9. Ending(t) \in Seq(JsonByte)
    <2>1. t.gaps[Len(t.gaps)] \in Seq(JsonByte)
      BY <1>1, <1>3
    <2> QED BY <1>8, <2>1, JsonCat, Zenon DEF Ending
  <1>10. t.bytes = Cat(<<Opener(t.kind)>>, Cat(FlattenSeq(Members(t)), Ending(t)))
    BY <1>2, Zenon DEF Holding, Cat, Ending
  <1> QED BY <1>1, <1>3, <1>4, <1>7, <1>8, <1>9, <1>10 DEF member

\* The members of a container one after the other: of the bytes so far, f[i] are those of i.
Written(t, f) ==
  /\ f \in [0 .. Len(t.items) -> Seq(JsonByte)] /\ f[0] = <<>>
  /\ \A i \in 1 .. Len(t.items) : f[i] = Cat(f[i - 1], Cat(t.gaps[i], t.items[i].bytes))
  /\ t.bytes = Cat(<<Opener(t.kind)>>, Cat(f[Len(t.items)], Ending(t)))

LEMMA WrittenExists ==
  ASSUME NEW t \in Texts, t.kind \in Container
  PROVE  \E f : Written(t, f)
  <1>1. PICK f : Runs(f, Members(t), JsonByte) /\ FlattenSeq(Members(t)) = f[Len(Members(t))]
    BY FlatRuns, MembersTyped
  <1>2. Written(t, f)
    BY <1>1, MembersTyped DEF Written, Runs
  <1> QED BY <1>2

LEMMA WrittenLengths ==
  ASSUME NEW t \in Texts, t.kind \in Container, NEW f, Written(t, f)
  PROVE  /\ \A i \in 0 .. Len(t.items) : f[i] \in Seq(JsonByte) /\ Len(f[i]) \in Nat /\ Len(f[i]) <= Len(f[Len(t.items)])
         /\ \A i \in 1 .. Len(t.items) :
              Len(f[i]) = Len(f[i - 1]) + Len(t.gaps[i]) + Len(t.items[i].bytes)
         /\ Len(t.bytes) = 2 + Len(f[Len(t.items)]) + Len(t.gaps[Len(t.items) + 1])
  <1> DEFINE n == Len(t.items)
  <1>1. n \in Nat /\ \A i \in 1 .. n : t.items[i].bytes \in Seq(JsonByte) /\ Len(t.items[i].bytes) \in Nat
    <2>1. n \in Nat /\ DOMAIN t.items = 1 .. n /\ \A i \in DOMAIN t.items : t.items[i] \in Texts
      BY TextFacts
    <2>2. \A i \in 1 .. n : t.items[i].bytes \in Seq(JsonByte)
      BY <2>1, TextFacts
    <2> QED BY <2>1, <2>2
  <1>2. /\ \A i \in 0 .. n : f[i] \in Seq(JsonByte)
        /\ \A i \in 1 .. n : f[i] = Cat(f[i - 1], Cat(t.gaps[i], t.items[i].bytes))
        /\ t.bytes = Cat(<<Opener(t.kind)>>, Cat(f[n], Ending(t)))
    BY DEF Written
  <1>3. Len(t.gaps) = n + 1 /\ \A i \in 1 .. n + 1 : t.gaps[i] \in Seq(JsonByte) /\ Len(t.gaps[i]) \in Nat
    <2>1. Len(t.gaps) = n + 1 /\ \A i \in 1 .. n + 1 : t.gaps[i] \in Seq(JsonByte)
      BY MembersTyped
    <2> QED BY <2>1
  <1>4. ASSUME NEW i \in 1 .. n
        PROVE  Len(f[i]) = Len(f[i - 1]) + Len(t.gaps[i]) + Len(t.items[i].bytes)
    <2> DEFINE a == f[i - 1]
               b == t.gaps[i]
               c == t.items[i].bytes
    <2>1. a \in Seq(JsonByte) /\ b \in Seq(JsonByte) /\ c \in Seq(JsonByte)
      <3>1. i - 1 \in 0 .. n /\ i \in 1 .. n + 1
        BY <1>1
      <3> QED BY <1>1, <1>2, <1>3, <3>1
    <2>2. f[i] = Cat(a, Cat(b, c))
      BY <1>2
    <2> HIDE DEF a, b, c
    <2>3. Cat(b, c) \in Seq(JsonByte) /\ Len(Cat(b, c)) = Len(b) + Len(c)
      BY <2>1, JsonCat, Zenon
    <2>4. Len(Cat(a, Cat(b, c))) = Len(a) + Len(Cat(b, c))
      BY <2>1, <2>3, JsonCat, Zenon
    <2>5. Len(a) \in Nat /\ Len(b) \in Nat /\ Len(c) \in Nat
      BY <2>1
    <2>6. Len(f[i]) = Len(a) + Len(b) + Len(c)
      BY <2>2, <2>3, <2>4, <2>5
    <2> QED BY <2>6 DEF a, b, c
  <1>5. \A i \in 0 .. n : Len(f[i]) \in Nat
    BY <1>2
  <1>6. \A i \in 0 .. n : Len(f[i]) <= Len(f[n])
    <2> DEFINE Good == {k \in Nat : k <= n => Len(f[n - k]) <= Len(f[n])}
    <2>1. 0 \in Good
      BY <1>1, <1>5
    <2>2. ASSUME NEW k \in Nat, k \in Good PROVE k + 1 \in Good
      <3> SUFFICES ASSUME k + 1 <= n PROVE Len(f[n - (k + 1)]) <= Len(f[n])
        OBVIOUS
      <3> DEFINE i == n - k
      <3>1. i \in 1 .. n /\ i - 1 = n - (k + 1) /\ i - 1 \in 0 .. n /\ i \in 0 .. n /\ n \in 0 .. n
        BY <1>1
      <3>2. Len(f[i]) <= Len(f[n])
        BY <1>1, <2>2
      <3>3. Len(f[i]) = Len(f[i - 1]) + Len(t.gaps[i]) + Len(t.items[i].bytes)
        BY <1>4, <3>1
      <3>4. Len(t.gaps[i]) \in Nat /\ Len(t.items[i].bytes) \in Nat /\ Len(f[i - 1]) \in Nat /\ Len(f[n]) \in Nat
        <4>1. i \in 1 .. n + 1
          BY <1>1, <3>1
        <4> HIDE DEF i, n
        <4> QED BY <1>1, <1>3, <1>5, <3>1, <4>1
      <3> HIDE DEF i
      <3>5. Len(f[i - 1]) <= Len(f[n])
        <4> DEFINE p == Len(f[i - 1])
                   q == Len(f[n])
                   r == Len(f[i])
                   g == Len(t.gaps[i])
                   h == Len(t.items[i].bytes)
        <4>1. r <= q /\ r = p + g + h /\ g \in Nat /\ h \in Nat /\ p \in Nat /\ q \in Nat
          BY <3>2, <3>3, <3>4
        <4> HIDE DEF p, q, r, g, h
        <4>2. p <= q
          BY <4>1
        <4> QED BY <4>2 DEF p, q
      <3> QED BY <3>1, <3>5
    <2> HIDE DEF Good
    <2>3. Nat \subseteq Good
      BY <2>1, <2>2, Climb
    <2> TAKE i \in 0 .. n
    <2>4. n - i \in Nat /\ n - i <= n /\ n - (n - i) = i
      BY <1>1
    <2> QED BY <2>3, <2>4 DEF Good
  <1>7. Len(t.bytes) = 2 + Len(f[n]) + Len(t.gaps[n + 1])
    <2> DEFINE o == <<Opener(t.kind)>>
               c == <<Closer(t.kind)>>
               g == t.gaps[n + 1]
               a == f[n]
    <2>1. /\ o \in Seq(JsonByte) /\ c \in Seq(JsonByte) /\ g \in Seq(JsonByte) /\ a \in Seq(JsonByte)
          /\ Len(o) = 1 /\ Len(c) = 1 /\ Ending(t) = Cat(g, c)
      <3>1. c \in Seq(JsonByte) /\ o \in Seq(JsonByte) /\ Len(o) = 1 /\ Len(c) = 1
        BY BracketsTyped, JsonCat
      <3>2. n + 1 \in 1 .. n + 1 /\ n \in 0 .. n
        BY <1>1
      <3>3. Ending(t) = Cat(g, c)
        BY <1>3 DEF Ending
      <3> QED BY <1>2, <1>3, <3>1, <3>2, <3>3
    <2>2. t.bytes = Cat(o, Cat(a, Cat(g, c)))
      BY <1>2, <2>1
    <2> HIDE DEF o, c, g, a
    <2>3. Cat(g, c) \in Seq(JsonByte) /\ Len(Cat(g, c)) = Len(g) + Len(c)
      BY <2>1, JsonCat, Zenon
    <2>4. Cat(a, Cat(g, c)) \in Seq(JsonByte) /\ Len(Cat(a, Cat(g, c))) = Len(a) + Len(Cat(g, c))
      BY <2>1, <2>3, JsonCat, Zenon
    <2>5. Len(Cat(o, Cat(a, Cat(g, c)))) = Len(o) + Len(Cat(a, Cat(g, c)))
      BY <2>1, <2>4, JsonCat, Zenon
    <2>6. Len(a) \in Nat /\ Len(g) \in Nat
      BY <2>1, JsonCat
    <2>7. Len(t.bytes) = 2 + Len(a) + Len(g)
      BY <2>1, <2>2, <2>3, <2>4, <2>5, <2>6
    <2> QED BY <2>7 DEF a, g
  <1> QED BY <1>2, <1>4, <1>5, <1>6, <1>7

LEMMA ItemsShorter ==
  ASSUME NEW t \in Texts, t.kind \in Container, NEW i \in DOMAIN t.items
  PROVE  t.items[i] \in Texts /\ Len(t.items[i].bytes) < Len(t.bytes)
  <1>1. PICK f : Written(t, f)
    BY WrittenExists
  <1>2. i \in 1 .. Len(t.items) /\ Len(t.items) \in Nat /\ t.items[i] \in Texts
    BY TextFacts
  <1> DEFINE n == Len(t.items)
  <1>3. /\ Len(f[i]) = Len(f[i - 1]) + Len(t.gaps[i]) + Len(t.items[i].bytes)
        /\ Len(f[i]) <= Len(f[n]) /\ Len(f[i - 1]) \in Nat /\ Len(f[i]) \in Nat /\ Len(f[n]) \in Nat
        /\ Len(t.bytes) = 2 + Len(f[n]) + Len(t.gaps[n + 1])
    <2>1. i \in 0 .. n /\ i - 1 \in 0 .. n /\ n \in 0 .. n
      BY <1>2
    <2> QED BY <1>1, <1>2, <2>1, WrittenLengths
  <1>4. Len(t.gaps[i]) \in Nat /\ Len(t.gaps[n + 1]) \in Nat /\ Len(t.items[i].bytes) \in Nat
    <2>1. t.gaps[i] \in Seq(JsonByte) /\ t.gaps[n + 1] \in Seq(JsonByte)
      <3>1. Len(t.gaps) = n + 1 /\ \A k \in 1 .. Len(t.gaps) : t.gaps[k] \in Seq(JsonByte)
        BY MembersTyped
      <3>2. i \in 1 .. n + 1 /\ n + 1 \in 1 .. n + 1
        BY <1>2
      <3> HIDE DEF n
      <3> QED BY <3>1, <3>2
    <2>2. t.items[i].bytes \in Seq(JsonByte)
      BY <1>2, TextFacts
    <2> HIDE DEF n
    <2> QED BY <2>1, <2>2, JsonCat, Zenon
  <1> DEFINE p == Len(f[i - 1])
             q == Len(f[n])
             r == Len(f[i])
             g == Len(t.gaps[i])
             h == Len(t.items[i].bytes)
             z == Len(t.gaps[n + 1])
             w == Len(t.bytes)
  <1>5. r = p + g + h /\ r <= q /\ w = 2 + q + z /\ {p, q, r, g, h, z} \subseteq Nat
    BY <1>3, <1>4
  <1> HIDE DEF p, q, r, g, h, z, w
  <1>6. h < w
    BY <1>5
  <1> QED BY <1>2, <1>6 DEF h, w

\* Total's own recursion.
SumTo(g, numbers, n) == g = [i \in 0 .. n |-> IF i = 0 THEN 0 ELSE g[i - 1] + numbers[i]]

LEMMA SumsExist ==
  ASSUME NEW numbers
  PROVE  \A n \in Nat : \E g : SumTo(g, numbers, n)
  <1> DEFINE Good == {n \in Nat : \E g : SumTo(g, numbers, n)}
  <1>1. 0 \in Good
    <2> DEFINE g == [i \in 0 .. 0 |-> 0]
               h == [i \in 0 .. 0 |-> IF i = 0 THEN 0 ELSE g[i - 1] + numbers[i]]
    <2>1. g = h
      <3>1. \A i \in 0 .. 0 : h[i] = 0
        OBVIOUS
      <3> QED BY <3>1
    <2>2. SumTo(g, numbers, 0)
      BY <2>1, Zenon DEF SumTo
    <2> HIDE DEF g
    <2> QED BY <2>2
  <1>2. ASSUME NEW n \in Good PROVE n + 1 \in Good
    <2>1. PICK g : SumTo(g, numbers, n)
      OBVIOUS
    <2> DEFINE next(f, i) == IF i = 0 THEN 0 ELSE f[i - 1] + numbers[i]
               h == [i \in 0 .. n + 1 |-> IF i = n + 1 THEN g[n] + numbers[n + 1] ELSE g[i]]
               e == [i \in 0 .. n + 1 |-> next(h, i)]
    <2>2. \A i \in 0 .. n : g[i] = next(g, i)
      BY <2>1 DEF SumTo
    <2>3. \A i \in 0 .. n + 1 : h[i] = IF i = n + 1 THEN g[n] + numbers[n + 1] ELSE g[i]
      OBVIOUS
    <2>4. \A i \in 0 .. n + 1 : h[i] = next(h, i)
      <3>1. ASSUME NEW i \in 0 .. n PROVE h[i] = next(h, i)
        <4>1. h[i] = g[i] /\ (i # 0 => h[i - 1] = g[i - 1])
          BY <2>3
        <4> HIDE DEF h
        <4> QED BY <2>2, <4>1
      <3>2. h[n + 1] = next(h, n + 1)
        <4>1. h[n + 1] = g[n] + numbers[n + 1] /\ h[n] = g[n] /\ (n + 1) - 1 = n /\ n + 1 # 0
          BY <2>3
        <4> HIDE DEF h
        <4> QED BY <4>1
      <3> HIDE DEF h, next
      <3> QED BY <3>1, <3>2
    <2>5. h = e
      <3>1. \A i \in 0 .. n + 1 : e[i] = h[i]
        BY <2>4
      <3>2. h = [i \in 0 .. n + 1 |-> h[i]] /\ e = [i \in 0 .. n + 1 |-> e[i]]
        OBVIOUS
      <3> HIDE DEF h, e
      <3> QED BY <3>1, <3>2
    <2>6. SumTo(h, numbers, n + 1)
      BY <2>5, Zenon DEF SumTo
    <2> HIDE DEF h, e
    <2> QED BY <2>6
  <1> HIDE DEF Good
  <1>3. Nat \subseteq Good
    BY <1>1, <1>2, Climb
  <1> QED BY <1>3 DEF Good

LEMMA SumUnfold ==
  ASSUME NEW numbers, Len(numbers) \in Nat
  PROVE  \E g : SumTo(g, numbers, Len(numbers)) /\ Total(numbers) = g[Len(numbers)]
  <1>1. \E g : g = [i \in 0 .. Len(numbers) |-> IF i = 0 THEN 0 ELSE g[i - 1] + numbers[i]]
    BY SumsExist DEF SumTo
  <1> DEFINE sum == CHOOSE g : g = [i \in 0 .. Len(numbers) |-> IF i = 0 THEN 0 ELSE g[i - 1] + numbers[i]]
  <1>2. sum = [i \in 0 .. Len(numbers) |-> IF i = 0 THEN 0 ELSE sum[i - 1] + numbers[i]]
    BY <1>1, Zenon
  <1>3. Total(numbers) = sum[Len(numbers)]
    BY Zenon DEF Total
  <1> QED BY <1>2, <1>3, Zenon DEF SumTo

\* So the numbers are added one after the other.
Adds(g, numbers) ==
  /\ g \in [0 .. Len(numbers) -> Nat] /\ g[0] = 0
  /\ \A i \in 1 .. Len(numbers) : g[i] = g[i - 1] + numbers[i]

LEMMA TotalAdds ==
  ASSUME NEW numbers \in Seq(Nat)
  PROVE  \E g : Adds(g, numbers) /\ Total(numbers) = g[Len(numbers)]
  <1> DEFINE n == Len(numbers)
  <1>1. n \in Nat /\ \A i \in 1 .. n : numbers[i] \in Nat
    OBVIOUS
  <1>2. PICK g : SumTo(g, numbers, n) /\ Total(numbers) = g[n]
    BY <1>1, SumUnfold
  <1>3. /\ \A i \in 0 .. n : g[i] = IF i = 0 THEN 0 ELSE g[i - 1] + numbers[i]
        /\ g = [i \in 0 .. n |-> g[i]]
    <2> DEFINE e(i) == IF i = 0 THEN 0 ELSE g[i - 1] + numbers[i]
    <2>1. g = [i \in 0 .. n |-> e(i)]
      BY <1>2, Zenon DEF SumTo
    <2> HIDE DEF e
    <2>2. \A i \in 0 .. n : g[i] = e(i)
      BY <2>1, Zenon
    <2>3. g = [i \in 0 .. n |-> g[i]]
      BY <2>1
    <2> QED BY <2>2, <2>3 DEF e
  <1> HIDE DEF n
  <1> DEFINE Good == {i \in Nat : i <= n => g[i] \in Nat}
  <1>0. 0 \in 0 .. n
    BY <1>1
  <1>10. g[0] = 0
    BY <1>0, <1>3
  <1>4. 0 \in Good
    BY <1>10
  <1>5. ASSUME NEW i \in Nat, i \in Good PROVE i + 1 \in Good
    <2> SUFFICES ASSUME i + 1 <= n PROVE g[i + 1] \in Nat
      OBVIOUS
    <2>1. i + 1 \in 0 .. n /\ i + 1 \in 1 .. n /\ i + 1 # 0 /\ (i + 1) - 1 = i /\ i <= n
      BY <1>1
    <2>2. g[i + 1] = g[i] + numbers[i + 1]
      BY <1>3, <2>1
    <2> QED BY <1>1, <1>5, <2>1, <2>2
  <1> HIDE DEF Good
  <1>6. Nat \subseteq Good
    BY <1>4, <1>5, Climb
  <1>7. \A i \in 0 .. n : g[i] \in Nat
    BY <1>1, <1>6 DEF Good
  <1>8. g \in [0 .. n -> Nat]
    BY <1>3, <1>7
  <1>9. ASSUME NEW i \in 1 .. n PROVE g[i] = g[i - 1] + numbers[i]
    <2>1. i \in 0 .. n /\ i # 0
      BY <1>1
    <2> QED BY <1>3, <2>1
  <1> QED BY <1>2, <1>8, <1>9, <1>10 DEF Adds, n

LEMMA TotalTyped == \A numbers \in Seq(Nat) : Total(numbers) \in Nat
  <1> TAKE numbers \in Seq(Nat)
  <1>1. PICK g : Adds(g, numbers) /\ Total(numbers) = g[Len(numbers)]
    BY TotalAdds
  <1>2. g \in [0 .. Len(numbers) -> Nat] /\ Len(numbers) \in 0 .. Len(numbers)
    BY <1>1 DEF Adds
  <1> QED BY <1>1, <1>2

LEMMA TotalNone ==
  ASSUME NEW numbers \in Seq(Nat), \A i \in 1 .. Len(numbers) : numbers[i] = 0
  PROVE  Total(numbers) = 0
  <1> DEFINE n == Len(numbers)
  <1>1. PICK g : Adds(g, numbers) /\ Total(numbers) = g[n]
    BY TotalAdds
  <1>2. n \in Nat /\ g[0] = 0 /\ \A i \in 1 .. n : g[i] = g[i - 1] + numbers[i]
    BY <1>1 DEF Adds
  <1>0. \A i \in 1 .. n : numbers[i] = 0
    OBVIOUS
  <1> HIDE DEF n
  <1> DEFINE Good == {i \in Nat : i <= n => g[i] = 0}
  <1>3. 0 \in Good
    BY <1>2
  <1>4. ASSUME NEW i \in Nat, i \in Good PROVE i + 1 \in Good
    <2> SUFFICES ASSUME i + 1 <= n PROVE g[i + 1] = 0
      OBVIOUS
    <2>1. i + 1 \in 1 .. n /\ (i + 1) - 1 = i /\ i <= n
      BY <1>2
    <2>2. g[i + 1] = g[i] + numbers[i + 1] /\ numbers[i + 1] = 0 /\ g[i] = 0
      BY <1>0, <1>2, <1>4, <2>1
    <2> QED BY <2>2
  <1> HIDE DEF Good
  <1>5. Nat \subseteq Good
    BY <1>3, <1>4, Climb
  <1> QED BY <1>1, <1>2, <1>5 DEF Good

-----------------------------------------------------------------------------
(* What decoding a text makes exists: a table of it for every number of bytes does. *)

Within(k) == {t \in Texts : Len(t.bytes) <= k}
MadeTo(f, k) == f = [t \in Within(k) |-> MadeBy(f, t)]

LEMMA MadeLocally ==
  ASSUME NEW t \in Texts, NEW f, NEW g, \A i \in DOMAIN t.items : f[t.items[i]] = g[t.items[i]]
  PROVE  MadeBy(f, t) = MadeBy(g, t)
  <1> DEFINE units(made) == [i \in DOMAIN t.items |-> made[t.items[i]].units]
             numbers(made) == [i \in DOMAIN t.items |-> made[t.items[i]].numbers]
  <1>1. units(f) = units(g) /\ numbers(f) = numbers(g)
    OBVIOUS
  <1> DEFINE scalar == [units |-> 1, numbers |-> IF t.kind = "number" THEN 1 ELSE 0]
             whole(a, b) == [units |-> ContainerCost + Total(a), numbers |-> Total(b)]
  <1> HIDE DEF units, numbers
  <1>2. MadeBy(f, t) = IF t.kind \in Container THEN whole(units(f), numbers(f)) ELSE scalar
    BY Zenon DEF MadeBy, units, numbers
  <1>3. MadeBy(g, t) = IF t.kind \in Container THEN whole(units(g), numbers(g)) ELSE scalar
    BY Zenon DEF MadeBy, units, numbers
  <1> HIDE DEF whole, scalar
  <1> QED BY <1>1, <1>2, <1>3

\* A scalar makes the same whatever its items do.
LEMMA MadeScalar ==
  ASSUME NEW t \in Texts, NEW f, NEW g, t.kind \notin Container
  PROVE  MadeBy(f, t) = MadeBy(g, t)
  BY Zenon DEF MadeBy

LEMMA MadeSame ==
  ASSUME NEW k \in Nat, NEW t \in Within(k + 1), NEW f, NEW g, \A x \in Within(k) : f[x] = g[x]
  PROVE  MadeBy(f, t) = MadeBy(g, t)
  <1>1. t \in Texts /\ Len(t.bytes) <= k + 1 /\ Len(t.bytes) \in Nat
    <2>1. t \in Texts /\ Len(t.bytes) <= k + 1
      BY DEF Within
    <2>2. t.bytes \in Seq(JsonByte)
      BY <2>1, TextFacts
    <2> QED BY <2>1, <2>2, JsonCat
  <1>2. CASE t.kind \in Container
    <2>1. ASSUME NEW i \in DOMAIN t.items PROVE f[t.items[i]] = g[t.items[i]]
      <3>1. t.items[i] \in Texts /\ Len(t.items[i].bytes) < Len(t.bytes)
        BY <1>1, <1>2, ItemsShorter
      <3>2. Len(t.items[i].bytes) \in Nat
        BY <3>1, TextFacts, JsonCat
      <3>3. t.items[i] \in Within(k)
        BY <1>1, <3>1, <3>2 DEF Within
      <3> QED BY <3>3
    <2> QED BY <1>1, <2>1, MadeLocally
  <1>3. CASE t.kind \notin Container
    BY <1>1, <1>3, MadeScalar
  <1> QED BY <1>2, <1>3

LEMMA MadeOver ==
  ASSUME NEW n \in Nat \ {0}, NEW t \in Within(n), NEW f, NEW g
  PROVE  (\A x \in Within(n - 1) : f[x] = g[x]) => MadeBy(f, t) = MadeBy(g, t)
  <1>1. PICK k \in Nat : n = k + 1 /\ n - 1 = k
    BY n - 1 \in Nat
  <1>2. t \in Within(k + 1)
    BY <1>1
  <1>3. (\A x \in Within(k) : f[x] = g[x]) => MadeBy(f, t) = MadeBy(g, t)
    BY <1>2, MadeSame
  <1> QED BY <1>1, <1>3

LEMMA NothingShorter == Within(0) = {}
  <1> SUFFICES ASSUME NEW t \in Texts PROVE ~(Len(t.bytes) <= 0)
    BY DEF Within
  <1>1. t.kind \in Kinds /\ t.bytes \in Seq(JsonByte) /\ IsText(t)
    BY TextFacts
  <1>2. CASE t.kind \in Container
    <2>1. PICK f : Written(t, f)
      BY <1>2, WrittenExists
    <2> DEFINE q == Len(f[Len(t.items)])
               z == Len(t.gaps[Len(t.items) + 1])
               w == Len(t.bytes)
    <2>2. w = 2 + q + z
      BY <1>2, <2>1, WrittenLengths
    <2>3. Len(t.items) \in Nat
      BY TextFacts
    <2>4. q \in Nat /\ z \in Nat
      <3>1. f[Len(t.items)] \in Seq(JsonByte)
        BY <2>1, <2>3 DEF Written
      <3>2. t.gaps[Len(t.items) + 1] \in Seq(JsonByte)
        <4>1. Len(t.items) + 1 \in 1 .. Len(t.items) + 1
          BY <2>3
        <4> QED BY <1>2, <4>1, MembersTyped
      <3> QED BY <3>1, <3>2, JsonCat
    <2> HIDE DEF q, z, w
    <2>5. ~(w <= 0)
      BY <2>2, <2>4
    <2> QED BY <2>5 DEF w
  <1>3. CASE t.kind \notin Container
    <2>1. t.bytes # <<>>
      <3>1. CASE t.kind = "string"
        <4>1. Len(t.bytes) > 1
          BY <1>1, <3>1 DEF IsText, Container
        <4> QED BY <1>1, <4>1
      <3>2. CASE t.kind # "string"
        BY <1>1, <1>3, <3>2 DEF IsText, Kinds, ScalarText
      <3> QED BY <3>1, <3>2
    <2> QED BY <1>1, <2>1
  <1> QED BY <1>2, <1>3

LEMMA MadeRows ==
  ASSUME NEW k \in Nat, NEW f, MadeTo(f, k)
  PROVE  \A t \in Within(k) : f[t] = MadeBy(f, t)
  <1> DEFINE e(t) == MadeBy(f, t)
  <1>1. f = [t \in Within(k) |-> e(t)]
    BY Zenon DEF MadeTo
  <1> HIDE DEF e
  <1>2. \A t \in Within(k) : f[t] = e(t)
    BY <1>1, Zenon
  <1> QED BY <1>2 DEF e

LEMMA MadesExist == \A k \in Nat : \E f : MadeTo(f, k)
  <1> DEFINE Good == {k \in Nat : \E f : MadeTo(f, k)}
  <1>1. 0 \in Good
    <2> DEFINE f == [t \in Within(0) |-> 0]
               g == [t \in Within(0) |-> MadeBy(f, t)]
    <2>1. f = g
      BY NothingShorter
    <2>2. MadeTo(f, 0)
      BY <2>1, Zenon DEF MadeTo
    <2> HIDE DEF f
    <2> QED BY <2>2
  <1>2. ASSUME NEW k \in Nat, k \in Good PROVE k + 1 \in Good
    <2>1. PICK f : MadeTo(f, k)
      BY <1>2
    <2> DEFINE e(t) == MadeBy(f, t)
               g == [t \in Within(k + 1) |-> e(t)]
               d(t) == MadeBy(g, t)
               h == [t \in Within(k + 1) |-> d(t)]
    <2>2. \A t \in Within(k) : f[t] = e(t)
      BY <2>1, MadeRows
    <2>3. \A t \in Within(k) : t \in Within(k + 1)
      <3>1. \A t \in Texts : Len(t.bytes) \in Nat
        BY TextFacts, JsonCat
      <3> QED BY <3>1 DEF Within
    <2>4. \A t \in Within(k) : g[t] = f[t]
      <3> HIDE DEF e
      <3> QED BY <2>2, <2>3
    <2>5. \A t \in Within(k + 1) : e(t) = d(t)
      <3> HIDE DEF g
      <3> QED BY <2>4, MadeSame
    <2>6. g = h
      <3>1. \A t \in Within(k + 1) : g[t] = e(t)
        <4> HIDE DEF e
        <4> QED OBVIOUS
      <3>2. \A t \in Within(k + 1) : h[t] = d(t)
        <4> HIDE DEF d
        <4> QED OBVIOUS
      <3>3. g = [t \in Within(k + 1) |-> g[t]] /\ h = [t \in Within(k + 1) |-> h[t]]
        <4> HIDE DEF e, d
        <4> QED OBVIOUS
      <3>4. \A t \in Within(k + 1) : g[t] = h[t]
        <4> HIDE DEF e, d, g, h
        <4> QED BY <2>5, <3>1, <3>2
      <3> HIDE DEF g, h
      <3> QED BY <3>3, <3>4
    <2>7. MadeTo(g, k + 1)
      BY <2>6, Zenon DEF MadeTo
    <2> HIDE DEF g
    <2> QED BY <2>7
  <1> HIDE DEF Good
  <1>3. Nat \subseteq Good
    BY <1>1, <1>2, Climb
  <1> QED BY <1>3 DEF Good

LEMMA MadesAgree ==
  ASSUME NEW f, NEW g, NEW j \in Nat, NEW k \in Nat, MadeTo(f, j), MadeTo(g, k)
  PROVE  \A n \in Nat : n <= j /\ n <= k => \A t \in Within(n) : f[t] = g[t]
  <1> DEFINE Good == {n \in Nat : n <= j /\ n <= k => \A t \in Within(n) : f[t] = g[t]}
  <1>1. 0 \in Good
    BY NothingShorter
  <1>2. ASSUME NEW n \in Nat, n \in Good PROVE n + 1 \in Good
    <2> SUFFICES ASSUME n + 1 <= j, n + 1 <= k, NEW t \in Within(n + 1) PROVE f[t] = g[t]
      OBVIOUS
    <2>1. t \in Within(j) /\ t \in Within(k)
      <3>1. \A x \in Texts : Len(x.bytes) \in Nat
        BY TextFacts, JsonCat
      <3> QED BY <3>1 DEF Within
    <2>2. f[t] = MadeBy(f, t) /\ g[t] = MadeBy(g, t)
      BY <2>1, MadeRows
    <2>3. \A x \in Within(n) : f[x] = g[x]
      BY <1>2
    <2>4. MadeBy(f, t) = MadeBy(g, t)
      BY <2>3, MadeSame
    <2> QED BY <2>2, <2>4
  <1> HIDE DEF Good
  <1>3. Nat \subseteq Good
    BY <1>1, <1>2, Climb
  <1> QED BY <1>3 DEF Good

LEMMA MadeIs == \A t \in Texts : Made[t] = MadeBy(Made, t)
  <1> DEFINE T(n) == CHOOSE f : MadeTo(f, n)
             size(t) == Len(t.bytes)
             F == [t \in Texts |-> T(size(t))[t]]
             e(t) == MadeBy(F, t)
             G == [t \in Texts |-> e(t)]
  <1>1. \A n \in Nat : MadeTo(T(n), n)
    BY MadesExist
  <1>2. \A t \in Texts : size(t) \in Nat /\ t \in Within(size(t))
    <2>1. \A t \in Texts : size(t) \in Nat
      BY TextFacts, JsonCat
    <2> QED BY <2>1 DEF Within
  <1>3. \A t \in Texts : F[t] = T(size(t))[t]
    <2> HIDE DEF T, size
    <2> QED BY Zenon
  <1>4. ASSUME NEW t \in Texts PROVE F[t] = e(t)
    <2> DEFINE n == size(t)
    <2>1. n \in Nat /\ t \in Within(n) /\ MadeTo(T(n), n)
      BY <1>1, <1>2
    <2>2. T(n)[t] = MadeBy(T(n), t)
      <3> HIDE DEF T, n
      <3> QED BY <2>1, MadeRows
    <2>3. n - 1 \in Nat /\ (n - 1) + 1 = n
      <3>1. n # 0
        <4> HIDE DEF n
        <4> QED BY <2>1, NothingShorter
      <3> HIDE DEF n
      <3> QED BY <2>1, <3>1
    <2>4. ASSUME NEW x \in Within(n - 1) PROVE T(n)[x] = F[x]
      <3>1. x \in Texts /\ size(x) <= n - 1 /\ size(x) \in Nat
        <4>1. x \in Texts /\ size(x) <= n - 1
          <5> HIDE DEF n
          <5> QED BY DEF Within
        <4> HIDE DEF size, n
        <4> QED BY <1>2, <4>1
      <3>2. F[x] = T(size(x))[x] /\ x \in Within(size(x)) /\ MadeTo(T(size(x)), size(x))
        <4> HIDE DEF F, T, size
        <4> QED BY <1>1, <1>2, <1>3, <3>1
      <3>3. size(x) <= n
        <4> HIDE DEF n, size
        <4> QED BY <2>3, <3>1
      <3> HIDE DEF T, F, n, size
      <3> QED BY <2>1, <3>1, <3>2, <3>3, MadesAgree
    <2>5. MadeBy(T(n), t) = MadeBy(F, t)
      <3>1. \A f : (\A x \in Within(n - 1) : f[x] = F[x]) => MadeBy(f, t) = MadeBy(F, t)
        <4> HIDE DEF F, n, e, G
        <4>1. n \in Nat \ {0} /\ t \in Within(n)
          BY <2>1, <2>3
        <4> QED BY <4>1, MadeOver
      <3> QED BY <2>4, <3>1
    <2> HIDE DEF F, T
    <2> QED BY <1>3, <2>2, <2>5
  <1>5. F = G
    <2>1. \A t \in Texts : G[t] = e(t)
      <3> HIDE DEF e
      <3> QED BY Zenon
    <2>2. F = [t \in Texts |-> F[t]] /\ G = [t \in Texts |-> G[t]]
      <3> HIDE DEF e, T
      <3> QED OBVIOUS
    <2>3. \A t \in Texts : F[t] = G[t]
      <3> HIDE DEF F, G, e
      <3> QED BY <1>4, <2>1
    <2> HIDE DEF F, G
    <2> QED BY <2>2, <2>3
  <1>6. \E f : f = [t \in Texts |-> MadeBy(f, t)]
    <2>1. F = [t \in Texts |-> MadeBy(F, t)]
      BY <1>5, Zenon
    <2> HIDE DEF F
    <2> QED BY <2>1
  <1>7. Made = [t \in Texts |-> MadeBy(Made, t)]
    <2> DEFINE M == CHOOSE f : f = [t \in Texts |-> MadeBy(f, t)]
    <2>1. M = [t \in Texts |-> MadeBy(M, t)]
      BY <1>6, Zenon
    <2>2. Made = M
      BY Zenon DEF Made
    <2> HIDE DEF M
    <2> QED BY <2>1, <2>2, Zenon
  <1> DEFINE d(t) == MadeBy(Made, t)
  <1>8. Made = [t \in Texts |-> d(t)]
    BY <1>7, Zenon
  <1> HIDE DEF d
  <1>9. \A t \in Texts : Made[t] = d(t)
    BY <1>8, Zenon
  <1> QED BY <1>9 DEF d

\* What is made of a container is made of its items.
Counted1(t) == Units(t) \in Nat /\ Numbers(t) \in Nat

LEMMA MadeTyped == \A t \in Texts : Counted1(t)
  <1> DEFINE Good == {k \in Nat : \A t \in Within(k) : Counted1(t)}
  <1>1. 0 \in Good
    BY NothingShorter
  <1>2. ASSUME NEW k \in Nat, k \in Good PROVE k + 1 \in Good
    <2> SUFFICES ASSUME NEW t \in Within(k + 1) PROVE Counted1(t)
      OBVIOUS
    <2>1. t \in Texts /\ Len(t.bytes) <= k + 1 /\ Made[t] = MadeBy(Made, t)
      BY MadeIs DEF Within
    <2>2. CASE t.kind \in Container
      <3> DEFINE units == [i \in DOMAIN t.items |-> Made[t.items[i]].units]
                 numbers == [i \in DOMAIN t.items |-> Made[t.items[i]].numbers]
      <3>1. Made[t] = [units |-> ContainerCost + Total(units), numbers |-> Total(numbers)]
        BY <2>1, <2>2, Zenon DEF MadeBy
      <3>2. ASSUME NEW i \in DOMAIN t.items
            PROVE  Made[t.items[i]].units \in Nat /\ Made[t.items[i]].numbers \in Nat
        <4>1. t.items[i] \in Texts /\ Len(t.items[i].bytes) < Len(t.bytes)
          BY <2>1, <2>2, ItemsShorter
        <4>2. Len(t.items[i].bytes) \in Nat /\ Len(t.bytes) \in Nat
          BY <2>1, <4>1, TextFacts, JsonCat
        <4>3. t.items[i] \in Within(k)
          BY <2>1, <4>1, <4>2 DEF Within
        <4> QED BY <1>2, <4>3 DEF Counted1, Units, Numbers
      <3>3. DOMAIN t.items = 1 .. Len(t.items) /\ Len(t.items) \in Nat
        BY <2>1, TextFacts
      <3>4. units \in Seq(Nat) /\ numbers \in Seq(Nat)
        <4> DEFINE n == Len(t.items)
        <4>1. units \in [1 .. n -> Nat] /\ numbers \in [1 .. n -> Nat]
          BY <3>2, <3>3
        <4> HIDE DEF units, numbers, n
        <4>2. n \in Nat
          BY <3>3 DEF n
        <4> QED BY <4>1, <4>2
      <3> HIDE DEF units, numbers
      <3>5. Total(units) \in Nat /\ Total(numbers) \in Nat
        BY <3>4, TotalTyped
      <3> QED BY <3>1, <3>5, BudgetAssumption DEF Counted1, Units, Numbers
    <2>3. CASE t.kind \notin Container
      <3>1. Made[t] = [units |-> 1, numbers |-> IF t.kind = "number" THEN 1 ELSE 0]
        BY <2>1, <2>3, Zenon DEF MadeBy
      <3> QED BY <3>1 DEF Counted1, Units, Numbers
    <2> QED BY <2>2, <2>3
  <1> HIDE DEF Good
  <1>3. Nat \subseteq Good
    BY <1>1, <1>2, Climb
  <1> TAKE t \in Texts
  <1>4. Len(t.bytes) \in Nat /\ t \in Within(Len(t.bytes))
    <2>1. Len(t.bytes) \in Nat
      BY TextFacts, JsonCat
    <2> QED BY <2>1 DEF Within
  <1> QED BY <1>3, <1>4 DEF Good

LEMMA UnitsAre ==
  ASSUME NEW t \in Texts
  PROVE  /\ t.kind \in Container =>
              /\ Units(t) = ContainerCost + Total([i \in DOMAIN t.items |-> Units(t.items[i])])
              /\ Numbers(t) = Total([i \in DOMAIN t.items |-> Numbers(t.items[i])])
         /\ t.kind \notin Container =>
              Units(t) = 1 /\ Numbers(t) = IF t.kind = "number" THEN 1 ELSE 0
  <1>1. Made[t] = MadeBy(Made, t)
    BY MadeIs
  <1>2. CASE t.kind \in Container
    <2> DEFINE units == [i \in DOMAIN t.items |-> Made[t.items[i]].units]
               numbers == [i \in DOMAIN t.items |-> Made[t.items[i]].numbers]
    <2>1. Made[t] = [units |-> ContainerCost + Total(units), numbers |-> Total(numbers)]
      BY <1>1, <1>2, Zenon DEF MadeBy
    <2>2. /\ units = [i \in DOMAIN t.items |-> Units(t.items[i])]
          /\ numbers = [i \in DOMAIN t.items |-> Numbers(t.items[i])]
      BY Zenon DEF Units, Numbers
    <2> HIDE DEF units, numbers
    <2>3. Units(t) = ContainerCost + Total(units) /\ Numbers(t) = Total(numbers)
      BY <2>1 DEF Units, Numbers
    <2> QED BY <1>2, <2>2, <2>3
  <1>3. CASE t.kind \notin Container
    <2>1. Made[t] = [units |-> 1, numbers |-> IF t.kind = "number" THEN 1 ELSE 0]
      BY <1>1, <1>3, Zenon DEF MadeBy
    <2> QED BY <1>3, <2>1 DEF Units, Numbers
  <1> QED BY <1>2, <1>3

-----------------------------------------------------------------------------
(* The count, one byte after the other *)

Rec(at, b, i, w, d, c, u, s) ==
  [ at |-> at, underBudget |-> b, next |-> i, units |-> w, depth |-> d, cheap |-> c, under |-> u,
    start |-> s ]

\* What is counted after the next byte, when there is one.
NextCount(bytes, x) ==
  LET here == ByteAt(bytes, x.next)
      named == /\ x.underBudget /\ AnswersOwn(x.depth)
               /\ SubSeq(bytes, x.start, x.next - 1) = <<P>> /\ OpensContainer(bytes, x.next + 1)
      last == x.cheap + 1 = NumbersPerUnit
      To(at, i, w, d, c, u, s) == Rec(at, x.underBudget, i, w, d, c, u, s)
  IN IF x.at = "string"
     THEN IF here = Quote
          THEN To("between", x.next + 1, x.units, x.depth, x.cheap, x.under \/ named, 0)
          ELSE To("string", x.next + IF here = Backslash THEN 2 ELSE 1, x.units, x.depth, x.cheap,
                  x.under, x.start)
     ELSE IF here = Quote
     THEN To("string", x.next + 1, x.units + 1, x.depth, x.cheap, x.under, x.next + 1)
     ELSE IF here \in {"[", "{"}
     THEN To("between", x.next + 1, x.units + ContainerCost, x.depth + 1, x.cheap, x.under, x.start)
     ELSE IF here \in {"]", "}"}
     THEN To("between", x.next + 1, x.units, IF x.depth = 0 THEN 0 ELSE x.depth - 1, x.cheap,
             x.under /\ x.depth > 2, x.start)
     ELSE IF here \in Numeric
     THEN To("between", AfterScalar(bytes, x.next), IF x.under /\ ~last THEN x.units ELSE x.units + 1,
             x.depth, IF ~x.under THEN x.cheap ELSE IF last THEN 0 ELSE x.cheap + 1, x.under, x.start)
     ELSE IF here \in Alpha
     THEN To("between", AfterScalar(bytes, x.next), x.units + 1, x.depth, x.cheap, x.under, x.start)
     ELSE To("between", x.next + 1, x.units, x.depth, x.cheap, x.under, x.start)

\* From x the count comes to y: it is in every set that holds x and what comes after.
Follows(bytes, S) == \A x \in S : x.next <= Len(bytes) => NextCount(bytes, x) \in S
Leads(bytes, x, y) == \A S : x \in S /\ Follows(bytes, S) => y \in S

LEMMA LeadsFacts ==
  ASSUME NEW bytes
  PROVE  /\ \A x : Leads(bytes, x, x)
         /\ \A x, y, z : Leads(bytes, x, y) /\ Leads(bytes, y, z) => Leads(bytes, x, z)
         /\ \A x, y : x.next <= Len(bytes) /\ NextCount(bytes, x) = y => Leads(bytes, x, y)
  <1>1. \A x : Leads(bytes, x, x)
    BY Zenon DEF Leads
  <1>2. ASSUME NEW x, NEW y, NEW z, Leads(bytes, x, y), Leads(bytes, y, z) PROVE Leads(bytes, x, z)
    BY <1>2, Zenon DEF Leads
  <1>3. ASSUME NEW x, x.next <= Len(bytes) PROVE Leads(bytes, x, NextCount(bytes, x))
    BY <1>3, Zenon DEF Leads, Follows
  <1> QED BY <1>1, <1>2, <1>3, Zenon

\* Where it leads it goes, for there is one way.
LEMMA LeadsOn ==
  ASSUME NEW bytes, NEW x, NEW y, Leads(bytes, x, y), x # y
  PROVE  Leads(bytes, NextCount(bytes, x), y)
  <1> SUFFICES ASSUME NEW S, NextCount(bytes, x) \in S, Follows(bytes, S) PROVE y \in S
    BY Zenon DEF Leads
  <1> DEFINE W == S \cup {x}
  <1>1. x \in W /\ Follows(bytes, W)
    BY DEF Follows
  <1>2. y \in W
    BY <1>1, Zenon DEF Leads
  <1> QED BY <1>2

LEMMA LeadsNowhere ==
  ASSUME NEW bytes, NEW x, NEW y, Leads(bytes, x, y), ~(x.next <= Len(bytes))
  PROVE  y = x
  <1> DEFINE S == {x}
  <1>1. x \in S /\ Follows(bytes, S)
    BY DEF Follows
  <1>2. y \in S
    BY <1>1, Zenon DEF Leads
  <1> QED BY <1>2

\* A count.
Count ==
  [ at : At, underBudget : BOOLEAN, next : Nat, units : Nat, depth : Nat, cheap : Nat,
    under : BOOLEAN, start : Nat ]

\* Between two tokens at i: p units, and n numbers under the proof.
Mark(b, i, p, n, d, u) ==
  Rec("between", b, i, p + n \div NumbersPerUnit, d, n % NumbersPerUnit, u, 0)

\* Within the string that begins before s.
InString(b, i, p, n, d, u, s) ==
  Rec("string", b, i, p + n \div NumbersPerUnit, d, n % NumbersPerUnit, u, s)

LEMMA DivisionUnique ==
  ASSUME NEW N \in Nat \ {0}, NEW q \in Int, NEW r \in 0 .. N - 1, NEW y \in Int, NEW z \in 0 .. N - 1,
         N * q + r = N * y + z
  PROVE  q = y /\ r = z
  <1>1. ~(q < y)
    <2> SUFFICES ASSUME q < y PROVE FALSE
      OBVIOUS
    <2>1. PICK e \in Nat : y = q + 1 + e
      BY y - q - 1 \in Nat
    <2>2. N * y = N * q + N + N * e /\ N * e \in Nat
      BY <2>1
    <2> QED BY <2>2
  <1>2. ~(y < q)
    <2> SUFFICES ASSUME y < q PROVE FALSE
      OBVIOUS
    <2>1. PICK e \in Nat : q = y + 1 + e
      BY q - y - 1 \in Nat
    <2>2. N * q = N * y + N + N * e /\ N * e \in Nat
      BY <2>1
    <2> QED BY <2>2
  <1>3. q = y
    BY <1>1, <1>2
  <1> QED BY <1>3

LEMMA DivisionIs ==
  ASSUME NEW N \in Int, N > 0, NEW k \in Int, k >= 0
  PROVE  k = N * (k \div N) + (k % N) /\ (k % N) \in 0 .. N - 1 /\ k \div N \in Nat
  <1>1. k = N * (k \div N) + (k % N)
    OBVIOUS
  <1>2. (k % N) \in 0 .. N - 1 /\ k \div N \in Int
    OBVIOUS
  <1>3. k \div N >= 0
    OBVIOUS
  <1> QED BY <1>1, <1>2, <1>3

LEMMA DivisionNext ==
  ASSUME NEW N \in Nat \ {0}, NEW n \in Nat
  PROVE  /\ n \div N \in Nat /\ (n % N) \in Nat
         /\ (n % N) + 1 = N => (n + 1) \div N = n \div N + 1 /\ (n + 1) % N = 0
         /\ (n % N) + 1 # N => (n + 1) \div N = n \div N /\ (n + 1) % N = (n % N) + 1
  <1> DEFINE q == n \div N
             r == n % N
             y == (n + 1) \div N
             z == (n + 1) % N
  <1>1. n = N * q + r /\ r \in 0 .. N - 1 /\ q \in Nat
    BY DivisionIs
  <1>2. n + 1 = N * y + z /\ z \in 0 .. N - 1 /\ y \in Nat
    <2>1. n + 1 \in Int /\ n + 1 >= 0 /\ N \in Int /\ N > 0
      OBVIOUS
    <2> DEFINE k == n + 1
    <2> HIDE DEF k
    <2>2. k = N * (k \div N) + (k % N) /\ (k % N) \in 0 .. N - 1 /\ k \div N \in Nat
      BY <2>1, DivisionIs DEF k
    <2> QED BY <2>2 DEF k
  <1> HIDE DEF q, r, y, z
  <1>3. CASE r + 1 = N
    <2>1. N * (q + 1) + 0 = N * y + z /\ q + 1 \in Int /\ 0 \in 0 .. N - 1
      BY <1>1, <1>2, <1>3
    <2>2. y = q + 1 /\ z = 0
      BY <1>2, <2>1, DivisionUnique
    <2>3. r + 1 = N /\ q \in Nat /\ r \in Nat
      BY <1>1, <1>3
    <2> QED BY <2>2, <2>3, Zenon DEF q, r, y, z
  <1>4. CASE r + 1 # N
    <2> DEFINE m == r + 1
    <2>1. N * q + m = N * y + z /\ m \in 0 .. N - 1
      BY <1>1, <1>2, <1>4
    <2> HIDE DEF m
    <2>4. y = q /\ z = m
      BY <1>1, <1>2, <2>1, DivisionUnique
    <2>2. y = q /\ z = r + 1
      BY <2>4 DEF m
    <2>3. q \in Nat /\ r \in Nat
      BY <1>1
    <2> QED BY <1>4, <2>2, <2>3, Zenon DEF q, r, y, z
  <1> QED BY <1>3, <1>4

LEMMA ByteIs ==
  ASSUME NEW bytes \in Seq(JsonByte), NEW i \in 1 .. Len(bytes)
  PROVE  ByteAt(bytes, i) = bytes[i] /\ bytes[i] \in JsonByte
  BY DEF ByteAt

Space == " "

LEMMA SpacesAre ==
  /\ \A gap : Blank(gap) <=> \A k \in DOMAIN gap : gap[k] = Space
  /\ \A gap, mark : Around(gap, mark) <=>
       \E k \in DOMAIN gap : gap[k] = mark /\ \A j \in DOMAIN gap \ {k} : gap[j] = Space
  /\ \A bytes, i : OpensContainer(bytes, i) <=>
       /\ ByteAt(bytes, AfterSpace(bytes, i)) = Colon
       /\ ByteAt(bytes, AfterSpace(bytes, AfterSpace(bytes, i) + 1)) \in {"[", "{"}
  BY Zenon DEF Blank, Around, OpensContainer, Space, Colon

\* Where the spaces, or the bytes of a scalar, end.
LEMMA EndsOf ==
  ASSUME NEW bytes \in Seq(JsonByte), NEW i \in Nat \ {0}, NEW j \in Nat, i <= j, j <= Len(bytes) + 1
  PROVE  /\ /\ ByteAt(bytes, j) # Space
            /\ \A k \in i .. j - 1 : ByteAt(bytes, k) = Space
            => AfterSpace(bytes, i) = j
         /\ /\ i < j /\ ByteAt(bytes, j) \notin Scalar
            /\ \A k \in i + 1 .. j - 1 : ByteAt(bytes, k) \in Scalar
            => AfterScalar(bytes, i) = j
  <1>0. Len(bytes) \in Nat
    OBVIOUS
  <1>1. ASSUME ByteAt(bytes, j) # Space, \A k \in i .. j - 1 : ByteAt(bytes, k) = Space
        PROVE  AfterSpace(bytes, i) = j
    <2> DEFINE ok(x) == ByteAt(bytes, x) # Space /\ \A k \in i .. x - 1 : ByteAt(bytes, k) = Space
    <2>1. ok(j) /\ j \in i .. Len(bytes) + 1
      <3>1. j \in i .. Len(bytes) + 1
        BY <1>0
      <3> QED BY <1>1, <3>1
    <2>2. ASSUME NEW x \in i .. Len(bytes) + 1, ok(x) PROVE x = j
      <3>1. x \in Nat
        BY <1>0
      <3>2. ~(x < j)
        <4> SUFFICES ASSUME x < j PROVE FALSE
          OBVIOUS
        <4>1. x \in i .. j - 1
          BY <3>1
        <4> QED BY <1>1, <2>2, <4>1
      <3>3. ~(j < x)
        <4> SUFFICES ASSUME j < x PROVE FALSE
          OBVIOUS
        <4>1. j \in i .. x - 1
          BY <3>1
        <4>2. ByteAt(bytes, j) = Space
          BY <2>2, <4>1
        <4> QED BY <1>1, <4>2
      <3> QED BY <3>1, <3>2, <3>3
    <2>3. AfterSpace(bytes, i) = CHOOSE x \in i .. Len(bytes) + 1 : ok(x)
      BY Zenon DEF AfterSpace, Space
    <2> HIDE DEF ok
    <2> QED BY <2>1, <2>2, <2>3
  <1>2. ASSUME i < j, ByteAt(bytes, j) \notin Scalar, \A k \in i + 1 .. j - 1 : ByteAt(bytes, k) \in Scalar
        PROVE  AfterScalar(bytes, i) = j
    <2> DEFINE ok(x) == ByteAt(bytes, x) \notin Scalar /\ \A k \in i + 1 .. x - 1 : ByteAt(bytes, k) \in Scalar
    <2>1. ok(j) /\ j \in i + 1 .. Len(bytes) + 1
      <3>1. j \in i + 1 .. Len(bytes) + 1
        BY <1>0, <1>2
      <3> QED BY <1>2, <3>1
    <2>2. ASSUME NEW x \in i + 1 .. Len(bytes) + 1, ok(x) PROVE x = j
      <3>1. x \in Nat
        BY <1>0
      <3>2. ~(x < j)
        <4> SUFFICES ASSUME x < j PROVE FALSE
          OBVIOUS
        <4>1. x \in i + 1 .. j - 1
          BY <3>1
        <4> QED BY <1>2, <2>2, <4>1
      <3>3. ~(j < x)
        <4> SUFFICES ASSUME j < x PROVE FALSE
          OBVIOUS
        <4>1. j \in i + 1 .. x - 1
          BY <1>2, <3>1
        <4> QED BY <1>2, <2>2, <4>1
      <3> QED BY <3>1, <3>2, <3>3
    <2>3. AfterScalar(bytes, i) = CHOOSE x \in i + 1 .. Len(bytes) + 1 : ok(x)
      BY Zenon DEF AfterScalar
    <2> HIDE DEF ok
    <2> QED BY <2>1, <2>2, <2>3
  <1> QED BY <1>1, <1>2

\* The bytes the count skips.
Skipped == {" ", ":", ","}

LEMMA BytesApart ==
  /\ \A c \in Skipped :
       c # Quote /\ c \notin {"[", "{"} /\ c \notin {"]", "}"} /\ c \notin Numeric /\ c \notin Alpha /\ c \notin Scalar
  /\ \A c \in Numeric : c # Quote /\ c \notin {"[", "{"} /\ c \notin {"]", "}"} /\ c \in Scalar
  /\ \A c \in Alpha :
       c # Quote /\ c \notin {"[", "{"} /\ c \notin {"]", "}"} /\ c \notin Numeric /\ c \in Scalar
  /\ \A c \in {"]", "}"} : c # Quote /\ c \notin {"[", "{"} /\ c \notin Scalar
  /\ \A c \in {"[", "{"} : c # Quote /\ c \notin Scalar
  /\ Quote # Backslash /\ Quote \notin Scalar /\ "end" \notin Scalar /\ "end" \notin JsonByte
  BY DEF Quote, Backslash, Scalar, Numeric, Alpha, JsonByte, P, Skipped

\* What a count between two tokens does with the byte there.
LEMMA StepSkips ==
  ASSUME NEW bytes, NEW b, NEW i, NEW w, NEW d, NEW c, NEW u, NEW s,
         ByteAt(bytes, i) \in Skipped
  PROVE  NextCount(bytes, Rec("between", b, i, w, d, c, u, s)) =
           Rec("between", b, i + 1, w, d, c, u, s)
  <1> DEFINE x == Rec("between", b, i, w, d, c, u, s)
  <1>1. /\ x.at = "between" /\ x.underBudget = b /\ x.next = i /\ x.units = w /\ x.depth = d
        /\ x.cheap = c /\ x.under = u /\ x.start = s
    BY DEF Rec
  <1> HIDE DEF x
  <1>2. NextCount(bytes, x) = Rec("between", b, i + 1, w, d, c, u, s)
    BY <1>1, BytesApart DEF NextCount, Skipped
  <1> QED BY <1>2 DEF x

Openers == {"[", "{"}
Closers == {"]", "}"}

LEMMA StepOpens ==
  ASSUME NEW bytes, NEW b, NEW i, NEW w, NEW d, NEW c, NEW u, NEW s,
         ByteAt(bytes, i) \in Openers
  PROVE  NextCount(bytes, Rec("between", b, i, w, d, c, u, s)) =
           Rec("between", b, i + 1, w + ContainerCost, d + 1, c, u, s)
  <1> DEFINE x == Rec("between", b, i, w, d, c, u, s)
  <1>1. /\ x.at = "between" /\ x.underBudget = b /\ x.next = i /\ x.units = w /\ x.depth = d
        /\ x.cheap = c /\ x.under = u /\ x.start = s
    BY DEF Rec
  <1> HIDE DEF x
  <1>2. NextCount(bytes, x) = Rec("between", b, i + 1, w + ContainerCost, d + 1, c, u, s)
    BY <1>1, BytesApart DEF NextCount, Openers
  <1> QED BY <1>2 DEF x

\* Under the proof after the bracket that closes depth d.
Closed(u, d) == u /\ d > 2

LEMMA StepCloses ==
  ASSUME NEW bytes, NEW b, NEW i, NEW w, NEW d, NEW c, NEW u, NEW s,
         ByteAt(bytes, i) \in Closers
  PROVE  NextCount(bytes, Rec("between", b, i, w, d, c, u, s)) =
           Rec("between", b, i + 1, w, IF d = 0 THEN 0 ELSE d - 1, c, Closed(u, d), s)
  <1> DEFINE x == Rec("between", b, i, w, d, c, u, s)
  <1>1. /\ x.at = "between" /\ x.underBudget = b /\ x.next = i /\ x.units = w /\ x.depth = d
        /\ x.cheap = c /\ x.under = u /\ x.start = s
    BY DEF Rec
  <1> HIDE DEF x
  <1>2. NextCount(bytes, x) = Rec("between", b, i + 1, w, IF d = 0 THEN 0 ELSE d - 1, c, Closed(u, d), s)
    BY <1>1, BytesApart DEF NextCount, Closed, Closers
  <1> QED BY <1>2 DEF x

LEMMA StepWord ==
  ASSUME NEW bytes, NEW b, NEW i, NEW w, NEW d, NEW c, NEW u, NEW s,
         ByteAt(bytes, i) \in Alpha
  PROVE  NextCount(bytes, Rec("between", b, i, w, d, c, u, s)) =
           Rec("between", b, AfterScalar(bytes, i), w + 1, d, c, u, s)
  <1> DEFINE x == Rec("between", b, i, w, d, c, u, s)
  <1>1. /\ x.at = "between" /\ x.underBudget = b /\ x.next = i /\ x.units = w /\ x.depth = d
        /\ x.cheap = c /\ x.under = u /\ x.start = s
    BY DEF Rec
  <1> HIDE DEF x
  <1>2. NextCount(bytes, x) = Rec("between", b, AfterScalar(bytes, i), w + 1, d, c, u, s)
    BY <1>1, BytesApart DEF NextCount
  <1> QED BY <1>2 DEF x

LEMMA StepNumber ==
  ASSUME NEW bytes, NEW b, NEW i, NEW w, NEW d, NEW c, NEW u, NEW s,
         ByteAt(bytes, i) \in Numeric, ~u
  PROVE  NextCount(bytes, Rec("between", b, i, w, d, c, u, s)) =
           Rec("between", b, AfterScalar(bytes, i), w + 1, d, c, u, s)
  <1> DEFINE x == Rec("between", b, i, w, d, c, u, s)
  <1>1. /\ x.at = "between" /\ x.underBudget = b /\ x.next = i /\ x.units = w /\ x.depth = d
        /\ x.cheap = c /\ x.under = u /\ x.start = s
    BY DEF Rec
  <1> HIDE DEF x
  <1>2. NextCount(bytes, x) = Rec("between", b, AfterScalar(bytes, i), w + 1, d, c, u, s)
    BY <1>1, BytesApart DEF NextCount
  <1> QED BY <1>2 DEF x

\* A number under the proof costs v - w, and e of as many as cost a unit are then counted.
Costs(w, c, u, v, e) == u /\ IF c + 1 = NumbersPerUnit THEN v = w + 1 /\ e = 0 ELSE v = w /\ e = c + 1

LEMMA StepCheap ==
  ASSUME NEW bytes, NEW b, NEW i, NEW w, NEW d, NEW c, NEW u, NEW s, NEW v, NEW e,
         ByteAt(bytes, i) \in Numeric, Costs(w, c, u, v, e)
  PROVE  NextCount(bytes, Rec("between", b, i, w, d, c, u, s)) = Rec("between", b, AfterScalar(bytes, i), v, d, e, u, s)
  <1> DEFINE x == Rec("between", b, i, w, d, c, u, s)
  <1>1. /\ x.at = "between" /\ x.underBudget = b /\ x.next = i /\ x.units = w /\ x.depth = d
        /\ x.cheap = c /\ x.under = u /\ x.start = s
    BY DEF Rec
  <1> HIDE DEF x
  <1>2. c + 1 = NumbersPerUnit => NextCount(bytes, x) = Rec("between", b, AfterScalar(bytes, i), w + 1, d, 0, u, s)
    BY <1>1, BytesApart DEF NextCount, Costs
  <1>3. c + 1 # NumbersPerUnit => NextCount(bytes, x) = Rec("between", b, AfterScalar(bytes, i), w, d, c + 1, u, s)
    BY <1>1, BytesApart DEF NextCount, Costs
  <1>4. NextCount(bytes, x) = Rec("between", b, AfterScalar(bytes, i), v, d, e, u, s)
    BY <1>2, <1>3 DEF Costs
  <1> QED BY <1>4 DEF x

LEMMA StepQuote ==
  ASSUME NEW bytes, NEW b, NEW i, NEW w, NEW d, NEW c, NEW u, NEW s,
         ByteAt(bytes, i) = Quote
  PROVE  NextCount(bytes, Rec("between", b, i, w, d, c, u, s)) =
           Rec("string", b, i + 1, w + 1, d, c, u, i + 1)
  <1> DEFINE x == Rec("between", b, i, w, d, c, u, s)
  <1>1. /\ x.at = "between" /\ x.underBudget = b /\ x.next = i /\ x.units = w /\ x.depth = d
        /\ x.cheap = c /\ x.under = u /\ x.start = s
    BY DEF Rec
  <1> HIDE DEF x
  <1>2. NextCount(bytes, x) = Rec("string", b, i + 1, w + 1, d, c, u, i + 1)
    BY <1>1, BytesApart DEF NextCount
  <1> QED BY <1>2 DEF x

\* And within a string.
LEMMA StepEscapes ==
  ASSUME NEW bytes, NEW b, NEW i, NEW w, NEW d, NEW c, NEW u, NEW s,
         ByteAt(bytes, i) = Backslash
  PROVE  NextCount(bytes, Rec("string", b, i, w, d, c, u, s)) =
           Rec("string", b, i + 2, w, d, c, u, s)
  <1> DEFINE x == Rec("string", b, i, w, d, c, u, s)
  <1>1. /\ x.at = "string" /\ x.underBudget = b /\ x.next = i /\ x.units = w /\ x.depth = d
        /\ x.cheap = c /\ x.under = u /\ x.start = s
    BY DEF Rec
  <1> HIDE DEF x
  <1>2. NextCount(bytes, x) = Rec("string", b, i + 2, w, d, c, u, s)
    BY <1>1, BytesApart DEF NextCount
  <1> QED BY <1>2 DEF x

LEMMA StepGoesOn ==
  ASSUME NEW bytes, NEW b, NEW i, NEW w, NEW d, NEW c, NEW u, NEW s,
         ByteAt(bytes, i) # Quote, ByteAt(bytes, i) # Backslash
  PROVE  NextCount(bytes, Rec("string", b, i, w, d, c, u, s)) =
           Rec("string", b, i + 1, w, d, c, u, s)
  <1> DEFINE x == Rec("string", b, i, w, d, c, u, s)
  <1>1. /\ x.at = "string" /\ x.underBudget = b /\ x.next = i /\ x.units = w /\ x.depth = d
        /\ x.cheap = c /\ x.under = u /\ x.start = s
    BY DEF Rec
  <1> HIDE DEF x
  <1>2. NextCount(bytes, x) = Rec("string", b, i + 1, w, d, c, u, s)
    BY <1>1, BytesApart DEF NextCount
  <1> QED BY <1>2 DEF x

\* Under the proof after the quote at i that ends the string from s.
UnderName(bytes, b, i, d, u, s) ==
  u \/ (b /\ AnswersOwn(d) /\ SubSeq(bytes, s, i - 1) = <<P>> /\ OpensContainer(bytes, i + 1))

LEMMA StepUnquotes ==
  ASSUME NEW bytes, NEW b, NEW i, NEW w, NEW d, NEW c, NEW u, NEW s, ByteAt(bytes, i) = Quote
  PROVE  NextCount(bytes, Rec("string", b, i, w, d, c, u, s)) =
           Rec("between", b, i + 1, w, d, c, UnderName(bytes, b, i, d, u, s), 0)
  <1> DEFINE x == Rec("string", b, i, w, d, c, u, s)
  <1>1. /\ x.at = "string" /\ x.underBudget = b /\ x.next = i /\ x.units = w /\ x.depth = d
        /\ x.cheap = c /\ x.under = u /\ x.start = s
    BY DEF Rec
  <1> HIDE DEF x
  <1>2. NextCount(bytes, x) = Rec("between", b, i + 1, w, d, c, UnderName(bytes, b, i, d, u, s), 0)
    BY <1>1 DEF NextCount, UnderName
  <1> QED BY <1>2 DEF x

\* The bytes hold s at i.
Holds(bytes, i, s) ==
  i + Len(s) <= Len(bytes) + 1 /\ \A k \in 1 .. Len(s) : ByteAt(bytes, i + k - 1) = s[k]

LEMMA HoldsCat ==
  ASSUME NEW bytes \in Seq(JsonByte), NEW i \in Nat \ {0}, NEW s \in Seq(JsonByte), NEW r \in Seq(JsonByte),
         Holds(bytes, i, Cat(s, r))
  PROVE  Holds(bytes, i, s) /\ Holds(bytes, i + Len(s), r)
  <1>1. /\ Len(Cat(s, r)) = Len(s) + Len(r) /\ Len(s) \in Nat /\ Len(r) \in Nat /\ Len(bytes) \in Nat
        /\ \A k \in 1 .. Len(s) : Cat(s, r)[k] = s[k]
        /\ \A k \in 1 .. Len(r) : Cat(s, r)[Len(s) + k] = r[k]
    <2>1. /\ \A k \in 1 .. Len(s) : Cat(s, r)[k] = s[k]
          /\ \A k \in 1 .. Len(r) : Cat(s, r)[Len(s) + k] = r[k]
      BY DEF Cat
    <2>2. Len(Cat(s, r)) = Len(s) + Len(r)
      BY JsonCat
    <2> QED BY <2>1, <2>2
  <1>2. /\ i + (Len(s) + Len(r)) <= Len(bytes) + 1
        /\ \A k \in 1 .. Len(s) + Len(r) : ByteAt(bytes, i + k - 1) = Cat(s, r)[k]
    BY <1>1 DEF Holds
  <1>3. Holds(bytes, i, s)
    <2>1. ASSUME NEW k \in 1 .. Len(s) PROVE ByteAt(bytes, i + k - 1) = s[k]
      <3>1. k \in 1 .. Len(s) + Len(r)
        BY <1>1
      <3> QED BY <1>1, <1>2, <3>1
    <2>2. i + Len(s) <= Len(bytes) + 1
      BY <1>1, <1>2
    <2> QED BY <2>1, <2>2 DEF Holds
  <1>4. Holds(bytes, i + Len(s), r)
    <2>1. ASSUME NEW k \in 1 .. Len(r) PROVE ByteAt(bytes, (i + Len(s)) + k - 1) = r[k]
      <3> DEFINE m == Len(s) + k
      <3>1. m \in 1 .. Len(s) + Len(r) /\ i + m - 1 = (i + Len(s)) + k - 1
        BY <1>1
      <3>2. Cat(s, r)[m] = r[k]
        BY <1>1
      <3> HIDE DEF m
      <3>3. ByteAt(bytes, i + m - 1) = Cat(s, r)[m]
        BY <1>2, <3>1
      <3> QED BY <3>1, <3>2, <3>3
    <2>2. (i + Len(s)) + Len(r) <= Len(bytes) + 1
      BY <1>1, <1>2
    <2> QED BY <2>1, <2>2 DEF Holds
  <1> QED BY <1>3, <1>4

\* A position the bytes hold something at.
LEMMA HoldsAt ==
  ASSUME NEW bytes \in Seq(JsonByte), NEW i \in Nat \ {0}, NEW s \in Seq(JsonByte), Holds(bytes, i, s),
         NEW k \in 1 .. Len(s)
  PROVE  /\ i + k - 1 \in 1 .. Len(bytes) /\ ByteAt(bytes, i + k - 1) = s[k]
         /\ bytes[i + k - 1] = s[k] /\ s[k] \in JsonByte
  <1>1. Len(s) \in Nat /\ Len(bytes) \in Nat /\ s[k] \in JsonByte
    OBVIOUS
  <1>2. i + Len(s) <= Len(bytes) + 1 /\ ByteAt(bytes, i + k - 1) = s[k]
    BY DEF Holds
  <1>3. i + k - 1 \in 1 .. Len(bytes)
    BY <1>1, <1>2
  <1> QED BY <1>1, <1>2, <1>3, ByteIs

\* The numbers of a count.
Numbered(b, p, n, d, u) == b \in BOOLEAN /\ p \in Int /\ n \in Nat /\ d \in Nat /\ u \in BOOLEAN

LEMMA MarkNext ==
  ASSUME NEW b, NEW i \in Nat, NEW p, NEW n, NEW d, NEW u, Numbered(b, p, n, d, u)
  PROVE  /\ Mark(b, i, p, n, d, u).next = i /\ Mark(b, i, p, n, d, u).under = u
         /\ \A s : InString(b, i, p, n, d, u, s).next = i
         /\ n \div NumbersPerUnit \in Nat /\ (n % NumbersPerUnit) \in Nat
  <1>1. n \in Nat
    BY DEF Numbered
  <1>2. n \div NumbersPerUnit \in Nat /\ (n % NumbersPerUnit) \in Nat
    BY <1>1, BudgetAssumption, DivisionNext
  <1> QED BY <1>2 DEF Mark, InString, Rec

\* One step after the other.
LEMMA ChainLeads ==
  ASSUME NEW bytes, NEW m \in Nat, NEW f, \A k \in 0 .. m - 1 : Leads(bytes, f[k], f[k + 1])
  PROVE  Leads(bytes, f[0], f[m])
  <1> DEFINE Good == {k \in Nat : k <= m => Leads(bytes, f[0], f[k])}
  <1>1. 0 \in Good
    BY LeadsFacts
  <1>2. ASSUME NEW k \in Nat, k \in Good PROVE k + 1 \in Good
    <2> SUFFICES ASSUME k + 1 <= m PROVE Leads(bytes, f[0], f[k + 1])
      OBVIOUS
    <2>1. k \in 0 .. m - 1 /\ k <= m
      OBVIOUS
    <2>2. Leads(bytes, f[0], f[k]) /\ Leads(bytes, f[k], f[k + 1])
      BY <1>2, <2>1
    <2> QED BY <2>2, LeadsFacts, Zenon
  <1> HIDE DEF Good
  <1>3. Nat \subseteq Good
    BY <1>1, <1>2, Climb
  <1> QED BY <1>3 DEF Good

LEMMA SkipLeads ==
  ASSUME NEW bytes, NEW b, NEW i \in Nat, NEW p, NEW n, NEW d, NEW u,
         Numbered(b, p, n, d, u), ByteAt(bytes, i) \in Skipped, i <= Len(bytes)
  PROVE  Leads(bytes, Mark(b, i, p, n, d, u), Mark(b, i + 1, p, n, d, u))
  <1> DEFINE w == p + n \div NumbersPerUnit
             r == n % NumbersPerUnit
  <1>1. Mark(b, i, p, n, d, u) = Rec("between", b, i, w, d, r, u, 0)
    BY Zenon DEF Mark
  <1>2. Mark(b, i + 1, p, n, d, u) = Rec("between", b, i + 1, w, d, r, u, 0)
    BY Zenon DEF Mark
  <1>3. Mark(b, i, p, n, d, u).next = i
    BY MarkNext
  <1> HIDE DEF w, r
  <1>4. NextCount(bytes, Rec("between", b, i, w, d, r, u, 0)) = Rec("between", b, i + 1, w, d, r, u, 0)
    BY StepSkips
  <1> QED BY <1>1, <1>2, <1>3, <1>4, LeadsFacts

LEMMA GapLeads ==
  ASSUME NEW bytes \in Seq(JsonByte), NEW b, NEW i \in Nat \ {0}, NEW p, NEW n, NEW d, NEW u,
         Numbered(b, p, n, d, u), NEW s \in Seq(JsonByte), \A k \in 1 .. Len(s) : s[k] \in Skipped,
         Holds(bytes, i, s)
  PROVE  Leads(bytes, Mark(b, i, p, n, d, u), Mark(b, i + Len(s), p, n, d, u))
  <1> DEFINE m == Len(s)
             f == [k \in 0 .. m |-> Mark(b, i + k, p, n, d, u)]
  <1>1. m \in Nat
    OBVIOUS
  <1>2. ASSUME NEW k \in 0 .. m - 1 PROVE Leads(bytes, f[k], f[k + 1])
    <2> DEFINE e == i + k
    <2>1. k + 1 \in 1 .. m /\ i + (k + 1) - 1 = e /\ i + (k + 1) = e + 1 /\ k \in 0 .. m /\ k + 1 \in 0 .. m
      BY <1>1
    <2>2. e \in 1 .. Len(bytes) /\ ByteAt(bytes, e) = s[k + 1]
      <3> DEFINE h == k + 1
      <3>1. h \in 1 .. m /\ i + h - 1 = e
        BY <2>1
      <3> HIDE DEF h, e
      <3>2. i + h - 1 \in 1 .. Len(bytes) /\ ByteAt(bytes, i + h - 1) = s[h]
        BY <3>1, HoldsAt
      <3> QED BY <3>1, <3>2 DEF h
    <2>3. ByteAt(bytes, e) \in Skipped
      <3> DEFINE h == k + 1
      <3> HIDE DEF e
      <3> QED BY <2>1, <2>2
    <2>4. f[k] = Mark(b, e, p, n, d, u) /\ f[k + 1] = Mark(b, e + 1, p, n, d, u)
      BY <2>1
    <2> HIDE DEF e, f
    <2>5. e \in Nat /\ e <= Len(bytes)
      BY <2>2
    <2>6. Leads(bytes, Mark(b, e, p, n, d, u), Mark(b, e + 1, p, n, d, u))
      BY <2>3, <2>5, SkipLeads
    <2> QED BY <2>4, <2>6
  <1>3. f[0] = Mark(b, i, p, n, d, u) /\ f[m] = Mark(b, i + m, p, n, d, u)
    BY <1>1
  <1> HIDE DEF f, m
  <1>4. Leads(bytes, f[0], f[m])
    BY <1>1, <1>2, ChainLeads
  <1> QED BY <1>3, <1>4 DEF m

\* What follows a text is no byte of a scalar.
Ended(bytes, i) == ByteAt(bytes, i) \notin Scalar

\* A scalar text, up to its end.
LEMMA ScalarAt ==
  ASSUME NEW bytes \in Seq(JsonByte), NEW i \in Nat \ {0}, NEW s \in Seq(JsonByte), NEW first,
         ScalarText(s, first), Holds(bytes, i, s), Ended(bytes, i + Len(s))
  PROVE  /\ ByteAt(bytes, i) \in first /\ i <= Len(bytes) /\ AfterScalar(bytes, i) = i + Len(s)
  <1> DEFINE m == Len(s)
             j == i + m
  <1>1. m \in Nat /\ 1 \in 1 .. m /\ Len(bytes) \in Nat
    BY DEF ScalarText
  <1>2. s[1] \in first /\ \A k \in 1 .. m : s[k] \in Scalar
    BY DEF ScalarText
  <1>3. j <= Len(bytes) + 1
    BY DEF Holds
  <1>4. \A k \in 1 .. m : i + k - 1 \in 1 .. Len(bytes) /\ ByteAt(bytes, i + k - 1) = s[k]
    BY HoldsAt
  <1> HIDE DEF m
  <1>5. ByteAt(bytes, i) = s[1] /\ i <= Len(bytes) /\ j \in Nat /\ i < j
    <2>1. i + 1 - 1 \in 1 .. Len(bytes) /\ ByteAt(bytes, i + 1 - 1) = s[1]
      BY <1>1, <1>4
    <2>2. i + 1 - 1 = i
      OBVIOUS
    <2> QED BY <1>1, <2>1, <2>2
  <1>6. ASSUME NEW k \in i + 1 .. j - 1 PROVE ByteAt(bytes, k) \in Scalar
    <2> DEFINE e == k - i + 1
    <2>1. e \in 1 .. m /\ i + e - 1 = k
      BY <1>1
    <2> HIDE DEF e, j
    <2> QED BY <1>2, <1>4, <2>1
  <1>7. ByteAt(bytes, j) \notin Scalar
    BY DEF Ended, m
  <1> HIDE DEF j
  <1>8. AfterScalar(bytes, i) = j
    <2>1. j <= Len(bytes) + 1 /\ i <= j /\ j \in Nat /\ i < j
      BY <1>3, <1>5
    <2> QED BY <1>6, <1>7, <2>1, EndsOf, Zenon
  <1> QED BY <1>2, <1>5, <1>8 DEF j, m

\* A number under the proof.
Cheaply(u) == u = TRUE

LEMMA CheapLeads ==
  ASSUME NEW bytes, NEW b, NEW i \in Nat, NEW p, NEW n, NEW d, NEW u, NEW j,
         Numbered(b, p, n, d, u), Cheaply(u), ByteAt(bytes, i) \in Numeric, i <= Len(bytes),
         AfterScalar(bytes, i) = j
  PROVE  Leads(bytes, Mark(b, i, p, n, d, u), Mark(b, j, p, n + 1, d, u))
  <1> DEFINE q == n \div NumbersPerUnit
             w == p + q
             r == n % NumbersPerUnit
             y == (n + 1) \div NumbersPerUnit
             z == (n + 1) % NumbersPerUnit
             x == Rec("between", b, i, w, d, r, u, 0)
  <1>1. Mark(b, i, p, n, d, u) = x /\ Mark(b, j, p, n + 1, d, u) = Rec("between", b, j, p + y, d, z, u, 0)
    BY Zenon DEF Mark
  <1>2. x.next = i
    BY DEF Rec
  <1>3. n \in Nat /\ p \in Int /\ NumbersPerUnit \in Nat \ {0}
    BY BudgetAssumption DEF Numbered
  <1>4. /\ q \in Nat /\ r \in Nat
        /\ r + 1 = NumbersPerUnit => y = q + 1 /\ z = 0
        /\ r + 1 # NumbersPerUnit => y = q /\ z = r + 1
    BY <1>3, DivisionNext
  <1> HIDE DEF q, r, y, z
  <1> DEFINE v == p + y
  <1>5. Costs(w, r, u, v, z)
    BY <1>3, <1>4 DEF Costs, Cheaply
  <1> HIDE DEF w, v
  <1>8. NextCount(bytes, x) = Rec("between", b, j, v, d, z, u, 0)
    <2>1. NextCount(bytes, Rec("between", b, i, w, d, r, u, 0)) = Rec("between", b, AfterScalar(bytes, i), v, d, z, u, 0)
      BY <1>5, StepCheap
    <2> QED BY <2>1
  <1> HIDE DEF x
  <1> USE DEF v
  <1> QED BY <1>1, <1>2, <1>8, LeadsFacts

LEMMA ScalarLeads ==
  ASSUME NEW bytes \in Seq(JsonByte), NEW b, NEW i \in Nat \ {0}, NEW p, NEW n, NEW d, NEW u,
         Numbered(b, p, n, d, u), NEW t \in Texts, t.kind \in {"number", "word"}, Holds(bytes, i, t.bytes),
         Ended(bytes, i + Len(t.bytes)), NEW c, c = IF u THEN Numbers(t) ELSE 0
  PROVE  Leads(bytes, Mark(b, i, p, n, d, u), Mark(b, i + Len(t.bytes), p + Units(t) - c, n + c, d, u))
  <1> DEFINE j == i + Len(t.bytes)
             q == n \div NumbersPerUnit
             w == p + q
             r == n % NumbersPerUnit
             x == Rec("between", b, i, w, d, r, u, 0)
  <1>1. t.bytes \in Seq(JsonByte) /\ IsText(t)
    BY TextFacts
  <1>2. /\ ScalarText(t.bytes, IF t.kind = "number" THEN Numeric ELSE Alpha)
    BY <1>1 DEF IsText, Container
  <1>3. /\ ByteAt(bytes, i) \in IF t.kind = "number" THEN Numeric ELSE Alpha
        /\ i <= Len(bytes) /\ AfterScalar(bytes, i) = j
    BY <1>1, <1>2, ScalarAt
  <1>4. n \in Nat /\ p \in Int /\ u \in BOOLEAN /\ q \in Nat /\ r \in Nat
    <2>1. n \in Nat /\ p \in Int /\ u \in BOOLEAN
      BY DEF Numbered
    <2>2. n \div NumbersPerUnit \in Nat /\ (n % NumbersPerUnit) \in Nat
      BY MarkNext
    <2> QED BY <2>1, <2>2
  <1>5. Mark(b, i, p, n, d, u) = x
    BY Zenon DEF Mark
  <1>6. x.next = i
    BY DEF Rec
  <1>7. Units(t) = 1 /\ Numbers(t) = IF t.kind = "number" THEN 1 ELSE 0
    BY UnitsAre DEF Container
  <1>8. CASE u /\ t.kind = "number"
    <2>1. ByteAt(bytes, i) \in Numeric /\ Cheaply(u)
      BY <1>3, <1>4, <1>8 DEF Cheaply
    <2> HIDE DEF j, q, w, r, x
    <2>2. Leads(bytes, Mark(b, i, p, n, d, u), Mark(b, j, p, n + 1, d, u))
      BY <1>3, <2>1, CheapLeads
    <2>3. p + 1 - 1 = p /\ c = 1
      BY <1>4, <1>7, <1>8
    <2> QED BY <1>7, <2>2, <2>3 DEF j
  <1>9. CASE ~(u /\ t.kind = "number")
    <2>1. c = 0 /\ p + 1 - 0 = p + 1 /\ n + 0 = n /\ (p + 1) + q = w + 1
      <3> HIDE DEF q
      <3> QED BY <1>4, <1>7, <1>9
    <2>2. NextCount(bytes, x) = Rec("between", b, j, w + 1, d, r, u, 0)
      <3>1. ByteAt(bytes, i) \in Alpha \/ (ByteAt(bytes, i) \in Numeric /\ ~u)
        BY <1>3, <1>9
      <3> HIDE DEF j, w, r
      <3> QED BY <1>3, <3>1, StepWord, StepNumber
    <2>3. Mark(b, j, p + 1, n, d, u) = Rec("between", b, j, w + 1, d, r, u, 0)
      <3>1. Mark(b, j, p + 1, n, d, u) = Rec("between", b, j, (p + 1) + q, d, r, u, 0)
        BY Zenon DEF Mark
      <3> HIDE DEF q, w, r, j
      <3> QED BY <2>1, <3>1
    <2> HIDE DEF j, q, x, w, r
    <2>4. Leads(bytes, x, Mark(b, j, p + 1, n, d, u))
      BY <1>3, <1>6, <2>2, <2>3, LeadsFacts
    <2> QED BY <1>5, <1>7, <2>1, <2>4 DEF j
  <1> QED BY <1>8, <1>9

-----------------------------------------------------------------------------
(* A string *)

LEMMA GoesOnLeads ==
  ASSUME NEW bytes, NEW b, NEW i \in Nat, NEW p, NEW n, NEW d, NEW u, NEW s,
         Numbered(b, p, n, d, u), ByteAt(bytes, i) # Quote, ByteAt(bytes, i) # Backslash, i <= Len(bytes)
  PROVE  Leads(bytes, InString(b, i, p, n, d, u, s), InString(b, i + 1, p, n, d, u, s))
  <1> DEFINE w == p + n \div NumbersPerUnit
             r == n % NumbersPerUnit
  <1>1. /\ InString(b, i, p, n, d, u, s) = Rec("string", b, i, w, d, r, u, s)
        /\ InString(b, i + 1, p, n, d, u, s) = Rec("string", b, i + 1, w, d, r, u, s)
    BY Zenon DEF InString
  <1>2. InString(b, i, p, n, d, u, s).next = i
    BY MarkNext
  <1> HIDE DEF w, r
  <1>3. NextCount(bytes, Rec("string", b, i, w, d, r, u, s)) = Rec("string", b, i + 1, w, d, r, u, s)
    BY StepGoesOn
  <1> QED BY <1>1, <1>2, <1>3, LeadsFacts

LEMMA EscapesLeads ==
  ASSUME NEW bytes, NEW b, NEW i \in Nat, NEW p, NEW n, NEW d, NEW u, NEW s,
         Numbered(b, p, n, d, u), ByteAt(bytes, i) = Backslash, i <= Len(bytes)
  PROVE  Leads(bytes, InString(b, i, p, n, d, u, s), InString(b, i + 2, p, n, d, u, s))
  <1> DEFINE w == p + n \div NumbersPerUnit
             r == n % NumbersPerUnit
  <1>1. /\ InString(b, i, p, n, d, u, s) = Rec("string", b, i, w, d, r, u, s)
        /\ InString(b, i + 2, p, n, d, u, s) = Rec("string", b, i + 2, w, d, r, u, s)
    BY Zenon DEF InString
  <1>2. InString(b, i, p, n, d, u, s).next = i
    BY MarkNext
  <1> HIDE DEF w, r
  <1>3. NextCount(bytes, Rec("string", b, i, w, d, r, u, s)) = Rec("string", b, i + 2, w, d, r, u, s)
    BY StepEscapes
  <1> QED BY <1>1, <1>2, <1>3, LeadsFacts

\* Between its quotes: the count comes to every byte that is not escaped, and to the last quote.
LEMMA WithinString ==
  ASSUME NEW bytes \in Seq(JsonByte), NEW b, NEW i \in Nat \ {0}, NEW p, NEW n, NEW d, NEW u, NEW s,
         Numbered(b, p, n, d, u), NEW r \in Seq(JsonByte), Holds(bytes, i, r), IsString(r)
  PROVE  Leads(bytes, InString(b, i, p, n, d, u, s), InString(b, i + Len(r), p, n, d, u, s))
  <1> DEFINE m == Len(r)
             at(k) == InString(b, i + k - 1, p, n, d, u, s)
  <1>1. m \in Nat /\ DOMAIN r = 1 .. m
    OBVIOUS
  <1>2. PICK escaped \in SUBSET DOMAIN r :
          /\ \A k \in DOMAIN r : k \in escaped <=> k > 1 /\ r[k - 1] = Backslash /\ k - 1 \notin escaped
          /\ \A k \in DOMAIN r : r[k] = Quote => k \in escaped
          /\ r # <<>> /\ r[Len(r)] = Backslash => Len(r) \in escaped
    BY Zenon DEF IsString
  <1>3. /\ \A k \in 1 .. m : k \in escaped <=> k > 1 /\ r[k - 1] = Backslash /\ k - 1 \notin escaped
        /\ \A k \in 1 .. m : r[k] = Quote => k \in escaped
        /\ m # 0 /\ r[m] = Backslash => m \in escaped
        /\ \A k : k \in escaped => k \in 1 .. m
    BY <1>1, <1>2
  <1>4. \A k \in 1 .. m : i + k - 1 \in 1 .. Len(bytes) /\ ByteAt(bytes, i + k - 1) = r[k]
    BY HoldsAt
  <1> DEFINE Good == {k \in Nat : \A j \in 1 .. k : j <= m + 1 /\ j \notin escaped => Leads(bytes, at(1), at(j))}
  <1> HIDE DEF m
  <1>5. 0 \in Good
    OBVIOUS
  <1>6. ASSUME NEW k \in Nat, k \in Good PROVE k + 1 \in Good
    <2> SUFFICES ASSUME NEW j \in 1 .. k + 1, j <= m + 1, j \notin escaped
                 PROVE  Leads(bytes, at(1), at(j))
      OBVIOUS
    <2> HIDE DEF at
    <2>1. CASE j <= k
      BY <1>6, <2>1
    <2>2. CASE j = 1
      BY <2>2, LeadsFacts
    <2>3. CASE j = k + 1 /\ j > 1
      <3> DEFINE h == j - 1
      <3>1. h \in 1 .. k /\ h \in 1 .. m /\ h <= m + 1 /\ j = h + 1
        BY <1>1, <2>3
      <3>2. CASE h \notin escaped
        <4>1. r[h] # Quote /\ r[h] # Backslash
          <5>1. r[h] # Quote
            <6> HIDE DEF h
            <6> QED BY <1>3, <3>1, <3>2
          <5>2. ASSUME r[h] = Backslash PROVE FALSE
            <6>1. CASE h = m
              <7> HIDE DEF h
              <7> QED BY <1>1, <1>3, <3>1, <3>2, <5>2, <6>1
            <6>2. CASE h # m
              <7>1. j \in 1 .. m
                BY <1>1, <3>1, <6>2
              <7> QED BY <1>3, <2>3, <3>2, <5>2, <7>1
            <6> QED BY <6>1, <6>2
          <5> QED BY <5>1, <5>2
        <4> DEFINE e == i + h - 1
        <4>2. e \in 1 .. Len(bytes) /\ ByteAt(bytes, e) = r[h]
          <5> HIDE DEF h
          <5> QED BY <1>4, <3>1
        <4>3. at(h) = InString(b, e, p, n, d, u, s) /\ at(j) = InString(b, e + 1, p, n, d, u, s)
          <5>1. i + j - 1 = e + 1
            BY <3>1
          <5> QED BY <5>1 DEF at
        <4>4. e \in Nat /\ e <= Len(bytes)
          BY <4>2
        <4> HIDE DEF e, h
        <4>5. Leads(bytes, InString(b, e, p, n, d, u, s), InString(b, e + 1, p, n, d, u, s))
          BY <4>1, <4>2, <4>4, GoesOnLeads
        <4>6. Leads(bytes, at(1), at(h))
          BY <1>6, <3>1, <3>2
        <4> QED BY <4>3, <4>5, <4>6, LeadsFacts
      <3>3. CASE h \in escaped
        <4> DEFINE g == h - 1
        <4>1. h > 1 /\ r[g] = Backslash /\ g \notin escaped
          <5> HIDE DEF h
          <5> QED BY <1>3, <3>1, <3>3
        <4>2. g \in 1 .. k /\ g \in 1 .. m /\ g <= m + 1 /\ j = g + 2
          BY <1>1, <3>1, <4>1
        <4> HIDE DEF h
        <4> DEFINE e == i + g - 1
        <4> HIDE DEF g
        <4>3. e \in 1 .. Len(bytes) /\ ByteAt(bytes, e) = r[g]
          BY <1>4, <4>2
        <4>4. at(g) = InString(b, e, p, n, d, u, s) /\ at(j) = InString(b, e + 2, p, n, d, u, s)
          <5>1. i + j - 1 = e + 2
            BY <4>2
          <5> QED BY <5>1 DEF at
        <4>5. e \in Nat /\ e <= Len(bytes)
          BY <4>3
        <4> HIDE DEF e
        <4>6. Leads(bytes, InString(b, e, p, n, d, u, s), InString(b, e + 2, p, n, d, u, s))
          BY <4>1, <4>3, <4>5, EscapesLeads
        <4>7. Leads(bytes, at(1), at(g))
          BY <1>6, <4>1, <4>2
        <4> QED BY <4>4, <4>6, <4>7, LeadsFacts
      <3> QED BY <3>2, <3>3
    <2>4. j <= k \/ j = 1 \/ (j = k + 1 /\ j > 1)
      OBVIOUS
    <2> QED BY <2>1, <2>2, <2>3, <2>4
  <1> HIDE DEF Good
  <1>7. Nat \subseteq Good
    BY <1>5, <1>6, Climb
  <1>8. m + 1 \notin escaped /\ m + 1 \in Nat /\ m + 1 \in 1 .. m + 1
    BY <1>1, <1>3
  <1> HIDE DEF at
  <1>9. Leads(bytes, at(1), at(m + 1))
    BY <1>7, <1>8 DEF Good
  <1>10. at(1) = InString(b, i, p, n, d, u, s) /\ at(m + 1) = InString(b, i + m, p, n, d, u, s)
    <2>1. i + 1 - 1 = i /\ i + (m + 1) - 1 = i + m
      BY <1>1
    <2> QED BY <2>1 DEF at
  <1> QED BY <1>9, <1>10 DEF m

\* Under the proof from here: after a name that ends before e.
NowUnder(bytes, b, e, d, u, name) ==
  u \/ (b /\ AnswersOwn(d) /\ name = ProofName /\ OpensContainer(bytes, e))

LEMMA QuoteLeads ==
  ASSUME NEW bytes, NEW b, NEW i \in Nat, NEW p, NEW n, NEW d, NEW u, NEW e, e = i + 1,
         Numbered(b, p, n, d, u), ByteAt(bytes, i) = Quote, i <= Len(bytes)
  PROVE  Leads(bytes, Mark(b, i, p, n, d, u), InString(b, e, p + 1, n, d, u, e))
  <1> DEFINE q == n \div NumbersPerUnit
             w == p + q
             r == n % NumbersPerUnit
             y == (p + 1) + q
  <1>1. /\ Mark(b, i, p, n, d, u) = Rec("between", b, i, w, d, r, u, 0)
        /\ InString(b, e, p + 1, n, d, u, e) = Rec("string", b, e, y, d, r, u, e)
    BY Zenon DEF InString, Mark
  <1>2. Mark(b, i, p, n, d, u).next = i /\ q \in Nat /\ p \in Int
    <2>1. n \in Nat /\ p \in Int /\ NumbersPerUnit \in Nat \ {0}
      BY BudgetAssumption DEF Numbered
    <2>2. q \in Nat
      BY <2>1, DivisionNext
    <2>3. Mark(b, i, p, n, d, u).next = i
      BY DEF Mark, Rec
    <2> QED BY <2>1, <2>2, <2>3
  <1>3. y = w + 1
    <2> HIDE DEF q
    <2> QED BY <1>2
  <1> HIDE DEF w, r, y
  <1>4. NextCount(bytes, Rec("between", b, i, w, d, r, u, 0)) = Rec("string", b, i + 1, w + 1, d, r, u, i + 1)
    BY StepQuote
  <1> QED BY <1>1, <1>2, <1>3, <1>4, LeadsFacts

LEMMA UnquoteLeads ==
  ASSUME NEW bytes, NEW b, NEW i \in Nat, NEW p, NEW n, NEW d, NEW u, NEW s, NEW e, e = i + 1, NEW name,
         Numbered(b, p, n, d, u), ByteAt(bytes, i) = Quote, i <= Len(bytes),
         SubSeq(bytes, s, i - 1) = <<P>> <=> name = ProofName
  PROVE  Leads(bytes, InString(b, i, p, n, d, u, s), Mark(b, e, p, n, d, NowUnder(bytes, b, e, d, u, name)))
  <1> DEFINE w == p + n \div NumbersPerUnit
             r == n % NumbersPerUnit
             v == NowUnder(bytes, b, e, d, u, name)
  <1>1. /\ InString(b, i, p, n, d, u, s) = Rec("string", b, i, w, d, r, u, s)
        /\ Mark(b, e, p, n, d, v) = Rec("between", b, e, w, d, r, v, 0)
    BY Zenon DEF InString, Mark
  <1>2. InString(b, i, p, n, d, u, s).next = i
    BY MarkNext
  <1>3. UnderName(bytes, b, i, d, u, s) = v
    BY Zenon DEF NowUnder, UnderName
  <1> HIDE DEF w, r, v
  <1>4. NextCount(bytes, Rec("string", b, i, w, d, r, u, s)) =
          Rec("between", b, i + 1, w, d, r, UnderName(bytes, b, i, d, u, s), 0)
    BY StepUnquotes
  <1> QED BY <1>1, <1>2, <1>3, <1>4, LeadsFacts DEF v

LEMMA NameIs ==
  ASSUME NEW bytes \in Seq(JsonByte), NEW i \in Nat \ {0}, NEW s \in Seq(JsonByte), Len(s) > 1,
         s[1] = Quote, s[Len(s)] = Quote, Holds(bytes, i, s)
  PROVE  /\ SubSeq(bytes, i + 1, (i + Len(s) - 1) - 1) = <<P>> <=> s = ProofName
         /\ Holds(bytes, i + 1, SubSeq(s, 2, Len(s) - 1))
         /\ SubSeq(s, 2, Len(s) - 1) \in Seq(JsonByte) /\ Len(SubSeq(s, 2, Len(s) - 1)) = Len(s) - 2
  <1> DEFINE m == Len(s)
             r == SubSeq(s, 2, m - 1)
             c == SubSeq(bytes, i + 1, (i + m - 1) - 1)
  <1>1. m \in Nat /\ m > 1 /\ Len(bytes) \in Nat
    OBVIOUS
  <1>2. \A k \in 1 .. m : i + k - 1 \in 1 .. Len(bytes) /\ ByteAt(bytes, i + k - 1) = s[k] /\ bytes[i + k - 1] = s[k]
    BY HoldsAt
  <1>3. r \in Seq(JsonByte) /\ Len(r) = m - 2 /\ \A k \in 1 .. m - 2 : r[k] = s[k + 1]
    <2> DEFINE h == m - 1
    <2>1. h \in 1 .. Len(s) /\ h - 2 + 1 = m - 2 /\ 2 \in Nat /\ h \in Nat
      BY <1>1
    <2>2. \A k \in 2 .. h : s[k] \in JsonByte
      BY <2>1
    <2> HIDE DEF h
    <2>3. SubSeq(s, 2, h) \in Seq(JsonByte)
      BY <2>1, <2>2
    <2>4. Len(SubSeq(s, 2, h)) = h - 2 + 1 /\ \A k \in 1 .. h - 2 + 1 : SubSeq(s, 2, h)[k] = s[2 + k - 1]
      BY <1>1, <2>1 DEF h
    <2>5. \A k \in 1 .. m - 2 : 2 + k - 1 = k + 1
      BY <1>1
    <2> HIDE DEF m
    <2> QED BY <2>1, <2>3, <2>4, <2>5 DEF h
  <1>4. Holds(bytes, i + 1, r)
    <2>1. ASSUME NEW k \in 1 .. m - 2 PROVE ByteAt(bytes, (i + 1) + k - 1) = r[k]
      <3> DEFINE h == k + 1
      <3>1. h \in 1 .. m /\ (i + 1) + k - 1 = i + h - 1 /\ r[k] = s[h]
        BY <1>1, <1>3
      <3> HIDE DEF h, m, r
      <3> QED BY <1>2, <3>1
    <2>2. (i + 1) + (m - 2) <= Len(bytes) + 1
      <3>1. i + m <= Len(bytes) + 1
        BY DEF Holds
      <3> HIDE DEF m
      <3> QED BY <1>1, <3>1
    <2> HIDE DEF m, r
    <2> QED BY <1>3, <2>1, <2>2 DEF Holds
  <1>5. c = <<P>> <=> s = ProofName
    <2>1. i + m - 1 \in 1 .. Len(bytes)
      <3>1. m \in 1 .. m
        BY <1>1
      <3> HIDE DEF m
      <3> QED BY <1>2, <3>1
    <2>2. Len(c) = m - 2 /\ \A k \in 1 .. m - 2 : c[k] = bytes[i + k]
      <3> DEFINE l == i + 1
                 h == (i + m - 1) - 1
      <3>1. l \in 1 .. Len(bytes) + 1 /\ h \in 0 .. Len(bytes) /\ l <= h + 1
        <4> HIDE DEF m
        <4> QED BY <1>1, <2>1
      <3>2. c = SubSeq(bytes, l, h)
        OBVIOUS
      <3>3. h - l + 1 = m - 2 /\ \A k \in 1 .. m - 2 : l + k - 1 = i + k
        <4> HIDE DEF m
        <4> QED BY <1>1
      <3> HIDE DEF l, h, c, m
      <3>4. Len(c) = h - l + 1 /\ \A k \in 1 .. h - l + 1 : c[k] = bytes[l + k - 1]
        BY <3>1, <3>2
      <3> QED BY <3>3, <3>4
    <2>3. c \in Seq(JsonByte)
      <3>1. i + 1 \in Nat /\ (i + m - 1) - 1 \in Nat
        <4> HIDE DEF m
        <4> QED BY <1>1
      <3>2. \A k \in i + 1 .. (i + m - 1) - 1 : bytes[k] \in JsonByte
        <4> HIDE DEF m
        <4> QED BY <1>1, <2>1
      <3> DEFINE h == (i + m - 1) - 1
      <3> HIDE DEF h, m
      <3>3. SubSeq(bytes, i + 1, h) \in Seq(JsonByte)
        BY <1>1, <2>1, <3>1, <3>2 DEF h
      <3> QED BY <3>3 DEF h
    <2>4. ASSUME c = <<P>> PROVE s = ProofName
      <3>1. m = 3
        <4> HIDE DEF m, c
        <4> QED BY <1>1, <2>2, <2>4
      <3>2. c[1] = P /\ c[1] = bytes[i + 1]
        <4>1. c[1] = P
          <5> HIDE DEF c
          <5> QED BY <2>4
        <4>2. 1 \in 1 .. m - 2
          BY <3>1
        <4> HIDE DEF c, m
        <4> QED BY <2>2, <4>1, <4>2
      <3>3. bytes[i + 1] = s[2]
        <4>1. 2 \in 1 .. m /\ i + 2 - 1 = i + 1
          BY <3>1
        <4> HIDE DEF m
        <4> QED BY <1>2, <4>1
      <3> QED BY <3>1, <3>2, <3>3 DEF ProofName
    <2>5. ASSUME s = ProofName PROVE c = <<P>>
      <3>1. m = 3 /\ s[2] = P
        BY <2>5 DEF ProofName
      <3>2. bytes[i + 1] = s[2]
        <4>1. 2 \in 1 .. m /\ i + 2 - 1 = i + 1
          BY <3>1
        <4> HIDE DEF m
        <4> QED BY <1>2, <4>1
      <3>3. Len(c) = 1 /\ c[1] = P
        <4>1. 1 \in 1 .. m - 2
          BY <3>1
        <4>2. c[1] = bytes[i + 1]
          <5> HIDE DEF c, m
          <5> QED BY <2>2, <4>1
        <4> HIDE DEF c
        <4> QED BY <2>2, <3>1, <3>2, <4>2
      <3> HIDE DEF c
      <3> QED BY <2>3, <3>3
    <2> QED BY <2>4, <2>5
  <1> QED BY <1>3, <1>4, <1>5

LEMMA StringLeads ==
  ASSUME NEW bytes \in Seq(JsonByte), NEW b, NEW i \in Nat \ {0}, NEW p, NEW n, NEW d, NEW u,
         Numbered(b, p, n, d, u), NEW t \in Texts, t.kind = "string", Holds(bytes, i, t.bytes),
         NEW e, e = i + Len(t.bytes)
  PROVE  Leads(bytes, Mark(b, i, p, n, d, u),
                      Mark(b, e, p + Units(t), n, d, NowUnder(bytes, b, e, d, u, t.bytes)))
  <1> DEFINE s == t.bytes
             m == Len(s)
             r == SubSeq(s, 2, m - 1)
             v == NowUnder(bytes, b, e, d, u, s)
  <1>1. s \in Seq(JsonByte) /\ m > 1 /\ s[1] = Quote /\ s[m] = Quote /\ IsString(r)
    BY TextFacts DEF IsText, Container
  <1>2. Units(t) = 1
    BY UnitsAre DEF Container
  <1>3. m \in Nat
    BY <1>1
  <1> HIDE DEF s
  <1>4. Holds(bytes, i, s)
    BY DEF s
  <1>5. /\ SubSeq(bytes, i + 1, (i + m - 1) - 1) = <<P>> <=> s = ProofName
        /\ Holds(bytes, i + 1, r) /\ r \in Seq(JsonByte) /\ Len(r) = m - 2
    BY <1>1, <1>4, NameIs
  <1>6. \A k \in 1 .. m : i + k - 1 \in 1 .. Len(bytes) /\ ByteAt(bytes, i + k - 1) = s[k]
    BY <1>1, <1>4, HoldsAt
  <1> HIDE DEF r, m, v
  <1> DEFINE a == i + 1
             z == i + m - 1
  <1>7. /\ i \in Nat /\ i <= Len(bytes) /\ ByteAt(bytes, i) = Quote
        /\ z \in Nat /\ z <= Len(bytes) /\ ByteAt(bytes, z) = Quote
    <2>1. 1 \in 1 .. m /\ m \in 1 .. m /\ i + 1 - 1 = i
      BY <1>1, <1>3
    <2>2. i \in 1 .. Len(bytes) /\ ByteAt(bytes, i) = s[1]
      BY <1>6, <2>1
    <2>3. z \in 1 .. Len(bytes) /\ ByteAt(bytes, z) = s[m]
      BY <1>6, <2>1
    <2> QED BY <1>1, <2>2, <2>3
  <1>8. a \in Nat \ {0} /\ a + Len(r) = z /\ e = z + 1
    <2>1. e = i + m
      BY DEF m, s
    <2> QED BY <1>3, <1>5, <2>1
  <1>9. SubSeq(bytes, a, z - 1) = <<P>> <=> s = ProofName
    BY <1>5
  <1>10. Holds(bytes, a, r)
    BY <1>5
  <1> DEFINE y == p + 1
  <1>11. Numbered(b, y, n, d, u)
    BY DEF Numbered
  <1>12. a = i + 1
    OBVIOUS
  <1> HIDE DEF a, z
  <1>13. Leads(bytes, Mark(b, i, p, n, d, u), InString(b, a, y, n, d, u, a))
    BY <1>7, <1>12, QuoteLeads
  <1> HIDE DEF y
  <1>14. Leads(bytes, InString(b, a, y, n, d, u, a), InString(b, z, y, n, d, u, a))
    <2>1. Leads(bytes, InString(b, a, y, n, d, u, a), InString(b, a + Len(r), y, n, d, u, a))
      BY <1>1, <1>5, <1>8, <1>10, <1>11, WithinString
    <2> QED BY <1>8, <2>1
  <1>15. Leads(bytes, InString(b, z, y, n, d, u, a), Mark(b, e, y, n, d, v))
    BY <1>7, <1>8, <1>9, <1>11, UnquoteLeads, Zenon DEF v
  <1>16. Leads(bytes, Mark(b, i, p, n, d, u), Mark(b, e, y, n, d, v))
    BY <1>13, <1>14, <1>15, LeadsFacts
  <1> QED BY <1>2, <1>16, Zenon DEF v, s, y

-----------------------------------------------------------------------------
(* Where the items of a container are *)

LEMMA FirstByte ==
  ASSUME NEW t \in Texts
  PROVE  /\ 1 \in 1 .. Len(t.bytes) /\ t.bytes[1] # Space /\ (t.bytes[1] \in {"[", "{"} <=> t.kind \in Container)
         /\ t.kind \in Container => t.bytes[1] = Opener(t.kind)
  <1>1. t.bytes \in Seq(JsonByte) /\ IsText(t) /\ t.kind \in Kinds
    BY TextFacts
  <1>2. CASE t.kind \in Container
    <2>1. PICK f : Written(t, f)
      BY <1>2, WrittenExists
    <2> DEFINE o == <<Opener(t.kind)>>
               r == Cat(f[Len(t.items)], Ending(t))
    <2>2. t.bytes = Cat(o, r) /\ o \in Seq(JsonByte) /\ r \in Seq(JsonByte)
      <3>1. f[Len(t.items)] \in Seq(JsonByte) /\ t.bytes = Cat(o, r)
        <4>1. Len(t.items) \in 0 .. Len(t.items)
          BY TextFacts
        <4> QED BY <2>1, <4>1 DEF Written
      <3>2. Ending(t) \in Seq(JsonByte) /\ o \in Seq(JsonByte)
        BY <1>2, MembersTyped
      <3>3. r \in Seq(JsonByte)
        BY <3>1, <3>2, JsonCat, Zenon
      <3> QED BY <3>1, <3>2, <3>3
    <2>3. Len(o) = 1 /\ o[1] = Opener(t.kind)
      OBVIOUS
    <2> HIDE DEF o, r
    <2>4. Len(t.bytes) = Len(o) + Len(r) /\ Len(r) \in Nat
      BY <2>2, JsonCat
    <2>5. t.bytes[1] = o[1]
      <3>1. \A k \in 1 .. Len(o) : Cat(o, r)[k] = o[k]
        BY <2>2, CatHas, Zenon
      <3>2. 1 \in 1 .. Len(o)
        BY <2>3
      <3> QED BY <2>2, <3>1, <3>2
    <2>6. 1 \in 1 .. Len(t.bytes)
      BY <2>3, <2>4
    <2>7. t.bytes[1] = Opener(t.kind)
      BY <2>3, <2>5
    <2>8. Opener(t.kind) \in {"[", "{"} /\ Opener(t.kind) # Space
      BY DEF Opener, Space
    <2> QED BY <1>2, <2>6, <2>7, <2>8
  <1>3. CASE t.kind = "string"
    <2>1. Len(t.bytes) > 1 /\ t.bytes[1] = Quote
      BY <1>1, <1>3 DEF IsText, Container
    <2>2. 1 \in 1 .. Len(t.bytes)
      BY <1>1, <2>1
    <2>3. Quote # Space /\ Quote \notin {"[", "{"}
      BY DEF Quote, Space
    <2>4. t.kind \notin Container
      BY <1>3 DEF Container
    <2> QED BY <2>1, <2>2, <2>3, <2>4
  <1>4. CASE t.kind \in {"number", "word"}
    <2>1. t.bytes # <<>> /\ t.bytes[1] \in Scalar
      BY <1>1, <1>4 DEF IsText, Container, ScalarText, Scalar
    <2>2. 1 \in 1 .. Len(t.bytes)
      BY <1>1, <2>1
    <2>3. \A c \in Scalar : c # Space /\ c \notin {"[", "{"}
      BY DEF Scalar, Numeric, Alpha, Space
    <2>4. t.kind \notin Container
      BY <1>4 DEF Container
    <2> QED BY <2>1, <2>2, <2>3, <2>4
  <1> QED BY <1>1, <1>2, <1>3, <1>4 DEF Kinds

LEMMA ItemsTyped ==
  ASSUME NEW t \in Texts, t.kind \in Container
  PROVE  /\ Len(t.items) \in Nat
         /\ \A j \in 1 .. Len(t.items) : t.items[j] \in Texts /\ t.items[j].bytes \in Seq(JsonByte)
         /\ \A j \in 1 .. Len(t.items) + 1 : t.gaps[j] \in Seq(JsonByte) /\ Len(t.gaps[j]) \in Nat /\ IsGap(t, j)
  <1>1. /\ Len(t.items) \in Nat /\ DOMAIN t.items = 1 .. Len(t.items)
        /\ \A j \in DOMAIN t.items : t.items[j] \in Texts
    BY TextFacts
  <1>2. \A x \in Texts : x.bytes \in Seq(JsonByte)
    BY TextFacts
  <1>3. /\ Len(t.gaps) = Len(t.items) + 1 /\ \A j \in 1 .. Len(t.gaps) : t.gaps[j] \in Seq(JsonByte)
        /\ \A j \in 1 .. Len(t.gaps) : IsGap(t, j)
    BY MembersTyped
  <1>4. \A j \in 1 .. Len(t.items) : t.items[j] \in Texts /\ t.items[j].bytes \in Seq(JsonByte)
    BY <1>1, <1>2
  <1>5. \A j \in 1 .. Len(t.items) + 1 : t.gaps[j] \in Seq(JsonByte) /\ Len(t.gaps[j]) \in Nat /\ IsGap(t, j)
    BY <1>3, JsonCat
  <1> QED BY <1>1, <1>4, <1>5

\* After item j of the container at i.
PastItem(i, f, j) == i + 1 + Len(f[j])

LEMMA ItemsAt ==
  ASSUME NEW bytes \in Seq(JsonByte), NEW i \in Nat \ {0}, NEW t \in Texts, t.kind \in Container,
         Holds(bytes, i, t.bytes), NEW f, Written(t, f)
  PROVE  LET n == Len(t.items)
             last == PastItem(i, f, n) + Len(t.gaps[n + 1])
         IN /\ ByteAt(bytes, i) = Opener(t.kind) /\ i <= Len(bytes)
            /\ PastItem(i, f, 0) = i + 1
            /\ \A j \in 0 .. n : PastItem(i, f, j) \in Nat \ {0}
            /\ \A j \in 1 .. n : /\ Holds(bytes, PastItem(i, f, j - 1), t.gaps[j])
                                 /\ Holds(bytes, PastItem(i, f, j - 1) + Len(t.gaps[j]), t.items[j].bytes)
                                 /\ PastItem(i, f, j) = PastItem(i, f, j - 1) + Len(t.gaps[j]) + Len(t.items[j].bytes)
            /\ Holds(bytes, PastItem(i, f, n), t.gaps[n + 1])
            /\ ByteAt(bytes, last) = Closer(t.kind) /\ last \in Nat \ {0} /\ last <= Len(bytes)
            /\ i + Len(t.bytes) = last + 1
  <1> DEFINE n == Len(t.items)
             last == PastItem(i, f, n) + Len(t.gaps[n + 1])
             a == i + 1
  <1>1. /\ n \in Nat /\ \A j \in 1 .. n : t.items[j].bytes \in Seq(JsonByte)
        /\ \A j \in 1 .. n + 1 : t.gaps[j] \in Seq(JsonByte)
    BY ItemsTyped
  <1>2. /\ \A j \in 0 .. n : f[j] \in Seq(JsonByte)
        /\ f[0] = <<>>
        /\ \A j \in 1 .. n : f[j] = Cat(f[j - 1], Cat(t.gaps[j], t.items[j].bytes))
        /\ t.bytes = Cat(<<Opener(t.kind)>>, Cat(f[n], Ending(t)))
    BY DEF Written
  <1>3. /\ \A j \in 0 .. n : Len(f[j]) \in Nat
        /\ \A j \in 1 .. n : Len(f[j]) = Len(f[j - 1]) + Len(t.gaps[j]) + Len(t.items[j].bytes)
        /\ Len(t.bytes) = 2 + Len(f[n]) + Len(t.gaps[n + 1])
    BY WrittenLengths
  <1>4. a \in Nat \ {0} /\ Len(bytes) \in Nat
    OBVIOUS
  <1>5. Ending(t) \in Seq(JsonByte) /\ <<Opener(t.kind)>> \in Seq(JsonByte) /\ Len(<<Opener(t.kind)>>) = 1
    BY MembersTyped
  <1>6. n \in 0 .. n /\ f[n] \in Seq(JsonByte) /\ Len(f[n]) \in Nat
    BY <1>1, <1>2, <1>3
  <1>7. Cat(f[n], Ending(t)) \in Seq(JsonByte)
    BY <1>5, <1>6, JsonCat, Zenon
  <1>8. Holds(bytes, i, <<Opener(t.kind)>>) /\ Holds(bytes, a, Cat(f[n], Ending(t)))
    <2> DEFINE o == <<Opener(t.kind)>>
               r == Cat(f[n], Ending(t))
    <2>1. Holds(bytes, i, Cat(o, r)) /\ o \in Seq(JsonByte) /\ Len(o) = 1 /\ r \in Seq(JsonByte)
      BY <1>2, <1>5, <1>7
    <2> HIDE DEF o, r, n
    <2>2. Holds(bytes, i, o) /\ Holds(bytes, i + Len(o), r)
      BY <2>1, HoldsCat
    <2> QED BY <2>1, <2>2 DEF o, r
  <1>9. ByteAt(bytes, i) = Opener(t.kind) /\ i <= Len(bytes)
    <2> DEFINE o == <<Opener(t.kind)>>
    <2>1. o \in Seq(JsonByte) /\ 1 \in 1 .. Len(o) /\ o[1] = Opener(t.kind) /\ i + 1 - 1 = i
      BY <1>5
    <2> HIDE DEF o
    <2>2. i + 1 - 1 \in 1 .. Len(bytes) /\ ByteAt(bytes, i + 1 - 1) = o[1]
      BY <1>8, <2>1, HoldsAt DEF o
    <2> QED BY <2>1, <2>2
  <1>10. Holds(bytes, a, f[n]) /\ Holds(bytes, a + Len(f[n]), Ending(t))
    <2> HIDE DEF n, a
    <2> QED BY <1>4, <1>5, <1>6, <1>8, HoldsCat
  <1>11. \A j \in 0 .. n : Holds(bytes, a, f[j])
    <2> DEFINE Good == {k \in Nat : k <= n => Holds(bytes, a, f[n - k])}
    <2> HIDE DEF n, a
    <2>1. 0 \in Good
      BY <1>1, <1>10
    <2>2. ASSUME NEW k \in Nat, k \in Good PROVE k + 1 \in Good
      <3> SUFFICES ASSUME k + 1 <= n PROVE Holds(bytes, a, f[n - (k + 1)])
        OBVIOUS
      <3> DEFINE j == n - k
                 h == n - (k + 1)
                 r == Cat(t.gaps[j], t.items[j].bytes)
      <3>1. j \in 1 .. n /\ h = j - 1 /\ h \in 0 .. n /\ j \in 1 .. n + 1
        BY <1>1
      <3>2. Holds(bytes, a, f[j])
        BY <1>1, <2>2
      <3> HIDE DEF j, h
      <3>3. r \in Seq(JsonByte) /\ f[j] = Cat(f[h], r) /\ f[h] \in Seq(JsonByte)
        <4>1. t.gaps[j] \in Seq(JsonByte) /\ t.items[j].bytes \in Seq(JsonByte)
          BY <1>1, <3>1
        <4>2. r \in Seq(JsonByte)
          BY <4>1, JsonCat, Zenon
        <4>3. f[j] = Cat(f[h], r)
          BY <1>2, <3>1
        <4>4. f[h] \in Seq(JsonByte)
          BY <1>2, <3>1
        <4> QED BY <4>2, <4>3, <4>4
      <3> HIDE DEF r
      <3>4. Holds(bytes, a, f[h])
        BY <1>4, <3>2, <3>3, HoldsCat
      <3> QED BY <3>4 DEF h
    <2> HIDE DEF Good
    <2>3. Nat \subseteq Good
      BY <2>1, <2>2, Climb
    <2> TAKE j \in 0 .. n
    <2>4. n - j \in Nat /\ n - j <= n /\ n - (n - j) = j
      BY <1>1
    <2> QED BY <2>3, <2>4 DEF Good
  <1>12. PastItem(i, f, 0) = i + 1 /\ \A j \in 0 .. n : PastItem(i, f, j) \in Nat \ {0}
    <2>1. ASSUME NEW j \in 0 .. n PROVE i + 1 + Len(f[j]) \in Nat \ {0}
      <3> DEFINE l == Len(f[j])
      <3>1. l \in Nat
        BY <1>3
      <3> HIDE DEF l
      <3>2. i + 1 + l \in Nat \ {0}
        BY <3>1
      <3> QED BY <3>2 DEF l
    <2>2. Len(f[0]) = 0
      BY <1>2
    <2>3. PastItem(i, f, 0) = i + 1
      BY <2>2 DEF PastItem
    <2> QED BY <2>1, <2>3 DEF PastItem
  <1>13. ASSUME NEW j \in 1 .. n
         PROVE  /\ Holds(bytes, PastItem(i, f, j - 1), t.gaps[j])
                /\ Holds(bytes, PastItem(i, f, j - 1) + Len(t.gaps[j]), t.items[j].bytes)
                /\ PastItem(i, f, j) = PastItem(i, f, j - 1) + Len(t.gaps[j]) + Len(t.items[j].bytes)
    <2> DEFINE h == j - 1
               g == t.gaps[j]
               c == t.items[j].bytes
               q == a + Len(f[h])
    <2>1. h \in 0 .. n /\ j \in 0 .. n /\ j \in 1 .. n + 1
      BY <1>1
    <2>2. g \in Seq(JsonByte) /\ c \in Seq(JsonByte) /\ f[h] \in Seq(JsonByte) /\ Len(f[h]) \in Nat
      BY <1>1, <1>2, <1>3, <2>1
    <2>3. Holds(bytes, a, Cat(f[h], Cat(g, c)))
      BY <1>2, <1>11, <2>1
    <2>4. PastItem(i, f, h) = q /\ PastItem(i, f, j) = a + Len(f[j]) /\ Len(f[j]) = Len(f[h]) + Len(g) + Len(c)
      BY <1>3 DEF PastItem
    <2>0. q \in Nat \ {0}
      <3> DEFINE l == Len(f[h])
      <3>1. l \in Nat
        BY <2>2
      <3> HIDE DEF l
      <3>2. a + l \in Nat \ {0}
        BY <3>1
      <3> QED BY <3>2 DEF l
    <2>5. Holds(bytes, q, Cat(g, c))
      <3> HIDE DEF h, g, c, a, q
      <3>1. Cat(g, c) \in Seq(JsonByte)
        BY <2>2, JsonCat, Zenon
      <3>2. Holds(bytes, a + Len(f[h]), Cat(g, c))
        BY <1>4, <2>2, <2>3, <3>1, HoldsCat
      <3> QED BY <3>2 DEF q
    <2>6. Holds(bytes, q, g) /\ Holds(bytes, q + Len(g), c)
      <3> HIDE DEF q, g, c
      <3> QED BY <2>0, <2>2, <2>5, HoldsCat
    <2>7. PastItem(i, f, j) = q + Len(g) + Len(c)
      <3> DEFINE l == Len(f[h])
                 m == Len(g)
                 w == Len(c)
                 v == Len(f[j])
      <3>1. l \in Nat /\ m \in Nat /\ w \in Nat /\ v = l + m + w /\ PastItem(i, f, j) = a + v
        BY <2>2, <2>4, SMTT(40)
      <3> HIDE DEF l, m, w, v
      <3>2. PastItem(i, f, j) = (a + l) + m + w
        BY <3>1
      <3> QED BY <3>2 DEF l, m, w
    <2> HIDE DEF q, h
    <2>8. PastItem(i, f, h) = q
      BY <2>4
    <2> QED BY <2>6, <2>7, <2>8 DEF h
  <1>14. /\ Holds(bytes, PastItem(i, f, n), t.gaps[n + 1])
         /\ ByteAt(bytes, last) = Closer(t.kind) /\ last \in Nat \ {0} /\ last <= Len(bytes)
         /\ i + Len(t.bytes) = last + 1
    <2> DEFINE g == t.gaps[n + 1]
               c == <<Closer(t.kind)>>
               q == a + Len(f[n])
               e == q + Len(g)
    <2>1. g \in Seq(JsonByte) /\ Len(g) \in Nat
      <3>1. n + 1 \in 1 .. n + 1
        BY <1>1
      <3> HIDE DEF n
      <3> QED BY <1>1, <3>1, JsonCat
    <2>2. c \in Seq(JsonByte) /\ Len(c) = 1 /\ c[1] = Closer(t.kind)
      BY BracketsTyped
    <2>3. Ending(t) = Cat(g, c)
      <3>1. Len(t.gaps) = n + 1
        BY MembersTyped
      <3> QED BY <3>1 DEF Ending
    <2>4. q = PastItem(i, f, n) /\ q \in Nat \ {0}
      <3> DEFINE l == Len(f[n])
      <3>1. l \in Nat
        BY <1>6
      <3> HIDE DEF l
      <3>2. a + l \in Nat \ {0}
        BY <3>1
      <3>3. q \in Nat \ {0}
        BY <3>2 DEF l
      <3> QED BY <3>3 DEF PastItem
    <2>5. Holds(bytes, q, Cat(g, c))
      BY <1>10, <2>3
    <2>9. last = e /\ e \in Nat \ {0}
      <3>1. last = e
        BY <2>4
      <3> HIDE DEF q, g, last
      <3> QED BY <2>1, <2>4, <3>1
    <2> HIDE DEF g, c, q, n, last
    <2>6. Holds(bytes, q, g) /\ Holds(bytes, q + Len(g), c)
      BY <2>1, <2>2, <2>4, <2>5, HoldsCat
    <2>7. e <= Len(bytes) /\ ByteAt(bytes, e) = Closer(t.kind)
      <3>1. 1 \in 1 .. Len(c) /\ e + 1 - 1 = e /\ Holds(bytes, e, c)
        BY <2>2, <2>6, <2>9
      <3> HIDE DEF e
      <3>2. e + 1 - 1 \in 1 .. Len(bytes) /\ ByteAt(bytes, e + 1 - 1) = c[1]
        BY <2>2, <2>9, <3>1, HoldsAt
      <3> QED BY <2>2, <3>1, <3>2
    <2>8. i + Len(t.bytes) = e + 1
      <3>1. Len(t.bytes) = 2 + Len(f[n]) + Len(g)
        BY <1>3 DEF g, n
      <3> DEFINE l == Len(f[n])
                 m == Len(g)
                 w == Len(t.bytes)
      <3>2. l \in Nat /\ m \in Nat /\ w = 2 + l + m /\ e = (i + 1 + l) + m
        BY <1>6, <2>1, <3>1 DEF q
      <3> HIDE DEF l, m, w, e
      <3>3. i + w = e + 1
        BY <3>2
      <3> QED BY <3>3 DEF w
    <2> QED BY <2>4, <2>6, <2>7, <2>8, <2>9 DEF g
  <1> HIDE DEF a
  <1> QED BY <1>9, <1>12, <1>13, <1>14

LEMMA CloserAt ==
  ASSUME NEW bytes \in Seq(JsonByte), NEW i \in Nat \ {0}, NEW t \in Texts, t.kind \in Container,
         Holds(bytes, i, t.bytes), NEW f, Written(t, f)
  PROVE  ByteAt(bytes, PastItem(i, f, Len(t.items)) + Len(t.gaps[Len(t.items) + 1])) = Closer(t.kind)
  BY ItemsAt

-----------------------------------------------------------------------------
(* What the count skips between two items, and what opens after a name *)

LEMMA GapSkipped ==
  ASSUME NEW t \in Texts, t.kind \in Container, NEW j \in 1 .. Len(t.items) + 1
  PROVE  \A k \in 1 .. Len(t.gaps[j]) : t.gaps[j][k] \in Skipped
  <1> DEFINE g == t.gaps[j]
  <1>1. g \in Seq(JsonByte) /\ IsGap(t, j)
    BY ItemsTyped
  <1>2. DOMAIN g = 1 .. Len(g)
    BY <1>1
  <1>3. Blank(g) \/ \E mark \in Skipped : Around(g, mark)
    BY <1>1, Zenon DEF IsGap, Skipped
  <1>0. Space \in Skipped
    BY DEF Skipped, Space
  <1> HIDE DEF g
  <1>4. \A k \in 1 .. Len(g) : g[k] \in Skipped
    BY <1>0, <1>2, <1>3, SpacesAre
  <1> QED BY <1>4 DEF g

Comma == ","

\* Spaces up to the byte at their end.
LEMMA BlankAt ==
  ASSUME NEW bytes \in Seq(JsonByte), NEW q \in Nat \ {0}, NEW g \in Seq(JsonByte), Holds(bytes, q, g), Blank(g),
         NEW e, e = q + Len(g), ByteAt(bytes, e) # Space
  PROVE  AfterSpace(bytes, q) = e
  <1> DEFINE m == Len(g)
  <1>1. m \in Nat /\ DOMAIN g = 1 .. m
    OBVIOUS
  <1>2. \A k \in 1 .. m : ByteAt(bytes, q + k - 1) = g[k]
    BY HoldsAt
  <1>3. \A k \in 1 .. m : g[k] = Space
    BY <1>1, SpacesAre
  <1>4. e <= Len(bytes) + 1
    BY DEF Holds
  <1>5. e = q + m
    OBVIOUS
  <1> HIDE DEF m
  <1>6. ASSUME NEW x \in q .. e - 1 PROVE ByteAt(bytes, x) = Space
    <2> DEFINE k == x - q + 1
    <2>1. k \in 1 .. m /\ q + k - 1 = x
      BY <1>1, <1>5
    <2> HIDE DEF k
    <2> QED BY <1>2, <1>3, <2>1
  <1>7. e \in Nat /\ q <= e
    BY <1>1, <1>5
  <1> QED BY <1>4, <1>6, <1>7, EndsOf, Zenon

\* Spaces around a mark.
LEMMA AroundAt ==
  ASSUME NEW bytes \in Seq(JsonByte), NEW q \in Nat \ {0}, NEW g \in Seq(JsonByte), Holds(bytes, q, g),
         NEW mark, Around(g, mark), mark # Space, NEW e, e = q + Len(g), ByteAt(bytes, e) # Space
  PROVE  \E x \in Nat : /\ AfterSpace(bytes, q) = x /\ ByteAt(bytes, x) = mark
                        /\ AfterSpace(bytes, x + 1) = e
  <1> DEFINE m == Len(g)
  <1>1. m \in Nat /\ DOMAIN g = 1 .. m
    OBVIOUS
  <1>2. \A k \in 1 .. m : q + k - 1 \in 1 .. Len(bytes) /\ ByteAt(bytes, q + k - 1) = g[k]
    BY HoldsAt
  <1>3. PICK h \in 1 .. m : g[h] = mark /\ \A k \in (1 .. m) \ {h} : g[k] = Space
    <2>1. \E k \in DOMAIN g : g[k] = mark /\ \A x \in DOMAIN g \ {k} : g[x] = Space
      BY SpacesAre, Zenon
    <2> QED BY <1>1, <2>1
  <1>4. e <= Len(bytes) + 1
    BY DEF Holds
  <1>5. e = q + m
    OBVIOUS
  <1> HIDE DEF m
  <1> DEFINE x == q + h - 1
             y == x + 1
  <1>6. x \in Nat /\ q <= x /\ x <= Len(bytes) + 1 /\ ByteAt(bytes, x) = mark
    BY <1>1, <1>2, <1>3
  <1>7. y \in Nat \ {0} /\ e \in Nat /\ y <= e
    BY <1>1, <1>5
  <1>8. ASSUME NEW z \in q .. e - 1, z # x PROVE ByteAt(bytes, z) = Space
    <2> DEFINE k == z - q + 1
    <2>1. k \in 1 .. m /\ q + k - 1 = z /\ k # h
      BY <1>1, <1>5, <1>8
    <2> HIDE DEF k, x
    <2> QED BY <1>2, <1>3, <2>1
  <1>9. AfterSpace(bytes, q) = x
    <2>1. ASSUME NEW z \in q .. x - 1 PROVE ByteAt(bytes, z) = Space
      <3>1. z \in q .. e - 1 /\ z # x
        BY <1>6, <1>7
      <3> HIDE DEF x
      <3> QED BY <1>8, <3>1
    <2>2. ByteAt(bytes, x) # Space
      BY <1>6
    <2> HIDE DEF x
    <2> QED BY <1>6, <2>1, <2>2, EndsOf, Zenon
  <1>10. AfterSpace(bytes, y) = e
    <2>1. ASSUME NEW z \in y .. e - 1 PROVE ByteAt(bytes, z) = Space
      <3>1. z \in q .. e - 1 /\ z # x
        BY <1>6, <1>7
      <3> HIDE DEF x
      <3> QED BY <1>8, <3>1
    <2> HIDE DEF y
    <2> QED BY <1>4, <1>7, <2>1, EndsOf, Zenon
  <1> HIDE DEF x
  <1> QED BY <1>6, <1>9, <1>10

\* The byte after a text within a container, or after its last gap.
LEMMA AfterItem ==
  ASSUME NEW bytes \in Seq(JsonByte), NEW i \in Nat \ {0}, NEW t \in Texts, t.kind \in Container,
         Holds(bytes, i, t.bytes), NEW f, Written(t, f), NEW j \in 1 .. Len(t.items)
  PROVE  /\ Ended(bytes, PastItem(i, f, j))
         /\ OpensContainer(bytes, PastItem(i, f, j)) <=>
              /\ j < Len(t.items) /\ t.kind = "object" /\ (j + 1) % 2 = 0
              /\ t.items[j + 1].kind \in Container
  <1> DEFINE n == Len(t.items)
             q == PastItem(i, f, j)
             h == j + 1
             g == t.gaps[h]
             e == q + Len(g)
  <1>1. h \in 1 .. n + 1 /\ j \in 0 .. n /\ n \in Nat /\ h \in Nat
    BY ItemsTyped
  <1>2. g \in Seq(JsonByte) /\ Len(g) \in Nat /\ IsGap(t, h)
    BY <1>1, ItemsTyped
  <1>3. q \in Nat \ {0}
    BY <1>1, ItemsAt
  <1>4. Holds(bytes, q, g)
    <2>1. CASE h \in 1 .. n
      <3>1. Holds(bytes, PastItem(i, f, h - 1), t.gaps[h])
        <4> HIDE DEF h, n
        <4> QED BY <2>1, ItemsAt DEF n
      <3>2. h - 1 = j
        OBVIOUS
      <3> HIDE DEF h
      <3> QED BY <3>1, <3>2
    <2>2. CASE h = n + 1
      <3>1. j = n
        BY <1>1, <2>2
      <3>2. Holds(bytes, PastItem(i, f, n), t.gaps[n + 1])
        BY ItemsAt
      <3> HIDE DEF n, h
      <3> QED BY <2>2, <3>1, <3>2
    <2> QED BY <1>1, <2>1, <2>2
  <1>5. e \in Nat \ {0}
    <2> DEFINE l == Len(g)
    <2>1. l \in Nat
      BY <1>2
    <2> HIDE DEF l, q
    <2>2. q + l \in Nat \ {0}
      BY <1>3, <2>1
    <2> QED BY <2>2 DEF l
  <1>6. Len(t.gaps) = n + 1
    BY MembersTyped
  <1>7. ASSUME NEW c, ByteAt(bytes, e) = c, c \notin Scalar PROVE Ended(bytes, q)
    <2>1. CASE Len(g) = 0
      <3>1. e = q
        <4> HIDE DEF q, g
        <4> QED BY <1>3, <2>1
      <3> HIDE DEF e, q
      <3> QED BY <1>7, <3>1 DEF Ended
    <2>2. CASE Len(g) # 0
      <3>1. 1 \in 1 .. Len(g) /\ q + 1 - 1 = q
        <4> HIDE DEF q, g
        <4> QED BY <1>2, <1>3, <2>2
      <3>2. g[1] \in Skipped
        <4> DEFINE m == Len(t.gaps[h])
        <4>1. \A k \in 1 .. Len(t.gaps[h]) : t.gaps[h][k] \in Skipped
          <5> HIDE DEF h
          <5> QED BY <1>1, GapSkipped DEF n
        <4> QED BY <3>1, <4>1
      <3> HIDE DEF q, g
      <3>3. ByteAt(bytes, q + 1 - 1) = g[1]
        BY <1>2, <1>3, <1>4, <3>1, HoldsAt
      <3> QED BY <3>1, <3>2, <3>3, BytesApart DEF Ended
    <2> QED BY <2>1, <2>2
  <1>8. CASE j = n
    <2>1. ByteAt(bytes, e) = Closer(t.kind) /\ Closer(t.kind) \notin Scalar /\ Closer(t.kind) # Space /\ Closer(t.kind) # Colon
      <3>1. ByteAt(bytes, PastItem(i, f, n) + Len(t.gaps[n + 1])) = Closer(t.kind)
        BY CloserAt, Zenon
      <3>2. ByteAt(bytes, e) = Closer(t.kind)
        BY <1>8, <3>1
      <3>3. Closer(t.kind) \in {"]", "}"}
        BY DEF Closer
      <3>4. Space \notin {"]", "}"} /\ Colon \notin {"]", "}"}
        BY DEF Space, Colon
      <3> QED BY <3>2, <3>3, <3>4, BytesApart
    <2>2. Blank(g)
      <3>1. h \in {1, Len(t.gaps)}
        BY <1>6, <1>8
      <3> QED BY <1>2, <3>1 DEF IsGap
    <2> HIDE DEF e, g, q, h, n
    <2>3. AfterSpace(bytes, q) = e
      BY <1>2, <1>3, <1>4, <2>1, <2>2, BlankAt DEF e
    <2>4. ~OpensContainer(bytes, q)
      BY <2>1, <2>3, SpacesAre
    <2>5. ~(j < n)
      BY <1>1, <1>8
    <2> QED BY <1>7, <2>1, <2>4, <2>5 DEF n, q
  <1>9. CASE j # n
    <2>1. h \in 1 .. n /\ j < n /\ h \notin {1, Len(t.gaps)}
      BY <1>1, <1>6, <1>9
    <2> DEFINE item == t.items[h]
               mark == IF t.kind = "object" /\ h % 2 = 0 THEN Colon ELSE Comma
    <2>2. Around(g, mark) /\ mark # Space
      <3>1. Colon # Space /\ Comma # Space
        BY DEF Colon, Comma, Space
      <3>2. Around(g, IF t.kind = "object" /\ h % 2 = 0 THEN Colon ELSE Comma)
        <4> HIDE DEF h
        <4> QED BY <1>2, <2>1, Zenon DEF IsGap, Colon, Comma
      <3> HIDE DEF h, g
      <3> QED BY <3>1, <3>2
    <2>3. item \in Texts /\ item.bytes \in Seq(JsonByte)
      <3> HIDE DEF h
      <3> QED BY <2>1, ItemsTyped
    <2>4. Holds(bytes, e, item.bytes)
      <3>1. Holds(bytes, PastItem(i, f, h - 1) + Len(t.gaps[h]), t.items[h].bytes)
        <4> HIDE DEF h, n
        <4> QED BY <2>1, ItemsAt DEF n
      <3>2. h - 1 = j
        OBVIOUS
      <3> HIDE DEF h
      <3> QED BY <3>1, <3>2
    <2>5. ByteAt(bytes, e) = item.bytes[1]
      <3> HIDE DEF e, item
      <3>1. 1 \in 1 .. Len(item.bytes)
        BY <2>3, FirstByte
      <3>3. e + 1 - 1 = e
        BY <1>5
      <3>2. ByteAt(bytes, e + 1 - 1) = item.bytes[1]
        BY <1>5, <2>3, <2>4, <3>1, HoldsAt
      <3> QED BY <3>2, <3>3
    <2>6. item.bytes[1] # Space /\ (item.bytes[1] \in {"[", "{"} <=> item.kind \in Container)
      <3> HIDE DEF item
      <3> QED BY <2>3, FirstByte
    <2>7. ByteAt(bytes, e) # Space
      BY <2>5, <2>6
    <2>8. Len(g) # 0
      <3>1. DOMAIN g = 1 .. Len(g)
        BY <1>2
      <3> HIDE DEF g, mark
      <3>2. DOMAIN g # {}
        BY <2>2, SpacesAre
      <3> QED BY <3>1, <3>2
    <2>9. Ended(bytes, q)
      <3>1. 1 \in 1 .. Len(g) /\ q + 1 - 1 = q
        <4> HIDE DEF q, g
        <4> QED BY <1>2, <1>3, <2>8
      <3>2. g[1] \in Skipped
        <4>1. \A k \in 1 .. Len(t.gaps[h]) : t.gaps[h][k] \in Skipped
          <5> HIDE DEF h
          <5> QED BY <1>1, GapSkipped DEF n
        <4> QED BY <3>1, <4>1
      <3> HIDE DEF q, g
      <3>3. ByteAt(bytes, q + 1 - 1) = g[1]
        BY <1>2, <1>3, <1>4, <3>1, HoldsAt
      <3> QED BY <3>1, <3>2, <3>3, BytesApart DEF Ended
    <2> HIDE DEF e, g, q, h, n, mark, item
    <2>10. PICK x \in Nat : /\ AfterSpace(bytes, q) = x /\ ByteAt(bytes, x) = mark
                            /\ AfterSpace(bytes, x + 1) = e
      BY <1>2, <1>3, <1>4, <2>2, <2>7, AroundAt DEF e
    <2>11. OpensContainer(bytes, q) <=> mark = Colon /\ ByteAt(bytes, e) \in {"[", "{"}
      BY <2>10, SpacesAre
    <2>12. mark = Colon <=> t.kind = "object" /\ h % 2 = 0
      BY DEF mark, Colon, Comma
    <2>13. OpensContainer(bytes, q) <=> t.kind = "object" /\ h % 2 = 0 /\ item.kind \in Container
      BY <2>5, <2>6, <2>11, <2>12
    <2> QED BY <2>1, <2>9, <2>13 DEF q, h, item, n
  <1> QED BY <1>8, <1>9

\* So an item ends a name the count is under after it when the next item is the proof.
LEMMA ProofIs ==
  ASSUME NEW bytes \in Seq(JsonByte), NEW i \in Nat \ {0}, NEW t \in Texts, t.kind \in Container,
         Holds(bytes, i, t.bytes), NEW f, Written(t, f), NEW j \in 1 .. Len(t.items)
  PROVE  t.items[j].bytes = ProofName /\ OpensContainer(bytes, PastItem(i, f, j)) <=> IsProof(t, j + 1)
  <1>1. OpensContainer(bytes, PastItem(i, f, j)) <=>
          /\ j < Len(t.items) /\ t.kind = "object" /\ (j + 1) % 2 = 0
          /\ t.items[j + 1].kind \in Container
    BY AfterItem
  <1>2. DOMAIN t.items = 1 .. Len(t.items) /\ Len(t.items) \in Nat
    BY TextFacts
  <1>3. (j + 1) - 1 = j /\ (j + 1 \in DOMAIN t.items <=> j < Len(t.items))
    BY <1>2
  <1> DEFINE h == j + 1
  <1>4. h - 1 = j
    BY <1>3
  <1>5. IsProof(t, h) <=>
          /\ t.kind = "object" /\ h % 2 = 0 /\ h \in DOMAIN t.items
          /\ t.items[h - 1].bytes = ProofName /\ t.items[h].kind \in Container
    BY Zenon DEF IsProof
  <1> HIDE DEF h
  <1>6. IsProof(t, h) <=>
          /\ t.kind = "object" /\ h % 2 = 0 /\ h \in DOMAIN t.items
          /\ t.items[j].bytes = ProofName /\ t.items[h].kind \in Container
    BY <1>4, <1>5
  <1> QED BY <1>1, <1>3, <1>6 DEF h

-----------------------------------------------------------------------------
(* PastItem a text *)

\* Under the proof after item j of a text t at depth d.
UnderAt(t, b, d, u, j) == u \/ (b /\ d = 0 /\ IsProof(t, j + 1))

\* The numbers counted under the proof in item j, and in t.
ItemCheap(t, b, d, u, j) == IF UnderAt(t, b, d, u, j - 1) THEN Numbers(t.items[j]) ELSE 0
Cheap(t, b, d, u) == IF u THEN Numbers(t) ELSE IF b /\ d = 0 THEN ProofNumbers(t) ELSE 0

\* Under the proof after t, which ends before e.
Flag(bytes, b, e, d, u, t) ==
  IF t.kind = "string" THEN NowUnder(bytes, b, e, d, u, t.bytes)
  ELSE u /\ (t.kind \notin Container \/ d > 1)

Passed(bytes, b, i, p, n, d, u, t) ==
  LET e == i + Len(t.bytes)
      c == Cheap(t, b, d, u)
  IN Leads(bytes, Mark(b, i, p, n, d, u),
                  Mark(b, e, p + Units(t) - c, n + c, d, Flag(bytes, b, e, d, u, t)))

Passes(bytes, t) ==
  \A b \in BOOLEAN, i \in Nat \ {0}, p \in Int, n \in Nat, d \in Nat, u \in BOOLEAN :
    Holds(bytes, i, t.bytes) /\ Ended(bytes, i + Len(t.bytes)) /\ (u => d > 0) =>
      Passed(bytes, b, i, p, n, d, u, t)

\* The proof's numbers, item by item.
Shares(t) == [i \in DOMAIN t.items |-> IF IsProof(t, i) THEN Numbers(t.items[i]) ELSE 0]

LEMMA SharesTyped ==
  ASSUME NEW t \in Texts
  PROVE  /\ Shares(t) \in Seq(Nat) /\ Len(Shares(t)) = Len(t.items)
         /\ \A i \in 1 .. Len(t.items) : Shares(t)[i] = IF IsProof(t, i) THEN Numbers(t.items[i]) ELSE 0
         /\ ProofNumbers(t) = Total(Shares(t)) /\ ProofNumbers(t) \in Nat
  <1> DEFINE m == Len(t.items)
             share(i) == IF IsProof(t, i) THEN Numbers(t.items[i]) ELSE 0
  <1>1. DOMAIN t.items = 1 .. m /\ m \in Nat /\ \A i \in 1 .. m : t.items[i] \in Texts
    BY TextFacts
  <1>2. \A i \in 1 .. m : share(i) \in Nat
    BY <1>1, MadeTyped DEF Counted1
  <1>3. Shares(t) = [i \in 1 .. m |-> share(i)]
    BY <1>1 DEF Shares
  <1> HIDE DEF share, m
  <1>4. Shares(t) \in Seq(Nat) /\ Len(Shares(t)) = m /\ \A i \in 1 .. m : Shares(t)[i] = share(i)
    BY <1>1, <1>2, <1>3
  <1>5. ProofNumbers(t) = Total(Shares(t))
    BY Zenon DEF ProofNumbers, Shares
  <1>6. Total(Shares(t)) \in Nat
    BY <1>4, TotalTyped
  <1> QED BY <1>4, <1>5, <1>6 DEF share, m

LEMMA ScalarCheap ==
  ASSUME NEW t \in Texts, t.kind \notin Container, NEW b, NEW d, NEW u
  PROVE  Cheap(t, b, d, u) = IF u THEN Numbers(t) ELSE 0
  <1>1. \A i \in 1 .. Len(t.items) : ~IsProof(t, i)
    BY DEF IsProof, Container
  <1>2. \A i \in 1 .. Len(Shares(t)) : Shares(t)[i] = 0
    BY <1>1, SharesTyped
  <1>3. Shares(t) \in Seq(Nat) /\ ProofNumbers(t) = Total(Shares(t))
    BY SharesTyped
  <1>4. ProofNumbers(t) = 0
    BY <1>2, <1>3, TotalNone
  <1> QED BY <1>4, Zenon DEF Cheap

LEMMA CheapTyped ==
  ASSUME NEW t \in Texts, NEW b, NEW d, NEW u
  PROVE  Cheap(t, b, d, u) \in Nat
  <1>1. Numbers(t) \in Nat /\ ProofNumbers(t) \in Nat
    BY MadeTyped, SharesTyped DEF Counted1
  <1> QED BY <1>1 DEF Cheap

LEMMA ScalarPasses ==
  ASSUME NEW bytes \in Seq(JsonByte), NEW t \in Texts, t.kind \in {"number", "word"}
  PROVE  Passes(bytes, t)
  <1> SUFFICES ASSUME NEW b \in BOOLEAN, NEW i \in Nat \ {0}, NEW p \in Int, NEW n \in Nat, NEW d \in Nat,
                      NEW u \in BOOLEAN, Holds(bytes, i, t.bytes), Ended(bytes, i + Len(t.bytes))
               PROVE  Passed(bytes, b, i, p, n, d, u, t)
    BY DEF Passes
  <1> DEFINE c == Cheap(t, b, d, u)
             e == i + Len(t.bytes)
  <1>1. t.kind \notin Container /\ t.kind # "string"
    BY DEF Container
  <1>2. c = IF u THEN Numbers(t) ELSE 0
    BY <1>1, ScalarCheap
  <1>3. Flag(bytes, b, e, d, u, t) = u
    BY <1>1 DEF Flag
  <1>4. Numbered(b, p, n, d, u)
    BY DEF Numbered
  <1> HIDE DEF c
  <1>5. Leads(bytes, Mark(b, i, p, n, d, u), Mark(b, e, p + Units(t) - c, n + c, d, u))
    BY <1>2, <1>4, ScalarLeads, ZenonT(60)
  <1> HIDE DEF e
  <1>6. Leads(bytes, Mark(b, i, p, n, d, u), Mark(b, e, p + Units(t) - c, n + c, d, Flag(bytes, b, e, d, u, t)))
    BY <1>3, <1>5
  <1> QED BY <1>6, Zenon DEF Passed, c, e

LEMMA StringPasses ==
  ASSUME NEW bytes \in Seq(JsonByte), NEW t \in Texts, t.kind = "string"
  PROVE  Passes(bytes, t)
  <1> SUFFICES ASSUME NEW b \in BOOLEAN, NEW i \in Nat \ {0}, NEW p \in Int, NEW n \in Nat, NEW d \in Nat,
                      NEW u \in BOOLEAN, Holds(bytes, i, t.bytes), Ended(bytes, i + Len(t.bytes))
               PROVE  Passed(bytes, b, i, p, n, d, u, t)
    BY DEF Passes
  <1> DEFINE c == Cheap(t, b, d, u)
             e == i + Len(t.bytes)
             v == NowUnder(bytes, b, e, d, u, t.bytes)
  <1>1. t.kind \notin Container /\ t.kind # "number"
    BY DEF Container
  <1>2. Numbers(t) = 0 /\ Units(t) = 1
    BY <1>1, UnitsAre
  <1>3. c = 0
    BY <1>1, <1>2, ScalarCheap
  <1>4. Flag(bytes, b, e, d, u, t) = v
    BY DEF Flag
  <1>5. Numbered(b, p, n, d, u)
    BY DEF Numbered
  <1>6. Leads(bytes, Mark(b, i, p, n, d, u), Mark(b, e, p + Units(t), n, d, v))
    BY <1>5, StringLeads, Zenon
  <1>7. p + Units(t) - c = p + Units(t) /\ n + c = n
    BY <1>2, <1>3
  <1> HIDE DEF c, e, v
  <1>8. Leads(bytes, Mark(b, i, p, n, d, u), Mark(b, e, p + Units(t) - c, n + c, d, Flag(bytes, b, e, d, u, t)))
    BY <1>4, <1>6, <1>7
  <1> QED BY <1>8, Zenon DEF Passed, c, e

-----------------------------------------------------------------------------
(* PastItem a container *)

LEMMA OpenLeads ==
  ASSUME NEW bytes, NEW b, NEW i \in Nat, NEW p, NEW n, NEW d, NEW u,
         Numbered(b, p, n, d, u), ByteAt(bytes, i) \in Openers, i <= Len(bytes)
  PROVE  Leads(bytes, Mark(b, i, p, n, d, u), Mark(b, i + 1, p + ContainerCost, n, d + 1, u))
  <1> DEFINE q == n \div NumbersPerUnit
             w == p + q
             y == (p + ContainerCost) + q
             r == n % NumbersPerUnit
  <1>1. /\ Mark(b, i, p, n, d, u) = Rec("between", b, i, w, d, r, u, 0)
        /\ Mark(b, i + 1, p + ContainerCost, n, d + 1, u) = Rec("between", b, i + 1, y, d + 1, r, u, 0)
    BY Zenon DEF Mark
  <1>2. y = w + ContainerCost
    <2>1. p \in Int /\ n \in Nat /\ ContainerCost \in Nat /\ NumbersPerUnit \in Nat \ {0}
      BY BudgetAssumption DEF Numbered
    <2>2. q \in Nat
      BY <2>1, DivisionNext
    <2> HIDE DEF q
    <2> QED BY <2>1, <2>2
  <1>3. Mark(b, i, p, n, d, u).next = i
    BY DEF Mark, Rec
  <1> HIDE DEF w, r, y
  <1>4. NextCount(bytes, Rec("between", b, i, w, d, r, u, 0)) = Rec("between", b, i + 1, w + ContainerCost, d + 1, r, u, 0)
    BY StepOpens
  <1> QED BY <1>1, <1>2, <1>3, <1>4, LeadsFacts

LEMMA CloseLeads ==
  ASSUME NEW bytes, NEW b, NEW i \in Nat, NEW p, NEW n, NEW d \in Nat, NEW u,
         ByteAt(bytes, i) \in Closers, i <= Len(bytes)
  PROVE  Leads(bytes, Mark(b, i, p, n, d + 1, u), Mark(b, i + 1, p, n, d, Closed(u, d + 1)))
  <1> DEFINE w == p + n \div NumbersPerUnit
             r == n % NumbersPerUnit
             h == d + 1
             v == Closed(u, h)
  <1>1. /\ Mark(b, i, p, n, h, u) = Rec("between", b, i, w, h, r, u, 0)
        /\ Mark(b, i + 1, p, n, d, v) = Rec("between", b, i + 1, w, d, r, v, 0)
    BY Zenon DEF Mark
  <1>2. Mark(b, i, p, n, h, u).next = i
    BY DEF Mark, Rec
  <1>3. (IF h = 0 THEN 0 ELSE h - 1) = d
    OBVIOUS
  <1> HIDE DEF w, r, h
  <1>4. NextCount(bytes, Rec("between", b, i, w, h, r, u, 0)) =
          Rec("between", b, i + 1, w, IF h = 0 THEN 0 ELSE h - 1, r, v, 0)
    BY StepCloses
  <1> HIDE DEF v
  <1> QED BY <1>1, <1>2, <1>3, <1>4, LeadsFacts DEF v, h

LEMMA UnderTyped == \A t, b, d, u, j : UnderAt(t, b, d, u, j) \in BOOLEAN
  BY DEF UnderAt

LEMMA UnderFacts ==
  ASSUME NEW t \in Texts, t.kind \in Container, NEW b \in BOOLEAN, NEW d \in Nat, NEW u \in BOOLEAN, u => d > 0
  PROVE  /\ UnderAt(t, b, d, u, 0) = u /\ UnderAt(t, b, d, u, Len(t.items)) = u
         /\ \A v \in BOOLEAN : Closed(v, d + 1) = (v /\ d > 1)
  <1>1. ~IsProof(t, 0 + 1) /\ ~IsProof(t, Len(t.items) + 1)
    <2>1. DOMAIN t.items = 1 .. Len(t.items) /\ Len(t.items) \in Nat
      BY TextFacts
    <2>2. Len(t.items) + 1 \notin DOMAIN t.items
      BY <2>1
    <2>3. (0 + 1) % 2 # 0
      OBVIOUS
    <2> QED BY <2>2, <2>3, Zenon DEF IsProof
  <1>3. UnderAt(t, b, d, u, 0) = u /\ UnderAt(t, b, d, u, Len(t.items)) = u
    BY <1>1, Zenon DEF UnderAt
  <1>4. \A v \in BOOLEAN : Closed(v, d + 1) = (v /\ d > 1)
    BY DEF Closed
  <1> QED BY <1>3, <1>4

\* A proof's name is a string, and the proof a container.
LEMMA ProofItems ==
  ASSUME NEW t \in Texts, t.kind \in Container, NEW j \in 1 .. Len(t.items)
  PROVE  /\ IsProof(t, j) => t.items[j].kind \in Container
         /\ IsProof(t, j + 1) => t.items[j].kind = "string"
  <1>1. IsProof(t, j) => t.items[j].kind \in Container
    BY Zenon DEF IsProof
  <1>2. ASSUME IsProof(t, j + 1) PROVE t.items[j].kind = "string"
    <2>1. t.kind = "object" /\ (j + 1) % 2 = 0
      BY <1>2, Zenon DEF IsProof
    <2>2. IsText(t) /\ DOMAIN t.items = 1 .. Len(t.items) /\ Len(t.items) \in Nat
      BY TextFacts
    <2>3. Holding(t)
      BY <2>1, <2>2 DEF IsText
    <2>4. \A i \in DOMAIN t.items : i % 2 = 1 => t.items[i].kind = "string"
      BY <2>1, <2>3, Zenon DEF Holding
    <2>5. j % 2 = 1
      BY <2>1, <2>2
    <2> QED BY <2>2, <2>4, <2>5
  <1> QED BY <1>1, <1>2

LEMMA FlagIs ==
  ASSUME NEW bytes \in Seq(JsonByte), NEW i \in Nat \ {0}, NEW t \in Texts, t.kind \in Container,
         Holds(bytes, i, t.bytes), NEW f, Written(t, f), NEW j \in 1 .. Len(t.items),
         NEW b \in BOOLEAN, NEW d \in Nat, NEW u \in BOOLEAN, u => d > 0, NEW x, x = t.items[j]
  PROVE  /\ Flag(bytes, b, PastItem(i, f, j), d + 1, UnderAt(t, b, d, u, j - 1), x) = UnderAt(t, b, d, u, j)
         /\ Cheap(x, b, d + 1, UnderAt(t, b, d, u, j - 1)) = ItemCheap(t, b, d, u, j)
  <1> DEFINE v == UnderAt(t, b, d, u, j - 1)
             e == PastItem(i, f, j)
             isProof == IsProof(t, j)
             next == IsProof(t, j + 1)
             named == x.bytes = ProofName /\ OpensContainer(bytes, e)
  <1>1. v = (u \/ (b /\ d = 0 /\ isProof))
    <2>1. (j - 1) + 1 = j
      OBVIOUS
    <2> QED BY <2>1, Zenon DEF UnderAt
  <1>2. /\ isProof => x.kind \in Container
        /\ next => x.kind = "string"
    BY ProofItems
  <1>3. named <=> next
    BY ProofIs
  <1>4. UnderAt(t, b, d, u, j) = (u \/ (b /\ d = 0 /\ next))
    BY Zenon DEF UnderAt
  <1>5. AnswersOwn(d + 1) <=> d = 0
    BY DEF AnswersOwn
  <1>6. Cheap(x, b, d + 1, v) = ItemCheap(t, b, d, u, j)
    <2>1. d + 1 # 0
      OBVIOUS
    <2> HIDE DEF v
    <2>2. Cheap(x, b, d + 1, v) = IF v THEN Numbers(x) ELSE 0
      BY <2>1, Zenon DEF Cheap
    <2> QED BY <2>2, Zenon DEF ItemCheap, v
  <1>7. "string" \notin Container
    BY DEF Container
  <1>8. d + 1 > 1 <=> d > 0
    OBVIOUS
  <1>9. v \in BOOLEAN /\ isProof \in BOOLEAN /\ next \in BOOLEAN
    BY DEF UnderAt, IsProof
  <1>10. d > 0 <=> d # 0
    OBVIOUS
  <1> DEFINE h == d + 1
             zero == d = 0
             deep == d > 0
  <1>11. NowUnder(bytes, b, e, h, v, x.bytes) = (v \/ (b /\ zero /\ named))
    BY <1>5, Zenon DEF NowUnder
  <1>12. Flag(bytes, b, e, h, v, x) =
           IF x.kind = "string" THEN v \/ (b /\ zero /\ named) ELSE v /\ (x.kind \notin Container \/ deep)
    BY <1>8, <1>11, Zenon DEF Flag
  <1>13. (u => deep) /\ (deep <=> ~zero) /\ zero \in BOOLEAN /\ deep \in BOOLEAN
    BY <1>10
  <1> HIDE DEF v, e, isProof, next, named, h, zero, deep
  <1> DEFINE isString == x.kind = "string"
             isContainer == x.kind \in Container
  <1>14. ~(isString /\ isContainer) /\ (isProof => isContainer) /\ (next => isString) /\ isString \in BOOLEAN /\ isContainer \in BOOLEAN
    BY <1>2, <1>7
  <1>15. Flag(bytes, b, e, h, v, x) =
           IF isString THEN v \/ (b /\ zero /\ next) ELSE v /\ (~isContainer \/ deep)
    BY <1>3, <1>12
  <1>16. v = (u \/ (b /\ zero /\ isProof)) /\ UnderAt(t, b, d, u, j) = (u \/ (b /\ zero /\ next))
    BY <1>1, <1>4 DEF zero
  <1> HIDE DEF isString, isContainer
  <1>17. Flag(bytes, b, e, h, v, x) = UnderAt(t, b, d, u, j)
    BY <1>9, <1>13, <1>14, <1>15, <1>16
  <1> QED BY <1>6, <1>17 DEF v, e, h

\* The units of a container's items, and the numbers counted under the proof in them.
Weights(t) == [j \in DOMAIN t.items |-> Units(t.items[j])]
Cheaps(t, b, d, u) == [j \in DOMAIN t.items |-> ItemCheap(t, b, d, u, j)]

LEMMA CheapTotal ==
  ASSUME NEW t \in Texts, t.kind \in Container, NEW b \in BOOLEAN, NEW d \in Nat, NEW u \in BOOLEAN
  PROVE  /\ Cheaps(t, b, d, u) \in Seq(Nat) /\ Len(Cheaps(t, b, d, u)) = Len(t.items)
         /\ \A j \in 1 .. Len(t.items) : Cheaps(t, b, d, u)[j] = ItemCheap(t, b, d, u, j)
         /\ Total(Cheaps(t, b, d, u)) = Cheap(t, b, d, u)
  <1> DEFINE m == Len(t.items)
             cheap(j) == ItemCheap(t, b, d, u, j)
             s == Cheaps(t, b, d, u)
  <1>1. DOMAIN t.items = 1 .. m /\ m \in Nat /\ \A j \in 1 .. m : t.items[j] \in Texts
    BY TextFacts
  <1>2. \A j \in 1 .. m : Numbers(t.items[j]) \in Nat
    BY <1>1, MadeTyped DEF Counted1
  <1>3. \A j \in 1 .. m : cheap(j) \in Nat
    BY <1>2 DEF ItemCheap
  <1>4. s = [j \in 1 .. m |-> cheap(j)]
    BY <1>1 DEF Cheaps
  <1>5. s \in Seq(Nat) /\ Len(s) = m /\ \A j \in 1 .. m : s[j] = cheap(j)
    <2> HIDE DEF cheap, s, m
    <2> QED BY <1>1, <1>3, <1>4
  <1>6. ASSUME NEW j \in 1 .. m
        PROVE  cheap(j) = IF u \/ (b /\ d = 0 /\ IsProof(t, j)) THEN Numbers(t.items[j]) ELSE 0
    <2>1. (j - 1) + 1 = j
      BY <1>1
    <2> QED BY <2>1, Zenon DEF ItemCheap, UnderAt
  <1> HIDE DEF cheap
  <1>7. CASE u
    <2> DEFINE r == [j \in DOMAIN t.items |-> Numbers(t.items[j])]
    <2>1. r = s
      <3>1. r = [j \in 1 .. m |-> Numbers(t.items[j])]
        BY <1>1
      <3>2. \A j \in 1 .. m : cheap(j) = Numbers(t.items[j])
        BY <1>6, <1>7
      <3> HIDE DEF r, s, m
      <3> QED BY <1>4, <3>1, <3>2
    <2>2. Numbers(t) = Total(r)
      BY UnitsAre
    <2>3. Cheap(t, b, d, u) = Numbers(t)
      BY <1>7, Zenon DEF Cheap
    <2> HIDE DEF r, s
    <2>4. Total(s) = Cheap(t, b, d, u)
      BY <2>1, <2>2, <2>3
    <2> QED BY <1>5, <2>4 DEF s, m, cheap
  <1>8. CASE ~u /\ b /\ d = 0
    <2>1. Shares(t) = s
      <3> DEFINE share(j) == IF IsProof(t, j) THEN Numbers(t.items[j]) ELSE 0
      <3>1. Shares(t) = [j \in 1 .. m |-> share(j)]
        BY <1>1 DEF Shares
      <3>2. \A j \in 1 .. m : cheap(j) = share(j)
        BY <1>6, <1>8
      <3> HIDE DEF share, s, m
      <3> QED BY <1>4, <3>1, <3>2
    <2>2. ProofNumbers(t) = Total(Shares(t))
      BY SharesTyped
    <2>3. Cheap(t, b, d, u) = ProofNumbers(t)
      BY <1>8, Zenon DEF Cheap
    <2> HIDE DEF s
    <2>4. Total(s) = Cheap(t, b, d, u)
      BY <2>1, <2>2, <2>3
    <2> QED BY <1>5, <2>4 DEF s, m, cheap
  <1>9. CASE ~u /\ ~(b /\ d = 0)
    <2>1. \A j \in 1 .. Len(s) : s[j] = 0
      <3>1. \A j \in 1 .. m : cheap(j) = 0
        BY <1>6, <1>9
      <3> HIDE DEF s, m
      <3> QED BY <1>5, <3>1
    <2>2. Cheap(t, b, d, u) = 0
      BY <1>9, Zenon DEF Cheap
    <2> HIDE DEF s
    <2>3. Total(s) = 0
      BY <1>5, <2>1, TotalNone
    <2> QED BY <1>5, <2>2, <2>3 DEF s, m, cheap
  <1> QED BY <1>7, <1>8, <1>9

LEMMA WeightsTyped ==
  ASSUME NEW t \in Texts
  PROVE  /\ Weights(t) \in Seq(Nat) /\ Len(Weights(t)) = Len(t.items)
         /\ \A j \in 1 .. Len(t.items) : Weights(t)[j] = Units(t.items[j])
         /\ t.kind \in Container => Units(t) = ContainerCost + Total(Weights(t)) /\ Total(Weights(t)) \in Nat
  <1> DEFINE m == Len(t.items)
             s == Weights(t)
  <1>1. DOMAIN t.items = 1 .. m /\ m \in Nat /\ \A j \in 1 .. m : t.items[j] \in Texts
    BY TextFacts
  <1>2. \A j \in 1 .. m : Units(t.items[j]) \in Nat
    BY <1>1, MadeTyped DEF Counted1
  <1>3. s = [j \in 1 .. m |-> Units(t.items[j])]
    BY <1>1 DEF Weights
  <1>4. s \in Seq(Nat) /\ Len(s) = m /\ \A j \in 1 .. m : s[j] = Units(t.items[j])
    <2> HIDE DEF s, m
    <2> QED BY <1>1, <1>2, <1>3
  <1>5. t.kind \in Container => Units(t) = ContainerCost + Total(s)
    BY UnitsAre, Zenon DEF Weights
  <1>6. Total(s) \in Nat
    <2> HIDE DEF s
    <2> QED BY <1>4, TotalTyped
  <1> QED BY <1>4, <1>5, <1>6

\* PastItem an item, from the end of the one before.
LEMMA ItemLeads ==
  ASSUME NEW bytes \in Seq(JsonByte), NEW i \in Nat \ {0}, NEW t \in Texts, t.kind \in Container,
         Holds(bytes, i, t.bytes), NEW f, Written(t, f), NEW j \in 1 .. Len(t.items), NEW x, x = t.items[j],
         NEW b \in BOOLEAN, NEW p \in Int, NEW n \in Nat, NEW d \in Nat, NEW u \in BOOLEAN, u => d > 0,
         Passes(bytes, x), NEW c, c = ItemCheap(t, b, d, u, j)
  PROVE  Leads(bytes, Mark(b, PastItem(i, f, j - 1), p, n, d + 1, UnderAt(t, b, d, u, j - 1)),
                      Mark(b, PastItem(i, f, j), p + Units(x) - c, n + c, d + 1, UnderAt(t, b, d, u, j)))
  <1> DEFINE h == j - 1
             q == PastItem(i, f, h)
             g == t.gaps[j]
             a == q + Len(g)
             e == PastItem(i, f, j)
             v == UnderAt(t, b, d, u, h)
             D == d + 1
  <1>1. h \in 0 .. Len(t.items) /\ j \in 0 .. Len(t.items) /\ j \in 1 .. Len(t.items) + 1
    BY ItemsTyped
  <1>2. g \in Seq(JsonByte) /\ Len(g) \in Nat /\ x \in Texts /\ x.bytes \in Seq(JsonByte)
    BY <1>1, ItemsTyped
  <1>3. q \in Nat \ {0} /\ e \in Nat \ {0}
    BY <1>1, ItemsAt
  <1>4. Holds(bytes, q, g) /\ Holds(bytes, a, x.bytes) /\ e = a + Len(x.bytes)
    BY ItemsAt
  <1>5. \A k \in 1 .. Len(g) : g[k] \in Skipped
    BY <1>1, GapSkipped
  <1>6. v \in BOOLEAN /\ D \in Nat /\ D > 0
    <2>1. v \in BOOLEAN
      BY UnderTyped, Zenon
    <2>2. D \in Nat /\ D > 0
      OBVIOUS
    <2> QED BY <2>1, <2>2
  <1>7. Numbered(b, p, n, D, v)
    BY <1>6 DEF Numbered
  <1>8. Ended(bytes, e)
    BY AfterItem
  <1>9. Flag(bytes, b, e, D, v, x) = UnderAt(t, b, d, u, j) /\ Cheap(x, b, D, v) = c
    BY FlagIs
  <1>10. a \in Nat \ {0}
    <2> DEFINE l == Len(g)
    <2>1. l \in Nat
      BY <1>2
    <2> HIDE DEF l, q
    <2>2. q + l \in Nat \ {0}
      BY <1>3, <2>1
    <2> QED BY <2>2 DEF l
  <1> HIDE DEF h, q, g, e, v, D
  <1>11. Leads(bytes, Mark(b, q, p, n, D, v), Mark(b, a, p, n, D, v))
    BY <1>2, <1>3, <1>4, <1>5, <1>7, GapLeads
  <1> HIDE DEF a
  <1>12. Passed(bytes, b, a, p, n, D, v, x)
    <2>1. Ended(bytes, a + Len(x.bytes))
      BY <1>4, <1>8
    <2> QED BY <1>4, <1>6, <1>10, <2>1 DEF Passes
  <1>13. Leads(bytes, Mark(b, a, p, n, D, v),
                      Mark(b, a + Len(x.bytes), p + Units(x) - Cheap(x, b, D, v), n + Cheap(x, b, D, v), D,
                           Flag(bytes, b, a + Len(x.bytes), D, v, x)))
    BY <1>12, Zenon DEF Passed
  <1>14. Leads(bytes, Mark(b, a, p, n, D, v), Mark(b, e, p + Units(x) - c, n + c, D, UnderAt(t, b, d, u, j)))
    BY <1>4, <1>9, <1>13
  <1>15. Leads(bytes, Mark(b, q, p, n, D, v), Mark(b, e, p + Units(x) - c, n + c, D, UnderAt(t, b, d, u, j)))
    BY <1>11, <1>14, LeadsFacts
  <1> QED BY <1>15 DEF q, e, v, D, h

LEMMA ContainerPasses ==
  ASSUME NEW bytes \in Seq(JsonByte), NEW t \in Texts, t.kind \in Container,
         \A j \in DOMAIN t.items : Passes(bytes, t.items[j])
  PROVE  Passes(bytes, t)
  <1> SUFFICES ASSUME NEW b \in BOOLEAN, NEW i \in Nat \ {0}, NEW p \in Int, NEW n \in Nat, NEW d \in Nat,
                      NEW u \in BOOLEAN, Holds(bytes, i, t.bytes), u => d > 0
               PROVE  Passed(bytes, b, i, p, n, d, u, t)
    BY DEF Passes
  <1> DEFINE m == Len(t.items)
             D == d + 1
             under(j) == UnderAt(t, b, d, u, j)
             r == Cheaps(t, b, d, u)
             w == Weights(t)
             y == p + ContainerCost
  <1>1. PICK f : Written(t, f)
    BY WrittenExists
  <1>2. m \in Nat /\ DOMAIN t.items = 1 .. m
    BY TextFacts
  <1>3. r \in Seq(Nat) /\ Len(r) = m /\ (\A j \in 1 .. m : r[j] = ItemCheap(t, b, d, u, j)) /\ Total(r) = Cheap(t, b, d, u)
    BY CheapTotal, ZenonT(40)
  <1>4. /\ w \in Seq(Nat) /\ Len(w) = m /\ \A j \in 1 .. m : w[j] = Units(t.items[j])
        /\ Units(t) = ContainerCost + Total(w)
    BY WeightsTyped
  <1>5. PICK gr : Adds(gr, r) /\ Total(r) = gr[m]
    BY <1>3, TotalAdds
  <1>6. PICK gw : Adds(gw, w) /\ Total(w) = gw[m]
    BY <1>4, TotalAdds
  <1>7. /\ \A j \in 0 .. m : gr[j] \in Nat
        /\ gr[0] = 0
        /\ \A j \in 1 .. m : gr[j] = gr[j - 1] + r[j]
    BY <1>3, <1>5 DEF Adds
  <1>8. /\ \A j \in 0 .. m : gw[j] \in Nat
        /\ gw[0] = 0
        /\ \A j \in 1 .. m : gw[j] = gw[j - 1] + w[j]
    BY <1>4, <1>6 DEF Adds
  <1>9. y \in Int /\ D \in Nat
    BY BudgetAssumption
  <1> DEFINE at(j) == Mark(b, PastItem(i, f, j), y + gw[j] - gr[j], n + gr[j], D, under(j))
             F == [j \in 0 .. m |-> at(j)]
  <1>10. \A j \in 0 .. m : F[j] = at(j)
    OBVIOUS
  <1>11. ASSUME NEW k \in 0 .. m - 1 PROVE Leads(bytes, F[k], F[k + 1])
    <2> DEFINE j == k + 1
               x == t.items[j]
               c == ItemCheap(t, b, d, u, j)
               p1 == y + gw[k] - gr[k]
               n1 == n + gr[k]
    <2>1. j \in 1 .. m /\ k \in 0 .. m /\ j \in 0 .. m /\ j - 1 = k
      BY <1>2
    <2>2. Passes(bytes, x)
      BY <1>2, <2>1
    <2>3. p1 \in Int /\ n1 \in Nat
      <3>1. gr[k] \in Nat /\ gw[k] \in Nat
        BY <1>7, <1>8, <2>1
      <3> HIDE DEF y
      <3> QED BY <1>9, <3>1
    <2>4. y + gw[j] - gr[j] = p1 + Units(x) - c /\ n + gr[j] = n1 + c
      <3>1. gr[k] \in Nat /\ gw[k] \in Nat
        BY <1>7, <1>8, <2>1
      <3>2. gr[j] = gr[k] + c /\ gw[j] = gw[k] + Units(x)
        <4> HIDE DEF j, m, r, w
        <4> QED BY <1>3, <1>4, <1>7, <1>8, <2>1
      <3>3. c \in Nat /\ Units(x) \in Nat
        <4>1. r[j] \in Nat /\ w[j] \in Nat
          <5> HIDE DEF r, w, j, m
          <5>1. r[j] \in Nat
            <6>1. r \in Seq(Nat) /\ Len(r) = m
              BY <1>3
            <6> QED BY <2>1, <6>1
          <5>2. w[j] \in Nat
            <6>1. w \in Seq(Nat) /\ Len(w) = m
              BY <1>4
            <6> QED BY <2>1, <6>1
          <5> QED BY <5>1, <5>2
        <4> HIDE DEF r, w, j
        <4> QED BY <1>3, <1>4, <2>1, <4>1
      <3> HIDE DEF j, x, c, y
      <3> QED BY <1>9, <3>1, <3>2, <3>3, SMTT(40)
    <2> HIDE DEF j, x, c, p1, n1, at, F, r, w, y, m
    <2>5. Leads(bytes, Mark(b, PastItem(i, f, j - 1), p1, n1, d + 1, UnderAt(t, b, d, u, j - 1)),
                       Mark(b, PastItem(i, f, j), p1 + Units(x) - c, n1 + c, d + 1, UnderAt(t, b, d, u, j)))
      BY <1>1, <2>1, <2>2, <2>3, ItemLeads DEF x, c, m
    <2>6. at(k) = Mark(b, PastItem(i, f, j - 1), p1, n1, d + 1, UnderAt(t, b, d, u, j - 1))
      BY <2>1 DEF at, p1, n1
    <2>7. at(j) = Mark(b, PastItem(i, f, j), p1 + Units(x) - c, n1 + c, d + 1, UnderAt(t, b, d, u, j))
      BY <2>4 DEF at
    <2>8. F[k] = at(k) /\ F[j] = at(j)
      BY <1>10, <2>1
    <2> QED BY <2>5, <2>6, <2>7, <2>8 DEF j
  <1>12. Leads(bytes, at(0), at(m))
    <2>1. F[0] = at(0) /\ F[m] = at(m)
      BY <1>2
    <2> HIDE DEF F, at, m
    <2>2. Leads(bytes, F[0], F[m])
      BY <1>2, <1>11, ChainLeads
    <2> QED BY <2>1, <2>2
  <1>13. /\ under(0) = u /\ under(m) = u
         /\ \A v \in BOOLEAN : Closed(v, d + 1) = (v /\ d > 1)
    BY UnderFacts, SMTT(40)
  <1> DEFINE q == PastItem(i, f, m)
             g == t.gaps[m + 1]
             last == q + Len(g)
  <1>14. /\ ByteAt(bytes, i) = Opener(t.kind) /\ i <= Len(bytes) /\ PastItem(i, f, 0) = i + 1
         /\ q \in Nat \ {0} /\ Holds(bytes, q, g)
         /\ ByteAt(bytes, last) = Closer(t.kind) /\ last \in Nat \ {0} /\ last <= Len(bytes)
         /\ i + Len(t.bytes) = last + 1
    <2>1. m \in 0 .. m
      BY <1>2
    <2> QED BY <1>1, <2>1, ItemsAt
  <1>15. Leads(bytes, Mark(b, i, p, n, d, u), at(0))
    <2>1. Opener(t.kind) \in Openers
      BY DEF Opener, Openers
    <2>2. Numbered(b, p, n, d, u)
      BY DEF Numbered
    <2>3. at(0) = Mark(b, i + 1, p + ContainerCost, n, d + 1, u)
      <3>1. y + gw[0] - gr[0] = y /\ n + gr[0] = n
        <4> HIDE DEF y
        <4> QED BY <1>7, <1>8, <1>9
      <3> HIDE DEF under
      <3>2. at(0) = Mark(b, PastItem(i, f, 0), y + gw[0] - gr[0], n + gr[0], D, under(0))
        BY Zenon
      <3> HIDE DEF at, y, D
      <3> QED BY <1>13, <1>14, <3>1, <3>2 DEF y, D
    <2> HIDE DEF at
    <2> QED BY <1>14, <2>1, <2>2, <2>3, OpenLeads
  <1> DEFINE c == Cheap(t, b, d, u)
             p2 == p + Units(t) - c
             n2 == n + c
             z == i + Len(t.bytes)
  <1>16. at(m) = Mark(b, q, p2, n2, D, u)
    <2>1. y + gw[m] - gr[m] = p2 /\ n + gr[m] = n2
      <3>1. gr[m] = c /\ Units(t) = ContainerCost + gw[m] /\ gr[m] \in Nat /\ gw[m] \in Nat
        <4>1. m \in 0 .. m
          BY <1>2
        <4> HIDE DEF m, r, w, c
        <4> QED BY <1>3, <1>4, <1>5, <1>6, <1>7, <1>8, <4>1 DEF c
      <3> HIDE DEF c, m
      <3> QED BY <3>1, BudgetAssumption
    <2> HIDE DEF under
    <2>2. at(m) = Mark(b, PastItem(i, f, m), y + gw[m] - gr[m], n + gr[m], D, under(m))
      BY Zenon
    <2> HIDE DEF at, y, D, p2, n2, m
    <2> QED BY <1>13, <2>1, <2>2 DEF q
  <1>17. p2 \in Int /\ n2 \in Nat
    <2>1. Units(t) \in Nat /\ c \in Nat
      BY MadeTyped, CheapTyped DEF Counted1
    <2> HIDE DEF c
    <2> QED BY <2>1
  <1>18. g \in Seq(JsonByte) /\ \A k \in 1 .. Len(g) : g[k] \in Skipped
    <2>1. m + 1 \in 1 .. m + 1
      BY <1>2
    <2> QED BY <2>1, ItemsTyped, GapSkipped
  <1> HIDE DEF q, g, p2, n2, m
  <1>19. Leads(bytes, Mark(b, q, p2, n2, D, u), Mark(b, last, p2, n2, D, u))
    <2>1. Numbered(b, p2, n2, D, u)
      BY <1>9, <1>17 DEF Numbered
    <2> HIDE DEF D
    <2> QED BY <1>14, <1>18, <2>1, GapLeads
  <1>20. Leads(bytes, Mark(b, last, p2, n2, D, u), Mark(b, last + 1, p2, n2, d, Closed(u, D)))
    <2>1. Closer(t.kind) \in Closers
      BY DEF Closer, Closers
    <2> HIDE DEF last
    <2> QED BY <1>14, <2>1, CloseLeads
  <1>21. Closed(u, D) = Flag(bytes, b, z, d, u, t)
    <2>1. t.kind # "string" /\ t.kind \in Container
      BY DEF Container
    <2>2. Closed(u, D) = (u /\ d > 1)
      BY <1>13
    <2>3. Flag(bytes, b, z, d, u, t) = (u /\ d > 1)
      BY <2>1, Zenon DEF Flag
    <2> DEFINE flag == Flag(bytes, b, z, d, u, t)
               above == (u /\ d > 1)
               closed == Closed(u, D)
    <2>4. closed = above /\ flag = above
      BY <2>2, <2>3
    <2> HIDE DEF flag, above, closed
    <2>5. closed = flag
      BY <2>4
    <2> QED BY <2>5 DEF flag, closed
  <1> HIDE DEF at, last, D, z
  <1>22. z = last + 1
    BY <1>14 DEF z
  <1>23. Leads(bytes, Mark(b, i, p, n, d, u), Mark(b, z, p2, n2, d, Flag(bytes, b, z, d, u, t)))
    <2>1. Leads(bytes, Mark(b, i, p, n, d, u), Mark(b, q, p2, n2, D, u))
      BY <1>12, <1>15, <1>16, LeadsFacts
    <2>2. Leads(bytes, Mark(b, i, p, n, d, u), Mark(b, last, p2, n2, D, u))
      BY <1>19, <2>1, LeadsFacts
    <2>3. Leads(bytes, Mark(b, i, p, n, d, u), Mark(b, last + 1, p2, n2, d, Closed(u, D)))
      BY <1>20, <2>2, LeadsFacts
    <2> QED BY <1>21, <1>22, <2>3
  <1> QED BY <1>23, Zenon DEF Passed, z, p2, n2

LEMMA AllPass ==
  ASSUME NEW bytes \in Seq(JsonByte)
  PROVE  \A t \in Texts : Passes(bytes, t)
  <1> DEFINE Good == {k \in Nat : \A t \in Within(k) : Passes(bytes, t)}
  <1>1. 0 \in Good
    BY NothingShorter
  <1>2. ASSUME NEW k \in Nat, k \in Good PROVE k + 1 \in Good
    <2> SUFFICES ASSUME NEW t \in Within(k + 1) PROVE Passes(bytes, t)
      OBVIOUS
    <2>1. t \in Texts /\ Len(t.bytes) <= k + 1 /\ t.kind \in Kinds
      BY TextFacts DEF Within
    <2>2. CASE t.kind \in Container
      <3>1. ASSUME NEW j \in DOMAIN t.items PROVE Passes(bytes, t.items[j])
        <4>1. t.items[j] \in Texts /\ Len(t.items[j].bytes) < Len(t.bytes)
          BY <2>1, <2>2, ItemsShorter
        <4>2. Len(t.items[j].bytes) \in Nat /\ Len(t.bytes) \in Nat
          BY <2>1, <4>1, TextFacts, JsonCat
        <4>3. t.items[j] \in Within(k)
          BY <2>1, <4>1, <4>2 DEF Within
        <4> QED BY <1>2, <4>3
      <3> QED BY <2>1, <2>2, <3>1, ContainerPasses
    <2>3. CASE t.kind = "string"
      BY <2>1, <2>3, StringPasses
    <2>4. CASE t.kind \in {"number", "word"}
      BY <2>1, <2>4, ScalarPasses
    <2> QED BY <2>1, <2>2, <2>3, <2>4 DEF Kinds
  <1> HIDE DEF Good
  <1>3. Nat \subseteq Good
    BY <1>1, <1>2, Climb
  <1> TAKE t \in Texts
  <1>4. Len(t.bytes) \in Nat /\ t \in Within(Len(t.bytes))
    <2>1. Len(t.bytes) \in Nat
      BY TextFacts, JsonCat
    <2> QED BY <2>1 DEF Within
  <1> QED BY <1>3, <1>4 DEF Good

-----------------------------------------------------------------------------
(* The whole count *)

LEMMA ScalarEnds ==
  ASSUME NEW bytes \in Seq(JsonByte), NEW i \in Nat \ {0}, i <= Len(bytes)
  PROVE  AfterScalar(bytes, i) \in Nat \ {0}
  <1> DEFINE m == Len(bytes)
             T == {j \in Nat : i + 1 <= j /\ j <= m + 1 /\ ByteAt(bytes, j) \notin Scalar}
  <1>1. m \in Nat
    OBVIOUS
  <1>2. m + 1 \in T
    <2>1. m + 1 \notin DOMAIN bytes
      OBVIOUS
    <2>2. ByteAt(bytes, m + 1) \notin Scalar
      BY <2>1, BytesApart DEF ByteAt
    <2> HIDE DEF m
    <2> QED BY <1>1, <2>2 DEF m
  <1>3. PICK j \in T : \A k \in T : j <= k
    BY <1>2, Least
  <1>4. j \in Nat /\ i < j /\ j <= m + 1 /\ ByteAt(bytes, j) \notin Scalar
    BY <1>1, <1>3
  <1>5. \A k \in i + 1 .. j - 1 : ByteAt(bytes, k) \in Scalar
    <2> SUFFICES ASSUME NEW k \in i + 1 .. j - 1, ByteAt(bytes, k) \notin Scalar PROVE FALSE
      OBVIOUS
    <2> HIDE DEF m
    <2>1. k \in Nat /\ i + 1 <= k /\ k <= m + 1 /\ k < j
      BY <1>1, <1>4
    <2>2. k \in T
      BY <2>1
    <2> HIDE DEF T
    <2>3. j <= k
      BY <1>3, <2>2
    <2> QED BY <1>4, <2>1, <2>3
  <1>6. AfterScalar(bytes, i) = j
    BY <1>1, <1>4, <1>5, EndsOf
  <1> QED BY <1>4, <1>6

UnderWay == {"between", "string"}

LEMMA RecTyped ==
  ASSUME NEW at \in UnderWay, NEW b \in BOOLEAN, NEW i \in Nat \ {0}, NEW w \in Nat, NEW d \in Nat,
         NEW c \in Nat, NEW u \in BOOLEAN, NEW s \in Nat
  PROVE  /\ Rec(at, b, i, w, d, c, u, s) \in Count /\ Rec(at, b, i, w, d, c, u, s).at = at
         /\ Rec(at, b, i, w, d, c, u, s).underBudget = b /\ Rec(at, b, i, w, d, c, u, s).next = i
         /\ Rec(at, b, i, w, d, c, u, s).units = w
  BY DEF Rec, Count, At, UnderWay

LEMMA CountIs ==
  ASSUME NEW x \in Count
  PROVE  /\ x = Rec(x.at, x.underBudget, x.next, x.units, x.depth, x.cheap, x.under, x.start)
         /\ x.at \in At /\ x.underBudget \in BOOLEAN /\ x.next \in Nat /\ x.units \in Nat /\ x.depth \in Nat
         /\ x.cheap \in Nat /\ x.under \in BOOLEAN /\ x.start \in Nat
  BY DEF Rec, Count

LEMMA StepPlain ==
  ASSUME NEW bytes, NEW b, NEW i, NEW w, NEW d, NEW c, NEW u, NEW s,
         ByteAt(bytes, i) \in {Backslash, P}
  PROVE  NextCount(bytes, Rec("between", b, i, w, d, c, u, s)) =
           Rec("between", b, i + 1, w, d, c, u, s)
  <1> DEFINE x == Rec("between", b, i, w, d, c, u, s)
  <1>1. /\ x.at = "between" /\ x.underBudget = b /\ x.next = i /\ x.units = w /\ x.depth = d
        /\ x.cheap = c /\ x.under = u /\ x.start = s
    BY DEF Rec
  <1>2. \A e \in {Backslash, P} :
          e # Quote /\ e \notin {"[", "{"} /\ e \notin {"]", "}"} /\ e \notin Numeric /\ e \notin Alpha
    BY DEF Backslash, P, Quote, Numeric, Alpha
  <1> HIDE DEF x
  <1>3. NextCount(bytes, x) = Rec("between", b, i + 1, w, d, c, u, s)
    BY <1>1, <1>2 DEF NextCount
  <1> QED BY <1>3 DEF x

\* What a byte adds: never less than nothing, and to no other budget.
Onward(x, y) ==
  y \in Count /\ y.at \in UnderWay /\ y.next > 0 /\ y.units >= x.units /\ y.underBudget = x.underBudget

LEMMA OnwardIs ==
  ASSUME NEW x, NEW b \in BOOLEAN, NEW w \in Nat, x.underBudget = b, x.units = w,
         NEW at \in UnderWay, NEW i \in Nat \ {0}, NEW v \in Nat, v >= w, NEW d \in Nat, NEW c \in Nat,
         NEW u \in BOOLEAN, NEW s \in Nat
  PROVE  Onward(x, Rec(at, b, i, v, d, c, u, s))
  <1>1. /\ Rec(at, b, i, v, d, c, u, s) \in Count /\ Rec(at, b, i, v, d, c, u, s).at = at
        /\ Rec(at, b, i, v, d, c, u, s).underBudget = b /\ Rec(at, b, i, v, d, c, u, s).next = i
        /\ Rec(at, b, i, v, d, c, u, s).units = v
    BY RecTyped
  <1> QED BY <1>1 DEF Onward

LEMMA BytesAre ==
  \A e \in JsonByte :
    e = Quote \/ e \in Openers \/ e \in Closers \/ e \in Numeric \/ e \in Alpha \/ e \in Skipped \/ e \in {Backslash, P}
  BY DEF JsonByte, Scalar, Openers, Closers, Skipped

LEMMA GoesOnward ==
  ASSUME NEW bytes \in Seq(JsonByte), NEW x \in Count, x.at \in UnderWay, x.next > 0, x.next <= Len(bytes)
  PROVE  Onward(x, NextCount(bytes, x))
  <1> DEFINE b == x.underBudget
             i == x.next
             w == x.units
             d == x.depth
             c == x.cheap
             u == x.under
             s == x.start
             here == ByteAt(bytes, i)
  <1>1. /\ x = Rec(x.at, b, i, w, d, c, u, s)
        /\ b \in BOOLEAN /\ i \in Nat /\ w \in Nat /\ d \in Nat /\ c \in Nat /\ u \in BOOLEAN /\ s \in Nat
    BY CountIs
  <1>2. i \in 1 .. Len(bytes) /\ i \in Nat \ {0} /\ Len(bytes) \in Nat
    BY <1>1
  <1>3. here \in JsonByte
    BY <1>2, ByteIs
  <1>4. AfterScalar(bytes, i) \in Nat \ {0}
    BY <1>2, ScalarEnds
  <1>6. x.underBudget = b /\ x.units = w /\ "between" \in UnderWay /\ "string" \in UnderWay
    BY DEF UnderWay
  <1> DEFINE less == IF d = 0 THEN 0 ELSE d - 1
  <1>7. less \in Nat
    BY <1>1
  <1> HIDE DEF b, i, w, d, c, u, s, here, less
  <1> DEFINE next == i + 1
             over == i + 2
             more == w + 1
             much == w + ContainerCost
             deep == d + 1
             zero == 0
  <1>5. next \in Nat \ {0} /\ over \in Nat \ {0} /\ next \in Nat /\ more \in Nat /\ more >= w /\ w >= w
        /\ deep \in Nat /\ zero \in Nat /\ much \in Nat /\ much >= w /\ c + 1 \in Nat
    BY <1>1, <1>2, BudgetAssumption
  <1> HIDE DEF next, over, more, much, deep, zero
  <1>8. CASE x.at = "string"
    <2>1. x = Rec("string", b, i, w, d, c, u, s)
      BY <1>1, <1>8
    <2>2. CASE here = Quote
      <3> DEFINE v == UnderName(bytes, b, i, d, u, s)
      <3>1. NextCount(bytes, x) = Rec("between", b, next, w, d, c, v, zero)
        BY <2>1, <2>2, StepUnquotes DEF here, next, over, more, much, deep, zero
      <3>2. v \in BOOLEAN
        BY <1>1 DEF UnderName
      <3> HIDE DEF v
      <3> QED BY <1>1, <1>5, <1>6, <3>1, <3>2, OnwardIs
    <2>3. CASE here = Backslash
      <3>1. NextCount(bytes, x) = Rec("string", b, over, w, d, c, u, s)
        BY <2>1, <2>3, StepEscapes DEF here, next, over, more, much, deep, zero
      <3> QED BY <1>1, <1>5, <1>6, <3>1, OnwardIs
    <2>4. CASE here # Quote /\ here # Backslash
      <3>1. NextCount(bytes, x) = Rec("string", b, next, w, d, c, u, s)
        BY <2>1, <2>4, StepGoesOn DEF here, next, over, more, much, deep, zero
      <3> QED BY <1>1, <1>5, <1>6, <3>1, OnwardIs
    <2> QED BY <2>2, <2>3, <2>4
  <1>9. CASE x.at = "between"
    <2>1. x = Rec("between", b, i, w, d, c, u, s)
      BY <1>1, <1>9
    <2>2. CASE here = Quote
      <3>1. NextCount(bytes, x) = Rec("string", b, next, more, d, c, u, next)
        BY <2>1, <2>2, StepQuote DEF here, next, over, more, much, deep, zero
      <3> QED BY <1>1, <1>5, <1>6, <3>1, OnwardIs
    <2>3. CASE here \in Openers
      <3>1. NextCount(bytes, x) = Rec("between", b, next, much, deep, c, u, s)
        BY <2>1, <2>3, StepOpens DEF here, next, over, more, much, deep, zero
      <3> QED BY <1>1, <1>5, <1>6, <3>1, OnwardIs
    <2>4. CASE here \in Closers
      <3> DEFINE v == Closed(u, d)
      <3>1. NextCount(bytes, x) = Rec("between", b, next, w, less, c, v, s)
        BY <2>1, <2>4, StepCloses DEF here, next, over, more, much, deep, zero, less
      <3>2. v \in BOOLEAN
        BY <1>1 DEF Closed
      <3> HIDE DEF v
      <3> QED BY <1>1, <1>5, <1>6, <1>7, <3>1, <3>2, OnwardIs
    <2>5. CASE here \in Numeric /\ ~u
      <3>1. NextCount(bytes, x) = Rec("between", b, AfterScalar(bytes, i), more, d, c, u, s)
        BY <2>1, <2>5, StepNumber DEF here, next, over, more, much, deep, zero
      <3> QED BY <1>1, <1>4, <1>5, <1>6, <3>1, OnwardIs
    <2>6. CASE here \in Numeric /\ u
      <3>1. PICK v, e : Costs(w, c, u, v, e) /\ v \in Nat /\ e \in Nat /\ v >= w
        <4>1. CASE c + 1 = NumbersPerUnit
          <5>1. Costs(w, c, u, w + 1, 0)
            BY <2>6, <4>1 DEF Costs
          <5>2. w + 1 \in Nat /\ 0 \in Nat /\ w + 1 >= w
            BY <1>1
          <5> QED BY <5>1, <5>2, Zenon
        <4>2. CASE c + 1 # NumbersPerUnit
          <5>1. Costs(w, c, u, w, c + 1)
            BY <2>6, <4>2 DEF Costs
          <5> QED BY <1>1, <1>5, <5>1, Zenon
        <4> QED BY <4>1, <4>2
      <3>2. NextCount(bytes, Rec("between", b, i, w, d, c, u, s)) = Rec("between", b, AfterScalar(bytes, i), v, d, e, u, s)
        <4>1. ByteAt(bytes, i) \in Numeric /\ Costs(w, c, u, v, e)
          BY <2>6, <3>1 DEF here
        <4> QED BY <4>1, StepCheap
      <3>3. Onward(x, Rec("between", b, AfterScalar(bytes, i), v, d, e, u, s))
        BY <1>1, <1>4, <1>6, <3>1, OnwardIs, Zenon
      <3> QED BY <2>1, <3>2, <3>3, Zenon
    <2>7. CASE here \in Alpha
      <3>1. NextCount(bytes, x) = Rec("between", b, AfterScalar(bytes, i), more, d, c, u, s)
        BY <2>1, <2>7, StepWord DEF here, next, over, more, much, deep, zero
      <3> QED BY <1>1, <1>4, <1>5, <1>6, <3>1, OnwardIs
    <2>8. CASE here \in Skipped \/ here \in {Backslash, P}
      <3>1. NextCount(bytes, x) = Rec("between", b, next, w, d, c, u, s)
        BY <2>1, <2>8, StepSkips, StepPlain DEF here, next, over, more, much, deep, zero
      <3> QED BY <1>1, <1>5, <1>6, <3>1, OnwardIs
    <2>9. u \/ ~u
      OBVIOUS
    <2> QED BY <1>3, <2>2, <2>3, <2>4, <2>5, <2>6, <2>7, <2>8, BytesAre
  <1> QED BY <1>8, <1>9 DEF UnderWay

\* However far a count goes, it never counts less.
LEMMA LeadsOnward ==
  ASSUME NEW bytes \in Seq(JsonByte), NEW x \in Count, x.at \in UnderWay, x.next > 0, NEW y, Leads(bytes, x, y)
  PROVE  y.units >= x.units
  <1> DEFINE S == {z \in Count : z.at \in UnderWay /\ z.next > 0 /\ z.units >= x.units}
  <1>1. x \in S
    BY CountIs
  <1>2. Follows(bytes, S)
    <2> SUFFICES ASSUME NEW z \in S, z.next <= Len(bytes) PROVE NextCount(bytes, z) \in S
      BY Zenon DEF Follows
    <2>1. z \in Count /\ z.at \in UnderWay /\ z.next > 0 /\ z.units >= x.units
      OBVIOUS
    <2>2. Onward(z, NextCount(bytes, z))
      BY <2>1, GoesOnward
    <2> DEFINE a == NextCount(bytes, z)
    <2> HIDE DEF a
    <2>3. a \in Count /\ a.at \in UnderWay /\ a.next > 0 /\ a.units >= z.units
      BY <2>2 DEF Onward, a
    <2>4. x.units \in Nat /\ z.units \in Nat /\ a.units \in Nat
      BY <2>1, <2>3, CountIs
    <2>5. a \in S
      BY <2>1, <2>3, <2>4
    <2> QED BY <2>5 DEF a
  <1>3. y \in S
    BY <1>1, <1>2, Zenon DEF Leads
  <1> QED BY <1>3

\* Where the count of a text ends.
CountOf(t, b) ==
  LET c == Cheap(t, b, 0, FALSE)
  IN Mark(b, Len(t.bytes) + 1, Units(t) - c, c, 0, Flag(t.bytes, b, Len(t.bytes) + 1, 0, FALSE, t))

Begun(b) == [NoCount EXCEPT !.at = "between", !.underBudget = b]

LEMMA BegunIs ==
  ASSUME NEW b, NEW x \in Count, NEW y, y = [x EXCEPT !.at = "between", !.underBudget = b]
  PROVE  y = Rec("between", b, x.next, x.units, x.depth, x.cheap, x.under, x.start)
  BY DEF Rec, Count

LEMMA CountOfIs ==
  ASSUME NEW t \in Texts, NEW b \in BOOLEAN
  PROVE  /\ CountOf(t, b).next = Len(t.bytes) + 1 /\ CountOf(t, b).units = Cost(t, b)
         /\ Cost(t, b) \in Int
  <1> DEFINE c == Cheap(t, b, 0, FALSE)
             e == Len(t.bytes) + 1
             u == Flag(t.bytes, b, e, 0, FALSE, t)
  <1>1. CountOf(t, b) = Rec("between", b, e, Units(t) - c + c \div NumbersPerUnit, 0, c % NumbersPerUnit, u, 0)
    BY Zenon DEF CountOf, Mark
  <1>2. c = IF b THEN ProofNumbers(t) ELSE 0
    BY DEF Cheap
  <1>3. Units(t) \in Nat /\ ProofNumbers(t) \in Nat
    BY MadeTyped, SharesTyped DEF Counted1
  <1> HIDE DEF c, e, u
  <1>4. Units(t) - c + c \div NumbersPerUnit = Cost(t, b) /\ Cost(t, b) \in Int
    <2>1. CASE b
      <3>1. c = ProofNumbers(t)
        BY <1>2, <2>1
      <3>2. ProofNumbers(t) \div NumbersPerUnit \in Nat
        BY <1>3, BudgetAssumption, DivisionNext
      <3>3. Cost(t, b) = Units(t) - ProofNumbers(t) + ProofNumbers(t) \div NumbersPerUnit
        BY <2>1, Zenon DEF Cost
      <3> DEFINE q == ProofNumbers(t) \div NumbersPerUnit
      <3> HIDE DEF q
      <3>4. Units(t) - ProofNumbers(t) + q \in Int
        BY <1>3, <3>2 DEF q
      <3> QED BY <3>1, <3>3, <3>4 DEF q
    <2>2. CASE ~b
      <3>1. c = 0 /\ c \div NumbersPerUnit = 0
        BY <1>2, <2>2, BudgetAssumption
      <3>2. Cost(t, b) = Units(t)
        BY <2>2, Zenon DEF Cost
      <3> QED BY <1>3, <3>1, <3>2
    <2> QED BY <2>1, <2>2
  <1> DEFINE w == Units(t) - c + c \div NumbersPerUnit
             r == c % NumbersPerUnit
  <1> HIDE DEF w, r
  <1>5. CountOf(t, b).next = e /\ CountOf(t, b).units = w
    <2>1. CountOf(t, b) = Rec("between", b, e, w, 0, r, u, 0)
      BY <1>1 DEF w, r
    <2> QED BY <2>1 DEF Rec
  <1> QED BY <1>4, <1>5 DEF w, e

\* The count of a text comes to what decoding it costs.
LEMMA CountLeads ==
  ASSUME NEW t \in Texts, NEW b \in BOOLEAN
  PROVE  Leads(t.bytes, Begun(b), CountOf(t, b))
  <1> DEFINE bytes == t.bytes
             m == Len(bytes)
             c == Cheap(t, b, 0, FALSE)
             u == Flag(bytes, b, m + 1, 0, FALSE, t)
  <1>1. bytes \in Seq(JsonByte) /\ m \in Nat
    BY TextFacts
  <1>2. Holds(bytes, 1, bytes)
    <2> HIDE DEF bytes
    <2>1. 1 + Len(bytes) <= Len(bytes) + 1
      BY <1>1
    <2>2. ASSUME NEW k \in 1 .. Len(bytes) PROVE ByteAt(bytes, 1 + k - 1) = bytes[k]
      <3>1. 1 + k - 1 = k
        OBVIOUS
      <3> QED BY <1>1, <3>1, ByteIs
    <2> QED BY <2>1, <2>2 DEF Holds
  <1>3. Ended(bytes, 1 + m)
    <2> HIDE DEF bytes
    <2>1. 1 + m \notin DOMAIN bytes
      BY <1>1
    <2> QED BY <2>1, BytesApart DEF ByteAt, Ended
  <1>4. Passes(bytes, t)
    BY <1>1, AllPass
  <1>5. Passed(bytes, b, 1, 0, 0, 0, FALSE, t)
    <2>1. 1 \in Nat \ {0} /\ 0 \in Int /\ 0 \in Nat /\ FALSE \in BOOLEAN /\ (FALSE => 0 > 0)
      OBVIOUS
    <2> QED BY <1>2, <1>3, <1>4, <2>1, Zenon DEF Passes
  <1>6. Leads(bytes, Mark(b, 1, 0, 0, 0, FALSE),
                     Mark(b, 1 + m, 0 + Units(t) - c, 0 + c, 0, Flag(bytes, b, 1 + m, 0, FALSE, t)))
    BY <1>5, Zenon DEF Passed
  <1>7. Units(t) \in Nat /\ c \in Nat
    BY MadeTyped, CheapTyped DEF Counted1
  <1> HIDE DEF bytes, c, m
  <1>8. 1 + m = m + 1 /\ 0 + Units(t) - c = Units(t) - c /\ 0 + c = c
    BY <1>1, <1>7
  <1>9. Mark(b, 1 + m, 0 + Units(t) - c, 0 + c, 0, Flag(bytes, b, 1 + m, 0, FALSE, t)) = CountOf(t, b)
    <2>1. CountOf(t, b) = Mark(b, m + 1, Units(t) - c, c, 0, Flag(bytes, b, m + 1, 0, FALSE, t))
      BY Zenon DEF CountOf, c, m, bytes
    <2> QED BY <1>8, <2>1
  <1>10. Mark(b, 1, 0, 0, 0, FALSE) = Begun(b)
    <2> DEFINE no == FALSE
               w == 0 + 0 \div NumbersPerUnit
               r == 0 % NumbersPerUnit
    <2>1. w = 0 /\ r = 0
      BY BudgetAssumption
    <2>2. Mark(b, 1, 0, 0, 0, no) = Rec("between", b, 1, w, 0, r, no, 0)
      BY Zenon DEF Mark
    <2>3. Begun(b) = Rec("between", b, 1, 0, 0, 0, no, 0)
      <3>1. /\ NoCount \in Count /\ NoCount.next = 1 /\ NoCount.units = 0 /\ NoCount.depth = 0
            /\ NoCount.cheap = 0 /\ NoCount.under = no /\ NoCount.start = 0
        BY DEF NoCount, Count, At
      <3>2. Begun(b) = Rec("between", b, NoCount.next, NoCount.units, NoCount.depth, NoCount.cheap, NoCount.under,
                           NoCount.start)
        BY <3>1, BegunIs, Zenon DEF Begun
      <3> HIDE DEF no
      <3> QED BY <3>1, <3>2
    <2> HIDE DEF no, w, r
    <2>4. Mark(b, 1, 0, 0, 0, no) = Begun(b)
      BY <2>1, <2>2, <2>3
    <2> QED BY <2>4, Zenon DEF no
  <1> QED BY <1>6, <1>9, <1>10 DEF bytes

-----------------------------------------------------------------------------
(* Every step of a count is that of its next byte *)

StepOf(bytes, x, y) == x.at \in UnderWay /\ x.next <= Len(bytes) /\ x.units <= MaxUnits /\ y = NextCount(bytes, x)

CountFields ==
  /\ count \in Count
  /\ count.at \in UnderWay => body \in Texts /\ count.next > 0

LEMMA TokenSteps ==
  ASSUME CountFields, StringBegins \/ Opens \/ Closes \/ CountsWord \/ Skips
  PROVE  StepOf(body.bytes, count, count') /\ UNCHANGED body
  <1> DEFINE b == count.underBudget
             i == count.next
             w == count.units
             d == count.depth
             c == count.cheap
             u == count.under
             s == count.start
             bytes == body.bytes
  <1>1. count = Rec(count.at, b, i, w, d, c, u, s)
    BY CountIs DEF CountFields
  <1>2. /\ count.at = "between" /\ i <= Len(bytes) /\ w <= MaxUnits /\ UNCHANGED body /\ count.at \in UnderWay
    BY DEF StringBegins, Opens, Closes, CountsWord, Skips, Counts, Counting, UnderWay
  <1>3. count' = NextCount(bytes, count)
    <2>1. CASE StringBegins
      <3>1. ByteAt(bytes, i) = Quote
        BY <2>1, Zenon DEF StringBegins, Here
      <3>2. NextCount(bytes, count) = Rec("string", b, i + 1, w + 1, d, c, u, i + 1)
        <4> HIDE DEF b, i, w, d, c, u, s, bytes
        <4> QED BY <1>1, <1>2, <3>1, StepQuote
      <3>3. count' = Rec("string", b, i + 1, w + 1, d, c, u, i + 1)
        BY <2>1 DEF StringBegins, Counts, CountFields, Count, Rec
      <3> QED BY <3>2, <3>3
    <2>2. CASE Opens
      <3>1. ByteAt(bytes, i) \in Openers
        BY <2>2, Zenon DEF Opens, Here, Openers
      <3>2. NextCount(bytes, count) = Rec("between", b, i + 1, w + ContainerCost, d + 1, c, u, s)
        <4> HIDE DEF b, i, w, d, c, u, s, bytes
        <4> QED BY <1>1, <1>2, <3>1, StepOpens
      <3>3. count' = Rec("between", b, i + 1, w + ContainerCost, d + 1, c, u, s)
        <4>1. count' = [count EXCEPT !.units = @ + ContainerCost, !.depth = @ + 1, !.next = @ + 1]
          BY <2>2, Zenon DEF Opens, Counts
        <4> QED BY <1>2, <4>1 DEF CountFields, Count, Rec
      <3> QED BY <3>2, <3>3
    <2>3. CASE Closes
      <3>1. ByteAt(bytes, i) \in Closers
        BY <2>3, Zenon DEF Closes, Here, Closers
      <3> DEFINE less == IF d = 0 THEN 0 ELSE d - 1
      <3>2. NextCount(bytes, count) = Rec("between", b, i + 1, w, less, c, Closed(u, d), s)
        <4> HIDE DEF b, i, w, d, c, u, s, bytes
        <4> QED BY <1>1, <1>2, <3>1, StepCloses
      <3>3. count' = Rec("between", b, i + 1, w, less, c, Closed(u, d), s)
        <4>1. count' = [count EXCEPT !.depth = IF @ = 0 THEN 0 ELSE @ - 1, !.under = @ /\ count.depth > 2,
                                     !.next = @ + 1]
          BY <2>3, Zenon DEF Closes, Counts
        <4> QED BY <1>2, <4>1 DEF CountFields, Count, Rec, Closed
      <3> QED BY <3>2, <3>3
    <2>4. CASE CountsWord
      <3>1. ByteAt(bytes, i) \in Alpha
        BY <2>4, Zenon DEF CountsWord, Here
      <3>2. NextCount(bytes, count) = Rec("between", b, AfterScalar(bytes, i), w + 1, d, c, u, s)
        <4> HIDE DEF b, i, w, d, c, u, s, bytes
        <4> QED BY <1>1, <1>2, <3>1, StepWord
      <3>3. count' = Rec("between", b, AfterScalar(bytes, i), w + 1, d, c, u, s)
        <4>1. count' = [count EXCEPT !.units = @ + 1, !.next = AfterScalar(body.bytes, @)]
          BY <2>4, Zenon DEF CountsWord, Counts
        <4> QED BY <1>2, <4>1 DEF CountFields, Count, Rec
      <3> QED BY <3>2, <3>3
    <2>5. CASE Skips
      <3>1. ByteAt(bytes, i) \in Skipped
        <4>1. ByteAt(bytes, i) \in {":", ",", " "}
          BY <2>5, Zenon DEF Skips, Here
        <4> QED BY <4>1, Zenon DEF Skipped
      <3>2. NextCount(bytes, count) = Rec("between", b, i + 1, w, d, c, u, s)
        <4> HIDE DEF b, i, w, d, c, u, s, bytes
        <4> QED BY <1>1, <1>2, <3>1, StepSkips
      <3>3. count' = Rec("between", b, i + 1, w, d, c, u, s)
        <4>1. count' = [count EXCEPT !.next = @ + 1]
          BY <2>5, Zenon DEF Skips, Counts
        <4> QED BY <1>2, <4>1 DEF CountFields, Count, Rec
      <3> QED BY <3>2, <3>3
    <2> QED BY <2>1, <2>2, <2>3, <2>4, <2>5
  <1> QED BY <1>2, <1>3 DEF StepOf

LEMMA NumberStep ==
  ASSUME CountFields, CountsNumber
  PROVE  StepOf(body.bytes, count, count') /\ UNCHANGED body
  <1> DEFINE b == count.underBudget
             i == count.next
             w == count.units
             d == count.depth
             c == count.cheap
             u == count.under
             s == count.start
             bytes == body.bytes
             last == c + 1 = NumbersPerUnit
             v == IF last THEN w + 1 ELSE w
             e == IF last THEN 0 ELSE c + 1
             next == AfterScalar(bytes, i)
  <1>1. count = Rec(count.at, b, i, w, d, c, u, s)
    BY CountIs DEF CountFields
  <1>2. /\ count.at = "between" /\ i <= Len(bytes) /\ w <= MaxUnits /\ UNCHANGED body /\ count.at \in UnderWay
        /\ ByteAt(bytes, i) \in Numeric
    BY DEF CountsNumber, Counts, Counting, UnderWay, Here
  <1>3. CASE u
    <2>1. Costs(w, c, u, v, e)
      BY <1>3 DEF Costs
    <2>2. NextCount(bytes, count) = Rec("between", b, next, v, d, e, u, s)
      <3> HIDE DEF b, i, w, d, c, u, s, bytes, v, e
      <3>1. NextCount(bytes, Rec("between", b, i, w, d, c, u, s)) = Rec("between", b, AfterScalar(bytes, i), v, d, e, u, s)
        BY <1>2, <2>1, StepCheap
      <3> QED BY <1>1, <1>2, <3>1
    <2>3. count' = Rec("between", b, next, v, d, e, u, s)
      <3>1. count' = [[count EXCEPT !.next = AfterScalar(body.bytes, @)]
                        EXCEPT !.cheap = IF last THEN 0 ELSE @ + 1, !.units = IF last THEN @ + 1 ELSE @]
        BY <1>3, Zenon DEF CountsNumber, Counts
      <3> QED BY <1>2, <3>1 DEF CountFields, Count, Rec
    <2> QED BY <1>2, <2>2, <2>3 DEF StepOf
  <1>4. CASE ~u
    <2>1. NextCount(bytes, count) = Rec("between", b, next, w + 1, d, c, u, s)
      <3> HIDE DEF b, i, w, d, c, u, s, bytes
      <3>1. NextCount(bytes, Rec("between", b, i, w, d, c, u, s)) = Rec("between", b, AfterScalar(bytes, i), w + 1, d, c, u, s)
        BY <1>2, <1>4, StepNumber
      <3> QED BY <1>1, <1>2, <3>1
    <2>2. count' = Rec("between", b, next, w + 1, d, c, u, s)
      <3>1. count' = [[count EXCEPT !.next = AfterScalar(body.bytes, @)] EXCEPT !.units = @ + 1]
        BY <1>4, Zenon DEF CountsNumber, Counts
      <3> QED BY <1>2, <3>1 DEF CountFields, Count, Rec
    <2> QED BY <1>2, <2>1, <2>2 DEF StepOf
  <1> QED BY <1>3, <1>4

LEMMA StringSteps ==
  ASSUME CountFields, StringGoesOn \/ StringEnds
  PROVE  StepOf(body.bytes, count, count') /\ UNCHANGED body
  <1> DEFINE b == count.underBudget
             i == count.next
             w == count.units
             d == count.depth
             c == count.cheap
             u == count.under
             s == count.start
             bytes == body.bytes
  <1>1. count = Rec(count.at, b, i, w, d, c, u, s)
    BY CountIs DEF CountFields
  <1>2. /\ count.at = "string" /\ i <= Len(bytes) /\ w <= MaxUnits /\ UNCHANGED body /\ count.at \in UnderWay
    BY DEF StringGoesOn, StringEnds, Counts, Counting, UnderWay
  <1>3. count' = NextCount(bytes, count)
    <2>1. CASE StringGoesOn /\ ByteAt(bytes, i) = Backslash
      <3>1. NextCount(bytes, count) = Rec("string", b, i + 2, w, d, c, u, s)
        <4> HIDE DEF b, i, w, d, c, u, s, bytes
        <4> QED BY <1>1, <1>2, <2>1, StepEscapes
      <3>2. count' = Rec("string", b, i + 2, w, d, c, u, s)
        <4>1. count' = [count EXCEPT !.next = @ + 2]
          BY <2>1 DEF StringGoesOn, Counts, Here
        <4> QED BY <1>2, <4>1 DEF CountFields, Count, Rec
      <3> QED BY <3>1, <3>2
    <2>2. CASE StringGoesOn /\ ByteAt(bytes, i) # Backslash
      <3>1. ByteAt(bytes, i) # Quote
        BY <2>2, Zenon DEF StringGoesOn, Here
      <3>2. NextCount(bytes, count) = Rec("string", b, i + 1, w, d, c, u, s)
        <4> HIDE DEF b, i, w, d, c, u, s, bytes
        <4> QED BY <1>1, <1>2, <2>2, <3>1, StepGoesOn
      <3>3. count' = Rec("string", b, i + 1, w, d, c, u, s)
        <4>1. count' = [count EXCEPT !.next = @ + 1]
          BY <2>2 DEF StringGoesOn, Counts, Here
        <4> QED BY <1>2, <4>1 DEF CountFields, Count, Rec
      <3> QED BY <3>2, <3>3
    <2>3. CASE StringEnds
      <3> DEFINE v == UnderName(bytes, b, i, d, u, s)
      <3>1. ByteAt(bytes, i) = Quote
        BY <2>3, Zenon DEF StringEnds, Here
      <3>2. NextCount(bytes, count) = Rec("between", b, i + 1, w, d, c, v, 0)
        <4> HIDE DEF b, i, w, d, c, u, s, bytes
        <4> QED BY <1>1, <1>2, <3>1, StepUnquotes
      <3>3. count' = Rec("between", b, i + 1, w, d, c, v, 0)
        <4>1. count' = [count EXCEPT !.at = "between", !.next = @ + 1, !.start = 0, !.under = v]
          BY <2>3 DEF StringEnds, Counts, UnderName
        <4> HIDE DEF v
        <4> QED BY <1>2, <4>1 DEF CountFields, Count, Rec
      <3> QED BY <3>2, <3>3
    <2> QED BY <2>1, <2>2, <2>3
  <1> QED BY <1>2, <1>3 DEF StepOf

-----------------------------------------------------------------------------
(* The cost of an answer *)

\* A count on its way comes to the cost.
OnItsWay == count.at \in UnderWay => Leads(body.bytes, count, CountOf(body, count.underBudget))

BudgetInv ==
  /\ CountFields /\ OnItsWay /\ CountIsCost
  /\ count.at = "idle" => count = NoCount

LEMMA BudgetFirst == BudgetInit => BudgetInv
  <1> SUFFICES ASSUME BudgetInit PROVE BudgetInv
    OBVIOUS
  <1>1. count = NoCount /\ count.at = "idle" /\ count \in Count
    BY DEF BudgetInit, NoCount, Count, At
  <1> QED BY <1>1 DEF BudgetInv, CountFields, OnItsWay, CountIsCost, UnderWay

LEMMA CountBeginOK ==
  ASSUME NEW t \in Texts, NEW b \in BOOLEAN, CountBegin(t, b)
  PROVE  BudgetInv'
  <1>1. body' = t /\ count' = Begun(b)
    BY DEF CountBegin, Begun
  <1>2. /\ Begun(b) \in Count /\ Begun(b).at = "between" /\ Begun(b).next = 1 /\ Begun(b).underBudget = b
    BY DEF Begun, NoCount, Count, At
  <1>3. Leads(t.bytes, Begun(b), CountOf(t, b))
    BY CountLeads
  <1>4. CountFields' /\ (count.at = "idle" => count = NoCount)' /\ CountIsCost'
    BY <1>1, <1>2 DEF CountFields, CountIsCost
  <1>5. OnItsWay'
    BY <1>1, <1>2, <1>3 DEF OnItsWay
  <1> QED BY <1>4, <1>5 DEF BudgetInv

LEMMA BudgetStepOK ==
  ASSUME BudgetInv, BudgetStep
  PROVE  BudgetInv'
  <1>1. CountFields /\ OnItsWay
    BY DEF BudgetInv
  <1>2. CASE StringBegins \/ Opens \/ Closes \/ CountsWord \/ Skips \/ CountsNumber \/ StringGoesOn \/ StringEnds
    <2>1. StepOf(body.bytes, count, count') /\ body' = body
      BY <1>1, <1>2, TokenSteps, NumberStep, StringSteps
    <2> DEFINE bytes == body.bytes
               b == count.underBudget
               y == CountOf(body, b)
    <2>2. /\ count.at \in UnderWay /\ count.next <= Len(bytes) /\ count' = NextCount(bytes, count)
          /\ count \in Count /\ body \in Texts /\ count.next > 0
      BY <1>1, <2>1 DEF StepOf, CountFields
    <2>3. bytes \in Seq(JsonByte) /\ b \in BOOLEAN
      BY <2>2, TextFacts, CountIs
    <2>4. Onward(count, count')
      BY <2>2, <2>3, GoesOnward
    <2>5. y # count
      <3>1. y.next = Len(bytes) + 1
        BY <2>2, <2>3, CountOfIs
      <3>2. count.next \in Nat /\ Len(bytes) \in Nat
        BY <2>2, <2>3, CountIs
      <3> HIDE DEF y
      <3> QED BY <2>2, <3>1, <3>2
    <2>6. Leads(bytes, count, y)
      BY <1>1, <2>2 DEF OnItsWay
    <2> HIDE DEF y
    <2>7. Leads(bytes, count', y)
      BY <2>2, <2>5, <2>6, LeadsOn
    <2>8. count' \in Count /\ count'.at \in UnderWay /\ count'.next > 0 /\ count'.underBudget = b
      BY <2>4 DEF Onward
    <2>9. CountFields'
      BY <2>1, <2>2, <2>8 DEF CountFields
    <2>10. OnItsWay'
      BY <2>1, <2>7, <2>8 DEF OnItsWay, y
    <2>11. CountIsCost' /\ count'.at # "idle"
      BY <2>8 DEF CountIsCost, UnderWay
    <2> QED BY <2>9, <2>10, <2>11 DEF BudgetInv
  <1>3. CASE CountEnds
    <2> DEFINE b == count.underBudget
               bytes == body.bytes
               y == CountOf(body, b)
    <2>1. /\ count.at \in UnderWay /\ count \in Count /\ body \in Texts /\ count.next > 0
          /\ b \in BOOLEAN /\ count.units \in Nat /\ count.next \in Nat
      BY <1>1, <1>3, CountIs DEF CountEnds, UnderWay, CountFields
    <2>2. Leads(bytes, count, y) /\ bytes \in Seq(JsonByte)
      BY <1>1, <2>1, TextFacts DEF OnItsWay
    <2>3. y.units = Cost(body, b) /\ Cost(body, b) \in Int
      BY <2>1, CountOfIs
    <2> HIDE DEF y
    <2>4. CASE count.units > MaxUnits /\ Counts([count EXCEPT !.at = "refused"])
      <3>1. y.units >= count.units
        BY <2>1, <2>2, LeadsOnward
      <3>2. Cost(body, b) > MaxUnits
        BY <2>1, <2>3, <2>4, <3>1, BudgetAssumption
      <3>3. count' \in Count /\ count'.at = "refused" /\ count'.underBudget = b /\ body' = body
        BY <2>1, <2>4 DEF Counts, Count, At
      <3> QED BY <3>2, <3>3 DEF BudgetInv, CountFields, OnItsWay, CountIsCost, UnderWay
    <2>5. CASE count.units <= MaxUnits /\ count.next > Len(body.bytes) /\ Counts([count EXCEPT !.at = "fits"])
      <3>1. ~(count.next <= Len(bytes))
        <4>1. Len(bytes) \in Nat
          BY <2>2
        <4> QED BY <2>1, <2>5, <4>1
      <3>2. y = count
        BY <2>2, <3>1, LeadsNowhere
      <3>3. Cost(body, b) <= MaxUnits
        BY <2>3, <2>5, <3>2
      <3>4. count' \in Count /\ count'.at = "fits" /\ count'.underBudget = b /\ body' = body
        BY <2>1, <2>5 DEF Counts, Count, At
      <3> QED BY <3>3, <3>4 DEF BudgetInv, CountFields, OnItsWay, CountIsCost, UnderWay
    <2> QED BY <1>3, <2>4, <2>5 DEF CountEnds
  <1> QED BY <1>2, <1>3 DEF BudgetStep

LEMMA BudgetInvSuffices == BudgetInv => CountIsCost
  BY DEF BudgetInv

-----------------------------------------------------------------------------
(* One thing at a time *)

AnswersInv ==
  RequestInv /\ BudgetInv /\ EthInv /\ ProofInv /\ CompletenessInv /\ SigningInv /\ ScanInv

LEMMA AnswersFirst == AnswersInit => AnswersInv
  BY RequestFirst, BudgetFirst, EthFirst, ProofFirst, CompletenessFirst, SigningFirst, ScanFirst
  DEF AnswersInit, AnswersInv

LEMMA AnswersStepOK == AnswersInv /\ [AnswersNext]_vars => AnswersInv'
  <1> SUFFICES ASSUME AnswersInv, [AnswersNext]_vars PROVE AnswersInv'
    OBVIOUS
  <1>1. /\ RequestStep \/ UNCHANGED requestVars
        /\ Fetching \/ EthStep \/ UNCHANGED read
        /\ Proving \/ ProofStep \/ UNCHANGED proofVars
        /\ Checking \/ CompletenessStep \/ UNCHANGED completenessVars
        /\ SigningStep \/ UNCHANGED signingVars
        /\ Scanning \/ ScanStep \/ UNCHANGED scanVars
        /\ Counted \/ BudgetStep \/ UNCHANGED budgetVars
    BY Zenon DEF AnswersNext, vars
  <1>2. RequestInv'
    BY <1>1, RequestStepOK DEF AnswersInv
  <1>3. EthInv'
    BY <1>1, EthStepOK DEF AnswersInv
  <1>4. ProofInv'
    BY <1>1, ProofStepOK DEF AnswersInv
  <1>5. CompletenessInv'
    BY <1>1, CompletenessStepOK DEF AnswersInv
  <1>6. SigningInv'
    BY <1>1, SigningStepOK DEF AnswersInv
  <1>7. ScanInv'
    <2>1. CASE Scanning
      <3>1. PICK bs \in Envelopes : ScanBegin(bs)
        BY <2>1 DEF Scanning
      <3>2. bs \in Seq(Byte)
        BY AnswersAssumption
      <3> QED BY <3>1, <3>2, ScanBeginOK
    <2>2. CASE ScanStep
      BY <2>2, ScanStepOK DEF AnswersInv
    <2>3. CASE UNCHANGED scanVars
      BY <2>3 DEF AnswersInv, ScanInv, scanVars
    <2> QED BY <1>1, <2>1, <2>2, <2>3
  <1>8. BudgetInv'
    <2>1. CASE Counted
      BY <2>1, CountBeginOK DEF Counted
    <2>2. CASE BudgetStep
      BY <2>2, BudgetStepOK DEF AnswersInv
    <2>3. CASE UNCHANGED budgetVars
      BY <2>3 DEF AnswersInv, BudgetInv, CountFields, OnItsWay, CountIsCost, budgetVars
    <2> QED BY <1>1, <2>1, <2>2, <2>3
  <1> QED BY <1>2, <1>3, <1>4, <1>5, <1>6, <1>7, <1>8 DEF AnswersInv

LEMMA AnswersInvariant == AnswersSpec => []AnswersInv
  BY AnswersFirst, AnswersStepOK, PTL DEF AnswersSpec

\* However many readers and retries there are: no read by a DID with rights is denied because an
\* answer was lost or a server busy, each attempt being signed with a nonce of its own
\* (make_request()).
THEOREM RetriesKeepRights == AnswersSpec => []RightsHonored
  <1>1. AnswersInv => RightsHonored
    BY RequestInvSuffices DEF AnswersInv
  <1> QED BY <1>1, AnswersInvariant, PTL

\* Whatever tries, slots and answers there are: what a strict read of Ethereum state returns and
\* decodes is what the state holds at the root it names (check_read_is_the_one_asked(),
\* verify_state_proof()).
THEOREM StateReadsProved == AnswersSpec => []StateProved
  <1>1. AnswersInv => StateProved
    BY EthInvSuffices DEF AnswersInv
  <1> QED BY <1>1, AnswersInvariant, PTL

\* Whatever nodes a proof is made of, and however many: the value accepted under the trusted root
\* is the one the chain holds (verify_item_at_path(), verify_grovedb_proof()).
THEOREM ItemsProved == AnswersSpec => []ItemProved
  <1>1. AnswersInv => ItemProved
    BY ProofInvSuffices DEF AnswersInv
  <1> QED BY <1>1, AnswersInvariant, PTL

\* Whatever the logs are and whatever was served: a block is called complete of exactly the logs
\* the chain matched, for their bytes are told apart (canonical_event_set_hash()).
THEOREM VerdictsTrue == AnswersSpec => []VerdictIsTrue
  <1>1. AnswersInv => VerdictIsTrue
    BY CompletenessInvSuffices DEF AnswersInv
  <1> QED BY <1>1, AnswersInvariant, PTL

\* Whatever texts, grants and however many of them: no signature is good for what was not asked,
\* for the message of a checked transaction or request is that of no other (field(),
\* validate_did(), revoke_subgrove_key(), rotate_subgrove_key()).
THEOREM SignaturesMeant == AnswersSpec => []SignedIsMeant
  <1>1. AnswersInv => SignedIsMeant
    BY SigningInvSuffices DEF AnswersInv
  <1> QED BY <1>1, AnswersInvariant, PTL

\* Whatever bytes are sent, however wide and deep: the scan passes exactly the envelopes that
\* the recursive decoder reads within the limits (scan_envelope()).
THEOREM ScansAreDecodings == AnswersSpec => []ScanIsDecoding
  <1>1. AnswersInv => ScanIsDecoding
    BY ScanInvSuffices DEF AnswersInv
  <1> QED BY <1>1, AnswersInvariant, PTL

\* Whatever the texts, however deep and with however many items, and whatever the limits: the count
\* of a text's bytes refuses exactly those whose decoding makes more than the limit, the numbers
\* under the answer's own proof being counted for less (scan_units(), check_json_within()).
THEOREM CountsAreCosts == AnswersSpec => []CountIsCost
  <1>1. AnswersInv => CountIsCost
    BY BudgetInvSuffices DEF AnswersInv
  <1> QED BY <1>1, AnswersInvariant, PTL
=============================================================================
