----------------------------- MODULE JsonGrammar -----------------------------
(***************************************************************************)
(* What the count of an answer's bytes is for: the decoder that reads them *)
(* after it (serde_json's), given by the grammar of the texts and by what  *)
(* decoding each text makes.                                               *)
(***************************************************************************)
EXTENDS JsonBudget, SequencesExt

\* A text: its kind, its bytes, and of an array or an object its items (an object's keys and
\* values in turn) with the gaps before each of them and after the last.
CONSTANT Texts   \* the answers in JSON a server may give, and the texts within them

JsonByte == {Quote, Backslash, P, "[", "]", "{", "}", ":", ",", " "} \cup Scalar
Container == {"array", "object"}
Kinds == {"number", "word", "string"} \cup Container

Opener(kind) == IF kind = "array" THEN "[" ELSE "{"
Closer(kind) == IF kind = "array" THEN "]" ELSE "}"

\* No quote in a string that is not escaped, and no last byte that escapes.
IsString(s) ==
  \E escaped \in SUBSET DOMAIN s :
    /\ \A i \in DOMAIN s : i \in escaped <=> i > 1 /\ s[i - 1] = Backslash /\ i - 1 \notin escaped
    /\ \A i \in DOMAIN s : s[i] = Quote => i \in escaped
    /\ s # <<>> /\ s[Len(s)] = Backslash => Len(s) \in escaped

\* White space, alone or around a colon or a comma.
Blank(gap) == \A i \in DOMAIN gap : gap[i] = " "
Around(gap, mark) == \E i \in DOMAIN gap : gap[i] = mark /\ \A j \in DOMAIN gap \ {i} : gap[j] = " "

IsGap(t, i) ==
  IF i \in {1, Len(t.gaps)} THEN Blank(t.gaps[i])
  ELSE Around(t.gaps[i], IF t.kind = "object" /\ i % 2 = 0 THEN ":" ELSE ",")

Members(t) == [i \in DOMAIN t.items |-> t.gaps[i] \o t.items[i].bytes]

Holding(t) ==
  /\ Len(t.gaps) = Len(t.items) + 1 /\ \A i \in DOMAIN t.gaps : IsGap(t, i)
  /\ t.bytes = <<Opener(t.kind)>> \o (FlattenSeq(Members(t)) \o (t.gaps[Len(t.gaps)] \o <<Closer(t.kind)>>))
  /\ t.kind = "object" =>
       Len(t.items) % 2 = 0 /\ \A i \in DOMAIN t.items : i % 2 = 1 => t.items[i].kind = "string"

ScalarText(bytes, first) == bytes # <<>> /\ bytes[1] \in first /\ \A i \in DOMAIN bytes : bytes[i] \in Scalar

IsText(t) ==
  \/ t.kind = "number" /\ ScalarText(t.bytes, Numeric)
  \/ t.kind = "word" /\ ScalarText(t.bytes, Alpha)
  \/ /\ t.kind = "string" /\ Len(t.bytes) > 1 /\ t.bytes[1] = Quote /\ t.bytes[Len(t.bytes)] = Quote
     /\ IsString(SubSeq(t.bytes, 2, Len(t.bytes) - 1))
  \/ t.kind \in Container /\ Holding(t)

ASSUME TextsAssumption ==
  /\ Texts \subseteq
       [kind : Kinds, bytes : Seq(JsonByte), items : Seq(Texts), gaps : Seq(Seq(JsonByte))]
  /\ \A t \in Texts : IsText(t)

-----------------------------------------------------------------------------
(* What decoding a text makes. *)

Total(numbers) ==
  LET sum[i \in 0 .. Len(numbers)] == IF i = 0 THEN 0 ELSE sum[i - 1] + numbers[i]
  IN sum[Len(numbers)]

\* Of a text, its units and the numbers in it, when made says what is made of its items.
MadeBy(made, t) ==
  LET units == [i \in DOMAIN t.items |-> made[t.items[i]].units]
      numbers == [i \in DOMAIN t.items |-> made[t.items[i]].numbers]
  IN IF t.kind \in Container
     THEN [units |-> ContainerCost + Total(units), numbers |-> Total(numbers)]
     ELSE [units |-> 1, numbers |-> IF t.kind = "number" THEN 1 ELSE 0]

Made[t \in Texts] == MadeBy(Made, t)

Units(t) == Made[t].units
Numbers(t) == Made[t].numbers

\* The item is a container, under a member named proof.
ProofName == <<Quote, P, Quote>>
IsProof(t, i) ==
  /\ t.kind = "object" /\ i % 2 = 0 /\ i \in DOMAIN t.items
  /\ t.items[i - 1].bytes = ProofName /\ t.items[i].kind \in Container

\* The numbers under the answer's own member "proof".
ProofNumbers(t) == Total([i \in DOMAIN t.items |-> IF IsProof(t, i) THEN Numbers(t.items[i]) ELSE 0])

\* What the decoder makes of an answer under a budget.
Cost(t, underProof) ==
  IF underProof THEN Units(t) - ProofNumbers(t) + ProofNumbers(t) \div NumbersPerUnit
  ELSE Units(t)

-----------------------------------------------------------------------------
\* The count of an answer's bytes is what decoding them costs: no escaped quote, bracket in a
\* string, nested member named proof or white space makes an answer pass that decodes to more
\* than the limit, nor an honest one be refused (scan_units() does not parse JSON).
CountIsCost ==
  /\ count.at = "fits" => Cost(body, count.underBudget) <= MaxUnits
  /\ count.at = "refused" => Cost(body, count.underBudget) > MaxUnits
=============================================================================
