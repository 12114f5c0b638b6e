------------------------------ MODULE JsonBudget ------------------------------
(***************************************************************************)
(* What decoding an answer may cost (src/http_body.rs, scan_units): the    *)
(* bytes of a JSON text are counted once, without decoding them, and the   *)
(* text refused when it holds more than a number of units.  Under the      *)
(* member "proof" of an answer numbers are cheaper, if the caller says so. *)
(***************************************************************************)
EXTENDS Integers, Sequences

CONSTANTS
  MaxUnits,        \* MAX_VALUES
  ContainerCost,   \* CONTAINER_COST
  NumbersPerUnit   \* PROOF_NUMBERS_PER_UNIT

ASSUME BudgetAssumption ==
  /\ {MaxUnits, ContainerCost, NumbersPerUnit} \subseteq Nat
  /\ NumbersPerUnit > 0

VARIABLES
  body,    \* the answer, as a text of JSON
  count    \* how far it is counted

budgetVars == <<body, count>>

-----------------------------------------------------------------------------
(* The bytes of JSON.  One, P, stands for the five of the name proof, and a space for white space
   of any kind.                                                                                  *)

Quote == "\""
Backslash == "\\"
P == "P"
Numeric == {"-", "1"}
Alpha == {"t"}
Scalar == Numeric \cup Alpha

-----------------------------------------------------------------------------
(* scan_units() *)

At == {"idle", "between", "string", "fits", "refused"}

NoCount ==
  [ at |-> "idle", underBudget |-> FALSE, next |-> 1, units |-> 0, depth |-> 0, cheap |-> 0,
    under |-> FALSE, start |-> 0 ]

NoBody == [kind |-> "none", bytes |-> <<>>, items |-> <<>>, gaps |-> <<>>]

BudgetInit == body = NoBody /\ count = NoCount

CountBegin(text, underBudget) ==
  /\ count.at = "idle"
  /\ body' = text
  /\ count' = [NoCount EXCEPT !.at = "between", !.underBudget = underBudget]

ByteAt(bytes, i) == IF i \in DOMAIN bytes THEN bytes[i] ELSE "end"

\* is_scalar_byte(): where the scalar at i ends.
AfterScalar(bytes, i) ==
  CHOOSE j \in i + 1 .. Len(bytes) + 1 :
    ByteAt(bytes, j) \notin Scalar /\ \A k \in i + 1 .. j - 1 : ByteAt(bytes, k) \in Scalar

\* opens_container_after_colon()
AfterSpace(bytes, i) ==
  CHOOSE j \in i .. Len(bytes) + 1 :
    ByteAt(bytes, j) # " " /\ \A k \in i .. j - 1 : ByteAt(bytes, k) = " "
OpensContainer(bytes, i) ==
  LET colon == AfterSpace(bytes, i)
  IN /\ ByteAt(bytes, colon) = ":"
     /\ ByteAt(bytes, AfterSpace(bytes, colon + 1)) \in {"[", "{"}

\* Mutant: a member of any object may be the proof.
MutAnswersOwn(depth) == depth > 0

\* Only the answer's own member is its proof.
AnswersOwn(depth) == depth = 1

Counting(at) == count.at = at /\ count.units <= MaxUnits /\ count.next <= Len(body.bytes)
Counts(change) == count' = change /\ UNCHANGED body
Here == ByteAt(body.bytes, count.next)

StringBegins ==
  /\ Counting("between") /\ Here = Quote
  /\ Counts([count EXCEPT !.at = "string", !.units = @ + 1, !.next = @ + 1, !.start = count.next + 1])

StringGoesOn ==
  /\ Counting("string") /\ Here # Quote
  /\ Counts([count EXCEPT !.next = @ + IF Here = Backslash THEN 2 ELSE 1])

StringEnds ==
  /\ Counting("string") /\ Here = Quote
  /\ Counts([count EXCEPT
       !.at = "between", !.next = @ + 1, !.start = 0,
       !.under = @ \/ /\ count.underBudget
                      /\ AnswersOwn(count.depth)
                      /\ SubSeq(body.bytes, count.start, count.next - 1) = <<P>>
                      /\ OpensContainer(body.bytes, count.next + 1)])

Opens ==
  /\ Counting("between") /\ Here \in {"[", "{"}
  /\ Counts([count EXCEPT !.units = @ + ContainerCost, !.depth = @ + 1, !.next = @ + 1])

Closes ==
  /\ Counting("between") /\ Here \in {"]", "}"}
  /\ Counts([count EXCEPT !.depth = IF @ = 0 THEN 0 ELSE @ - 1, !.under = @ /\ count.depth > 2,
                          !.next = @ + 1])

\* A number under the proof costs a unit with the last of as many as cost one.
CountsNumber ==
  /\ Counting("between") /\ Here \in Numeric
  /\ LET after == [count EXCEPT !.next = AfterScalar(body.bytes, @)]
         last == count.cheap + 1 = NumbersPerUnit
     IN IF count.under
        THEN Counts([after EXCEPT !.cheap = IF last THEN 0 ELSE @ + 1,
                                  !.units = IF last THEN @ + 1 ELSE @])
        ELSE Counts([after EXCEPT !.units = @ + 1])

CountsWord ==
  /\ Counting("between") /\ Here \in Alpha
  /\ Counts([count EXCEPT !.units = @ + 1, !.next = AfterScalar(body.bytes, @)])

Skips ==
  /\ Counting("between") /\ Here \in {":", ",", " "}
  /\ Counts([count EXCEPT !.next = @ + 1])

\* check_json_within()
CountEnds ==
  /\ count.at \in {"between", "string"}
  /\ \/ count.units > MaxUnits /\ Counts([count EXCEPT !.at = "refused"])
     \/ /\ count.units <= MaxUnits /\ count.next > Len(body.bytes)
        /\ Counts([count EXCEPT !.at = "fits"])

BudgetStep ==
  \/ StringBegins \/ StringGoesOn \/ StringEnds \/ Opens \/ Closes
  \/ CountsNumber \/ CountsWord \/ Skips \/ CountEnds
=============================================================================
