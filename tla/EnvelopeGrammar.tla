--------------------------- MODULE EnvelopeGrammar ---------------------------
(***************************************************************************)
(* What the bounds check is for: the decoder that reads an envelope after  *)
(* it (bincode's, in grovedb too), which reads each layer one call deeper. *)
(* It is a library's, given here by its grammar.                           *)
(***************************************************************************)
EXTENDS EnvelopeScan

\* A reading of a layer, or of lower layers: what is left, how deep the calls nest below this
\* one, and how many layers are read.
Reading == [rest : Seq(Byte), depth : Nat, layers : Nat]

Deeper(a, b) == IF a.depth + 1 > b.depth THEN a.depth + 1 ELSE b.depth

\* A layer of bs, its lower layers read as lowers[n][bs] says: n of them of bs.
LayerBy(lowers, bs) ==
  {[l EXCEPT !.layers = @ + 1] :
     l \in UNION {lowers[n.value][n.rest] :
                    n \in UNION {Varint(rest) : rest \in AfterString(bs)}}}

\* A first lower layer and the others after it.
Joint(first, others) ==
  [rest |-> others.rest, depth |-> Deeper(first, others), layers |-> first.layers + others.layers]

LowersBy(lowers) ==
  [n \in Nat |-> [bs \in Seq(Byte) |->
     IF n = 0 THEN {[rest |-> bs, depth |-> 0, layers |-> 0]}
     ELSE UNION {UNION {{Joint(first, others) : others \in lowers[n - 1][first.rest]} :
                          first \in LayerBy(lowers, rest)} :
                   rest \in AfterString(bs)}]]

\* The decoder on as many bytes: what is behind a layer's key is shorter.
NoLowers == [n \in Nat |-> [bs \in Seq(Byte) |-> {}]]
Lowers[size \in Nat] == LowersBy(IF size = 0 THEN NoLowers ELSE Lowers[size - 1])

LowersOf(n, bs) == Lowers[Len(bs)][n][bs]
LayerOf(bs) == LayerBy(Lowers[Len(bs)], bs)

\* The decoder reads all of bs as an envelope, within the limits.
Decodable(bs) ==
  /\ Len(bs) <= MaxProofBytes
  /\ \E v \in Varint(bs) : v.value = 0 /\ \E l \in LayerOf(v.rest) :
       /\ l.rest \in {<<0>>, <<1>>}
       /\ l.depth <= MaxLayerDepth
       /\ l.layers <= MaxLayers

\* The scan passes every envelope the decoder would read within the limits, to its last
\* byte, and refuses every other one: nothing the recursive decoder is given nests deeper
\* or holds more layers than the limits allow, and no honest envelope is lost, whatever
\* lengths and counts its bytes claim.
ScanIsDecoding ==
  /\ scan.at = "passed" => Decodable(input)
  /\ scan.at = "refused" => ~Decodable(input)
=============================================================================
