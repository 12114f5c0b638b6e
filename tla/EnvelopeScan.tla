---------------------------- MODULE EnvelopeScan ----------------------------
(***************************************************************************)
(* The bounds check of a proof envelope before anything decodes it         *)
(* (src/grovedb_envelope.rs, scan_envelope): the bytes are read once, a    *)
(* layer at a time, without recursion.                                     *)
(*                                                                         *)
(* An envelope is a version, the root layer and a boolean.  A layer is its *)
(* ops (a byte string), a count, and that many pairs of a key (a byte      *)
(* string) and a layer.                                                    *)
(***************************************************************************)
EXTENDS Integers, Sequences, FiniteSets

CONSTANTS
  MaxByte,        \* a byte is 0 .. MaxByte
  WideTag,        \* a byte below it is a number, it announces one of two bytes (251), and
                  \* a byte above it starts none
  MaxProofBytes, MaxLayers, MaxLayerDepth

ASSUME ScanAssumption ==
  /\ {MaxByte, WideTag, MaxProofBytes, MaxLayers, MaxLayerDepth} \subseteq Nat
  /\ WideTag <= MaxByte

Byte == 0 .. MaxByte

VARIABLES
  input,   \* the envelope
  scan     \* how far it is read

scanVars == <<input, scan>>

Stage == {"idle", "version", "layer", "lower", "options", "passed", "refused"}

ScanFields ==
  [ at : Stage,
    bytes : Seq(Byte),   \* those not read yet (Scan::bytes)
    open : Seq(Nat),     \* of each layer being read, the lower layers left
    layers : Nat ]

NoScan == [at |-> "idle", bytes |-> <<>>, open |-> <<>>, layers |-> 0]

ScanTypeOK == input \in Seq(Byte) /\ scan \in ScanFields

-----------------------------------------------------------------------------
(* A read of bs is the set of its outcomes: none, or the one it has. *)

Drop(bs, n) == SubSeq(bs, n + 1, Len(bs))

\* varint(): big-endian behind a tag. Of the three wide ones (two, four and eight bytes) one
\* stands for all: they are read alike, and only how many bytes they take differs.
Varint(bs) ==
  IF bs = <<>> THEN {}
  ELSE IF bs[1] < WideTag THEN {[value |-> bs[1], rest |-> Tail(bs)]}
  ELSE IF bs[1] = WideTag /\ Len(bs) >= 3
    THEN {[value |-> bs[2] * (MaxByte + 1) + bs[3], rest |-> Drop(bs, 3)]}
  ELSE {}

\* len() and skip(): a byte string, whose length must fit in the bytes left.
AfterString(bs) ==
  {Drop(n.rest, n.value) : n \in {m \in Varint(bs) : m.value <= Len(m.rest)}}

\* The layers of which a lower layer is still to be read: those with none left at the
\* deep end are closed.
Unfinished(open) ==
  SubSeq(open, 1, CHOOSE k \in 0 .. Len(open) :
                    /\ \A i \in k + 1 .. Len(open) : open[i] = 0
                    /\ k > 0 => open[k] > 0)

-----------------------------------------------------------------------------
(* What the next read makes of the scan; none when it refuses. *)

ScanVersion ==
  { [scan EXCEPT !.at = "layer", !.bytes = v.rest] :
      v \in {w \in Varint(scan.bytes) : w.value = 0 /\ Len(input) <= MaxProofBytes} }

\* Mutant: a layer's depth is checked before the layer it lies in is counted.
MutScanLayer ==
  IF scan.layers = MaxLayers \/ Len(scan.open) > MaxLayerDepth + 1 THEN {}
  ELSE { [at |-> "lower", bytes |-> n.rest, open |-> Append(scan.open, n.value),
          layers |-> scan.layers + 1] :
           n \in {m \in UNION {Varint(bs) : bs \in AfterString(scan.bytes)} :
                    m.value <= Len(m.rest) \div 3} }

\* The next layer is counted, its depth checked, its ops skipped and its count read, which
\* must fit in the bytes left at three a layer.
ScanLayer ==
  IF scan.layers = MaxLayers \/ Len(scan.open) > MaxLayerDepth THEN {}
  ELSE { [at |-> "lower", bytes |-> n.rest, open |-> Append(scan.open, n.value),
          layers |-> scan.layers + 1] :
           n \in {m \in UNION {Varint(bs) : bs \in AfterString(scan.bytes)} :
                    m.value <= Len(m.rest) \div 3} }

\* The deepest unfinished layer's next lower layer is begun: its key is skipped.
ScanLower ==
  LET open == Unfinished(scan.open)
      deep == Len(open)
  IN IF deep = 0 THEN {[scan EXCEPT !.at = "options", !.open = open]}
     ELSE { [scan EXCEPT !.at = "layer", !.bytes = bs, !.open = [open EXCEPT ![deep] = @ - 1]] :
              bs \in AfterString(scan.bytes) }

\* prove_options, and no byte after it.
ScanOptions ==
  IF scan.bytes \in {<<0>>, <<1>>} THEN {[scan EXCEPT !.at = "passed", !.bytes = <<>>]} ELSE {}

Reads ==
  CASE scan.at = "version" -> ScanVersion
    [] scan.at = "layer" -> ScanLayer
    [] scan.at = "lower" -> ScanLower
    [] scan.at = "options" -> ScanOptions
    [] OTHER -> {}

-----------------------------------------------------------------------------
ScanInit == input = <<>> /\ scan = NoScan

ScanBegin(bytes) ==
  /\ scan.at = "idle"
  /\ input' = bytes
  /\ scan' = [NoScan EXCEPT !.at = "version", !.bytes = bytes]

ScanGoesOn == Reads # {} /\ scan' \in Reads /\ UNCHANGED input

ScanRefuses ==
  /\ scan.at \in {"version", "layer", "lower", "options"}
  /\ Reads = {}
  /\ scan' = [scan EXCEPT !.at = "refused"]
  /\ UNCHANGED input

ScanStep == ScanGoesOn \/ ScanRefuses
=============================================================================
