----------------------------- MODULE ItemProof -----------------------------
(***************************************************************************)
(* What a GroveDB proof of one item must be (src/grovedb_envelope.rs,      *)
(* verify_item_at_path), against a prover that may send any ops.  The path *)
(* has one segment: the root layer proves the subtree there, the layer     *)
(* below it the item.                                                      *)
(*                                                                         *)
(* grovedb and its merk trees are libraries: a layer's ops build a tree,   *)
(* whose hash is that of its top node.  Hashes are terms, so two are equal *)
(* only when what they hash is; and an opaque node's hash is the one it    *)
(* names, whatever is attached to it.                                      *)
(***************************************************************************)
EXTENDS Integers, Sequences

CONSTANTS
  Item, Forged, Amb,   \* elements of the key asked: an item, another, one of 63 bytes
  Subtree,             \* and no item, but a subtree
  Junk,                \* bytes that are no element
  Named,               \* hashes a prover may name, besides the chain's
  MaxNodes             \* bound: the nodes of a layer's ops

Value == {Item, Forged, Amb, Junk}

\* What a chain holds at the key asked. (One that holds nothing there has no node of that key
\* for a proof to be built around, and is left out.)
Held == {Item, Amb, Subtree}

ASSUME ProofAssumption == MaxNodes \in Nat /\ Subtree \notin Value

VARIABLES
  chain,   \* the element the chain holds at the key, and whether the path is that of a
           \* subgrove's data, which holds only items
  proof    \* the check of a proof

proofVars == <<chain, proof>>

Layer == {"root", "item"}

-----------------------------------------------------------------------------
(* The trees of the chain. *)

KvHash(key, valueHash) == <<"kv", key, valueHash>>
TreeHash(kv, left, right) == <<"node", kv, left, right>>
NoTree == <<>>

Combined(element, root) == <<"combined", element, root>>

\* The hash of a value.  That of a value of 63 bytes may be ground to match the combined
\* hash of a subtree the chain holds at the key.
SubtreeHash == Combined("element", "below")
ValueHash(value) ==
  IF chain.holds = Subtree /\ value \in {Subtree, Amb} THEN SubtreeHash ELSE <<"value", value>>

\* The item layer: the key asked under another one.
Other == KvHash("other", <<"value", "o">>)
KeyHash == KvHash("key", ValueHash(chain.holds))
KeyTree == TreeHash(KeyHash, NoTree, NoTree)
ItemRoot == TreeHash(Other, KeyTree, NoTree)

\* The root layer: the segment's subtree alone.
SegmentHash(root) == KvHash("segment", Combined("subtree", root))
TrustedRoot == TreeHash(SegmentHash(ItemRoot), NoTree, NoTree)

-----------------------------------------------------------------------------
(* The nodes a prover may push, by layer.  A node's value is what it shows at the key asked of *)
(* the layer, which in the root layer is the root of the layer below.                          *)

Node(form, value, hash) == [form |-> form, value |-> value, hash |-> hash]

Opaque(hashes) == {Node("Hash", Junk, h) : h \in hashes}
Hidden(kvs) == {Node("KVHash", Junk, kv) : kv \in kvs}

\* The root of an item layer the chain doesn't have.
ForgedRoot == TreeHash(KvHash("key", <<"value", Forged>>), NoTree, NoTree)

Nodes ==
  [ root |-> Opaque({TrustedRoot} \cup Named)
        \cup Hidden({SegmentHash(ItemRoot)} \cup Named)
        \cup {Node("KVValueHash", root, KvHash("segment", Combined("subtree", root))) :
                root \in {ItemRoot, ForgedRoot} \cup Named},
    item |-> Opaque({ItemRoot, KeyTree} \cup Named)
        \cup Hidden({KeyHash, Other} \cup Named)
        \cup {Node("KV", v, KvHash("key", ValueHash(v))) : v \in Value}
        \cup {Node("KVValueHash", v, kv) : v \in Value, kv \in {KeyHash} \cup Named}
        \cup {Node("KVDigest", Item, KeyHash)} ]

Shows(node) == node.form \in {"KV", "KVValueHash", "KVDigest"}
HasValue(node) == node.form \in {"KV", "KVValueHash"}

\* A node's place in the tree its ops build.
Placed(node) ==
  [ opaque |-> node.form = "Hash",
    kv |-> node.hash,
    left |-> NoTree,
    right |-> NoTree ]

HashOf(tree) == IF tree.opaque THEN tree.kv ELSE TreeHash(tree.kv, tree.left, tree.right)

\* The tree of a parent with a child on a side, which must be free.
Free(parent, side) == (IF side = "left" THEN parent.left ELSE parent.right) = NoTree
Attached(parent, child, side) ==
  IF side = "left" THEN [parent EXCEPT !.left = HashOf(child)]
                   ELSE [parent EXCEPT !.right = HashOf(child)]

-----------------------------------------------------------------------------
(* The check. *)

Outcome == {"idle", "reading", "proved", "accepted", "refused"}

NoProof ==
  [ at |-> "idle", layer |-> "root", nodes |-> 0, stack |-> <<>>,
    carried |-> <<>>,      \* the nodes that show the key asked of the layer
    root |-> NoTree,       \* the root the proof computes
    lower |-> NoTree,      \* the root it shows of the layer below
    value |-> Junk ]       \* the item it proves

ProofTypeOK ==
  /\ chain \in [holds : Held, onlyItems : BOOLEAN]
  /\ chain.onlyItems => chain.holds # Subtree
  /\ proof.at \in Outcome /\ proof.layer \in Layer /\ proof.value \in Value
  /\ proof.nodes \in 0 .. MaxNodes /\ Len(proof.stack) <= proof.nodes
  /\ Len(proof.carried) <= proof.nodes

ProofInit == chain = [holds |-> Item, onlyItems |-> FALSE] /\ proof = NoProof

Refuse == proof' = [NoProof EXCEPT !.at = "refused"]

\* decode_envelope() and layer_at_path(): the envelope must pass its scan, descend the
\* path with no layer below it and set no option.
ProofBegin(holds, onlyItems, descends) ==
  /\ proof.at = "idle"
  /\ onlyItems => holds # Subtree
  /\ chain' = [holds |-> holds, onlyItems |-> onlyItems]
  /\ proof' = [NoProof EXCEPT !.at = IF descends THEN "reading" ELSE "refused"]

\* verify_grovedb_proof(): a verifiable RPC's answer must exist, be for the key and subgrove
\* asked, and its proof descend to an entity tree of that subgrove, which holds more than items.
ProofOfAnswer(holds, asked) ==
  /\ proof.at = "idle"
  /\ chain' = [holds |-> holds, onlyItems |-> FALSE]
  /\ proof' = [NoProof EXCEPT !.at = IF asked THEN "reading" ELSE "refused"]

\* check_ops(), a Push: a value must decode as an element.
Push(node) ==
  /\ proof.at = "reading" /\ proof.nodes < MaxNodes
  /\ IF HasValue(node) /\ node.value = Junk
     THEN Refuse
     ELSE proof' = [proof EXCEPT !.nodes = @ + 1,
                                 !.stack = Append(@, Placed(node)),
                                 !.carried = IF Shows(node) THEN Append(@, node) ELSE @]
  /\ UNCHANGED chain

\* A child may not be attached to an opaque node: its hash would hide the child.
MayJoin(parent) == ~parent.opaque

\* check_ops(), Parent and Child and their inverted forms: the parent is the last tree of
\* the stack or the one before it.  (merk refuses a second child on a side.)
Join(parentLast, side) ==
  LET last == proof.stack[Len(proof.stack)]
      before == proof.stack[Len(proof.stack) - 1]
      parent == IF parentLast THEN last ELSE before
      child == IF parentLast THEN before ELSE last
  IN /\ proof.at = "reading"
     /\ IF Len(proof.stack) >= 2 /\ MayJoin(parent) /\ Free(parent, side)
        THEN proof' = [proof EXCEPT !.stack =
                         Append(SubSeq(@, 1, Len(@) - 2), Attached(parent, child, side))]
        ELSE Refuse
     /\ UNCHANGED chain

\* check_ops()'s end: the ops build one tree.
OneTree == Len(proof.stack) = 1

\* The root layer shows the root of the one below, which grovedb combines with the subtree
\* element and compares with the node's hash.
EndRootLayer ==
  /\ proof.at = "reading" /\ proof.layer = "root"
  /\ IF OneTree /\ Len(proof.carried) = 1 /\ proof.carried[1].form = "KVValueHash"
     THEN proof' = [NoProof EXCEPT !.at = "reading", !.layer = "item",
                                   !.root = HashOf(proof.stack[1]),
                                   !.lower = proof.carried[1].value]
     ELSE Refuse
  /\ UNCHANGED chain

\* Mutant: a node that names the hash of its value is taken too.
MutBinds(node) == node.form \in {"KV", "KVValueHash"}

\* The item layer carries the key once, in a node whose hash binds its value.
Binds(node) == node.form = "KV"

\* An element of 63 bytes may be a subtree or a reference but where only items are held.
Unambiguous(value) == value = Amb => chain.onlyItems

\* verify_item_at_path() after the ops, and grovedb's own verification.
EndItemLayer ==
  /\ proof.at = "reading" /\ proof.layer = "item"
  /\ IF /\ OneTree
        /\ Len(proof.carried) = 1
        /\ Binds(proof.carried[1])
        /\ Unambiguous(proof.carried[1].value)
        /\ HashOf(proof.stack[1]) = proof.lower
     THEN proof' = [NoProof EXCEPT !.at = "proved", !.root = proof.root,
                                   !.value = proof.carried[1].value]
     ELSE Refuse
  /\ UNCHANGED chain

\* The comparisons of verify_item() and verify_item_against_root() with the value served and
\* the root trusted, and of a verifiable RPC's answer with the answer and root it names.
Accepts(value) == proof.value = value /\ proof.root = TrustedRoot

Compare(value) ==
  /\ proof.at = "proved"
  /\ IF Accepts(value) THEN proof' = [proof EXCEPT !.at = "accepted", !.value = value] ELSE Refuse
  /\ UNCHANGED chain

ProofStep ==
  \/ \E node \in Nodes[proof.layer] : Push(node)
  \/ \E parentLast \in BOOLEAN, side \in {"left", "right"} : Join(parentLast, side)
  \/ EndRootLayer
  \/ EndItemLayer
  \/ \E value \in Value : Compare(value)

-----------------------------------------------------------------------------
\* A value accepted under the trusted root is what the chain holds: no order of ops, no
\* opaque node, no node that names a value without binding it and no value that hashes like
\* a subtree makes verify_item_at_path() return another value under that root
\* (verify_item_against_root(), verify_item() and verify_grovedb_proof() compare it).
ItemProved == proof.at = "accepted" => proof.value = chain.holds
=============================================================================
