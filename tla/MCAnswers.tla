----------------------------- MODULE MCAnswers -----------------------------
(* Answers for TLC: what servers may send, and what is asked to be signed. *)
EXTENDS Answers, EnvelopeGrammar

CONSTANTS a1, a2, s1, s2, r1, r2, h1, h2, w1, w2, zero, q1, q2

Symmetry == Permutations(Request)

-----------------------------------------------------------------------------
(* Envelopes: all the short ones, and longer ones with any one byte changed. *)

Short == UNION {[1 .. n -> Byte] : n \in 0 .. 6}
Leaf == <<0, 0>>
Whole(layer, options) == <<0>> \o layer \o <<options>>
Over(key, layer) == <<0, 1>> \o key \o layer
Long ==
  { Whole(<<1, 3, 0>>, 0),
    Whole(Over(<<1, 1>>, Leaf), 1),
    Whole(Over(<<1, 1>>, Over(<<0>>, Leaf)), 1),
    Whole(<<0, 2, 0, 2, 0>> \o Leaf \o <<0>> \o Leaf, 0),
    Whole(<<0, 2, 0, 2, 0>> \o Over(<<0>>, Leaf) \o <<0>> \o Leaf, 0),
    Whole(<<0, 2, 0, 3, 0>> \o Leaf \o <<0>> \o Leaf \o <<0>> \o Leaf, 0) }
MCEnvelopes == Short \cup UNION {{[e EXCEPT ![i] = b] : i \in DOMAIN e, b \in Byte} : e \in Long}

-----------------------------------------------------------------------------
(* Answers in JSON: scalars, what holds them, and what holds those, under names and quotes that
   could be taken for others.                                                                  *)

Bare(kind, bytes) == [kind |-> kind, bytes |-> bytes, items |-> <<>>, gaps |-> <<>>]
Number == Bare("number", <<"1">>)
Scalars == {Number, Bare("number", <<"-", "1">>), Bare("word", <<"t", "t">>)}
Quoted(s) == Bare("string", <<Quote>> \o s \o <<Quote>>)
Proof == Quoted(<<P>>)
Strings == {Proof} \cup {Quoted(s) : s \in {<<Backslash, Quote>>, <<"[">>}}

\* White space after each colon, everywhere, or nowhere.
Style == {"tight", "colons", "wide"}
GapOf(style, kind, i, last) ==
  LET space == IF style = "wide" THEN <<" ">> ELSE <<>>
      colon == IF style = "tight" THEN <<>> ELSE <<" ">>
  IN IF i \in {1, last} THEN space
     ELSE IF kind = "object" /\ i % 2 = 0 THEN space \o <<":">> \o colon
     ELSE space \o <<",">> \o space
With(kind, items, style) ==
  LET last == Len(items) + 1
      gaps == [i \in 1 .. last |-> GapOf(style, kind, i, last)]
      shell == [kind |-> kind, bytes |-> <<>>, items |-> items, gaps |-> gaps]
  IN [shell EXCEPT !.bytes =
       <<Opener(kind)>> \o FlattenSeq(Members(shell)) \o gaps[last] \o <<Closer(kind)>>]

StyledTexts(style) ==
  LET Array(items) == With("array", items, style)
      Object(items) == With("object", items, style)
      Rows == {Array([i \in 1 .. n |-> Number]) : n \in 0 .. 4}
      Flat ==
        Rows \cup {Array(<<v, w>>) : v \in Scalars, w \in Strings}
          \cup {Object(<<k, v>>) : k \in Strings, v \in Scalars \cup Strings}
      Deep ==
        {Array(<<v, w>>) : v \in Flat, w \in Rows \cup {Number}}
          \cup {Object(<<k, v>>) : k \in Strings, v \in Flat}
  IN Flat \cup Deep
       \cup {Object(<<Proof, v>>) : v \in Deep}
       \cup {Object(<<k, v, l, w>>) : k \in Strings, v \in Rows, l \in Strings, w \in Flat \cup {Number}}
       \cup {Array(<<v>>) : v \in {Object(<<Proof, w>>) : w \in Flat}}
MCTexts == Scalars \cup Strings \cup UNION {StyledTexts(style) : style \in Style}

-----------------------------------------------------------------------------
(* State answers: one proof of any kind, or one and a true one after it. *)

MCAccounts == r1 :> (a1 :> h1 @@ a2 :> h2) @@ r2 :> (a1 :> h2 @@ a2 :> h2)
MCStorage == h1 :> (s1 :> w1 @@ s2 :> w2) @@ h2 :> (s1 :> w2)
MCSlots == {<<>>, <<s1>>, <<s1, s2>>}

Two(s, v, t, w) == <<SlotProof(s, v, TRUE), SlotProof(t, w, TRUE)>>
SomeStorage ==
  {<<>>} \cup {<<s>> : s \in SlotProofs}
    \cup {Two(s, v, t, w) : s \in Slot, v \in Word, t \in Slot, w \in Word}
Proofs ==
  [ address : Address, block : BlockNumber, root : StateRoot, storageHash : StorageHash,
    nodes : BOOLEAN, storage : SomeStorage ]
Second == {x \in Proofs : x.address = a1 /\ x.nodes /\ x.storage = <<SlotProof(s1, w2, TRUE)>>}
MCResponses ==
  {<<>>} \cup {<<x>> : x \in Proofs}
    \cup {<<x, y>> : x \in {x \in Proofs : x.nodes /\ Len(x.storage) < 2}, y \in Second}

-----------------------------------------------------------------------------
(* Logs whose cells are all of one alphabet, so that a length could pass for a topic. *)

Cells(n) == UNION {[1 .. k -> Cell] : k \in 0 .. n}
ShortLogs == {Log(a, topics, data) : a \in Cell, topics \in Cells(1), data \in Cells(2)}
MCServed == UNION {[1 .. n -> ShortLogs] : n \in 0 .. 2}
MCMatched == {<<>>, <<Log(0, <<1>>, <<0>>)>>, <<Log(1, <<>>, <<>>), Log(0, <<1>>, <<0, 1>>)>>}

-----------------------------------------------------------------------------
(* What may be asked to be signed: texts that hold line breaks, labels and colons. *)

MCToken == {NL, Colon, "a", "b", "Key", "1", "2", "{}", "{id}", "GET", "POST"} \cup {DidPrefix[i] : i \in 1 .. 4}
SomeText == {<<"a">>, <<"b">>, <<"a", NL, "Key", "b">>, <<"b", NL, "Key", "b">>}
Did(name) == DidPrefix \o <<name>>
Name == {Did("a"), Did("b"), <<"a">>, <<"a", Colon, "a">>}
AnyText == {<<"1">>, <<"2">>}
Fixed == {<<"1">>}

Writes == [Subgrove : SomeText, Key : SomeText, Owner : Fixed, DataHash : AnyText, Nonce : AnyText]
Deletes == [Subgrove : SomeText, Key : SomeText, Owner : Fixed, Nonce : AnyText]
Manifests ==
  [ Subgrove : SomeText, Key : SomeText, Owner : Fixed, Filename : Fixed, ContentType : AnyText,
    TotalSize : Fixed, ContentHash : AnyText, ChunkCount : Fixed, ChunkSize : Fixed,
    ChunkMerkleRoot : Fixed, Encryption : AnyText, Nonce : Fixed ]
MCIndexing == {<<"2">>}
Registrations == [Subgrove : SomeText \cup {<<"a", Colon, "a">>}, Owner : Name, Config : AnyText, Nonce : AnyText]
Removals == [Node : SomeText, Nonce : AnyText]
Revokes == [Subgrove : {<<"a">>, <<"a", Colon, "a">>}, Revokee : Name, Sender : Name, Nonce : AnyText]
ApiRequests ==
  [ DID : {Did("a"), Did("b")}, KeyID : SomeText, Method : AnyText, Target : SomeText, Timestamp : Fixed,
    Nonce : AnyText, BodyHash : AnyText ]
OlderRequests ==
  [ Method : {<<"GET">>, <<"POST">>}, Path : {<<"a">>, <<"a", Colon, "1">>, Did("a")}, Query : AnyText,
    Timestamp : AnyText, Body : AnyText ]
Grants ==
  [ Grantee : Name, GranteeKey : Fixed, KeyEpoch : AnyText, EphemeralKey : Fixed,
    EncryptedKey : Fixed, GrantedBy : Fixed, GrantedAt : Fixed ]
Granting == [Subgrove : SomeText, Sender : Fixed, Nonce : AnyText]
Fundings == [Subgrove : SomeText, Amount : AnyText, From : SomeText, Nonce : Fixed]
Transfers == [From : Fixed, To : SomeText, Amount : AnyText, Memo : SomeText, Nonce : Fixed]
Claims == [Subgrove : SomeText, Indexer : SomeText, Nonce : AnyText]
Removed == [Subgrove : {<<"a">>, <<"a", Colon, "a">>}, Owner : Name, Nonce : AnyText]
Documents == {<<"{}">>, <<"{id}">>}
Rotating == [Subgrove : Fixed, Sender : Fixed, NewEpoch : AnyText, Nonce : Fixed]

To(kind, fields, grants) == [kind : {kind}, fields : fields, grants : grants]
NoGrants == {<<>>}
MCIntent == UNION
  { To("StoreData", Writes, NoGrants), To("UpdateData", Writes, NoGrants),
    To("DeleteData", Deletes, NoGrants), To("DeleteFileManifest", Deletes, NoGrants),
    To("StoreFileManifest", Manifests, NoGrants),
    To("RegisterSubgrove", Registrations, NoGrants),
    To("UnregisterStorageNode", Removals, NoGrants),
    To("FundSubgrove", Fundings, NoGrants), To("Transfer", Transfers, NoGrants),
    To("ClaimSubgroveIndexing", Claims, NoGrants), To("DeregisterSubgrove", Removed, NoGrants),
    To("RegisterDid", [Document : Documents], NoGrants),
    To("UpdateDid", [Document : Documents, Nonce : AnyText], NoGrants),
    To("RevokeSubgroveKey", Revokes, NoGrants),
    To("willow-request-v2", ApiRequests, NoGrants),
    To("LegacyRequest", OlderRequests, NoGrants),
    To("GrantSubgroveKey", Granting, {<<g>> : g \in Grants}),
    To("RotateSubgroveKey", Rotating, UNION {[1 .. n -> Grants] : n \in 0 .. 2}) }

=============================================================================
