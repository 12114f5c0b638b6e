------------------------------- MODULE Signing -------------------------------
(***************************************************************************)
(* What a signature is over (src/signed_messages.rs, and for requests      *)
(* src/auth.rs): one DID's key signs messages built from what the DID      *)
(* asks for, and whoever carries a signature may put it on anything else.  *)
(*                                                                         *)
(* A text is a sequence of tokens, a line break and a colon among them.    *)
(* Hex, numbers and hashes are one token each; hashes don't collide.  The  *)
(* node checks a transaction as the SDK does; its own builders (for        *)
(* registrations, grants, rotations and storage nodes) are the node's.     *)
(***************************************************************************)
EXTENDS Integers, Sequences, SequencesExt, FiniteSets

CONSTANTS
  Token,       \* what a text is a sequence of
  Intent,      \* what may be asked for: [kind, fields, grants], fields by label
  Indexing,    \* the Config of the registrations of indexing subgroves
  MaxSigned    \* bound: the signatures made

VARIABLES
  signed,     \* what was signed, with the message
  accepted    \* what a node or server last accepted as signed

signingVars == <<signed, accepted>>

NL == "\n"
Colon == ":"

Nothing == [kind |-> "none", fields |-> <<>>, grants |-> <<>>]

\* The lines of each kind, in order; the nonce is the last of each.
Manifest == <<"Subgrove", "Key", "Owner", "Filename", "ContentType", "TotalSize", "ContentHash",
              "ChunkCount", "ChunkSize", "ChunkMerkleRoot", "Encryption", "Nonce">>
GrantLines == <<"Grantee", "GranteeKey", "KeyEpoch", "EphemeralKey", "EncryptedKey",
                "GrantedBy", "GrantedAt">>
Lines ==
  [ StoreData |-> <<"Subgrove", "Key", "Owner", "DataHash", "Nonce">>,
    UpdateData |-> <<"Subgrove", "Key", "Owner", "DataHash", "Nonce">>,
    DeleteData |-> <<"Subgrove", "Key", "Owner", "Nonce">>,
    StoreFileManifest |-> Manifest,
    DeleteFileManifest |-> <<"Subgrove", "Key", "Owner", "Nonce">>,
    RegisterSubgrove |-> <<"Subgrove", "Owner", "Config", "Nonce">>,
    UnregisterStorageNode |-> <<"Node", "Nonce">>,
    FundSubgrove |-> <<"Subgrove", "Amount", "From", "Nonce">>,
    Transfer |-> <<"From", "To", "Amount", "Memo", "Nonce">> ]

\* These have lines without labels; a request's texts are headers too, or a URL's, which hold
\* no line break, and a document's is escaped in its JSON.
RequestLines == <<"DID", "KeyID", "Method", "Target", "Timestamp", "Nonce", "BodyHash">>
BareLines ==
  [ kind \in {"willow-request-v2", "ClaimSubgroveIndexing", "UpdateDid"} |->
      IF kind = "willow-request-v2" THEN RequestLines
      ELSE IF kind = "UpdateDid" THEN <<"Document", "Nonce">>
      ELSE <<"Subgrove", "Indexer", "Nonce">> ]

\* And these are joined with colons.
Joined ==
  [ RevokeSubgroveKey |-> <<"Subgrove", "Revokee", "Sender", "Nonce">>,
    DeregisterSubgrove |-> <<"Subgrove", "Owner", "Nonce">> ]

\* And these hold grants, or do not begin with their kind: a document is signed as it is, and the
\* older form of a request is over some of what is sent.
Others ==
  [ GrantSubgroveKey |-> <<"Subgrove", "Sender", "Nonce">>,
    RotateSubgroveKey |-> <<"Subgrove", "Sender", "NewEpoch", "Nonce">>,
    RegisterDid |-> <<"Document">>,
    LegacyRequest |-> <<"Method", "Path", "Query", "Timestamp", "Body">> ]

\* The methods the API knows.
Method == {"GET", "POST", "PUT", "DELETE"}

Has(text, token) == \E i \in DOMAIN text : text[i] = token

MessageKind == DOMAIN Lines \cup DOMAIN BareLines \cup DOMAIN Joined \cup DOMAIN Others
FieldsOf(kind) ==
  CASE kind \in DOMAIN Lines -> Lines[kind]
    [] kind \in DOMAIN BareLines -> BareLines[kind]
    [] kind \in DOMAIN Joined -> Joined[kind]
    [] kind \in DOMAIN Others -> Others[kind]

\* Texts by label.
Texted(labels) == [{labels[i] : i \in DOMAIN labels} -> Seq(Token)]

\* The types of what is asked: any texts, but a nonce is a number, a document is JSON, and a
\* request's method is one of the API's and its time a number.
Asked(x) ==
  /\ x.kind \in MessageKind
  /\ x \in [kind : {x.kind}, fields : Texted(FieldsOf(x.kind)), grants : Seq(Texted(GrantLines))]
  /\ x.kind = "GrantSubgroveKey" => Len(x.grants) = 1
  /\ x.kind \notin {"GrantSubgroveKey", "RotateSubgroveKey"} => x.grants = <<>>
  /\ "Nonce" \in DOMAIN x.fields => ~Has(x.fields["Nonce"], NL) /\ ~Has(x.fields["Nonce"], Colon)
  /\ "Document" \in DOMAIN x.fields =>
       /\ ~Has(x.fields["Document"], NL)
       /\ x.fields["Document"] # <<>> => x.fields["Document"][1] \notin MessageKind \cup Method
  /\ x.kind = "LegacyRequest" =>
       /\ \E method \in Method : x.fields["Method"] = <<method>>
       /\ ~Has(x.fields["Timestamp"], Colon)

ASSUME IntentAssumption == \A x \in Intent : Asked(x)

Line(label, text) == <<NL, label>> \o text
LinesOf(labels, fields) == FlattenSeq([i \in DOMAIN labels |-> Line(labels[i], fields[labels[i]])])
Behind(mark, labels, fields) ==
  FlattenSeq([i \in DOMAIN labels |-> <<mark>> \o fields[labels[i]]])

GrantText(grant) == LinesOf(GrantLines, grant)

-----------------------------------------------------------------------------
(* The messages *)

GrantSubgroveKey(x) ==
  LinesOf(<<"Subgrove", "Sender">>, x.fields) \o GrantText(x.grants[1])
    \o LinesOf(<<"Nonce">>, x.fields)

RotateSubgroveKey(x) ==
  LinesOf(<<"Subgrove", "Sender", "NewEpoch">>, x.fields)
    \o Line("Grants", <<ToString(Len(x.grants))>>)
    \o FlattenSeq([i \in DOMAIN x.grants |-> GrantText(x.grants[i])])
    \o LinesOf(<<"Nonce">>, x.fields)

\* {METHOD}:{PATH}:{TIMESTAMP}: what is behind the path's "?" is dropped, and so is the body.
LegacyMessage(fields) ==
  fields["Method"] \o <<Colon>> \o fields["Path"] \o <<Colon>> \o fields["Timestamp"]

\* The registration of a DID signs its document, and no nonce.
Message(x) ==
  IF x.kind = "RegisterDid" THEN x.fields["Document"]
  ELSE IF x.kind = "LegacyRequest" THEN LegacyMessage(x.fields)
  ELSE <<x.kind>> \o
    CASE x.kind \in DOMAIN Lines -> LinesOf(Lines[x.kind], x.fields)
      [] x.kind \in DOMAIN BareLines -> Behind(NL, BareLines[x.kind], x.fields)
      [] x.kind \in DOMAIN Joined -> Behind(Colon, Joined[x.kind], x.fields)
      [] x.kind = "GrantSubgroveKey" -> GrantSubgroveKey(x)
      [] x.kind = "RotateSubgroveKey" -> RotateSubgroveKey(x)

-----------------------------------------------------------------------------
(* What is refused before it is signed, and by the node whatever its signature *)

\* Mutant: a field is taken as it is.
MutFieldOk(text) == TRUE

\* field(): a line holds no line break.
FieldOk(text) == ~Has(text, NL)

FieldsOk(fields) == \A label \in DOMAIN fields : FieldOk(fields[label])

\* validate_did(): the prefix, then a name of letters, digits, - and _.
DidPrefix == <<"did", Colon, "willow", Colon>>
ValidDid(text) ==
  Len(text) = 5 /\ SubSeq(text, 1, 4) = DidPrefix /\ text[5] \notin {NL, Colon}

\* check_register_subgrove(): an id is a name too, but for an indexing subgrove, of which nothing
\* is checked (the rest of the rules is on what Config hashes).
ValidId(text) == Len(text) = 1 /\ FieldOk(text) /\ ~Has(text, Colon)

GrantOk(grant) == FieldsOk(grant) /\ ValidDid(grant["Grantee"])

\* What each of the client's writes may sign.
DataWrite(x) == x.kind \in {"StoreData", "UpdateData", "DeleteData"} /\ FieldsOk(x.fields)

FileWrite(x) ==
  x.kind \in {"StoreFileManifest", "DeleteFileManifest"} /\ FieldsOk(x.fields)

StorageNode(x) == x.kind = "UnregisterStorageNode" /\ FieldsOk(x.fields)

Registration(x) ==
  /\ x.kind = "RegisterSubgrove" /\ FieldsOk(x.fields)
  /\ x.fields["Config"] \in Indexing \/ ValidId(x.fields["Subgrove"])

KeyGrant(x) == x.kind = "GrantSubgroveKey" /\ FieldsOk(x.fields) /\ GrantOk(x.grants[1])

KeyRotation(x) ==
  /\ x.kind = "RotateSubgroveKey" /\ FieldsOk(x.fields)
  /\ x.grants # <<>>
  /\ \A i \in DOMAIN x.grants :
       GrantOk(x.grants[i]) /\ x.grants[i]["KeyEpoch"] = x.fields["NewEpoch"]

KeyRevoke(x) ==
  /\ x.kind = "RevokeSubgroveKey"
  /\ ~Has(x.fields["Subgrove"], Colon)
  /\ ValidDid(x.fields["Revokee"])
  /\ ValidDid(x.fields["Sender"])

DidWrite(x) == x.kind \in {"RegisterDid", "UpdateDid"}

\* The texts of these are signed as they come.
Spending(x) == x.kind \in {"FundSubgrove", "DeregisterSubgrove"}
Transferring(x) == x.kind \in {"ClaimSubgroveIndexing", "Transfer"}
AsTheyCome(x) == Spending(x) \/ Transferring(x)

\* A request that carries read rights is signed whole, any other in the older form.
Read(x) == x.kind = "willow-request-v2" /\ FieldsOk(x.fields)
OtherRequest(x) == x.kind = "LegacyRequest"

Checked(x) ==
  \/ DataWrite(x) \/ FileWrite(x) \/ StorageNode(x) \/ Registration(x)
  \/ KeyGrant(x) \/ KeyRotation(x) \/ KeyRevoke(x)
  \/ DidWrite(x) \/ AsTheyCome(x) \/ Read(x) \/ OtherRequest(x)

-----------------------------------------------------------------------------
SigningInit == signed = {} /\ accepted = Nothing

\* The transaction or request asked for is checked, and signed under the next nonce.
Sign(x) ==
  /\ Cardinality(signed) < MaxSigned
  /\ Checked(x)
  /\ signed' = signed \cup {[what |-> x, message |-> Message(x)]}
  /\ UNCHANGED accepted

\* A definition's payload is signed outside the SDK, which checks no more than its lines.
SignDefinition(x) ==
  /\ Cardinality(signed) < MaxSigned
  /\ x.kind = "RegisterSubgrove" /\ FieldsOk(x.fields)
  /\ signed' = signed \cup {[what |-> x, message |-> Message(x)]}
  /\ UNCHANGED accepted

\* Whoever carries a signature puts it on x, and the node verifies it over x's message.
Accept(x) ==
  /\ Checked(x)
  /\ \E s \in signed : s.message = Message(x)
  /\ accepted' = x
  /\ UNCHANGED signed

SigningStep == \E x \in Intent : Sign(x) \/ SignDefinition(x) \/ Accept(x)

-----------------------------------------------------------------------------
\* What the older form tells of a request.
SameRoute(x, y) ==
  \A label \in {"Method", "Path", "Timestamp"} : x.fields[label] = y.fields[label]

\* What a signature over one thing may be taken for.
Meant(what, x) ==
  /\ what.kind = x.kind
  /\ OtherRequest(x) => SameRoute(what, x)
  /\ ~OtherRequest(x) /\ ~AsTheyCome(x) => what = x

\* A signature is good for nothing but what its DID asked to sign: no other transaction, of
\* any kind, and no request has the same message, whatever line breaks, colons or labels
\* the texts of either hold, and however many grants they carry (field(), validate_did(),
\* revoke_subgrove_key(), rotate_subgrove_key()).  Of the kinds whose texts are signed as they
\* come only the kind is certain; and the older form of a request is good for any with its
\* method, path and time, whatever their query and body (legacy_request_message()), but for no
\* transaction and no request that carries read rights.
SignedIsMeant == accepted # Nothing => \E s \in signed : Meant(s.what, accepted)
=============================================================================
