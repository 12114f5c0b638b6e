------------------------------ MODULE Answers ------------------------------
(***************************************************************************)
(* What the SDK makes of the answers it is given: requests and their       *)
(* retries, the cost of decoding an answer, the scan of a proof's          *)
(* envelope, a proof of an item, a read of Ethereum state, a block's       *)
(* completeness, and the signatures it gives away itself.  These share     *)
(* nothing but what the caller carries from one to the next, so one at a   *)
(* time is all there is to see of them.                                    *)
(***************************************************************************)
EXTENDS Requests, JsonGrammar, EnvelopeScan, ItemProof, EthState, Completeness, Signing

CONSTANTS
  Envelopes,       \* the byte strings a server may send for an envelope
  Slots,           \* the lists of slots asked of an account
  Responses        \* the proofs a state answer may hold

ASSUME AnswersAssumption ==
  /\ Envelopes \subseteq Seq(Byte)
  /\ Slots \subseteq Seq(Slot) /\ Responses \subseteq Seq(StateProofs)

VARIABLE job   \* what is being done

vars == <<job, requestVars, budgetVars, scanVars, proofVars, read, completenessVars, signingVars>>

AnswersTypeOK == RequestTypeOK /\ ScanTypeOK /\ ProofTypeOK /\ EthTypeOK /\ CompletenessTypeOK

AnswersInit ==
  /\ job = "none"
  /\ RequestInit /\ BudgetInit /\ ScanInit /\ ProofInit /\ EthInit /\ CompletenessInit /\ SigningInit

\* The account and block asked for are as good as any.
AskedAddress == CHOOSE a \in Address : TRUE
AskedBlock == CHOOSE b \in BlockNumber : TRUE

Doing(j) == job \in {"none", j} /\ job' = j

\* The start of each check is one state's step, its input anything of its set.
Fetching ==
  /\ read.at = "idle"
  /\ \/ \E mode \in Mode, slots \in Slots, root \in StateRoot, proofs \in Responses :
          FetchState(mode, AskedAddress, slots, AskedBlock, root, proofs)
     \/ \E mode \in Mode, root \in StateRoot, proofs \in Responses :
          FetchCall(mode, AskedBlock, root, proofs)
     \/ FetchFails

Counted ==
  /\ count.at = "idle"
  /\ \E text \in Texts, underProof \in BOOLEAN : CountBegin(text, underProof)

Scanning == scan.at = "idle" /\ \E bytes \in Envelopes : ScanBegin(bytes)

Proving ==
  \/ \E holds \in Held, onlyItems, descends \in BOOLEAN : ProofBegin(holds, onlyItems, descends)
  \/ \E holds \in Held, asked \in BOOLEAN : ProofOfAnswer(holds, asked)

Checking == check.at = "idle" /\ \E logs \in Matched : BeginCheck(logs)

AnswersNext ==
  \/ /\ Doing("request") /\ RequestStep
     /\ UNCHANGED <<budgetVars, scanVars, proofVars, read, completenessVars, signingVars>>
  \/ /\ Doing("count") /\ (Counted \/ BudgetStep)
     /\ UNCHANGED <<requestVars, scanVars, proofVars, read, completenessVars, signingVars>>
  \/ /\ Doing("scan") /\ (Scanning \/ ScanStep)
     /\ UNCHANGED <<requestVars, budgetVars, proofVars, read, completenessVars, signingVars>>
  \/ /\ Doing("proof") /\ (Proving \/ ProofStep)
     /\ UNCHANGED <<requestVars, budgetVars, scanVars, read, completenessVars, signingVars>>
  \/ /\ Doing("state") /\ (Fetching \/ EthStep)
     /\ UNCHANGED <<requestVars, budgetVars, scanVars, proofVars, completenessVars, signingVars>>
  \/ /\ Doing("completeness") /\ (Checking \/ CompletenessStep)
     /\ UNCHANGED <<requestVars, budgetVars, scanVars, proofVars, read, signingVars>>
  \/ /\ Doing("sign") /\ SigningStep
     /\ UNCHANGED <<requestVars, budgetVars, scanVars, proofVars, read, completenessVars>>

AnswersSpec == AnswersInit /\ [][AnswersNext]_vars
=============================================================================
