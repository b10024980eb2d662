----------------------------- MODULE Credentials -----------------------------
(***************************************************************************)
(* The life of a customs credential, with its cryptography: the ministry    *)
(* signs an approved document (ministry/src/index.ts), the UBLP agent       *)
(* checks the credential, proves it and sends the presentation              *)
(* (ublp-agent/src/index.ts), the L2 verifier checks the proof and records  *)
(* the document (l2-verifier-mock/src/index.ts).  The ministry and the      *)
(* agent crash, boot and migrate their keys as KeyFiles has it.             *)
(*                                                                         *)
(* The verifier asks nobody who he is: whoever has seen a credential may    *)
(* send the fields of a presentation himself, spelled and cut as he likes.  *)
(*                                                                         *)
(* What CustomsPipeline does with queues and retries is left out here, and  *)
(* what L2Verifier does with the ledger's file and revocations.             *)
(***************************************************************************)
EXTENDS KeyFiles, DocumentCrypto

CONSTANTS
    Ministry, Agent,    \* owners of the two keys
    DocumentIds, Bodies,
    HolderDid,
    OtherHolder,        \* a key of somebody who calls the verifier himself
    Requests,           \* POST /api/process
    MaxIssued,          \* bound: credentials the ministry issues
    Cuts,               \* bound: where a direct caller cuts the signed bytes
    MaxRecords,         \* bound: records when a presentation is posted directly
    SP1,                \* the agent and the verifier use the prover network
    PROOF_MODE          \* of the verifier: "sp1" or "dev"

ASSUME OwnersAssumption ==
    /\ {Ministry, Agent} \subseteq Owners
    /\ kind[Ministry] = "ministry" /\ kind[Agent] = "agent"
ASSUME ModeAssumption == SP1 \in BOOLEAN /\ PROOF_MODE \in {"sp1", "dev"}
ASSUME BoundAssumption == MaxIssued \in Nat /\ MaxRecords \in Nat /\ Cuts \subseteq 0 .. 2 * DigestLength

VARIABLES
    issued,                 \* the credentials in the ministry's document_records
    request,                \* the agent's handlers
    authorizedPublicKeys,   \* the verifier's whitelist, in memory
    settled                 \* the verifier's settled.json

vars == <<keyVars, issued, request, authorizedPublicKeys, settled>>

\* A document as JSON text: the fields in either order.
Document(id, body) == <<<<"documentId", id>>, <<"body", body>>>>
Documents == UNION {{Document(id, body), <<Document(id, body)[2], Document(id, body)[1]>>} :
                    id \in DocumentIds, body \in Bodies}

Idle == [pc |-> "idle"]
Done(vc, answer) == [pc |-> "done", vc |-> vc, answer |-> answer]

Init ==
    /\ KeyInit
    /\ issued = {}
    /\ request = [r \in Requests |-> Idle]
    /\ authorizedPublicKeys = {}
    /\ settled = {}

(***************************************************************************)
(* Ministry                                                                *)
(***************************************************************************)

issueVerifiableCredential(id, doc, key) ==
    [documentId |-> id,
     rawDocument |-> doc,
     proof |-> [proofValue |-> signDocument(doc, key, sha256Hash(id)),
                ministryPublicKey |-> key]]

\* An officer approves a document of the queue.
MinistryIssues(id, body) ==
    /\ IsUp(Ministry)
    /\ Cardinality(issued) < MaxIssued
    /\ issued' = issued \cup
         {issueVerifiableCredential(id, Document(id, body), proc[Ministry].key)}
    /\ UNCHANGED <<keyVars, request, authorizedPublicKeys, settled>>

(***************************************************************************)
(* UBLP agent                                                              *)
(***************************************************************************)

\* What a company may hand in: the proof of a credential it was issued, with the
\* right document (its fields reordered perhaps) or another one of its documents.
Submissions ==
    [documentId : DocumentIds, rawDocument : Documents, proof : {vc.proof : vc \in issued}]

documentHash(vc) == sha256HashDocument(vc.rawDocument)
documentIdHash(vc) == sha256Hash(vc.documentId)

\* Faulty variant: the identifier that the document names, not the credential's.
VCSignatureValid_OwnId(vc) ==
    verifySignature(vc.rawDocument, vc.proof.proofValue, vc.proof.ministryPublicKey,
                    sha256Hash(canonicalJson(vc.rawDocument)["documentId"]))

VCSignatureValid(vc) ==
    verifySignature(vc.rawDocument, vc.proof.proofValue, vc.proof.ministryPublicKey,
                    documentIdHash(vc))

ZKProofOf(vc, agentKey) ==
    generateZKProof(SP1,
        [rawDocument |-> vc.rawDocument,
         signature |-> vc.proof.proofValue,
         holderSignature |->
             signHolderProof(documentHash(vc), documentIdHash(vc), HolderDid, agentKey),
         holderKey |-> agentKey,
         holderDid |-> HolderDid],
        [documentHash |-> documentHash(vc),
         ministryPublicKey |-> vc.proof.ministryPublicKey,
         documentIdHash |-> documentIdHash(vc)])

PresentationOf(vc, zkProof) ==
    [proofSystem |-> zkProof.proofSystem,
     documentHash |-> documentHash(vc),
     documentIdHash |-> documentIdHash(vc),
     holderPubKeyHash |-> zkProof.holderPubKeyHash,
     proofBytes |-> zkProof.proofBytes,
     ministryPublicKey |-> vc.proof.ministryPublicKey]

AgentAnswers(r, vc, answer) == request' = [request EXCEPT ![r] = Done(vc, answer)]

\* The handler ends with an error when no proof comes.
SentOrNotProved(vc, zkProof) ==
    IF zkProof = NoProof
    THEN Done(vc, "notProved")
    ELSE [pc |-> "sent", vc |-> vc, presentation |-> PresentationOf(vc, zkProof)]

AgentProcesses(r, vc) ==
    /\ IsUp(Agent)
    /\ request[r] = Idle
    /\ \/ /\ ~ VCSignatureValid(vc)
          /\ AgentAnswers(r, vc, "signatureInvalid")
       \/ /\ VCSignatureValid(vc)
          /\ request' = [request EXCEPT ![r] =
                 SentOrNotProved(vc, ZKProofOf(vc, proc[Agent].key))]
    /\ UNCHANGED <<keyVars, issued, authorizedPublicKeys, settled>>

\* fetch throws: the presentation was not delivered.
L2Unreachable(r) ==
    /\ request[r].pc = "sent"
    /\ AgentAnswers(r, request[r].vc, "unreachable")
    /\ UNCHANGED <<keyVars, issued, authorizedPublicKeys, settled>>

(***************************************************************************)
(* L2 verifier                                                             *)
(***************************************************************************)

ProofValid(p) ==
    IF p.proofSystem = "sp1Groth16"
    THEN SP1 /\ sp1VerifyProof(p.proofBytes, p.documentHash, p.documentIdHash,
                               p.ministryPublicKey, p.holderPubKeyHash)
    ELSE /\ PROOF_MODE = "dev"
         /\ verifySignatureOverHash(combinedSignatureHash(p.documentHash, p.documentIdHash),
                                    p.proofBytes, p.ministryPublicKey)

RecordOf(p) ==
    [documentHash |-> p.documentHash,
     documentIdHash |-> p.documentIdHash,
     ministryPublicKey |-> p.ministryPublicKey]

L2Answer(p) ==
    CASE p.ministryPublicKey \notin authorizedPublicKeys -> "unauthorized"
      [] p.ministryPublicKey \in authorizedPublicKeys /\ ~ ProofValid(p) -> "proofRefused"
      [] OTHER ->
            IF \E record \in settled : record.documentIdHash = p.documentIdHash
            THEN "duplicate" ELSE "approved"

Settle(p) ==
    settled' = IF L2Answer(p) = "approved" THEN settled \cup {RecordOf(p)} ELSE settled

\* POST /api/verify-and-settle.  The answer may be lost on its way to the agent.
L2Settles(r) ==
    /\ request[r].pc = "sent"
    /\ LET p == request[r].presentation
       IN /\ Settle(p)
          /\ \E answer \in {L2Answer(p), "unreachable"} : AgentAnswers(r, request[r].vc, answer)
    /\ UNCHANGED <<keyVars, issued, authorizedPublicKeys>>

Spellings == {"digest", "other"}

\* The fields of a presentation of own, with the signed bytes cut after the cut-th
\* half, and spelled somehow.
FieldsCut(own, cut, spelled) ==
    LET signed == signedBytes(documentHash(own), documentIdHash(own))
    IN [documentHash |-> [spelled |-> spelled, bytes |-> SubSeq(signed, 1, cut)],
        documentIdHash |-> [spelled |-> spelled, bytes |-> SubSeq(signed, cut + 1, Len(signed))]]

\* The schema asks for a character or more; one that is no digit decodes to nothing.
IsNotEmpty(field) == field.bytes # << >> \/ field.spelled = "other"

\* The same request from anybody, with the proof of a credential vc that he has seen
\* or has had proved, and fields of his own making.
L2SettlesPosted(vc, fields) ==
    /\ Cardinality(settled) < MaxRecords
    /\ IsNotEmpty(fields.documentHash) /\ IsNotEmpty(fields.documentIdHash)
    /\ LET zkProof == ZKProofOf(vc, OtherHolder)
       IN /\ zkProof # NoProof
          /\ Settle([PresentationOf(vc, zkProof) EXCEPT
                        !.documentHash = fields.documentHash,
                        !.documentIdHash = fields.documentIdHash])
    /\ UNCHANGED <<keyVars, issued, request, authorizedPublicKeys>>

\* syncMinistryPublicKey, at the verifier's start or by POST /api/sync.
L2Syncs ==
    /\ IsUp(Ministry)
    /\ authorizedPublicKeys' = authorizedPublicKeys \cup {proc[Ministry].key}
    /\ UNCHANGED <<keyVars, issued, request, settled>>

L2Restarts ==
    /\ authorizedPublicKeys # {}
    /\ authorizedPublicKeys' = {}
    /\ UNCHANGED <<keyVars, issued, request, settled>>

-----------------------------------------------------------------------------

\* A crash of the agent takes the handlers that wait for the verifier with it.
ProcessStep ==
    /\ KeyNext
    /\ request' = [r \in Requests |->
           IF request[r].pc = "sent" /\ IsUp(Agent) /\ proc'[Agent] = Down
           THEN Done(request[r].vc, "lost") ELSE request[r]]
    /\ UNCHANGED <<issued, authorizedPublicKeys, settled>>

Next ==
    \/ ProcessStep
    \/ \E id \in DocumentIds, body \in Bodies : MinistryIssues(id, body)
    \/ \E r \in Requests :
        \/ \E vc \in Submissions : AgentProcesses(r, vc)
        \/ L2Unreachable(r)
        \/ L2Settles(r)
    \/ \E vc, own \in issued, cut \in Cuts, spelled \in Spellings :
           L2SettlesPosted(vc, FieldsCut(own, cut, spelled))
    \/ L2Syncs
    \/ L2Restarts

Spec == Init /\ [][Next]_vars

(***************************************************************************)
(* Properties                                                              *)
(***************************************************************************)

\* The submission is a credential the ministry issued; JSON may have lost the order
\* of the document's fields.
IsIssued(vc) ==
    \E own \in issued :
        /\ vc.documentId = own.documentId
        /\ canonicalJson(vc.rawDocument) = canonicalJson(own.rawDocument)
        /\ vc.proof = own.proof

RecordFor(vc) ==
    [documentHash |-> documentHash(vc),
     documentIdHash |-> documentIdHash(vc),
     ministryPublicKey |-> vc.proof.ministryPublicKey]

\* The fields of a record, decoded and put together, are what the ministry signed
\* for a document it approved and the identifier it approved it for, whoever sent
\* them and however he spelled them.  What an agent was told is APPROVED is recorded
\* as the document and the identifier it submitted, and the ministry issued that
\* credential (combinedSignatureHash, verify-and-settle).
OnlyIssuedSettles ==
    /\ \A record \in settled : \E vc \in issued :
        /\ signedBytes(record.documentHash, record.documentIdHash)
              = signedBytes(documentHash(vc), documentIdHash(vc))
        /\ record.ministryPublicKey = vc.proof.ministryPublicKey
    /\ \A r \in Requests :
        request[r].pc = "done" /\ request[r].answer = "approved" =>
            /\ RecordFor(request[r].vc) \in settled
            /\ \E vc \in issued : RecordFor(vc) = RecordFor(request[r].vc)

\* No credential the ministry issued is refused for its signature: not by the agent,
\* who rebuilds the hashes from the document, whatever the order of its fields, nor
\* by the verifier (verifySignature, sha256HashDocument, canonicalJson).
IssuedIsAccepted ==
    \A r \in Requests :
        request[r].pc = "done" /\ IsIssued(request[r].vc)
            => request[r].answer \notin {"signatureInvalid", "proofRefused"}

\* The agent sends no presentation that the verifier refuses for its proof: the two
\* check the same signature, one over the document and one over its hashes
\* (ublp-agent/src/index.ts, verifySignatureOverHash).
AgentAndVerifierAgree ==
    \A r \in Requests : request[r].pc = "done" => request[r].answer # "proofRefused"

\* sp1-circuit/src/main.rs:26, "Ministry sig: P-256 ECDSA over SHA256(doc_hash ||
\* id_hash)": the circuit proves a credential that the ministry issued and the agent
\* found valid (signDocument, signHolderProof, main.rs).
IssuedIsProvable ==
    \A r \in Requests :
        request[r].pc = "done" /\ IsIssued(request[r].vc) => request[r].answer # "notProved"
=============================================================================
