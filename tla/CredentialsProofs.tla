-------------------------- MODULE CredentialsProofs --------------------------
(***************************************************************************)
(* What a customs credential is worth, for any ministries' and agents'      *)
(* keys, passphrases, documents, requests and number of credentials: an     *)
(* owner keeps one key, the ledger holds only what was signed, and what was *)
(* signed is nowhere refused.                                               *)
(***************************************************************************)
EXTENDS Credentials, TLAPS

\* The keys' files: one key for each owner, whatever crashes or migrates, and no secret in
\* plaintext.
-----------------------------------------------------------------------------
\* The files some reader can parse.
StoredFiles == [format : Formats, key : Keys, pass : Passphrases \cup {NoPassphrase}]

LEMMA StoredOrNot ==
    ASSUME NEW f \in Files
    PROVE  /\ f.format \in Formats => f \in StoredFiles
           /\ f.format \in Formats \/ f = Missing \/ f = Torn
  BY DEF Files, StoredFiles, Formats, Missing, Torn

LEMMA MissingAndTorn ==
    /\ Missing \in Files /\ Torn \in Files /\ Missing # Torn
    /\ Missing.format = "missing" /\ Torn.format = "torn"
    /\ Missing.format \notin Formats /\ Torn.format \notin Formats
  BY DEF Files, Missing, Torn, Formats

\* What a process writes is a file that it can read, and never a secret in plaintext.
LEMMA ContentType ==
    ASSUME NEW key \in Keys, NEW pass \in Passphrases \cup {NoPassphrase}
    PROVE  /\ Content(key, pass) \in Files
           /\ Content(key, pass).format \in Formats
           /\ Content(key, pass).key = key
           /\ pass # NoPassphrase => Content(key, pass).format = "ct"
  BY DEF Content, Stored, Files, Formats

LEMMA ProcessTypes ==
    /\ Down \in Processes /\ Down.pc = "down"
    /\ \A content \in Files : /\ Persisting(content) \in Processes
                              /\ Persisting(content).pc = "persisting"
                              /\ Persisting(content).content = content
    /\ \A key \in Keys : Up(key) \in Processes /\ Up(key).pc = "up" /\ Up(key).key = key
  BY DEF Down, Persisting, Up, Processes

LEMMA EarlierTypes ==
    ASSUME NEW o \in Owners, NEW f \in EarlierFiles(o)
    PROVE  /\ f \in Files
           /\ f # Missing => f.format \in {"plain", "v2"} /\ f.key = <<o, 0>>
           /\ kind[o] = "secret" => f = Missing
<1>1. \/ f = Missing
      \/ kind[o] # "secret" /\ f = Stored("plain", <<o, 0>>, NoPassphrase)
      \/ /\ kind[o] = "ministry"
         /\ \E pass \in Passphrases : f = Stored("v2", <<o, 0>>, pass)
  BY DEF EarlierFiles
<1>2. <<o, 0>> \in Keys /\ {"plain", "v2"} \subseteq Formats
  BY MaxKeysAssumption DEF Keys, Formats
<1>3. ASSUME NEW format \in Formats, NEW pass \in Passphrases \cup {NoPassphrase}
      PROVE  /\ Stored(format, <<o, 0>>, pass) \in Files
             /\ Stored(format, <<o, 0>>, pass).format = format
             /\ Stored(format, <<o, 0>>, pass).key = <<o, 0>>
  BY <1>2 DEF Stored, Files
<1>4. CASE kind[o] # "secret" /\ f = Stored("plain", <<o, 0>>, NoPassphrase)
  BY <1>2, <1>3, <1>4
<1>5. ASSUME kind[o] = "ministry", NEW pass \in Passphrases, f = Stored("v2", <<o, 0>>, pass)
      PROVE  f \in Files /\ f.format = "v2" /\ f.key = <<o, 0>>
  BY <1>2, <1>3, <1>5
<1>6. CASE f = Missing
  BY <1>6, MissingAndTorn
<1>7. CASE kind[o] = "ministry" /\ \E pass \in Passphrases : f = Stored("v2", <<o, 0>>, pass)
  BY <1>5, <1>7
<1> QED BY <1>1, <1>4, <1>6, <1>7

-----------------------------------------------------------------------------
LEMMA KeyInitially == KeyInit => KeyInv
<1> SUFFICES ASSUME KeyInit PROVE KeyInv
  OBVIOUS
<1>1. \A o \in Owners : file[o] \in EarlierFiles(o)
  BY DEF KeyInit
<1>2. file \in [Owners -> Files]
  BY <1>1, EarlierTypes DEF KeyInit
<1>3. \A o \in Owners : <<o, 0>> \in Keys /\ 0 \in 0 .. MaxKeys
  BY MaxKeysAssumption DEF Keys
<1>4. \A o \in Owners : proc[o].pc = "down"
  BY ProcessTypes DEF KeyInit
<1>5. KeyTypeOK
  <2>1. \A o \in Owners : kind[o] = "secret" => file[o].format \notin {"plain", "v2"}
    BY <1>1, EarlierTypes, MissingAndTorn
  <2>2. /\ proc \in [Owners -> Processes]
        /\ generated \in [Owners -> 0 .. MaxKeys]
        /\ shown \in [Owners -> SUBSET Keys]
    BY <1>3, ProcessTypes DEF KeyInit
  <2> QED BY <1>2, <2>1, <2>2 DEF KeyTypeOK
<1>6. \A o \in Owners : /\ shown[o] \subseteq {<<o, 0>>}
                        /\ file[o] = Missing => shown[o] = {}
                        /\ file[o].format \in Formats => file[o].key = <<o, 0>>
  BY <1>1, EarlierTypes, MissingAndTorn DEF KeyInit
<1> QED BY <1>4, <1>5, <1>6 DEF KeyInv, OneKeyPerOwner, RunningKeyIsStored, IsUp

\* A file is truncated to be written with the one key its owner has shown, if any.
LEMMA PersistInv ==
    ASSUME KeyInv, NEW o \in Owners, proc[o] = Down,
           NEW key \in Keys, NEW pass \in Passphrases \cup {NoPassphrase},
           kind[o] = "secret" => pass # NoPassphrase,
           shown[o] \subseteq {key}, Persist(o, key, pass),
           generated' \in [Owners -> 0 .. MaxKeys]
    PROVE  KeyInv'
<1> DEFINE c == Content(key, pass)
<1>1. /\ c \in Files /\ c.format \in Formats /\ c.key = key
      /\ kind[o] = "secret" => c.format = "ct"
  BY ContentType
<1>2. /\ file' = [file EXCEPT ![o] = Torn]
      /\ proc' = [proc EXCEPT ![o] = Persisting(c)]
      /\ shown' = shown
  BY DEF Persist
<1> HIDE DEF c
<1>3. KeyTypeOK'
  BY <1>1, <1>2, ProcessTypes, MissingAndTorn DEF KeyInv, KeyTypeOK, Formats
<1>4. /\ file'[o] = Torn /\ proc'[o] = Persisting(c)
      /\ \A q \in Owners \ {o} : file'[q] = file[q] /\ proc'[q] = proc[q]
  BY <1>2 DEF KeyInv, KeyTypeOK
<1>5. Persisting(c).pc = "persisting" /\ Persisting(c).content = c
  BY <1>1, ProcessTypes
<1>6. OneKeyPerOwner' /\ RunningKeyIsStored'
  BY <1>2, <1>4, <1>5 DEF KeyInv, OneKeyPerOwner, RunningKeyIsStored, IsUp
<1> QED BY <1>1, <1>2, <1>3, <1>4, <1>5, <1>6, MissingAndTorn DEF KeyInv

\* A process serves with the key its file holds.
LEMMA ServeInv ==
    ASSUME KeyInv, NEW o \in Owners, NEW key \in Keys, Serve(o, key),
           file' \in [Owners -> Files], generated' = generated,
           \A q \in Owners \ {o} : file'[q] = file[q],
           file'[o].format \in Formats, file'[o].key = key, shown[o] \subseteq {key},
           kind[o] = "secret" => file'[o].format = "ct"
    PROVE  KeyInv'
<1>1. /\ proc' = [proc EXCEPT ![o] = Up(key)]
      /\ shown' = [shown EXCEPT ![o] = @ \cup {key}]
      /\ Up(key) \in Processes /\ Up(key).pc = "up" /\ Up(key).key = key
  BY ProcessTypes DEF Serve
<1>2. /\ shown'[o] = {key} /\ proc'[o] = Up(key)
      /\ \A q \in Owners \ {o} : shown'[q] = shown[q] /\ proc'[q] = proc[q]
  BY <1>1 DEF KeyInv, KeyTypeOK
<1>3. KeyTypeOK'
  BY <1>1 DEF KeyInv, KeyTypeOK
<1>4. OneKeyPerOwner' /\ RunningKeyIsStored'
  BY <1>1, <1>2 DEF KeyInv, OneKeyPerOwner, RunningKeyIsStored, IsUp
<1> QED BY <1>1, <1>2, <1>3, <1>4, MissingAndTorn DEF KeyInv

LEMMA BootInv ==
    ASSUME KeyInv, NEW o \in Owners, NEW pass \in Passphrases \cup {NoPassphrase}, Boot(o, pass)
    PROVE  KeyInv'
<1>1. CASE GenerateKey(o, pass)
  <2>1. <<o, generated[o] + 1>> \in Keys /\ generated' \in [Owners -> 0 .. MaxKeys]
    BY <1>1, MaxKeysAssumption DEF GenerateKey, Keys, KeyInv, KeyTypeOK
  <2>2. shown[o] = {}
    BY <1>1 DEF GenerateKey, IsMissing, KeyInv
  <2> QED BY <1>1, <2>1, <2>2, PersistInv DEF GenerateKey, Accepts
<1>2. CASE LoadEncrypted(o, pass)
  <2>1. /\ file[o].format = "ct" /\ file[o] \in StoredFiles
        /\ Serve(o, file[o].key) /\ file' = file /\ generated' = generated
    BY <1>2, StoredOrNot DEF LoadEncrypted, KeyInv, KeyTypeOK, Formats
  <2>2. file[o].key \in Keys /\ "ct" \in Formats
    BY <2>1 DEF StoredFiles, Formats
  <2> QED BY <2>1, <2>2, ServeInv DEF KeyInv, KeyTypeOK
<1>3. CASE MigrateMinistryKey(o, pass)
  <2>1. /\ file[o].format \in Formats /\ proc[o] = Down /\ kind[o] = "ministry"
        /\ Persist(o, file[o].key, pass) /\ generated' = generated
    BY <1>3 DEF MigrateMinistryKey, Formats
  <2>2. file[o].key \in Keys
    BY <2>1, StoredOrNot DEF KeyInv, KeyTypeOK, StoredFiles
  <2>3. shown[o] \subseteq {file[o].key}
    BY <2>1 DEF KeyInv
  <2> QED BY <2>1, <2>2, <2>3, PersistInv DEF KeyInv, KeyTypeOK
<1>4. CASE LoadPlainAgentKey(o, pass)
  <2>1. /\ file[o].format = "plain" /\ file[o].format \in Formats /\ proc[o] = Down
        /\ kind[o] = "agent" /\ generated' = generated
    BY <1>4 DEF LoadPlainAgentKey, Formats
  <2>2. file[o].key \in Keys
    BY <2>1, StoredOrNot DEF KeyInv, KeyTypeOK, StoredFiles
  <2>3. shown[o] \subseteq {file[o].key}
    BY <2>1 DEF KeyInv
  <2>4. CASE Serve(o, file[o].key) /\ file' = file
    BY <2>1, <2>2, <2>3, <2>4, ServeInv DEF KeyInv, KeyTypeOK
  <2>5. CASE Persist(o, file[o].key, pass)
    BY <2>1, <2>2, <2>3, <2>5, PersistInv DEF KeyInv, KeyTypeOK
  <2> QED BY <1>4, <2>4, <2>5 DEF LoadPlainAgentKey
<1> QED BY <1>1, <1>2, <1>3, <1>4 DEF Boot

LEMMA PersistedInv ==
    ASSUME KeyInv, NEW o \in Owners, Persisted(o)
    PROVE  KeyInv'
<1>1. /\ proc[o].pc = "persisting" /\ proc[o] \in Processes
      /\ file' = [file EXCEPT ![o] = proc[o].content]
      /\ Serve(o, proc[o].content.key) /\ generated' = generated
  BY DEF Persisted, KeyInv, KeyTypeOK
<1>2. proc[o].content \in Files
  BY <1>1 DEF Processes, Down
<1>3. /\ proc[o].content.format \in Formats
      /\ kind[o] = "secret" => proc[o].content.format = "ct"
      /\ shown[o] \subseteq {proc[o].content.key}
  BY <1>1 DEF KeyInv
<1>4. proc[o].content.key \in Keys
  BY <1>2, <1>3, StoredOrNot DEF StoredFiles
<1>5. /\ file' \in [Owners -> Files] /\ file'[o] = proc[o].content
      /\ \A q \in Owners \ {o} : file'[q] = file[q]
  BY <1>1, <1>2 DEF KeyInv, KeyTypeOK
<1> QED BY <1>1, <1>3, <1>4, <1>5, ServeInv

LEMMA KeyCrashInv ==
    ASSUME KeyInv, NEW o \in Owners, KeyCrash(o)
    PROVE  KeyInv'
<1>1. proc' = [proc EXCEPT ![o] = Down] /\ UNCHANGED <<file, generated, shown>>
  BY DEF KeyCrash
<1>2. /\ proc'[o].pc = "down"
      /\ \A q \in Owners \ {o} : proc'[q] = proc[q]
  BY <1>1, ProcessTypes DEF KeyInv, KeyTypeOK
<1>3. KeyTypeOK'
  BY <1>1, ProcessTypes DEF KeyInv, KeyTypeOK
<1>4. OneKeyPerOwner' /\ RunningKeyIsStored'
  BY <1>1, <1>2 DEF KeyInv, OneKeyPerOwner, RunningKeyIsStored, IsUp
<1> QED BY <1>1, <1>2, <1>3, <1>4 DEF KeyInv

-----------------------------------------------------------------------------
THEOREM KeyStep == KeyInv /\ [KeyNext]_keyVars => KeyInv'
<1> SUFFICES ASSUME KeyInv, [KeyNext]_keyVars PROVE KeyInv'
  OBVIOUS
<1>1. CASE UNCHANGED keyVars
  BY <1>1 DEF keyVars, KeyInv, KeyTypeOK, OneKeyPerOwner, RunningKeyIsStored, IsUp
<1>2. ASSUME NEW o \in Owners, NEW pass \in Passphrases \cup {NoPassphrase}, Boot(o, pass)
      PROVE  KeyInv'
  BY <1>2, BootInv
<1>3. ASSUME NEW o \in Owners, Persisted(o) PROVE KeyInv'
  BY <1>3, PersistedInv
<1>4. ASSUME NEW o \in Owners, KeyCrash(o) PROVE KeyInv'
  BY <1>4, KeyCrashInv
<1> QED BY <1>1, <1>2, <1>3, <1>4 DEF KeyNext

\* The inductive invariant: what an owner has shown is the key in its file or, while
\* the file is torn by a write, the key that is being written.
THEOREM KeyInvariant == KeySpec => []KeyInv
<1>1. KeyInit => KeyInv
  BY KeyInitially
<1>2. KeyInv /\ [KeyNext]_keyVars => KeyInv'
  BY KeyStep
<1> QED BY <1>1, <1>2, PTL DEF KeySpec

\* No secret of a settlement agent or of the connector's wallet is in plaintext.
THEOREM KeyTypes == KeySpec => []KeyTypeOK
<1>1. KeyInv => KeyTypeOK
  BY DEF KeyInv
<1> QED BY <1>1, KeyInvariant, PTL

\* Crashes, migrations and wrong passphrases never make a process serve with a
\* second key.
THEOREM KeyStays == KeySpec => []OneKeyPerOwner
<1>1. KeyInv => OneKeyPerOwner
  BY DEF KeyInv
<1> QED BY <1>1, KeyInvariant, PTL

\* A process that serves can be restarted with its key.
THEOREM KeyIsOnDisk == KeySpec => []RunningKeyIsStored
<1>1. KeyInv => RunningKeyIsStored
  BY DEF KeyInv
<1> QED BY <1>1, KeyInvariant, PTL

\* What is issued, proved and settled under those keys.
-----------------------------------------------------------------------------
\* A credential carries the ministry's signature over its document and identifier.
SignedByMinistry(vc) ==
    vc.proof.proofValue =
        signDocument(vc.rawDocument, vc.proof.ministryPublicKey, documentIdHash(vc))

IssuedInv == \A vc \in issued : SignedByMinistry(vc)

\* The fields of p are bytes the ministry signed when it issued vc.
Signed(p, vc) ==
    /\ signedBytes(p.documentHash, p.documentIdHash)
          = signedBytes(documentHash(vc), documentIdHash(vc))
    /\ p.ministryPublicKey = vc.proof.ministryPublicKey

\* A proof that the verifier's check of its kind accepts.
WellProved(p) ==
    /\ p.proofSystem = "sp1Groth16" <=> SP1
    /\ SP1 => sp1VerifyProof(p.proofBytes, p.documentHash, p.documentIdHash,
                             p.ministryPublicKey, p.holderPubKeyHash)
    /\ ~ SP1 => verifySignatureOverHash(
                    combinedSignatureHash(p.documentHash, p.documentIdHash),
                    p.proofBytes, p.ministryPublicKey)

\* The public values of a submission are those of an issued credential.
IsOfIssued(vc) == \E own \in issued : RecordFor(own) = RecordFor(vc)

\* What the agent sent is an issued credential with a good proof.
SentInv ==
    \A r \in Requests : request[r].pc = "sent" =>
        /\ IsOfIssued(request[r].vc)
        /\ RecordOf(request[r].presentation) = RecordFor(request[r].vc)
        /\ WellProved(request[r].presentation)

\* The agent refuses only what is not signed.
AnswerInv ==
    \A r \in Requests :
        request[r].pc = "done" /\ request[r].answer = "signatureInvalid"
            => ~ VCSignatureValid(request[r].vc)

\* The two halves of OnlyIssuedSettles.
RecordsInv == \A record \in settled : \E vc \in issued : Signed(record, vc)

ApprovedInv ==
    \A r \in Requests :
        request[r].pc = "done" /\ request[r].answer = "approved"
            => RecordFor(request[r].vc) \in settled /\ IsOfIssued(request[r].vc)

CredInv ==
    /\ request = [r \in Requests |-> request[r]]
    /\ IssuedInv /\ SentInv /\ AnswerInv /\ RecordsInv /\ ApprovedInv

-----------------------------------------------------------------------------
(***************************************************************************)
(* Hashes and signatures                                                   *)
(***************************************************************************)

\* A signature binds a key and the bytes of two fields.
LEMMA SignatureBinds ==
    ASSUME NEW k1, NEW k2, NEW d1, NEW d2, NEW i1, NEW i2,
           Sign(k1, combinedSignatureHash(d1, i1)) = Sign(k2, combinedSignatureHash(d2, i2))
    PROVE  k1 = k2 /\ signedBytes(d1, i1) = signedBytes(d2, i2)
<1>1. /\ k1 = k2
      /\ Sha256(<<"bytes", combinedSignatureHash(d1, i1)>>)
            = Sha256(<<"bytes", combinedSignatureHash(d2, i2)>>)
  BY DEF Sign
<1>2. combinedSignatureHash(d1, i1) = combinedSignatureHash(d2, i2)
  BY <1>1 DEF Sha256
<1>3. <<"bytes", signedBytes(d1, i1)>> = <<"bytes", signedBytes(d2, i2)>>
  BY <1>2 DEF combinedSignatureHash, Sha256
<1> QED BY <1>1, <1>3

\* Of two digests, the bytes tell which they are.
LEMMA DigestsAreTold ==
    ASSUME NEW d1, NEW d2, NEW i1, NEW i2,
           signedBytes(HexDigest(d1), HexDigest(i1)) = signedBytes(HexDigest(d2), HexDigest(i2))
    PROVE  d1 = d2 /\ i1 = i2
<1>1. ASSUME NEW d, NEW i
      PROVE  /\ signedBytes(HexDigest(d), HexDigest(i))[1] = <<d, 1>>
             /\ signedBytes(HexDigest(d), HexDigest(i))[3] = <<i, 1>>
  <2> DEFINE first == << <<d, 1>>, <<d, 2>> >>
             second == << <<i, 1>>, <<i, 2>> >>
             Halves == {<<d, 1>>, <<d, 2>>, <<i, 1>>, <<i, 2>>}
  <2>1. HexDigest(d).bytes = first /\ HexDigest(i).bytes = second
    BY DEF HexDigest, HexOf
  <2>2. first \in Seq(Halves) /\ second \in Seq(Halves)
    OBVIOUS
  <2>3. (first \o second)[1] = <<d, 1>> /\ (first \o second)[3] = <<i, 1>>
    BY <2>2
  <2> QED BY <2>1, <2>3 DEF signedBytes
<1>2. <<d1, 1>> = <<d2, 1>> /\ <<i1, 1>> = <<i2, 1>>
  BY <1>1
<1> QED BY <1>2

LEMMA SignedBytesTell ==
    ASSUME NEW v, NEW w,
           signedBytes(documentHash(v), documentIdHash(v))
             = signedBytes(documentHash(w), documentIdHash(w))
    PROVE  documentHash(v) = documentHash(w) /\ documentIdHash(v) = documentIdHash(w)
<1>1. PICK dv, dw : documentHash(v) = HexDigest(dv) /\ documentHash(w) = HexDigest(dw)
  BY DEF documentHash, sha256HashDocument
<1>2. PICK iv, iw : documentIdHash(v) = HexDigest(iv) /\ documentIdHash(w) = HexDigest(iw)
  BY DEF documentIdHash, sha256Hash
<1> QED BY <1>1, <1>2, DigestsAreTold

\* What the agent checks is what the ministry signed.
LEMMA ValidIsSigned ==
    ASSUME NEW vc
    PROVE  VCSignatureValid(vc) <=>
             vc.proof.proofValue =
               Sign(vc.proof.ministryPublicKey,
                    combinedSignatureHash(documentHash(vc), documentIdHash(vc)))
  BY DEF VCSignatureValid, verifySignature, Verify, documentHash

\* A document whose signature the agent accepts is the one that was signed.
LEMMA ValidNamesIssued ==
    ASSUME IssuedInv, NEW vc \in Submissions, VCSignatureValid(vc)
    PROVE  IsOfIssued(vc)
<1>1. PICK own \in issued : vc.proof = own.proof
  BY DEF Submissions
<1>2. own.proof.proofValue =
        Sign(own.proof.ministryPublicKey,
             combinedSignatureHash(documentHash(own), documentIdHash(own)))
  BY DEF IssuedInv, SignedByMinistry, signDocument, documentHash
<1>3. own.proof.proofValue =
        Sign(own.proof.ministryPublicKey,
             combinedSignatureHash(documentHash(vc), documentIdHash(vc)))
  BY <1>1, ValidIsSigned
<1>4. documentHash(vc) = documentHash(own) /\ documentIdHash(vc) = documentIdHash(own)
  <2> HIDE DEF documentHash, documentIdHash
  <2>1. Sign(own.proof.ministryPublicKey,
             combinedSignatureHash(documentHash(vc), documentIdHash(vc)))
          = Sign(own.proof.ministryPublicKey,
                 combinedSignatureHash(documentHash(own), documentIdHash(own)))
    BY <1>2, <1>3
  <2>2. signedBytes(documentHash(vc), documentIdHash(vc))
          = signedBytes(documentHash(own), documentIdHash(own))
    BY <2>1, SignatureBinds
  <2> QED BY <2>2, SignedBytesTell
<1> QED BY <1>1, <1>4 DEF IsOfIssued, RecordFor

\* JSON's order of fields does not matter to a signature.
LEMMA IssuedIsValid ==
    ASSUME IssuedInv, NEW vc, IsIssued(vc)
    PROVE  VCSignatureValid(vc)
<1>1. PICK own \in issued : /\ vc.documentId = own.documentId
                            /\ canonicalJson(vc.rawDocument) = canonicalJson(own.rawDocument)
                            /\ vc.proof = own.proof
  BY DEF IsIssued
<1>2. documentHash(vc) = documentHash(own) /\ documentIdHash(vc) = documentIdHash(own)
  BY <1>1 DEF documentHash, documentIdHash, sha256HashDocument
<1>3. own.proof.proofValue =
        Sign(own.proof.ministryPublicKey,
             combinedSignatureHash(documentHash(own), documentIdHash(own)))
  BY DEF IssuedInv, SignedByMinistry, signDocument, documentHash
<1> QED BY <1>1, <1>2, <1>3, ValidIsSigned

\* A proof that the agent was given is one that the verifier's check accepts.
LEMMA ProofIsGood ==
    ASSUME NEW vc, VCSignatureValid(vc), NEW key, ZKProofOf(vc, key) # NoProof
    PROVE  WellProved(PresentationOf(vc, ZKProofOf(vc, key)))
<1> DEFINE priv == [rawDocument |-> vc.rawDocument,
                    signature |-> vc.proof.proofValue,
                    holderSignature |-> signHolderProof(documentHash(vc), documentIdHash(vc),
                                                        HolderDid, key),
                    holderKey |-> key, holderDid |-> HolderDid]
           pub == [documentHash |-> documentHash(vc),
                   ministryPublicKey |-> vc.proof.ministryPublicKey,
                   documentIdHash |-> documentIdHash(vc)]
           proof == ZKProofOf(vc, key)
           p == PresentationOf(vc, proof)
<1>1. proof = generateZKProof(SP1, priv, pub)
  BY DEF ZKProofOf
<1>2. /\ p.proofSystem = proof.proofSystem /\ p.proofBytes = proof.proofBytes
      /\ p.holderPubKeyHash = proof.holderPubKeyHash
      /\ p.documentHash = documentHash(vc) /\ p.documentIdHash = documentIdHash(vc)
      /\ p.ministryPublicKey = vc.proof.ministryPublicKey
  BY DEF PresentationOf
<1>3. CASE ~ SP1
  <2>1. proof = generateMockZKProof(priv, pub)
    BY <1>1, <1>3 DEF generateZKProof
  <2>2. proof.proofSystem = "mockEcdsaP256" /\ proof.proofBytes = vc.proof.proofValue
    BY <2>1 DEF generateMockZKProof
  <2> QED BY <1>2, <1>3, <2>2, ValidIsSigned DEF WellProved, verifySignatureOverHash, Verify
<1>4. CASE SP1
  <2>1. proof = generateSP1Proof(priv, pub)
    BY <1>1, <1>4 DEF generateZKProof
  <2> DEFINE values == Circuit(<<priv.signature, pub.ministryPublicKey, pub.documentHash.bytes,
                                 pub.documentIdHash.bytes, priv.holderSignature,
                                 priv.holderKey, priv.holderDid>>)
  <2>2. /\ values # NoValues
        /\ proof = [status |-> "verified", proofSystem |-> "sp1Groth16",
                    proofBytes |-> values, holderPubKeyHash |-> values[4]]
    BY <2>1 DEF generateSP1Proof
  <2>3. values = <<documentHash(vc).bytes, pubKeyHash(vc.proof.ministryPublicKey),
                   documentIdHash(vc).bytes, pubKeyHash(key)>>
    BY <2>2 DEF Circuit
  <2> QED BY <1>2, <1>4, <2>2, <2>3 DEF WellProved, sp1VerifyProof
<1> QED BY <1>3, <1>4

-----------------------------------------------------------------------------
(***************************************************************************)
(* The invariant                                                           *)
(***************************************************************************)
LEMMA CredInitially == Init => CredInv
  BY DEF Init, Idle, CredInv, IssuedInv, SentInv, AnswerInv, RecordsInv, ApprovedInv

\* Credentials are issued and records are made, never taken back.
LEMMA MoreKeeps ==
    ASSUME CredInv, issued \subseteq issued', \A vc \in issued' : SignedByMinistry(vc)',
           request' = request, settled' = settled
    PROVE  CredInv'
<1>1. \A vc : IsOfIssued(vc) => IsOfIssued(vc)'
  BY DEF IsOfIssued, RecordFor, documentHash, documentIdHash
<1>2. IssuedInv' /\ RecordsInv'
  BY DEF CredInv, IssuedInv, RecordsInv, Signed, documentHash, documentIdHash
<1>3. \A r \in Requests : RecordFor(request[r].vc)' = RecordFor(request[r].vc)
  BY DEF RecordFor, documentHash, documentIdHash
<1>4. SentInv' /\ ApprovedInv'
  BY <1>1, <1>3 DEF CredInv, SentInv, ApprovedInv, RecordOf, WellProved, RecordFor, IsOfIssued,
                    documentHash, documentIdHash
<1>5. AnswerInv'
  BY DEF CredInv, AnswerInv, VCSignatureValid, documentIdHash
<1> QED BY <1>2, <1>4, <1>5 DEF CredInv

\* A handler ends.
LEMMA EndsKeeps ==
    ASSUME CredInv, NEW r \in Requests, NEW vc, NEW answer,
           answer = "signatureInvalid" => ~ VCSignatureValid(vc),
           answer = "approved" => RecordFor(vc) \in settled' /\ IsOfIssued(vc),
           AgentAnswers(r, vc, answer), issued' = issued, settled \subseteq settled',
           RecordsInv'
    PROVE  CredInv'
<1>1. /\ request'[r] = Done(vc, answer)
      /\ \A q \in Requests \ {r} : request'[q] = request[q]
      /\ request' = [q \in Requests |-> request'[q]]
  BY DEF CredInv, AgentAnswers
<1>2. Done(vc, answer).pc = "done" /\ Done(vc, answer).vc = vc /\ Done(vc, answer).answer = answer
  BY DEF Done
<1>3. IssuedInv'
  BY DEF CredInv, IssuedInv, SignedByMinistry, documentIdHash
<1>4. SentInv'
  <2> SUFFICES ASSUME NEW q \in Requests, request'[q].pc = "sent"
               PROVE  /\ IsOfIssued(request'[q].vc)
                      /\ RecordOf(request'[q].presentation) = RecordFor(request'[q].vc)
                      /\ WellProved(request'[q].presentation)
    BY DEF SentInv, IsOfIssued
  <2>1. request'[q] = request[q]
    BY <1>1, <1>2
  <2> QED BY <2>1 DEF CredInv, SentInv
<1>5. AnswerInv'
  BY <1>1, <1>2 DEF CredInv, AnswerInv
<1>6. ApprovedInv'
  <2> SUFFICES ASSUME NEW q \in Requests, request'[q].pc = "done", request'[q].answer = "approved"
               PROVE  RecordFor(request'[q].vc) \in settled' /\ IsOfIssued(request'[q].vc)
    BY DEF ApprovedInv, IsOfIssued
  <2>1. CASE q = r
    BY <1>1, <1>2, <2>1
  <2>2. CASE q # r
    BY <1>1, <2>2 DEF CredInv, ApprovedInv
  <2> QED BY <2>1, <2>2
<1> QED BY <1>1, <1>3, <1>4, <1>5, <1>6 DEF CredInv

LEMMA IssuesKeeps ==
    ASSUME CredInv, NEW id \in DocumentIds, NEW body \in Bodies, MinistryIssues(id, body)
    PROVE  CredInv'
<1> DEFINE new == issueVerifiableCredential(id, Document(id, body), proc[Ministry].key)
<1>1. issued' = issued \cup {new} /\ request' = request /\ settled' = settled
  BY DEF MinistryIssues
<1>2. SignedByMinistry(new)
  BY DEF issueVerifiableCredential, SignedByMinistry, documentIdHash
<1> QED BY <1>1, <1>2, MoreKeeps DEF CredInv, IssuedInv, SignedByMinistry, documentIdHash

LEMMA ProcessesKeeps ==
    ASSUME CredInv, NEW r \in Requests, NEW vc \in Submissions, AgentProcesses(r, vc)
    PROVE  CredInv'
<1>1. issued' = issued /\ settled' = settled /\ RecordsInv'
  BY DEF AgentProcesses, CredInv, RecordsInv, Signed
<1>2. CASE ~ VCSignatureValid(vc) /\ AgentAnswers(r, vc, "signatureInvalid")
  BY <1>1, <1>2, EndsKeeps
<1> DEFINE proof == ZKProofOf(vc, proc[Agent].key)
           p == PresentationOf(vc, proof)
<1>3. CASE VCSignatureValid(vc) /\ proof = NoProof /\ AgentAnswers(r, vc, "notProved")
  BY <1>1, <1>3, EndsKeeps
<1>4. CASE /\ VCSignatureValid(vc) /\ proof # NoProof
           /\ request' = [request EXCEPT ![r] = [pc |-> "sent", vc |-> vc, presentation |-> p]]
  <2>1. WellProved(p)
    BY <1>4, ProofIsGood
  <2>2. IsOfIssued(vc)
    BY <1>4, ValidNamesIssued DEF CredInv
  <2>3. RecordOf(p) = RecordFor(vc)
    BY DEF RecordOf, RecordFor, PresentationOf
  <2>4. /\ request'[r].pc = "sent" /\ request'[r].presentation = p /\ request'[r].vc = vc
        /\ \A q \in Requests \ {r} : request'[q] = request[q]
        /\ request' = [q \in Requests |-> request'[q]]
    BY <1>4 DEF CredInv
  <2> HIDE DEF p
  <2>5. SentInv'
    BY <1>1, <2>1, <2>2, <2>3, <2>4 DEF CredInv, SentInv, IsOfIssued
  <2>6. AnswerInv' /\ IssuedInv' /\ ApprovedInv'
    BY <1>1, <2>4 DEF CredInv, AnswerInv, IssuedInv, ApprovedInv, IsOfIssued
  <2> QED BY <1>1, <2>4, <2>5, <2>6 DEF CredInv
<1> QED BY <1>2, <1>3, <1>4 DEF AgentProcesses, SentOrNotProved, AgentAnswers

LEMMA SettlesKeeps ==
    ASSUME CredInv, NEW r \in Requests, L2Settles(r)
    PROVE  CredInv'
<1> DEFINE p == request[r].presentation
           own == request[r].vc
<1>1. IsOfIssued(own) /\ RecordOf(p) = RecordFor(own)
  BY DEF CredInv, SentInv, L2Settles
<1>2. /\ issued' = issued /\ settled \subseteq settled' /\ settled' \subseteq settled \cup {RecordOf(p)}
      /\ L2Answer(p) = "approved" => RecordOf(p) \in settled'
  BY DEF L2Settles, Settle
<1>3. \E vc \in issued : Signed(RecordOf(p), vc)
  BY <1>1 DEF IsOfIssued, Signed, RecordFor
<1>4. RecordsInv'
  BY <1>2, <1>3 DEF CredInv, RecordsInv
<1>5. PICK answer \in {L2Answer(p), "unreachable"} : AgentAnswers(r, own, answer)
  BY DEF L2Settles
<1>6. answer # "signatureInvalid"
  BY <1>5 DEF L2Answer
<1>7. answer = "approved" => RecordFor(own) \in settled' /\ IsOfIssued(own)
  BY <1>1, <1>2, <1>5
<1> QED BY <1>2, <1>4, <1>5, <1>6, <1>7, EndsKeeps

\* Whatever fields somebody puts into a presentation, the verifier accepts them only if
\* they are the bytes that were signed for the credential he has the proof of.
LEMMA PostedIsSigned ==
    ASSUME IssuedInv, NEW vc \in issued, NEW fields,
           ZKProofOf(vc, OtherHolder) # NoProof,
           NEW p, p = [PresentationOf(vc, ZKProofOf(vc, OtherHolder)) EXCEPT
                         !.documentHash = fields.documentHash,
                         !.documentIdHash = fields.documentIdHash],
           ProofValid(p)
    PROVE  Signed(RecordOf(p), vc)
<1> DEFINE good == PresentationOf(vc, ZKProofOf(vc, OtherHolder))
<1>1. VCSignatureValid(vc)
  BY IssuedIsValid DEF IsIssued
<1>2. WellProved(good)
  BY <1>1, ProofIsGood
<1>3. /\ good.ministryPublicKey = vc.proof.ministryPublicKey
      /\ good.documentHash = documentHash(vc) /\ good.documentIdHash = documentIdHash(vc)
      /\ p.ministryPublicKey = good.ministryPublicKey /\ p.proofSystem = good.proofSystem
      /\ p.proofBytes = good.proofBytes /\ p.holderPubKeyHash = good.holderPubKeyHash
  BY DEF PresentationOf
<1> HIDE DEF good
<1>4. signedBytes(p.documentHash, p.documentIdHash)
        = signedBytes(documentHash(vc), documentIdHash(vc))
  <2>1. CASE SP1
    <3>1. /\ sp1VerifyProof(good.proofBytes, good.documentHash, good.documentIdHash,
                            good.ministryPublicKey, good.holderPubKeyHash)
          /\ p.proofSystem = "sp1Groth16"
      BY <1>2, <1>3, <2>1 DEF WellProved
    <3>2. sp1VerifyProof(p.proofBytes, p.documentHash, p.documentIdHash, p.ministryPublicKey,
                         p.holderPubKeyHash)
      BY <3>1 DEF ProofValid
    <3>3. /\ p.documentHash.bytes = good.documentHash.bytes
          /\ p.documentIdHash.bytes = good.documentIdHash.bytes
      BY <1>3, <3>1, <3>2 DEF sp1VerifyProof
    <3> QED BY <1>3, <3>3 DEF signedBytes
  <2>2. CASE ~ SP1
    <3>1. /\ verifySignatureOverHash(combinedSignatureHash(good.documentHash, good.documentIdHash),
                                     good.proofBytes, good.ministryPublicKey)
          /\ p.proofSystem # "sp1Groth16"
      BY <1>2, <1>3, <2>2 DEF WellProved
    <3>2. verifySignatureOverHash(combinedSignatureHash(p.documentHash, p.documentIdHash),
                                  p.proofBytes, p.ministryPublicKey)
      BY <3>1 DEF ProofValid
    <3>3. Sign(p.ministryPublicKey, combinedSignatureHash(p.documentHash, p.documentIdHash))
            = Sign(good.ministryPublicKey,
                   combinedSignatureHash(good.documentHash, good.documentIdHash))
      BY <1>3, <3>1, <3>2 DEF verifySignatureOverHash, Verify
    <3> QED BY <1>3, <3>3, SignatureBinds
  <2> QED BY <2>1, <2>2
<1> QED BY <1>3, <1>4 DEF Signed, RecordOf

LEMMA PostedKeeps ==
    ASSUME CredInv, NEW vc \in issued, NEW fields, L2SettlesPosted(vc, fields)
    PROVE  CredInv'
<1> DEFINE p == [PresentationOf(vc, ZKProofOf(vc, OtherHolder)) EXCEPT
                   !.documentHash = fields.documentHash,
                   !.documentIdHash = fields.documentIdHash]
<1>1. /\ ZKProofOf(vc, OtherHolder) # NoProof /\ Settle(p)
      /\ issued' = issued /\ request' = request
  BY DEF L2SettlesPosted
<1>2. ProofValid(p) => Signed(RecordOf(p), vc)
  BY <1>1, PostedIsSigned DEF CredInv
<1> HIDE DEF p
<1>3. settled \subseteq settled' /\ settled' \subseteq settled \cup {RecordOf(p)}
  BY <1>1 DEF Settle
<1>4. settled' = settled \/ ProofValid(p)
  BY <1>1 DEF Settle, L2Answer
<1>5. RecordsInv'
  BY <1>1, <1>2, <1>3, <1>4 DEF CredInv, RecordsInv
<1>6. IssuedInv' /\ SentInv' /\ AnswerInv' /\ ApprovedInv'
  BY <1>1, <1>3 DEF CredInv, IssuedInv, SentInv, AnswerInv, ApprovedInv, IsOfIssued
<1> QED BY <1>1, <1>5, <1>6 DEF CredInv

LEMMA ProcessStepKeeps ==
    ASSUME CredInv, ProcessStep
    PROVE  CredInv'
<1>1. /\ issued' = issued /\ settled' = settled
      /\ request' = [q \in Requests |-> request'[q]]
      /\ \A q \in Requests :
            \/ request'[q] = request[q]
            \/ request'[q].pc = "done" /\ request'[q].answer = "lost"
  BY DEF ProcessStep, Done
<1>2. IssuedInv' /\ SentInv' /\ AnswerInv' /\ RecordsInv' /\ ApprovedInv'
  BY <1>1 DEF CredInv, IssuedInv, SentInv, AnswerInv, RecordsInv, ApprovedInv, IsOfIssued
<1> QED BY <1>1, <1>2 DEF CredInv

LEMMA CredStep == CredInv /\ [Next]_vars => CredInv'
<1> SUFFICES ASSUME CredInv, [Next]_vars PROVE CredInv'
  OBVIOUS
<1>1. ASSUME NEW r \in Requests, L2Unreachable(r) PROVE CredInv'
  <2>1. RecordsInv'
    BY <1>1 DEF L2Unreachable, CredInv, RecordsInv
  <2> QED BY <1>1, <2>1, EndsKeeps DEF L2Unreachable
<1>2. CASE L2Syncs \/ L2Restarts \/ UNCHANGED vars
  BY <1>2 DEF L2Syncs, L2Restarts, vars, CredInv, IssuedInv, SentInv, AnswerInv, RecordsInv,
              ApprovedInv, IsOfIssued
<1> QED
  BY <1>1, <1>2, ProcessStepKeeps, IssuesKeeps, ProcessesKeeps, SettlesKeeps, PostedKeeps DEF Next

\* The invariant behind the theorems: what is sent is signed and well proved.
THEOREM CredInvariant == Spec => []CredInv
  BY CredInitially, CredStep, PTL DEF Spec

\* The ledger records only bytes that the ministry signed, with its key, for a document
\* and its identifier, whatever the companies hand in and whatever anybody posts to the
\* verifier himself; what an agent is told was approved is an issued credential.
THEOREM OnlySignedSettles == Spec => []OnlyIssuedSettles
<1>1. CredInv => OnlyIssuedSettles
  BY DEF CredInv, RecordsInv, ApprovedInv, Signed, IsOfIssued, OnlyIssuedSettles
<1> QED BY <1>1, CredInvariant, PTL

\* With the prover and the verifier set up alike, no proof that the agent was given is
\* refused.
THEOREM ProofsAreAccepted ==
    ASSUME SP1 \/ PROOF_MODE = "dev"
    PROVE  Spec => []AgentAndVerifierAgree
<1>1. Init => AgentAndVerifierAgree
  BY DEF Init, Idle, AgentAndVerifierAgree
<1>2. CredInv /\ AgentAndVerifierAgree /\ [Next]_vars => AgentAndVerifierAgree'
  <2> SUFFICES ASSUME CredInv, AgentAndVerifierAgree, [Next]_vars,
                      NEW r \in Requests, request'[r].pc = "done",
                      request'[r].answer = "proofRefused"
               PROVE  FALSE
    BY DEF AgentAndVerifierAgree
  <2>1. request'[r] # request[r]
    BY DEF AgentAndVerifierAgree
  <2>2. ~ UNCHANGED request
    BY <2>1
  <2>3. ASSUME NEW q \in Requests, NEW vc, NEW answer, AgentAnswers(q, vc, answer)
        PROVE  q = r /\ answer = "proofRefused"
    BY <2>1, <2>3 DEF CredInv, AgentAnswers, Done
  <2>4. ~ ProcessStep
    BY <2>1 DEF ProcessStep, Done
  <2>5. ASSUME NEW q \in Requests, NEW vc \in Submissions, AgentProcesses(q, vc) PROVE FALSE
    <3>1. AgentAnswers(q, vc, "signatureInvalid") \/ AgentAnswers(q, vc, "notProved")
      <4>1. \/ AgentAnswers(q, vc, "signatureInvalid") \/ AgentAnswers(q, vc, "notProved")
            \/ \E p : request' = [request EXCEPT ![q] =
                                     [pc |-> "sent", vc |-> vc, presentation |-> p]]
        BY <2>5 DEF AgentProcesses, SentOrNotProved, AgentAnswers
      <4> QED BY <2>1, <4>1 DEF CredInv
    <3> QED BY <2>3, <3>1
  <2>6. ASSUME NEW q \in Requests, L2Settles(q) PROVE FALSE
    <3>1. WellProved(request[q].presentation)
      BY <2>6 DEF L2Settles, CredInv, SentInv
    <3>2. ProofValid(request[q].presentation)
      BY <3>1 DEF WellProved, ProofValid
    <3>3. L2Answer(request[q].presentation) # "proofRefused"
      BY <3>2 DEF L2Answer
    <3> QED BY <2>3, <2>6, <3>3 DEF L2Settles
  <2>7. ASSUME NEW q \in Requests, L2Unreachable(q) PROVE FALSE
    BY <2>3, <2>7 DEF L2Unreachable
  <2> QED BY <2>2, <2>4, <2>5, <2>6, <2>7
          DEF Next, MinistryIssues, L2SettlesPosted, L2Syncs, L2Restarts, vars
<1> QED BY <1>1, <1>2, CredInvariant, PTL DEF Spec

\* A credential that the ministry issued is refused by nobody for its signature.
THEOREM CredentialsAreAccepted ==
    ASSUME SP1 \/ PROOF_MODE = "dev"
    PROVE  Spec => []IssuedIsAccepted
<1>1. CredInv /\ AgentAndVerifierAgree => IssuedIsAccepted
  BY IssuedIsValid DEF CredInv, AnswerInv, AgentAndVerifierAgree, IssuedIsAccepted
<1> QED BY <1>1, CredInvariant, ProofsAreAccepted, PTL

-----------------------------------------------------------------------------
\* Issuing, proving and settling leave the key files alone: the two processes use
\* them as KeyFiles has it.
THEOREM CredentialsImplementKeys == Spec => KeySpec
<1>1. Init => KeyInit
  BY DEF Init
<1>2. [Next]_vars => [KeyNext]_keyVars
  BY DEF Next, vars, ProcessStep, MinistryIssues, AgentProcesses, L2Unreachable, L2Settles,
         L2SettlesPosted, L2Syncs, L2Restarts
<1> QED BY <1>1, <1>2, PTL DEF Spec, KeySpec

\* So the key that signs credentials stays the one the verifiers have whitelisted.
THEOREM SigningKeyStays == Spec => [](OneKeyPerOwner /\ RunningKeyIsStored)
  BY CredentialsImplementKeys, KeyStays, KeyIsOnDisk, PTL
=============================================================================
