--------------------------- MODULE DocumentCrypto ---------------------------
(***************************************************************************)
(* The hashes, signatures and proofs that a customs document goes through:  *)
(* documentCrypto.ts and sp1Client.ts of the shared library and the SP1     *)
(* circuit.  A hash is the term <<"sha256", input>>: different inputs have  *)
(* different hashes.  A key pair is its private key.                        *)
(*                                                                         *)
(* A field in hexadecimal is a text and not a hash: Buffer.from(text, "hex") *)
(* takes either case and stops at the first character that is no digit, so  *)
(* one value has many spellings and any length.  The field has the bytes it *)
(* decodes to, and whether it is spelled as digest("hex") spells them.  A   *)
(* digest is two halves, where a text can be cut.                           *)
(*                                                                         *)
(* Node's crypto.sign(null, data, key) and crypto.verify(null, ...) leave   *)
(* the digest to the key type, and for an EC key OpenSSL's is SHA-256: what *)
(* is signed is the hash of data.  The circuit's verify_prehash takes the   *)
(* signed value itself.                                                     *)
(***************************************************************************)
EXTENDS Naturals, Sequences

\* A circuit that panics commits nothing; a prover that throws gives no proof.
NoValues == << >>
NoProof == [proofSystem |-> "none"]

(***************************************************************************)
(* Hashes                                                                  *)
(***************************************************************************)

\* A document is a sequence of <<field, value>> in the order its text has them.
\* canonicalJson sorts the fields: it keeps which value each has.
canonicalJson(doc) ==
    [f \in {doc[i][1] : i \in DOMAIN doc} |->
        (CHOOSE pair \in {doc[i] : i \in DOMAIN doc} : pair[1] = f)[2]]

Sha256(input) == <<"sha256", input>>

DigestLength == 2
HexOf(bytes) == [spelled |-> "digest", bytes |-> bytes]
HexDigest(hash) == HexOf(<< <<hash, 1>>, <<hash, 2>> >>)

sha256Hash(text) == HexDigest(Sha256(<<"utf8", text>>))

sha256HashDocument(doc) == HexDigest(Sha256(<<"ublp-doc-v1:", canonicalJson(doc)>>))

\* What is signed for a document and its identifier: where the one ends and the
\* other begins is not part of it.
signedBytes(documentHash, documentIdHash) == documentHash.bytes \o documentIdHash.bytes

\* Faulty variant: the two hashes are not bound together.
combinedSignatureHash_DocumentOnly(documentHash, documentIdHash) ==
    Sha256(<<"bytes", documentHash.bytes>>)

combinedSignatureHash(documentHash, documentIdHash) ==
    Sha256(<<"bytes", signedBytes(documentHash, documentIdHash)>>)

holderProofHash(documentHash, documentIdHash, holderDid) ==
    Sha256(<<"bytes", Append(signedBytes(documentHash, documentIdHash), holderDid)>>)

\* SHA-256 of the key's raw point.
pubKeyHash(key) == Sha256(<<"point", key>>)

(***************************************************************************)
(* Signatures                                                              *)
(***************************************************************************)

Sign(key, data) == [key |-> key, digest |-> Sha256(<<"bytes", data>>)]

Verify(key, data, signature) == signature = Sign(key, data)

VerifyPrehash(key, digest, signature) == signature = [key |-> key, digest |-> digest]

signDocument(doc, key, documentIdHash) ==
    Sign(key, combinedSignatureHash(sha256HashDocument(doc), documentIdHash))

\* Faulty variant: the document's hash without its domain.
verifySignature_NoDomain(doc, signature, key, documentIdHash) ==
    Verify(key, combinedSignatureHash(sha256Hash(doc), documentIdHash), signature)

verifySignature(doc, signature, key, documentIdHash) ==
    Verify(key, combinedSignatureHash(sha256HashDocument(doc), documentIdHash), signature)

verifySignatureOverHash(hash, signature, key) == Verify(key, hash, signature)

signHolderProof(documentHash, documentIdHash, holderDid, key) ==
    Sign(key, holderProofHash(documentHash, documentIdHash, holderDid))

(***************************************************************************)
(* The circuit                                                             *)
(***************************************************************************)

\* main(): the seven private inputs in the order they are read, as bytes, the four
\* public values in the order they are committed.
Circuit(stdin) ==
    LET ministrySignature == stdin[1]
        ministryKey == stdin[2]
        documentHash == stdin[3]
        documentIdHash == stdin[4]
        holderSignature == stdin[5]
        holderKey == stdin[6]
        holderDid == stdin[7]
        combined == documentHash \o documentIdHash
    IN IF /\ Len(documentHash) = DigestLength /\ Len(documentIdHash) = DigestLength
          /\ VerifyPrehash(ministryKey, Sha256(<<"bytes", combined>>), ministrySignature)
          /\ VerifyPrehash(holderKey, Sha256(<<"bytes", Append(combined, holderDid)>>),
                           holderSignature)
       THEN <<documentHash, pubKeyHash(ministryKey), documentIdHash, pubKeyHash(holderKey)>>
       ELSE NoValues

(***************************************************************************)
(* Proofs.  priv: privateInputs with the raw document, its signature and    *)
(* the holder's signature, key and DID; pub: publicInputs.                  *)
(***************************************************************************)

\* Whether the ministry's signature is valid is written into the proof, not thrown.
generateMockZKProof(priv, pub) ==
    IF ~ Verify(priv.holderKey,
                holderProofHash(pub.documentHash, pub.documentIdHash, priv.holderDid),
                priv.holderSignature)
    THEN NoProof
    ELSE [status |-> IF verifySignature(priv.rawDocument, priv.signature,
                                        pub.ministryPublicKey, pub.documentIdHash)
                     THEN "verified" ELSE "failed",
          proofSystem |-> "mockEcdsaP256",
          proofBytes |-> priv.signature,
          holderPubKeyHash |-> pubKeyHash(priv.holderKey)]

\* The prover network runs the circuit; what it proves is checked against what
\* was asked for.
generateSP1Proof(priv, pub) ==
    LET values == Circuit(<<priv.signature, pub.ministryPublicKey, pub.documentHash.bytes,
                            pub.documentIdHash.bytes, priv.holderSignature, priv.holderKey,
                            priv.holderDid>>)
    IN IF values = NoValues THEN NoProof
       ELSE IF HexOf(values[1]) # pub.documentHash \/ HexOf(values[3]) # pub.documentIdHash
       THEN NoProof
       ELSE [status |-> "verified",
             proofSystem |-> "sp1Groth16",
             proofBytes |-> values,
             holderPubKeyHash |-> values[4]]

generateZKProof(sp1Available, priv, pub) ==
    IF sp1Available THEN generateSP1Proof(priv, pub) ELSE generateMockZKProof(priv, pub)

\* A proof is valid for the public values it was made for, in the circuit's order.
sp1VerifyProof(proofBytes, documentHash, documentIdHash, ministryKey, holderPubKeyHash) ==
    proofBytes = <<documentHash.bytes, pubKeyHash(ministryKey), documentIdHash.bytes,
                   holderPubKeyHash>>
=============================================================================
