-------------------------- MODULE AttestationPolicy --------------------------
(***************************************************************************)
(* Attestations and the claims a policy requires of a bundle of them        *)
(* (src/shared/src/attestation).  Of an attestation only what the evaluator *)
(* reads is kept: its claim, its issuers in the order of the array, and     *)
(* what verifyAttestation, which the module that evaluates a policy         *)
(* supplies, says of its proof.  subjectId, threshold and timestamp are     *)
(* read by nobody.                                                          *)
(***************************************************************************)
EXTENDS Integers, Sequences

\* verifyAttestation(): TRUE, FALSE, or a promise that is rejected.
Verdict == {"valid", "invalid", "throws"}

Attestation(Did, ClaimType) ==
    [claimType : ClaimType, issuerSet : Seq(Did), verdict : Verdict]

\* requireClaim(): an unset threshold is 1.  requiredIssuers is only used as a set,
\* and an empty one admits everybody.
requireClaim(claimType, threshold, requiredIssuers) ==
    [kind |-> "claim",
     claim |-> [claimType |-> claimType, threshold |-> threshold,
                requiredIssuers |-> requiredIssuers]]

and(nodes) == [kind |-> "and", nodes |-> nodes]

or(nodes) == [kind |-> "or", nodes |-> nodes]

definePolicy(name, root) == [name |-> name, root |-> root]

\* The attestations of the claim that get as far as the verifier.  The threshold is
\* compared with the length of the array, whoever it names.
Presented(claim, attestation) ==
    /\ attestation.claimType = claim.claimType
    /\ Len(attestation.issuerSet) >= claim.threshold
    /\ claim.requiredIssuers # {} =>
         \A k \in DOMAIN attestation.issuerSet :
             attestation.issuerSet[k] \in claim.requiredIssuers

\* The loop goes on only after an invalid proof.
Ends(claim, bundle) ==
    {i \in DOMAIN bundle : Presented(claim, bundle[i]) /\ bundle[i].verdict # "invalid"}

EndsWith(claim, bundle, verdict) ==
    \E i \in Ends(claim, bundle) :
        /\ bundle[i].verdict = verdict
        /\ \A j \in Ends(claim, bundle) : i <= j

\* The claim is satisfied, not satisfied, or the evaluation is rejected.
evaluateClaim(claim, bundle) ==
    IF EndsWith(claim, bundle, "valid") THEN "ok"
    ELSE IF EndsWith(claim, bundle, "throws") THEN "throws"
    ELSE "no"

\* Promise.all over the nodes of an "and" or an "or": one rejection rejects all.
evaluateAll(results, ok) ==
    IF \E k \in DOMAIN results : results[k] = "throws" THEN "throws"
    ELSE IF ok THEN "ok" ELSE "no"

evaluateAnd(results) == evaluateAll(results, \A k \in DOMAIN results : results[k] = "ok")

evaluateOr(results) == evaluateAll(results, \E k \in DOMAIN results : results[k] = "ok")
=============================================================================
