------------------------- MODULE AttestationProofs -------------------------
(***************************************************************************)
(* What a satisfied claim, and a satisfied policy of an Incoterms rule,     *)
(* says of the bundle: for any issuers, thresholds and bundles of any       *)
(* length.                                                                  *)
(***************************************************************************)
EXTENDS IncotermPolicies, WellFoundedInduction, TLAPS

\* A claim, as requireClaim() makes it.
Claim(Did, ClaimType) ==
    [claimType : ClaimType, threshold : Nat, requiredIssuers : SUBSET Did]

NeverThrows(bundle) == \A i \in DOMAIN bundle : bundle[i].verdict # "throws"

\* The attestation of the claim whose proof was accepted.
Witness(claim, a) == Presented(claim, a) /\ a.verdict = "valid"

LEMMA BundleType ==
    ASSUME NEW Did, NEW ClaimType, NEW bundle \in Seq(Attestation(Did, ClaimType))
    PROVE  /\ Len(bundle) \in Nat /\ DOMAIN bundle = 1 .. Len(bundle)
           /\ \A i \in DOMAIN bundle : /\ i \in Nat
                                       /\ bundle[i] \in Attestation(Did, ClaimType)
                                       /\ bundle[i].issuerSet \in Seq(Did)
                                       /\ bundle[i].verdict \in Verdict
<1>1. Len(bundle) \in Nat /\ DOMAIN bundle = 1 .. Len(bundle)
  OBVIOUS
<1>2. \A i \in DOMAIN bundle : bundle[i] \in Attestation(Did, ClaimType)
  BY <1>1
<1>3. \A a \in Attestation(Did, ClaimType) : a.issuerSet \in Seq(Did) /\ a.verdict \in Verdict
  BY DEF Attestation
<1> QED
  BY <1>1, <1>2, <1>3

\* Where the evaluation of a claim ends, one attestation is the first to end it.
LEMMA FirstEnd ==
    ASSUME NEW Did, NEW ClaimType, NEW bundle \in Seq(Attestation(Did, ClaimType)),
           NEW claim, Ends(claim, bundle) # {}
    PROVE  \E i \in Ends(claim, bundle) : \A j \in Ends(claim, bundle) : i <= j
<1>1. Ends(claim, bundle) \subseteq Nat
  BY BundleType DEF Ends
<1>2. PICK i \in Ends(claim, bundle) :
           \A j \in Ends(claim, bundle) : <<j, i>> \notin OpToRel(<, Nat)
  BY <1>1, NatLessThanWellFounded, WFMin
<1>3. \A j \in Ends(claim, bundle) : ~ (j < i)
  BY <1>1, <1>2 DEF OpToRel
<1>4. \A m, n \in Nat : ~ (m < n) => n <= m
  OBVIOUS
<1> QED
  BY <1>1, <1>3, <1>4

\* Every end has a verdict, and the first one's is the only one that counts.
LEMMA Verdicts ==
    ASSUME NEW Did, NEW ClaimType, NEW bundle \in Seq(Attestation(Did, ClaimType)), NEW claim
    PROVE  /\ EndsWith(claim, bundle, "valid") \/ EndsWith(claim, bundle, "throws")
                <=> Ends(claim, bundle) # {}
           /\ ~ (EndsWith(claim, bundle, "valid") /\ EndsWith(claim, bundle, "throws"))
<1>1. ASSUME NEW i \in Ends(claim, bundle)
      PROVE  i \in Nat /\ bundle[i].verdict \in {"valid", "throws"}
  BY BundleType DEF Ends, Verdict
<1>2. Ends(claim, bundle) # {} =>
          EndsWith(claim, bundle, "valid") \/ EndsWith(claim, bundle, "throws")
  BY <1>1, FirstEnd DEF EndsWith
<1>3. \A i, j \in Ends(claim, bundle) : i <= j /\ j <= i => i = j
  BY <1>1
<1>4. ~ (EndsWith(claim, bundle, "valid") /\ EndsWith(claim, bundle, "throws"))
  BY <1>3 DEF EndsWith
<1> QED
  BY <1>2, <1>4 DEF EndsWith

\* A claim is satisfied only by an attestation of it that the verifier accepts, with enough
\* issuers and none that the claim does not name (evaluateClaim(), verify.ts); and if no
\* verifier throws, each such attestation satisfies it wherever it is in the bundle.
THEOREM ClaimIsWitnessed ==
    ASSUME NEW Did, NEW ClaimType, NEW bundle \in Seq(Attestation(Did, ClaimType)),
           NEW claim \in Claim(Did, ClaimType)
    PROVE  /\ evaluateClaim(claim, bundle) = "ok" =>
                \E i \in DOMAIN bundle : Witness(claim, bundle[i])
           /\ NeverThrows(bundle) =>
                \A i \in DOMAIN bundle :
                    Witness(claim, bundle[i]) => evaluateClaim(claim, bundle) = "ok"
<1>1. evaluateClaim(claim, bundle) = "ok" <=> EndsWith(claim, bundle, "valid")
  BY DEF evaluateClaim
<1>2. EndsWith(claim, bundle, "valid") => \E i \in DOMAIN bundle : Witness(claim, bundle[i])
  BY DEF EndsWith, Ends, Witness
<1>3. NeverThrows(bundle) => ~ EndsWith(claim, bundle, "throws")
  BY DEF NeverThrows, EndsWith, Ends
<1>4. ASSUME NEW i \in DOMAIN bundle, Witness(claim, bundle[i])
      PROVE  Ends(claim, bundle) # {}
  BY <1>4 DEF Ends, Witness
<1> QED
  BY <1>1, <1>2, <1>3, <1>4, Verdicts

\* More attestations at the end of the bundle change no answer that was reached: neither a
\* satisfied claim nor a rejected evaluation.
THEOREM AnswersStand ==
    ASSUME NEW Did, NEW ClaimType, NEW claim \in Claim(Did, ClaimType),
           NEW bundle \in Seq(Attestation(Did, ClaimType)),
           NEW more \in Seq(Attestation(Did, ClaimType)),
           evaluateClaim(claim, bundle) # "no"
    PROVE  evaluateClaim(claim, bundle \o more) = evaluateClaim(claim, bundle)
<1> DEFINE all == bundle \o more
<1>1. /\ all \in Seq(Attestation(Did, ClaimType)) /\ DOMAIN bundle \subseteq DOMAIN all
      /\ \A i \in DOMAIN bundle : all[i] = bundle[i]
      /\ \A i \in DOMAIN bundle, j \in DOMAIN all \ DOMAIN bundle : i <= j
  <2>1. /\ all \in Seq(Attestation(Did, ClaimType)) /\ Len(all) = Len(bundle) + Len(more)
        /\ \A i \in 1 .. Len(bundle) : all[i] = bundle[i]
    OBVIOUS
  <2> QED
    BY <2>1, BundleType, Len(more) \in Nat
<1> HIDE DEF all
<1>2. /\ Ends(claim, bundle) \subseteq Ends(claim, all)
      /\ \A i \in Ends(claim, bundle), j \in Ends(claim, all) \ Ends(claim, bundle) : i <= j
  BY <1>1 DEF Ends
<1>3. ASSUME NEW verdict, EndsWith(claim, bundle, verdict)
      PROVE  EndsWith(claim, all, verdict)
  <2>1. PICK i \in Ends(claim, bundle) :
            bundle[i].verdict = verdict /\ \A j \in Ends(claim, bundle) : i <= j
    BY <1>3 DEF EndsWith
  <2>2. i \in DOMAIN bundle
    BY DEF Ends
  <2> QED
    BY <1>1, <1>2, <2>1, <2>2 DEF EndsWith
<1>4. EndsWith(claim, bundle, "valid") \/ EndsWith(claim, bundle, "throws")
  BY DEF evaluateClaim
<1>5. /\ ~ (EndsWith(claim, bundle, "valid") /\ EndsWith(claim, bundle, "throws"))
      /\ ~ (EndsWith(claim, all, "valid") /\ EndsWith(claim, all, "throws"))
  BY <1>1, Verdicts
<1> QED
  BY <1>3, <1>4, <1>5 DEF evaluateClaim, all

\* The claim of each rule: C is its only issuer.
LEMMA RuleClaim ==
    ASSUME NEW C, NEW t, NEW policy \in incotermPolicies(C, t)
    PROVE  /\ policy.root.claim.threshold = t
           /\ policy.root.claim.requiredIssuers # {}
           /\ \A did : did \in policy.root.claim.requiredIssuers <=> did = C
  BY DEF incotermPolicies, fobPolicy, fasPolicy, cfrPolicy, cifPolicy, fcaPolicy, cptPolicy,
         cipPolicy, dapPolicy, dpuPolicy, ddpPolicy, exwPolicy, definePolicy, requireClaim

\* Under every rule the transfer point is confirmed by the C of the shipment and by nobody
\* else: the bundle holds an accepted attestation of the rule's claim all of whose issuers,
\* one at least for each unit of the threshold, are C.
THEOREM OnlyCConfirms ==
    ASSUME NEW Did, NEW ClaimType, NEW C \in Did, NEW t \in Nat \ {0},
           NEW policy \in incotermPolicies(C, t),
           NEW bundle \in Seq(Attestation(Did, ClaimType)),
           evaluateClaim(policy.root.claim, bundle) = "ok"
    PROVE  \E i \in DOMAIN bundle :
               /\ bundle[i].claimType = policy.root.claim.claimType
               /\ bundle[i].verdict = "valid"
               /\ Len(bundle[i].issuerSet) >= t
               /\ \A k \in 1 .. t : bundle[i].issuerSet[k] = C
<1>1. PICK i \in DOMAIN bundle : Witness(policy.root.claim, bundle[i])
  BY DEF evaluateClaim, EndsWith, Ends, Witness
<1>2. /\ bundle[i].claimType = policy.root.claim.claimType /\ bundle[i].verdict = "valid"
      /\ Len(bundle[i].issuerSet) >= t
      /\ \A k \in DOMAIN bundle[i].issuerSet : bundle[i].issuerSet[k] = C
  BY <1>1, RuleClaim DEF Witness, Presented
<1>3. bundle[i].issuerSet \in Seq(Did)
  BY BundleType
<1>4. 1 .. t \subseteq DOMAIN bundle[i].issuerSet
  <2> DEFINE issuers == bundle[i].issuerSet
  <2>1. issuers \in Seq(Did) /\ Len(issuers) >= t
    BY <1>2, <1>3
  <2> HIDE DEF issuers
  <2>2. 1 .. t \subseteq DOMAIN issuers
    BY <2>1
  <2> QED
    BY <2>2 DEF issuers
<1> QED
  BY <1>2, <1>4

\* A threshold above one is met by naming C more than once: the length of the array is
\* compared, not how many issuers it names.
COROLLARY ThresholdIsMetByRepeating ==
    ASSUME NEW Did, NEW ClaimType, NEW C \in Did, NEW t \in Nat, t > 1,
           NEW policy \in incotermPolicies(C, t),
           NEW bundle \in Seq(Attestation(Did, ClaimType)),
           evaluateClaim(policy.root.claim, bundle) = "ok"
    PROVE  \E i \in DOMAIN bundle : bundle[i].issuerSet[1] = bundle[i].issuerSet[2]
<1>1. t \in Nat \ {0} /\ 1 \in 1 .. t /\ 2 \in 1 .. t
  OBVIOUS
<1>2. PICK i \in DOMAIN bundle : \A k \in 1 .. t : bundle[i].issuerSet[k] = C
  BY <1>1, OnlyCConfirms
<1> QED
  BY <1>1, <1>2

\* The transfer point of a rule: FOB, CFR and CIF share one, and so do FCA, CPT and CIP.
TransferPoint(name) ==
    CASE name \in {"FOB", "CFR", "CIF"} -> "loaded on board"
      [] name \in {"FCA", "CPT", "CIP"} -> "handed to the carrier"
      [] OTHER -> name

\* A rule asks for the claim of its transfer point.
LEMMA ClaimOfPoint ==
    ASSUME NEW C, NEW t, NEW p \in incotermPolicies(C, t)
    PROVE  <<TransferPoint(p.name), p.root.claim.claimType>> \in
               {<<"loaded on board", LOADING_CONFIRMED_CLAIM>>,
                <<"handed to the carrier", HANDED_TO_CARRIER_CONFIRMED_CLAIM>>,
                <<"FAS", ALONGSIDE_SHIP_CONFIRMED_CLAIM>>,
                <<"DAP", ARRIVED_READY_FOR_UNLOADING_CLAIM>>,
                <<"DPU", UNLOADED_AT_DESTINATION_CLAIM>>,
                <<"DDP", DELIVERED_DUTY_PAID_CLAIM>>,
                <<"EXW", GOODS_MADE_AVAILABLE_CLAIM>>}
<1>1. /\ TransferPoint("FOB") = "loaded on board" /\ TransferPoint("CFR") = "loaded on board"
      /\ TransferPoint("CIF") = "loaded on board"
      /\ TransferPoint("FCA") = "handed to the carrier"
      /\ TransferPoint("CPT") = "handed to the carrier"
      /\ TransferPoint("CIP") = "handed to the carrier"
      /\ \A name \in {"FAS", "DAP", "DPU", "DDP", "EXW"} : TransferPoint(name) = name
  BY DEF TransferPoint
<1>2. p \in {fobPolicy(C, t), cfrPolicy(C, t), cifPolicy(C, t)} =>
          /\ p.name \in {"FOB", "CFR", "CIF"}
          /\ p.root.claim.claimType = LOADING_CONFIRMED_CLAIM
  BY DEF fobPolicy, cfrPolicy, cifPolicy, definePolicy, requireClaim
<1>3. p \in {fcaPolicy(C, t), cptPolicy(C, t), cipPolicy(C, t)} =>
          /\ p.name \in {"FCA", "CPT", "CIP"}
          /\ p.root.claim.claimType = HANDED_TO_CARRIER_CONFIRMED_CLAIM
  BY DEF fcaPolicy, cptPolicy, cipPolicy, definePolicy, requireClaim
<1>4. /\ p = fasPolicy(C, t) => /\ p.name = "FAS"
                                /\ p.root.claim.claimType = ALONGSIDE_SHIP_CONFIRMED_CLAIM
      /\ p = dapPolicy(C, t) => /\ p.name = "DAP"
                                /\ p.root.claim.claimType = ARRIVED_READY_FOR_UNLOADING_CLAIM
      /\ p = dpuPolicy(C, t) => /\ p.name = "DPU"
                                /\ p.root.claim.claimType = UNLOADED_AT_DESTINATION_CLAIM
      /\ p = ddpPolicy(C, t) => /\ p.name = "DDP"
                                /\ p.root.claim.claimType = DELIVERED_DUTY_PAID_CLAIM
      /\ p = exwPolicy(C, t) => /\ p.name = "EXW"
                                /\ p.root.claim.claimType = GOODS_MADE_AVAILABLE_CLAIM
  BY DEF fasPolicy, dapPolicy, dpuPolicy, ddpPolicy, exwPolicy, definePolicy, requireClaim
<1> QED
  BY <1>1, <1>2, <1>3, <1>4 DEF incotermPolicies

\* Of one shipment, two rules are satisfied by the same bundles if they share the transfer
\* point (FOB, CFR and CIF; FCA, CPT and CIP); if they do not, no attestation serves both, so
\* that what was gathered for one alone leaves the other unsatisfied.
THEOREM PointsDoNotMix ==
    ASSUME NEW Did, NEW ClaimType, NEW C \in Did, NEW t \in Nat \ {0},
           NEW p \in incotermPolicies(C, t), NEW q \in incotermPolicies(C, t),
           NEW bundle \in Seq(Attestation(Did, ClaimType))
    PROVE  /\ TransferPoint(p.name) = TransferPoint(q.name) =>
                evaluateClaim(p.root.claim, bundle) = evaluateClaim(q.root.claim, bundle)
           /\ (/\ TransferPoint(p.name) # TransferPoint(q.name)
               /\ \A i \in DOMAIN bundle : Presented(p.root.claim, bundle[i])) =>
                evaluateClaim(q.root.claim, bundle) = "no"
<1>1. TransferPoint(p.name) = TransferPoint(q.name) <=>
          p.root.claim.claimType = q.root.claim.claimType
  BY ClaimOfPoint DEF LOADING_CONFIRMED_CLAIM, ALONGSIDE_SHIP_CONFIRMED_CLAIM,
     HANDED_TO_CARRIER_CONFIRMED_CLAIM, ARRIVED_READY_FOR_UNLOADING_CLAIM,
     UNLOADED_AT_DESTINATION_CLAIM, DELIVERED_DUTY_PAID_CLAIM, GOODS_MADE_AVAILABLE_CLAIM
<1>2. ASSUME p.root.claim.claimType = q.root.claim.claimType
      PROVE  evaluateClaim(p.root.claim, bundle) = evaluateClaim(q.root.claim, bundle)
  <2>1. \A a : Presented(p.root.claim, a) <=> Presented(q.root.claim, a)
    BY <1>2, RuleClaim DEF Presented
  <2>2. Ends(p.root.claim, bundle) = Ends(q.root.claim, bundle)
    BY <2>1 DEF Ends
  <2> QED
    BY <2>2 DEF evaluateClaim, EndsWith
<1>3. ASSUME p.root.claim.claimType # q.root.claim.claimType,
             \A i \in DOMAIN bundle : Presented(p.root.claim, bundle[i])
      PROVE  Ends(q.root.claim, bundle) = {}
  BY <1>3 DEF Presented, Ends
<1>4. Ends(q.root.claim, bundle) = {} => evaluateClaim(q.root.claim, bundle) = "no"
  BY DEF evaluateClaim, EndsWith
<1> QED
  BY <1>1, <1>2, <1>3, <1>4
=============================================================================
