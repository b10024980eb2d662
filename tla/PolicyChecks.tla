---------------------------- MODULE PolicyChecks ----------------------------
(***************************************************************************)
(* The evaluator and the evidence log against what they are meant to        *)
(* compute, over bounded inputs.  TLC evaluates the assumptions of this     *)
(* module before it explores the states of the one that extends it.         *)
(***************************************************************************)
LOCAL INSTANCE AttestationEvaluator
LOCAL INSTANCE EvidenceLog
LOCAL INSTANCE IncotermPolicies
LOCAL INSTANCE SequencesExt

\* Two issuers, two claims, up to two issuers of an attestation and two or three
\* attestations in a bundle: one of each kind can come before or after the other.
C == "C"
Issuers == {C, "other"}
Claims == {LOADING_CONFIRMED_CLAIM, HANDED_TO_CARRIER_CONFIRMED_CLAIM}
Attested == [claimType : Claims, issuerSet : BoundedSeq(Issuers, 2), verdict : Verdict]
Bundles == BoundedSeq(Attested, 2)

Leaves ==
    {requireClaim(c, t, is) : c \in Claims, t \in 0 .. 2, is \in {{}, {C}}}

\* What a claim asks for: an attestation of it with enough issuers, nobody else
\* among them, whose proof is good.
Meets(claim, a) ==
    /\ a.claimType = claim.claimType /\ a.verdict = "valid"
    /\ Len(a.issuerSet) >= claim.threshold
    /\ claim.requiredIssuers # {} => ToSet(a.issuerSet) \subseteq claim.requiredIssuers

NeverThrows(bundle) == \A i \in DOMAIN bundle : bundle[i].verdict # "throws"

\* A claim is satisfied only by an attestation that meets it, and by every one if no
\* verifier throws.
ASSUME ClaimsAreMet ==
    \A leaf \in Leaves, bundle \in Bundles :
        LET met == \E i \in DOMAIN bundle : Meets(leaf.claim, bundle[i])
            result == evaluateNode(leaf, bundle)
        IN  /\ result = "ok" => met
            /\ NeverThrows(bundle) => result = IF met THEN "ok" ELSE "no"

\* One attestation of each kind.
Examples ==
    BoundedSeq({[claimType |-> c, issuerSet |-> <<C>>, verdict |-> v] : c \in Claims, v \in Verdict}, 2)

Pairs == {<<>>} \cup {<<p, q>> : p, q \in {requireClaim(c, 1, {C}) : c \in Claims}}
Trees == {and(p) : p \in Pairs} \cup {or(p) : p \in Pairs}
DeepTrees == {and(<<s, t>>) : s, t \in Trees} \cup {or(<<s, t>>) : s, t \in Trees}

\* What a policy means, as a formula over the claims of the bundle.
Holds[node \in Leaves \cup Trees \cup DeepTrees, bundle \in Examples] ==
    CASE node.kind = "claim" -> \E i \in DOMAIN bundle : Meets(node.claim, bundle[i])
      [] node.kind = "and" -> \A k \in DOMAIN node.nodes : Holds[node.nodes[k], bundle]
      [] node.kind = "or" -> \E k \in DOMAIN node.nodes : Holds[node.nodes[k], bundle]

\* The evaluator decides a policy as the formula it reads like; a verifier that throws can
\* take an answer away but never give one.
ASSUME PoliciesMeanWhatTheySay ==
    \A node \in Trees \cup DeepTrees, bundle \in Examples :
        /\ evaluateNode(node, bundle) = "ok" => Holds[node, bundle]
        /\ NeverThrows(bundle) => (evaluateNode(node, bundle) = "ok") = Holds[node, bundle]
        /\ evaluateNode(node, bundle) = "throws" => ~ NeverThrows(bundle)

\* The policy of a rule is decided by its one claim.
ASSUME RulesAreClaims ==
    \A t \in 1 .. 2, bundle \in Examples : \A policy \in incotermPolicies(C, t) :
        evaluatePolicy(policy, bundle) = evaluateClaim(policy.root.claim, bundle)

Entries == EvidenceEntry({"s", "other"}, {"insurance"}, {"a", "b"}, 0 .. 1)
Logs == BoundedSeq(Entries, 3)

\* One entry of the log comes before another in a history.
Earlier(log, i, j) ==
    \/ log[i].anchoredAt < log[j].anchoredAt
    \/ log[i].anchoredAt = log[j].anchoredAt /\ i < j

\* The entries asked for, and no others, in the order of their times and, at one time, in the
\* order in which they were appended; the latest is none of the earlier ones.
ASSUME HistoryIsOrdered ==
    \A log \in Logs :
        LET history == historyByType(log, "s", "insurance")
            wanted == {i \in DOMAIN log : log[i].subjectId = "s"}
        IN  \E place \in [DOMAIN history -> wanted] :
                /\ \A i \in wanted : \E k \in DOMAIN history : place[k] = i
                /\ \A k \in DOMAIN history : history[k] = log[place[k]]
                /\ \A k, l \in DOMAIN history : k < l => Earlier(log, place[k], place[l])
                /\ latestByType(log, "s", "insurance") =
                      IF wanted = {} THEN Undefined
                      ELSE log[CHOOSE i \in wanted : \A j \in wanted : i = j \/ Earlier(log, j, i)]

\* Nothing that was in the log leaves it or moves, and only what is authorized gets in.
ASSUME LogIsAppendOnly ==
    \A log \in Logs, entry \in Entries, authorized \in BOOLEAN :
        LET after == appendEvidence(log, entry, authorized)
        IN  IF authorized THEN IsPrefix(log, after) /\ Last(after) = entry
                          ELSE after = Unauthorized
=============================================================================
