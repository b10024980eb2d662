------------------------ MODULE AttestationEvaluator ------------------------
(***************************************************************************)
(* The evaluator of src/shared/src/attestation/verify.ts over policies of   *)
(* any shape.                                                               *)
(***************************************************************************)
EXTENDS AttestationPolicy

RECURSIVE evaluateNode(_, _)

evaluateNode(node, bundle) ==
    CASE node.kind = "claim" -> evaluateClaim(node.claim, bundle)
      [] node.kind = "and" ->
            evaluateAnd([k \in DOMAIN node.nodes |-> evaluateNode(node.nodes[k], bundle)])
      [] node.kind = "or" ->
            evaluateOr([k \in DOMAIN node.nodes |-> evaluateNode(node.nodes[k], bundle)])

evaluatePolicy(policy, bundle) == evaluateNode(policy.root, bundle)
=============================================================================
