-------------------------- MODULE IncotermPolicies --------------------------
(***************************************************************************)
(* The policy of each Incoterms 2020 rule                                   *)
(* (src/modules/incoterms-escrow/src/policies): one claim, by one issuer,   *)
(* the C of the shipment.                                                   *)
(***************************************************************************)
EXTENDS AttestationPolicy

LOADING_CONFIRMED_CLAIM == "loading-confirmed"
ALONGSIDE_SHIP_CONFIRMED_CLAIM == "alongside-ship-confirmed"
HANDED_TO_CARRIER_CONFIRMED_CLAIM == "handed-to-carrier-confirmed"
ARRIVED_READY_FOR_UNLOADING_CLAIM == "arrived-ready-for-unloading-confirmed"
UNLOADED_AT_DESTINATION_CLAIM == "unloaded-at-destination-confirmed"
DELIVERED_DUTY_PAID_CLAIM == "delivered-duty-paid-confirmed"
GOODS_MADE_AVAILABLE_CLAIM == "goods-made-available-confirmed"

fobPolicy(did, threshold) ==
    definePolicy("FOB", requireClaim(LOADING_CONFIRMED_CLAIM, threshold, {did}))

fasPolicy(did, threshold) ==
    definePolicy("FAS", requireClaim(ALONGSIDE_SHIP_CONFIRMED_CLAIM, threshold, {did}))

cfrPolicy(did, threshold) ==
    definePolicy("CFR", requireClaim(LOADING_CONFIRMED_CLAIM, threshold, {did}))

cifPolicy(did, threshold) ==
    definePolicy("CIF", requireClaim(LOADING_CONFIRMED_CLAIM, threshold, {did}))

fcaPolicy(did, threshold) ==
    definePolicy("FCA", requireClaim(HANDED_TO_CARRIER_CONFIRMED_CLAIM, threshold, {did}))

cptPolicy(did, threshold) ==
    definePolicy("CPT", requireClaim(HANDED_TO_CARRIER_CONFIRMED_CLAIM, threshold, {did}))

cipPolicy(did, threshold) ==
    definePolicy("CIP", requireClaim(HANDED_TO_CARRIER_CONFIRMED_CLAIM, threshold, {did}))

dapPolicy(did, threshold) ==
    definePolicy("DAP", requireClaim(ARRIVED_READY_FOR_UNLOADING_CLAIM, threshold, {did}))

dpuPolicy(did, threshold) ==
    definePolicy("DPU", requireClaim(UNLOADED_AT_DESTINATION_CLAIM, threshold, {did}))

ddpPolicy(did, threshold) ==
    definePolicy("DDP", requireClaim(DELIVERED_DUTY_PAID_CLAIM, threshold, {did}))

exwPolicy(did, threshold) ==
    definePolicy("EXW", requireClaim(GOODS_MADE_AVAILABLE_CLAIM, threshold, {did}))

incotermPolicies(did, threshold) ==
    {fobPolicy(did, threshold), fasPolicy(did, threshold), cfrPolicy(did, threshold),
     cifPolicy(did, threshold), fcaPolicy(did, threshold), cptPolicy(did, threshold),
     cipPolicy(did, threshold), dapPolicy(did, threshold), dpuPolicy(did, threshold),
     ddpPolicy(did, threshold), exwPolicy(did, threshold)}
=============================================================================
