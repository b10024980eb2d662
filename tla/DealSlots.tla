------------------------------ MODULE DealSlots ------------------------------
(***************************************************************************)
(* The deals of one seller's agent and the providers they share.  Every     *)
(* call for a deal goes through one privateStateProvider under one          *)
(* EscrowPrivateStateId: proposeDeal and claimDeal (actions.ts) put the     *)
(* deal's private state there and the witnesses of their callTx take it     *)
(* from there.  Approved proposals run concurrently with each other and     *)
(* with the watcher (watcher.ts), which goes through the deals one by one.  *)
(*                                                                         *)
(* Outside src/: the provider keeps a state per contract, under the address *)
(* that deployContract and findDeployedContract set last, and throws before *)
(* the first of them; whether callTx reads it under that address or under   *)
(* its own contract's is left open.  The buyer locks, and C attests, a deal *)
(* whose commitments on chain are those of the signed terms.               *)
(***************************************************************************)
EXTENDS Integers

CONSTANTS
    MaxDeal,        \* the deals are 1 .. MaxDeal, in the order of listDealRefs
    MaxFaults       \* bound: failed status queries and restarts

ASSUME MaxDealAssumption == MaxDeal \in Nat \ {0}
ASSUME MaxFaultsAssumption == MaxFaults \in Nat

Deals == 1 .. MaxDeal
Nothing == 0    \* no address; an empty private state

VARIABLES
    chain,      \* chain[d]: the contract of a deal
    committed,  \* committed[d]: the deal whose private state its propose used
    address,    \* the provider's contract address
    slot,       \* slot[d]: the deal whose private state the provider has under d's address
    saved,      \* the deals with a row in deal_private_state
    proposing,  \* proposing[d]: the handler that runs proposeDeal
    watcher,    \* the tick: the deal it is at, and where in claimDeal
    faults

vars == <<chain, committed, address, slot, saved, proposing, watcher, faults>>
provider == <<address, slot>>

NoTick == [pc |-> "idle", deal |-> Nothing]

Init ==
    /\ chain = [d \in Deals |-> "none"]
    /\ committed = [d \in Deals |-> Nothing]
    /\ address = Nothing
    /\ slot = [d \in Deals |-> Nothing]
    /\ saved = {}
    /\ proposing = [d \in Deals |-> "idle"]
    /\ watcher = NoTick
    /\ faults = 0

(***************************************************************************)
(* The provider                                                            *)
(***************************************************************************)

\* deployContract and findDeployedContract with initialPrivateState.
Register(d, state) ==
    /\ address' = d
    /\ slot' = [slot EXCEPT ![d] = state]

SetPrivateState(state) ==
    /\ address # Nothing
    /\ slot' = [slot EXCEPT ![address] = state]
    /\ UNCHANGED address

\* What the witnesses of a callTx on d's contract may see.
Witnessed(d) == {slot[a] : a \in {d, address} \ {Nothing}}

(***************************************************************************)
(* proposeDeal                                                             *)
(***************************************************************************)

DeploysContract(d) ==
    /\ proposing[d] = "idle"
    /\ proposing' = [proposing EXCEPT ![d] = "deployed"]
    /\ chain' = [chain EXCEPT ![d] = "deployed"]
    /\ Register(d, Nothing)
    /\ UNCHANGED <<committed, saved, watcher, faults>>

StoresPrivateState(d) ==
    /\ proposing[d] = "deployed"
    /\ proposing' = [proposing EXCEPT ![d] = "stored"]
    /\ SetPrivateState(d)
    /\ saved' = saved \cup {d}
    /\ UNCHANGED <<chain, committed, watcher, faults>>

\* callTx.propose commits the addresses, amount and deposit of the state it finds;
\* an empty one makes a witness throw.
SubmitsProposal(d) ==
    /\ proposing[d] = "stored"
    /\ \E state \in Witnessed(d) :
         \/ /\ state = Nothing
            /\ proposing' = [proposing EXCEPT ![d] = "failed"]
            /\ UNCHANGED <<chain, committed>>
         \/ /\ state # Nothing
            /\ proposing' = [proposing EXCEPT ![d] = "confirmed"]
            /\ chain' = [chain EXCEPT ![d] = "proposed"]
            /\ committed' = [committed EXCEPT ![d] = state]
    /\ UNCHANGED <<provider, saved, watcher, faults>>

\* The buyer was handed the signed terms of d; the circuit of lockEscrow compares them
\* with what is committed.
BuyerLocksAndPortAttests(d) ==
    /\ proposing[d] = "confirmed"
    /\ chain[d] = "proposed"
    /\ committed[d] = d
    /\ chain' = [chain EXCEPT ![d] = "attested"]
    /\ UNCHANGED <<committed, provider, saved, proposing, watcher, faults>>

(***************************************************************************)
(* The watcher and claimDeal                                               *)
(***************************************************************************)

EndTick == watcher' = NoTick

\* On with the next deal that has a row, or the end of the tick.
NextDeal(d) ==
    LET later == {e \in saved : e > d}
    IN IF later = {} THEN EndTick
       ELSE watcher' = [pc |-> "status",
                        deal |-> CHOOSE e \in later : \A f \in later : e <= f]

StartsTick ==
    /\ watcher = NoTick
    /\ saved # {}
    /\ NextDeal(Nothing)
    /\ UNCHANGED <<chain, committed, provider, saved, proposing, faults>>

At(pc, d) == watcher = [pc |-> pc, deal |-> d]
Goes(pc) == watcher' = [watcher EXCEPT !.pc = pc]

ChecksDeal(d) ==
    /\ At("status", d)
    /\ IF chain[d] = "attested" THEN Goes("find") ELSE NextDeal(d)
    /\ UNCHANGED <<chain, committed, provider, saved, proposing, faults>>

\* getDealStatus throws: the tick ends, the deals after d wait for the next.
StatusQueryFails(d) ==
    /\ At("status", d)
    /\ faults < MaxFaults
    /\ faults' = faults + 1
    /\ EndTick
    /\ UNCHANGED <<chain, committed, provider, saved, proposing>>

\* Faulty variant: the contract is looked up when its state has been stored, and
\* storing it throws on a provider that knows no address.
ClaimStarts_StateFirst(d) ==
    /\ At("find", d)
    /\ IF address = Nothing THEN NextDeal(d) /\ UNCHANGED slot
       ELSE Goes("refind") /\ slot' = [slot EXCEPT ![address] = d]
    /\ UNCHANGED <<chain, committed, address, saved, proposing, faults>>

ClaimStarts(d) ==
    /\ At("find", d)
    /\ Goes("set")
    /\ Register(d, d)
    /\ UNCHANGED <<chain, committed, saved, proposing, faults>>

ClaimStoresState(d) ==
    /\ At("set", d)
    /\ Goes("refind")
    /\ SetPrivateState(d)
    /\ UNCHANGED <<chain, committed, saved, proposing, faults>>

ClaimFindsAgain(d) ==
    /\ At("refind", d)
    /\ Goes("call")
    /\ Register(d, d)
    /\ UNCHANGED <<chain, committed, saved, proposing, faults>>

\* callTx.claimPayout proves with the state it finds: the circuit refuses another
\* deal's, and the tick goes on.
Claims(d) ==
    /\ At("call", d)
    /\ \E state \in Witnessed(d) :
         chain' = IF state = d THEN [chain EXCEPT ![d] = "released"] ELSE chain
    /\ NextDeal(d)
    /\ UNCHANGED <<committed, provider, saved, proposing, faults>>

\* The process restarts: what it had in memory is gone, the provider's store is on
\* disk.
Restarts ==
    /\ faults < MaxFaults
    /\ faults' = faults + 1
    /\ address' = Nothing
    /\ EndTick
    /\ proposing' = [d \in Deals |->
           IF proposing[d] \in {"deployed", "stored"} THEN "lost" ELSE proposing[d]]
    /\ UNCHANGED <<chain, committed, slot, saved>>

Watches ==
    \/ StartsTick
    \/ \E d \in Deals :
        ChecksDeal(d) \/ ClaimStarts(d) \/ ClaimStoresState(d) \/ ClaimFindsAgain(d) \/ Claims(d)

Next ==
    \/ \E d \in Deals :
        \/ DeploysContract(d)
        \/ StoresPrivateState(d)
        \/ SubmitsProposal(d)
        \/ BuyerLocksAndPortAttests(d)
        \/ StatusQueryFails(d)
    \/ Watches
    \/ Restarts

\* setInterval keeps the watcher going; a person proposes when they like.
Spec == Init /\ [][Next]_vars /\ WF_vars(Watches)

(***************************************************************************)
(* Properties                                                              *)
(***************************************************************************)

\* A deal that is locked and attested is paid out in the end, whichever proposals take
\* the provider's slot from it, whichever status queries fail before its turn, and
\* after a restart (claimDeal, watcher.ts).
AttestedIsClaimed ==
    \A d \in Deals : chain[d] = "attested" ~> chain[d] = "released"

\* actions.ts:203, "seller signs the exact terms it's about to submit on-chain": what
\* propose commits is the private state of its own deal (proposeDeal).
SubmittedTermsAreSigned ==
    \A d \in Deals : committed[d] \in {Nothing, d}
=============================================================================
