-------------------------- MODULE SettlementAgents --------------------------
(***************************************************************************)
(* One deal between a seller's and a buyer's settlement agent              *)
(* (modules/incoterms-escrow/src/server), composed with the contract of    *)
(* EscrowContract.  An agent is one Node process over one SQLite file: its *)
(* handlers interleave at every await, a crash loses the running handlers  *)
(* and keeps the tables, and a submitted transaction may land after its    *)
(* caller was told that it failed.                                         *)
(*                                                                         *)
(* A handler is a call with a program counter, which names what the call   *)
(* is waiting for.  A stored EscrowPrivateState is reduced to the one      *)
(* witness that two calls of an agent can disagree on, the address salt:   *)
(* the salts proposeDeal draws are the one value SellerSalt, and the salt  *)
(* lockDeal draws afresh is the identifier of its pending_actions row.     *)
(***************************************************************************)
EXTENDS EscrowContract

CONSTANTS
    SellerWallet, BuyerWallet,  \* the two payout addresses
    SellerSalt,                 \* the salts drawn by proposeDeal
    DealNonce, NativeColor,     \* the coin both agents build from the terms
    DealAmount,
    LockId,                     \* pending_actions rows for lockEscrow
    ProposeCall,                \* the pending_actions row for propose
    Manual,                     \* roles whose operator also posts claim/release
    ClockSkew,                  \* bound: an agent's clock is this far off
    MaxLockTime,                \* bound: time stops here until the lock lands
    MayCrash,                   \* roles whose agent may crash
    MaxFaults, MaxRotations     \* bounds on faults (crashes among them), key changes

Role == {"seller", "buyer"}

ASSUME AgentAssumption ==
    /\ {SellerWallet, BuyerWallet} \subseteq Address
    /\ {SellerSalt} \cup LockId \subseteq Salt
    /\ SellerSalt \notin LockId
    /\ Nil \notin Salt
    /\ DealNonce \in Nonce /\ NativeColor \in Color /\ DealAmount \in Amount
    /\ ProposeCall \notin LockId
    /\ ClockSkew \in Nat
    /\ MayCrash \subseteq Role
    /\ MaxFaults \in Nat /\ MaxRotations \in Nat

\* The refund address memo decrypts to the address and its salt.
ASSUME MemoAssumption == Memo = Address \X Salt

VARIABLES
    deployed,     \* does the contract exist
    terms,        \* the EscrowTerms the seller signs, or Nil
    status,       \* pending_actions.status by row
    offer,        \* status of the buyer's incoming_offers row for this deal
    db,           \* deal_private_state, by role
    slot,         \* privateStateProvider under EscrowPrivateStateId, by role
    mtCache,      \* roles whose mt_index_cache holds the deposit's index
    pc,           \* what each call waits for
    job,          \* of a payout call: its circuit and the row it read
    mempool,      \* submitted transactions
    published,    \* the role-key hash C's did:web document publishes
    trusted,      \* the buyer's trusted_ports row for C's domain, or Nil
    faults, rotations

tableVars == <<status, offer, db, mtCache, trusted>>
boundVars == <<faults, rotations>>
agentVars == <<deployed, terms, status, offer, db, slot, mtCache, pc, job, mempool,
               published, trusted, faults, rotations>>
vars == <<chainVars, agentVars>>

PayCall == Role \X {"watcher", "operator"}
Call == LockId \cup {ProposeCall} \cup PayCall
RoleOf(call) == IF call \in PayCall THEN call[1]
                ELSE IF call = ProposeCall THEN "seller" ELSE "buyer"
Wallet(role) == IF role = "seller" THEN SellerWallet ELSE BuyerWallet
DealCoin == [nonce |-> DealNonce, color |-> NativeColor, value |-> DealAmount]
Terms == [portAuthorityKeyHash : KeyHash, durationSeconds : Duration, timeoutDirection : Direction]
Job == [circuit : {"claimPayout", "releaseOnTimeout"}, salt : Salt]

\* The rows are no payout calls, and null is none of the values it stands beside.
ASSUME DistinctAssumption ==
    /\ PayCall \cap (LockId \cup {ProposeCall}) = {}
    /\ Nil \notin Call \cup KeyHash \cup Terms \cup Job

\* findInFlightAction(): rows neither confirmed, rejected nor failed.
InFlight == {"awaiting_approval", "approved", "submitted_pending"}
InFlightLocks == {i \in LockId : status[i] \in InFlight}

Init ==
    /\ ChainInit
    /\ deployed = FALSE
    /\ terms = Nil
    /\ status = [row \in LockId \cup {ProposeCall} |-> "none"]
    /\ offer = "none"
    /\ db = [r \in Role |-> Nil]
    /\ slot = [r \in Role |-> Nil]
    /\ mtCache = {}
    /\ pc = [c \in Call |-> "idle"]
    /\ job = [c \in PayCall |-> Nil]
    /\ mempool = {}
    /\ published \in KeyHash
    /\ trusted = Nil
    /\ faults = 0 /\ rotations = 0

\* Date.now() of an agent, in seconds.
Clock == {t \in Time : t - blockTime \in -ClockSkew .. ClockSkew}

Goto(call, step) == pc' = [pc EXCEPT ![call] = step]
SetStatus(row, s) == status' = [status EXCEPT ![row] = s]

\* A call that throws: the approve route marks its row failed; the watcher and
\* the immediate routes only report it.
Throw(call) ==
    /\ Goto(call, "idle")
    /\ status' = IF call \in PayCall THEN status ELSE [status EXCEPT ![call] = "failed"]
    /\ job' = IF call \in PayCall THEN [job EXCEPT ![call] = Nil] ELSE job

-----------------------------------------------------------------------------
(***************************************************************************)
(* Transactions.  callTx reads the private state from the provider, runs   *)
(* the circuit locally, submits and waits; block inclusion runs it again.  *)
(***************************************************************************)
SellerWitness(salt) ==
    [sellerAddress |-> SellerWallet, sellerAddressSalt |-> salt,
     sellerMemo |-> <<SellerWallet, salt>>,
     agreedAmount |-> DealAmount, agreedAmountSalt |-> SellerSalt,
     depositNonce |-> DealNonce, depositSalt |-> SellerSalt]

BuyerWitness(salt) ==
    [resolvedPortAuthorityKeyHash |-> terms.portAuthorityKeyHash,
     depositedCoin |-> DealCoin, depositSalt |-> SellerSalt,
     agreedAmount |-> DealAmount, agreedAmountSalt |-> SellerSalt,
     buyerAddress |-> BuyerWallet, buyerAddressSalt |-> salt,
     buyerAddressMemo |-> <<BuyerWallet, salt>>]

Apply(tx) ==
    \/ /\ tx.circuit = "propose"
       /\ propose(terms.portAuthorityKeyHash, terms.durationSeconds, terms.timeoutDirection,
                  SellerWitness(tx.salt))
    \/ /\ tx.circuit = "lockEscrow"
       /\ lockEscrow(tx.time, BuyerWitness(tx.salt))
    \/ /\ tx.circuit = "claimPayout"
       /\ claimPayout(DealCoin, SellerSalt, Wallet(tx.role), tx.salt)
    \/ /\ tx.circuit = "releaseOnTimeout"
       /\ releaseOnTimeout(DealCoin, SellerSalt, Wallet(tx.role), tx.salt)

\* The circuit's asserts hold for tx.
Accepted(tx) ==
    \/ /\ tx.circuit = "propose"
       /\ ledger.state = "Empty"
    \/ /\ tx.circuit = "lockEscrow"
       /\ lockEscrowAccepted(tx.time, BuyerWitness(tx.salt))
    \/ /\ tx.circuit = "claimPayout"
       /\ claimPayoutAccepted(DealCoin, SellerSalt, Wallet(tx.role), tx.salt)
    \/ /\ tx.circuit = "releaseOnTimeout"
       /\ releaseOnTimeoutAccepted(DealCoin, SellerSalt, Wallet(tx.role), tx.salt)

\* callTx runs the circuit before it submits.  The time lockDeal claims is the
\* one its own clock shows, so the local run never refuses it; the other
\* conditions are those of the chain at that moment.
LocalRunAccepts(tx) == Accepted([tx EXCEPT !.time = blockTime])

CallTx(call, circuit, time) ==
    LET tx == [circuit |-> circuit, role |-> RoleOf(call), salt |-> slot[RoleOf(call)],
               time |-> time, by |-> call]
    IN  \/ /\ LocalRunAccepts(tx)
           /\ mempool' = mempool \cup {tx}
           /\ Goto(call, "await")
           /\ UNCHANGED <<status, job>>
        \/ /\ ~LocalRunAccepts(tx)
           /\ Throw(call)
           /\ UNCHANGED mempool

\* Nobody waits any more for what these calls submitted; it may still land.
Orphaned(calls) ==
    {IF tx.by \in calls THEN [tx EXCEPT !.by = Nil] ELSE tx : tx \in mempool}

Resolve(tx, step) ==
    /\ mempool' = mempool \ {tx}
    /\ pc' = IF tx.by = Nil THEN pc ELSE [pc EXCEPT ![tx.by] = step]
    /\ UNCHANGED <<deployed, terms, tableVars, slot, job, published, rotations>>

Land(tx) ==
    /\ Apply(tx)
    /\ Resolve(tx, "landed")
    /\ UNCHANGED faults

\* A transaction whose circuit no longer accepts is refused.
Refuse(tx) ==
    /\ ~Accepted(tx)
    /\ Resolve(tx, "refused")
    /\ UNCHANGED <<chainVars, faults>>

\* The node or the network drops it.
Lose(tx) ==
    /\ faults < MaxFaults
    /\ faults' = faults + 1
    /\ Resolve(tx, "refused")
    /\ UNCHANGED chainVars

AdvanceTime ==
    /\ ledger.state \in {"Empty", "Proposed"} => blockTime < MaxLockTime
    /\ AdvanceBlock
    /\ UNCHANGED agentVars

-----------------------------------------------------------------------------
(***************************************************************************)
(* The seller: POST /deals/propose, approve or reject, proposeDeal.        *)
(***************************************************************************)
QueuePropose(h, duration, direction) ==
    /\ status[ProposeCall] = "none"
    /\ terms' = [portAuthorityKeyHash |-> h, durationSeconds |-> duration,
                 timeoutDirection |-> direction]
    /\ SetStatus(ProposeCall, "awaiting_approval")
    /\ UNCHANGED <<chainVars, deployed, offer, db, slot, mtCache, pc, job, mempool,
                   published, trusted, boundVars>>

ApprovePropose ==
    /\ status[ProposeCall] = "awaiting_approval"
    /\ SetStatus(ProposeCall, "submitted_pending")
    /\ Goto(ProposeCall, "deploy")
    /\ UNCHANGED <<chainVars, deployed, terms, offer, db, slot, mtCache, job, mempool,
                   published, trusted, boundVars>>

RejectPropose ==
    /\ status[ProposeCall] = "awaiting_approval"
    /\ SetStatus(ProposeCall, "rejected")
    /\ UNCHANGED <<chainVars, deployed, terms, offer, db, slot, mtCache, pc, job, mempool,
                   published, trusted, boundVars>>

\* deployContract() returned; the new salts go to the provider.
DeployDeal ==
    /\ pc[ProposeCall] = "deploy"
    /\ deployed' = TRUE
    /\ slot' = [slot EXCEPT !["seller"] = SellerSalt]
    /\ Goto(ProposeCall, "save")
    /\ UNCHANGED <<chainVars, terms, tableVars, job, mempool, published, boundVars>>

\* Faulty variant: the salts are not stored before the call.
SavePropose_NotStored ==
    /\ pc[ProposeCall] = "save"
    /\ Goto(ProposeCall, "submit")
    /\ UNCHANGED <<chainVars, deployed, terms, tableVars, slot, job, mempool, published,
                   boundVars>>

\* saveDealPrivateState() precedes callTx.propose().
SavePropose ==
    /\ pc[ProposeCall] = "save"
    /\ db' = [db EXCEPT !["seller"] = SellerSalt]
    /\ Goto(ProposeCall, "submit")
    /\ UNCHANGED <<chainVars, deployed, terms, status, offer, slot, mtCache, job, mempool,
                   published, trusted, boundVars>>

SubmitPropose ==
    /\ pc[ProposeCall] = "submit"
    /\ CallTx(ProposeCall, "propose", 0)
    /\ UNCHANGED <<chainVars, deployed, terms, offer, db, slot, mtCache, published, trusted,
                   boundVars>>

\* tryDeliverOfferToBuyer() never throws: the buyer's agent stored the offer, or
\* did not.
DeliverOffer ==
    /\ pc[ProposeCall] = "landed"
    /\ offer' \in {offer, "pending"}
    /\ Goto(ProposeCall, "delivered")
    /\ UNCHANGED <<chainVars, deployed, terms, status, db, slot, mtCache, job, mempool,
                   published, trusted, boundVars>>

\* Either way the row is confirmed, and the response hands the signed offer to
\* the operator.
ProposeReturns ==
    /\ pc[ProposeCall] = "delivered"
    /\ SetStatus(ProposeCall, "confirmed")
    /\ Goto(ProposeCall, "idle")
    /\ UNCHANGED <<chainVars, deployed, terms, offer, db, slot, mtCache, job, mempool, published,
                   trusted, boundVars>>

-----------------------------------------------------------------------------
(***************************************************************************)
(* The buyer: POST /deals/lock, approve, reject, dismiss, lockDeal.        *)
(***************************************************************************)

\* Faulty variant: no look for an action in flight.
QueueLock_Unchecked(i, fromOffer) ==
    /\ status[i] = "none"
    /\ IF fromOffer THEN offer # "none" ELSE status[ProposeCall] = "confirmed"
    /\ offer' = IF fromOffer THEN "used" ELSE offer
    /\ SetStatus(i, "awaiting_approval")
    /\ UNCHANGED <<chainVars, deployed, terms, db, slot, mtCache, pc, job, mempool,
                   published, trusted, boundVars>>

\* Refused while a lock of this deal is in flight.  The offer comes from the
\* incoming_offers row, whatever its status, or was pasted.
QueueLock(i, fromOffer) ==
    /\ status[i] = "none"
    /\ InFlightLocks = {}
    /\ IF fromOffer THEN offer # "none" ELSE status[ProposeCall] = "confirmed"
    /\ offer' = IF fromOffer THEN "used" ELSE offer
    /\ SetStatus(i, "awaiting_approval")
    /\ UNCHANGED <<chainVars, deployed, terms, db, slot, mtCache, pc, job, mempool,
                   published, trusted, boundVars>>

\* acceptEscrow() runs first and throws on a payload that is not the seller's
\* signed offer to this buyer.
ApproveLock(i) ==
    /\ status[i] = "awaiting_approval"
    /\ \/ /\ SetStatus(i, "submitted_pending")
          /\ Goto(i, "resolve")
          /\ UNCHANGED job
       \/ Throw(i)
    /\ UNCHANGED <<chainVars, deployed, terms, offer, db, slot, mtCache, mempool, published,
                   trusted, boundVars>>

\* Faulty variant: the reject route as it was before its guard.
RejectLock_InProgress(i) ==
    /\ status[i] \in InFlight
    /\ SetStatus(i, "rejected")
    /\ UNCHANGED <<chainVars, deployed, terms, offer, db, slot, mtCache, pc, job, mempool,
                   published, trusted, boundVars>>

RejectLock(i) ==
    /\ status[i] = "awaiting_approval"
    /\ SetStatus(i, "rejected")
    /\ UNCHANGED <<chainVars, deployed, terms, offer, db, slot, mtCache, pc, job, mempool,
                   published, trusted, boundVars>>

\* Rejects the lock in flight for the same contract, or is itself refused if
\* that lock is past approval.
DismissOffer ==
    /\ offer # "none"
    /\ \A i \in InFlightLocks : status[i] = "awaiting_approval"
    /\ status' = [row \in DOMAIN status |->
                     IF row \in InFlightLocks THEN "rejected" ELSE status[row]]
    /\ offer' = "dismissed"
    /\ UNCHANGED <<chainVars, deployed, terms, db, slot, mtCache, pc, job, mempool, published,
                   trusted, boundVars>>

\* Faulty variant: a changed key is accepted when the terms name it.
ResolvePort_NoHardStop(i) ==
    /\ pc[i] = "resolve"
    /\ trusted' = IF trusted = Nil THEN published ELSE trusted
    /\ \/ /\ published = terms.portAuthorityKeyHash
          /\ Goto(i, "find")
          /\ UNCHANGED <<status, job>>
       \/ /\ published # terms.portAuthorityKeyHash
          /\ Throw(i)
    /\ UNCHANGED <<chainVars, deployed, terms, offer, db, slot, mtCache, mempool, published,
                   boundVars>>

\* resolvePortAuthorityKeyHash(): trust on first use, hard stop on a change,
\* recorded before lockDeal compares the hash with the seller's terms.
ResolvePort(i) ==
    /\ pc[i] = "resolve"
    /\ trusted' = IF trusted = Nil THEN published ELSE trusted
    /\ \/ /\ published = trusted'
          /\ published = terms.portAuthorityKeyHash
          /\ Goto(i, "find")
          /\ UNCHANGED <<status, job>>
       \/ /\ published # trusted' \/ published # terms.portAuthorityKeyHash
          /\ Throw(i)
    /\ UNCHANGED <<chainVars, deployed, terms, offer, db, slot, mtCache, mempool, published,
                   boundVars>>

\* findDeployedContract() and privateStateProvider.set() with the fresh salt.
FindDeal(i) ==
    /\ pc[i] = "find"
    /\ deployed
    /\ slot' = [slot EXCEPT !["buyer"] = i]
    /\ Goto(i, "save")
    /\ UNCHANGED <<chainVars, deployed, terms, tableVars, job, mempool, published, boundVars>>

\* Faulty variant: the refund salt stays in the provider's slot.
SaveLock_NotStored(i) ==
    /\ pc[i] = "save"
    /\ Goto(i, "submit")
    /\ UNCHANGED <<chainVars, deployed, terms, tableVars, slot, job, mempool, published,
                   boundVars>>

\* saveDealPrivateState(): the row of this deal, whatever it held.
SaveLock(i) ==
    /\ pc[i] = "save"
    /\ db' = [db EXCEPT !["buyer"] = i]
    /\ Goto(i, "submit")
    /\ UNCHANGED <<chainVars, deployed, terms, status, offer, slot, mtCache, job, mempool,
                   published, trusted, boundVars>>

SubmitLock(i) ==
    /\ pc[i] = "submit"
    /\ \E claimedLockTime \in Clock : CallTx(i, "lockEscrow", claimedLockTime)
    /\ UNCHANGED <<chainVars, deployed, terms, offer, db, slot, mtCache, published, trusted,
                   boundVars>>

\* Faulty variant: callTx's verdict is not looked at.
LockReturns_AnyVerdict(i) ==
    /\ pc[i] \in {"landed", "refused"}
    /\ mtCache' \in {mtCache, mtCache \cup {"buyer"}}
    /\ SetStatus(i, "confirmed")
    /\ Goto(i, "idle")
    /\ UNCHANGED <<chainVars, deployed, terms, offer, db, slot, job, mempool, published,
                   trusted, boundVars>>

\* The index is cached if the indexer answers; the row is confirmed either way.
LockReturns(i) ==
    /\ pc[i] = "landed"
    /\ mtCache' \in {mtCache, mtCache \cup {"buyer"}}
    /\ SetStatus(i, "confirmed")
    /\ Goto(i, "idle")
    /\ UNCHANGED <<chainVars, deployed, terms, offer, db, slot, job, mempool, published,
                   trusted, boundVars>>

\* Faulty variant: the catch block forgets the row.
CallThrows_RowKept(call) ==
    /\ pc[call] = "refused"
    /\ Goto(call, "idle")
    /\ job' = IF call \in PayCall THEN [job EXCEPT ![call] = Nil] ELSE job
    /\ UNCHANGED <<chainVars, deployed, terms, tableVars, slot, mempool, published, boundVars>>

\* callTx threw: the transaction was refused or lost.
CallThrows(call) ==
    /\ pc[call] = "refused"
    /\ Throw(call)
    /\ UNCHANGED <<chainVars, deployed, terms, offer, db, slot, mtCache, mempool, published,
                   trusted, boundVars>>

-----------------------------------------------------------------------------
(***************************************************************************)
(* Payouts, by the watcher or an operator: claimDeal, releaseTimeoutDeal.  *)
(***************************************************************************)

\* computeDepositVerification(), for the seller; null elsewhere passes.
depositVerified(r) ==
    r = "seller" => persistentCommit(DealCoin, SellerSalt) = ledger.heldCommitment

shouldAutoClaimDeal(r) ==
    /\ r = "seller"
    /\ ledger.state = "Locked"
    /\ ledger.milestoneConfirmed
    /\ depositVerified(r)

\* Faulty variant: the seller's branch is missing, as it first was.
shouldAutoReleaseTimeout_BuyerOnly(r, nowSeconds) ==
    /\ r = "buyer"
    /\ ledger.timeoutDirection = "Buyer"
    /\ ledger.state = "Locked"
    /\ ~ledger.milestoneConfirmed
    /\ nowSeconds >= ledger.deadlineTimestamp

shouldAutoReleaseTimeout(r, nowSeconds) ==
    /\ ledger.timeoutDirection = (IF r = "buyer" THEN "Buyer" ELSE "Seller")
    /\ ledger.state = "Locked"
    /\ ~ledger.milestoneConfirmed
    /\ nowSeconds >= ledger.deadlineTimestamp
    /\ depositVerified(r)

\* loadDealPrivateState(), then wait for the coin's Merkle-tree index.
StartPayout(call, circuit) ==
    /\ pc[call] = "idle"
    /\ db[RoleOf(call)] # Nil
    /\ job' = [job EXCEPT ![call] = [circuit |-> circuit, salt |-> db[RoleOf(call)]]]
    /\ Goto(call, "index")
    /\ UNCHANGED <<chainVars, deployed, terms, tableVars, slot, mempool, published, boundVars>>

\* checkOneDeal() for a deal of listDealRefs(); a tick that finds nothing to do
\* changes nothing, and one that is still running does not overlap the next.
WatcherTick(r) ==
    \/ /\ shouldAutoClaimDeal(r)
       /\ StartPayout(<<r, "watcher">>, "claimPayout")
    \/ \E nowSeconds \in Clock :
          /\ shouldAutoReleaseTimeout(r, nowSeconds)
          /\ StartPayout(<<r, "watcher">>, "releaseOnTimeout")

OperatorPosts(r) ==
    /\ r \in Manual
    /\ deployed
    /\ \/ r = "seller" /\ StartPayout(<<r, "operator">>, "claimPayout")
       \/ StartPayout(<<r, "operator">>, "releaseOnTimeout")

\* resolveMtIndex(): cached, found, or given up after maxAttempts.
ResolveIndex(call) ==
    /\ pc[call] = "index"
    /\ \/ /\ RoleOf(call) \in mtCache \/ ledger.state \in {"Locked", "Released"}
          /\ mtCache' = mtCache \cup {RoleOf(call)}
          /\ Goto(call, "find")
          /\ UNCHANGED <<status, job>>
       \/ /\ RoleOf(call) \notin mtCache /\ ledger.state \in {"Empty", "Proposed"}
          /\ Throw(call)
          /\ UNCHANGED mtCache
    /\ UNCHANGED <<chainVars, deployed, terms, offer, db, slot, mempool, published, trusted,
                   boundVars>>

\* findDeployedContract() and set(), with the state read before the wait.
FindPayout(call) ==
    /\ pc[call] = "find"
    /\ slot' = [slot EXCEPT ![RoleOf(call)] = job[call].salt]
    /\ Goto(call, "save")
    /\ UNCHANGED <<chainVars, deployed, terms, tableVars, job, mempool, published, boundVars>>

\* saveDealPrivateState(), and findDeployedContract() once more.
SavePayout(call) ==
    /\ pc[call] = "save"
    /\ db' = [db EXCEPT ![RoleOf(call)] = job[call].salt]
    /\ slot' = [slot EXCEPT ![RoleOf(call)] = job[call].salt]
    /\ Goto(call, "submit")
    /\ UNCHANGED <<chainVars, deployed, terms, status, offer, mtCache, job, mempool, published,
                   trusted, boundVars>>

SubmitPayout(call) ==
    /\ pc[call] = "submit"
    /\ CallTx(call, job[call].circuit, 0)
    /\ UNCHANGED <<chainVars, deployed, terms, offer, db, slot, mtCache, published, trusted,
                   boundVars>>

PayoutReturns(call) ==
    /\ pc[call] = "landed"
    /\ Goto(call, "idle")
    /\ job' = [job EXCEPT ![call] = Nil]
    /\ UNCHANGED <<chainVars, deployed, terms, tableVars, slot, mempool, published, boundVars>>

-----------------------------------------------------------------------------
(***************************************************************************)
(* The world around the two agents.                                        *)
(***************************************************************************)

\* Any await but the delivery's may throw; a transaction already submitted may
\* still land.
CallFails(call) ==
    /\ faults < MaxFaults
    /\ pc[call] \notin {"idle", "delivered", "dead"}
    /\ faults' = faults + 1
    /\ Throw(call)
    /\ mempool' = Orphaned({call})
    /\ UNCHANGED <<chainVars, deployed, terms, offer, db, slot, mtCache, published, trusted,
                   rotations>>

\* The process dies and restarts: index.ts reopens the tables and resumes no
\* handler; an approve handler that was running is dead for good and its row
\* stays as it was, while the watcher and the immediate routes start anew.
Crash(r) ==
    /\ r \in MayCrash
    /\ faults < MaxFaults
    /\ faults' = faults + 1
    /\ pc' = [c \in Call |-> IF RoleOf(c) # r THEN pc[c]
                              ELSE IF c \in PayCall \/ pc[c] = "idle" THEN "idle" ELSE "dead"]
    /\ job' = [c \in PayCall |-> IF RoleOf(c) = r THEN Nil ELSE job[c]]
    /\ mempool' = Orphaned({c \in Call : RoleOf(c) = r})
    /\ UNCHANGED <<chainVars, deployed, terms, tableVars, slot, published, rotations>>

\* attestDeal() of C's agent, with the key behind the hash it publishes.
AttestDeal ==
    /\ \E sk \in SecretKey : published = roleKeyHash(sk) /\ attestMilestone(sk)
    /\ UNCHANGED agentVars

\* C's domain starts to publish another key.
RotateKey ==
    /\ rotations < MaxRotations
    /\ rotations' = rotations + 1
    /\ published' \in KeyHash \ {published}
    /\ UNCHANGED <<chainVars, deployed, terms, tableVars, slot, pc, job, mempool, faults>>

-----------------------------------------------------------------------------
ProposeStep ==
    \/ DeployDeal
    \/ SavePropose
    \/ SubmitPropose
    \/ DeliverOffer
    \/ ProposeReturns

LockStep(i) ==
    \/ ResolvePort(i)
    \/ FindDeal(i)
    \/ SaveLock(i)
    \/ SubmitLock(i)
    \/ LockReturns(i)

PayoutStep(call) ==
    \/ ResolveIndex(call)
    \/ FindPayout(call)
    \/ SavePayout(call)
    \/ SubmitPayout(call)
    \/ PayoutReturns(call)

\* What operators decide, at a time of their choosing.
OperatorStep ==
    \/ \E h \in KeyHash, duration \in Duration, direction \in Direction :
          QueuePropose(h, duration, direction)
    \/ ApprovePropose
    \/ RejectPropose
    \/ \E i \in LockId, fromOffer \in BOOLEAN : QueueLock(i, fromOffer)
    \/ \E i \in LockId : ApproveLock(i)
    \/ \E i \in LockId : RejectLock(i)
    \/ DismissOffer
    \/ \E r \in Role : OperatorPosts(r)
    \/ AttestDeal

Next ==
    \/ OperatorStep
    \/ ProposeStep
    \/ \E i \in LockId : LockStep(i)
    \/ \E call \in PayCall : PayoutStep(call)
    \/ \E call \in Call : CallThrows(call)
    \/ \E r \in Role : WatcherTick(r)
    \/ \E tx \in mempool : Land(tx)
    \/ \E tx \in mempool : Refuse(tx)
    \/ \E tx \in mempool : Lose(tx)
    \/ \E call \in Call : CallFails(call)
    \/ \E r \in Role : Crash(r)
    \/ RotateKey
    \/ AdvanceTime

Spec == Init /\ [][Next]_vars

\* The event loop runs every handler to its end, setInterval keeps the watcher
\* ticking, blocks keep coming and take in or refuse what is submitted.
\* Operators, C and the faults owe nothing.
Fairness ==
    /\ WF_vars(ProposeStep)
    /\ \A i \in LockId : WF_vars(LockStep(i))
    /\ \A call \in PayCall : WF_vars(PayoutStep(call))
    /\ \A call \in Call : WF_vars(CallThrows(call))
    /\ \A r \in Role : WF_vars(WatcherTick(r))
    /\ WF_vars(\E tx \in mempool : Land(tx) \/ Refuse(tx))
    /\ WF_vars(AdvanceTime)

FairSpec == Spec /\ Fairness

-----------------------------------------------------------------------------
(***************************************************************************)
(* What the agents promise each other and their operators.                 *)
(***************************************************************************)
TxSet == [circuit : {"propose", "lockEscrow", "claimPayout", "releaseOnTimeout"},
          role : Role, salt : Salt, time : Time, by : Call \cup {Nil}]

\* Every table, handler and transaction holds values of its kind; a lock row
\* that is being executed is marked submitted_pending.
AgentTypeOK ==
    /\ deployed \in BOOLEAN
    /\ terms \in Maybe(Terms)
    /\ status \in [LockId \cup {ProposeCall} ->
                      InFlight \cup {"none", "confirmed", "rejected", "failed"}]
    /\ offer \in {"none", "pending", "used", "dismissed"}
    /\ db \in [Role -> Maybe(Salt)]
    /\ slot \in [Role -> Maybe(Salt)]
    /\ mtCache \subseteq Role
    /\ pc \in [Call -> {"idle", "deploy", "resolve", "index", "find", "save", "submit", "await",
                        "landed", "delivered", "refused", "dead"}]
    /\ job \in [PayCall -> Maybe(Job)]
    /\ mempool \subseteq TxSet
    /\ published \in KeyHash
    /\ trusted \in Maybe(KeyHash)
    /\ faults \in 0 .. MaxFaults /\ rotations \in 0 .. MaxRotations
    /\ \A row \in LockId \cup {ProposeCall} :
          pc[row] # "idle" => status[row] = "submitted_pending"

\* "confirmed" in the pending queue means what the operator reads in it: the
\* proposal is on chain, respectively the deposit is, and at most one of the
\* buyer's lock rows claims to have made it - whatever retries, late landings
\* and lost answers came before.
ConfirmedIsOnChain ==
    /\ status[ProposeCall] = "confirmed" => ledger.state # "Empty"
    /\ \A i \in LockId : status[i] = "confirmed" => ledger.state \in {"Locked", "Released"}
    /\ \A i, j \in LockId : status[i] = "confirmed" /\ status[j] = "confirmed" => i = j

\* "A real transaction already happened, and there is nothing left to reject":
\* a lock that was rejected, by the reject route or by dismissing the offer, is
\* not running, was never submitted and left no trace in the stored witness.
RejectedNeverRan ==
    \A i \in LockId : status[i] = "rejected" =>
        /\ pc[i] = "idle"
        /\ i \notin {db["buyer"], slot["buyer"]}
        /\ \A tx \in mempool : tx.salt # i
        /\ ledger.buyerAddressCommitment # persistentCommit(BuyerWallet, i)

\* The approve route runs one lockEscrow of the deal at a time: two handlers
\* never race for the stored witness and the provider's slot.
OneLockAtATime == Cardinality(InFlightLocks) <= 1

\* Whenever its terms are on chain the seller can be paid without anybody's
\* help: the row it saved opens the address it committed to, and the coin it
\* chose is the coin the contract holds - after a crash at any step too.
SellerCanBePaid ==
    /\ ledger.state # "Empty" =>
          ledger.sellerAddressCommitment = persistentCommit(SellerWallet, db["seller"])
    /\ ledger.state \in {"Locked", "Released"} => depositVerified("seller")

\* The buyer's money is only ever locked under the port authority its own
\* whitelist pinned, even when the domain changes its key in between.
LockedUnderPinnedKey ==
    ledger.state \in {"Locked", "Released"} => ledger.portAuthorityKeyHash = trusted

\* "Each agent only ever attempts the branch it actually has the witness data
\* for": while a refund to the buyer is pending, the buyer's saved row opens the
\* refund address that lockEscrow committed to.
BuyerCanBeRefunded ==
    ledger.state = "Locked" /\ ledger.timeoutDirection = "Buyer" =>
        ledger.buyerAddressCommitment = persistentCommit(BuyerWallet, db["buyer"])

\* The watchers' safety net: a locked deal is paid out in the end, with nobody's
\* help but the two agents', through crashes and failed calls.
SettlementCompletes == ledger.state = "Locked" ~> ledger.state = "Released"

\* No approved action stays submitted_pending: every row ends confirmed or
\* failed, so that the deal can be locked again or dismissed - unless the
\* process died under its handler, which nothing at boot makes up for.  A row
\* runs once, so it is enough that none is left in the end.
SubmissionsResolve ==
    <>[](\A row \in LockId \cup {ProposeCall} :
            status[row] = "submitted_pending" => pc[row] = "dead")
=============================================================================
