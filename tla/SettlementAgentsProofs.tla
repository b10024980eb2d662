------------------------ MODULE SettlementAgentsProofs ------------------------
(***************************************************************************)
(* Two settlement agents over the contract, for any number of attempts to   *)
(* lock, crashes, failed calls and key changes, any terms and any clocks:   *)
(* the agents use the contract as its specification allows, and what their  *)
(* tables say agrees with what it holds.                                   *)
(***************************************************************************)
EXTENDS SettlementAgents, EscrowContractProofs, FiniteSetTheorems

\* The salts an agent may hold: the seller has one, the buyer one for each lock.
RoleSalts(r) == IF r = "seller" THEN {SellerSalt} ELSE LockId

\* Nothing exists before the seller has queued the proposal.
FreshInv ==
    /\ status[ProposeCall] = "none" =>
          ledger.state = "Empty" /\ offer = "none" /\ \A i \in LockId : status[i] = "none"
    /\ status[ProposeCall] # "none" => terms \in Terms

OneLockInv ==
    \A i, j \in LockId : status[i] \in InFlight /\ status[j] \in InFlight => i = j

\* Where an agent keeps salts, they are its own, and there is one to submit.
SaltInv ==
    /\ \A r \in Role : db[r] \in Maybe(RoleSalts(r)) /\ slot[r] \in Maybe(RoleSalts(r))
    /\ \A c \in PayCall : pc[c] # "idle" => job[c] \in Job /\ job[c].salt \in RoleSalts(RoleOf(c))
    /\ \A c \in Call : pc[c] \in {"save", "submit"} => slot[RoleOf(c)] # Nil
    /\ pc[ProposeCall] = "submit" => db["seller"] = SellerSalt

\* The circuit a call submits.
Submits(call, circuit) ==
    /\ call = ProposeCall <=> circuit = "propose"
    /\ call \in LockId <=> circuit = "lockEscrow"

\* A submitted transaction is its agent's, and one call awaits it or none.
TxInv ==
    /\ \A tx \in mempool :
          /\ tx.salt \in RoleSalts(tx.role)
          /\ tx.circuit = "propose" => tx.role = "seller" /\ db["seller"] = SellerSalt
          /\ tx.circuit = "lockEscrow" => tx.role = "buyer"
          /\ tx.circuit \in {"propose", "lockEscrow"} => status[ProposeCall] # "none"
          /\ tx.by # Nil => pc[tx.by] = "await" /\ Submits(tx.by, tx.circuit)
    /\ \A tx1, tx2 \in mempool : tx1.by # Nil /\ tx1.by = tx2.by => tx1 = tx2

\* A lock that was not approved left no trace of its salt.
Untouched(i) ==
    /\ i \notin {db["buyer"], slot["buyer"]}
    /\ \A c \in PayCall : pc[c] # "idle" => job[c].salt # i
    /\ \A tx \in mempool : tx.salt # i
    /\ ledger.buyerAddressCommitment # persistentCommit(BuyerWallet, i)

UntouchedInv ==
    \A i \in LockId :
        status[i] \in {"none", "awaiting_approval", "rejected"} => Untouched(i)

\* From its resolution on, a lock is about the pinned key.
PortInv ==
    /\ \A i \in LockId : pc[i] \in {"find", "save", "submit"} =>
          trusted = terms.portAuthorityKeyHash
    /\ \A tx \in mempool : tx.circuit = "lockEscrow" => trusted = terms.portAuthorityKeyHash
    /\ ledger.state \in {"Locked", "Released"} => trusted = terms.portAuthorityKeyHash

\* What the chain holds is what the seller stored and signed.
LedgerInv ==
    /\ ledger.state # "Empty" =>
          /\ ledger.sellerAddressCommitment = persistentCommit(SellerWallet, SellerSalt)
          /\ ledger.portAuthorityKeyHash = terms.portAuthorityKeyHash
          /\ db["seller"] = SellerSalt
    /\ ledger.state \in {"Locked", "Released"} =>
          ledger.heldCommitment = persistentCommit(DealCoin, SellerSalt)

\* A call that landed, and a row that is confirmed, is on the chain.
Done(row) == pc[row] \in {"landed", "delivered"} \/ status[row] = "confirmed"

DoneInv ==
    /\ Done(ProposeCall) => ledger.state # "Empty"
    /\ \A i \in LockId : Done(i) => ledger.state \in {"Locked", "Released"}
    /\ \A i, j \in LockId : Done(i) /\ Done(j) => i = j

AgentInv ==
    /\ ChainTypeOK /\ AgentTypeOK
    /\ FreshInv /\ OneLockInv /\ SaltInv /\ TxInv
    /\ UntouchedInv /\ PortInv /\ LedgerInv /\ DoneInv

-----------------------------------------------------------------------------
(***************************************************************************)
(* The constants                                                           *)
(***************************************************************************)

LEMMA Calls ==
    /\ ProposeCall \in Call /\ LockId \subseteq Call /\ PayCall \subseteq Call
    /\ ProposeCall \notin LockId \cup PayCall
    /\ LockId \cap PayCall = {}
    /\ \A c \in Call : c = ProposeCall \/ c \in LockId \/ c \in PayCall
    /\ Nil \notin Call
  BY AgentAssumption, DistinctAssumption DEF Call

LEMMA Roles ==
    /\ RoleOf(ProposeCall) = "seller"
    /\ \A i \in LockId : RoleOf(i) = "buyer"
    /\ \A c \in Call : RoleOf(c) \in Role
<1>1. \A c \in PayCall : c[1] \in Role
  BY DEF PayCall
<1> QED BY <1>1, Calls DEF RoleOf, Role

LEMMA Salts ==
    /\ RoleSalts("seller") = {SellerSalt}
    /\ RoleSalts("buyer") = LockId
    /\ SellerSalt \notin LockId
    /\ \A r \in Role : RoleSalts(r) \subseteq Salt
    /\ Nil \notin Salt
  BY AgentAssumption DEF RoleSalts

LEMMA Nils ==
    /\ Nil \notin Call
    /\ Nil \notin KeyHash
    /\ Nil \notin Terms
    /\ Nil \notin Job
  BY DistinctAssumption

\* The coin of the deal and the wallets are values of the contract's types.
LEMMA DealTypes ==
    /\ DealCoin \in CoinCore
    /\ \A r \in Role : Wallet(r) \in Address
  BY AgentAssumption DEF DealCoin, CoinCore, Wallet

-----------------------------------------------------------------------------
(***************************************************************************)
(* Transactions                                                            *)
(***************************************************************************)

\* What an accepted transaction of an agent does to the ledger.
ProposeLands(tx) ==
    /\ tx.circuit = "propose"
    /\ ledger.state = "Empty" /\ ledger'.state = "Proposed"
    /\ ledger'.sellerAddressCommitment = persistentCommit(SellerWallet, tx.salt)
    /\ ledger'.portAuthorityKeyHash = terms.portAuthorityKeyHash
    /\ ledger'.buyerAddressCommitment = ledger.buyerAddressCommitment

LockLands(tx) ==
    /\ tx.circuit = "lockEscrow"
    /\ ledger.state = "Proposed" /\ ledger'.state = "Locked"
    /\ ledger'.sellerAddressCommitment = ledger.sellerAddressCommitment
    /\ ledger'.portAuthorityKeyHash = ledger.portAuthorityKeyHash
    /\ ledger'.heldCommitment = persistentCommit(DealCoin, SellerSalt)
    /\ ledger'.buyerAddressCommitment = persistentCommit(BuyerWallet, tx.salt)

SameTerms ==
    /\ ledger'.sellerAddressCommitment = ledger.sellerAddressCommitment
    /\ ledger'.portAuthorityKeyHash = ledger.portAuthorityKeyHash
    /\ ledger'.heldCommitment = ledger.heldCommitment
    /\ ledger'.buyerAddressCommitment = ledger.buyerAddressCommitment

PayoutLands(tx) ==
    /\ tx.circuit \in {"claimPayout", "releaseOnTimeout"}
    /\ ledger.state = "Locked" /\ ledger'.state = "Released"
    /\ SameTerms

LEMMA ApplyLands ==
    ASSUME ChainTypeOK, NEW tx, Apply(tx)
    PROVE  ProposeLands(tx) \/ LockLands(tx) \/ PayoutLands(tx)
<1>1. ledger \in LedgerCells
  BY DEF ChainTypeOK
<1>2. CASE /\ tx.circuit = "propose"
           /\ propose(terms.portAuthorityKeyHash, terms.durationSeconds,
                      terms.timeoutDirection, SellerWitness(tx.salt))
  BY <1>1, <1>2 DEF propose, SellerWitness, ProposeLands
<1>3. CASE tx.circuit = "lockEscrow" /\ lockEscrow(tx.time, BuyerWitness(tx.salt))
  BY <1>1, <1>3 DEF lockEscrow, lockEscrowAccepted, BuyerWitness, LockLands
<1>4. CASE /\ tx.circuit \in {"claimPayout", "releaseOnTimeout"}
           /\ ledger.state = "Locked"
           /\ ledger' = [ledger EXCEPT !.state = "Released"]
  BY <1>1, <1>4 DEF PayoutLands, SameTerms
<1>5. CASE /\ tx.circuit = "claimPayout"
           /\ claimPayout(DealCoin, SellerSalt, Wallet(tx.role), tx.salt)
  BY <1>4, <1>5 DEF claimPayout, claimPayoutAccepted, payOut
<1>6. CASE /\ tx.circuit = "releaseOnTimeout"
           /\ releaseOnTimeout(DealCoin, SellerSalt, Wallet(tx.role), tx.salt)
  BY <1>4, <1>6 DEF releaseOnTimeout, releaseOnTimeoutAccepted, payOut
<1> QED BY <1>2, <1>3, <1>5, <1>6 DEF Apply

\* An agent's witnesses are of the types that the contract takes from anybody.
LEMMA ApplyIsCall ==
    ASSUME AgentInv, NEW tx \in mempool, Apply(tx)
    PROVE  ChainNext
<1>1. /\ tx.role \in Role /\ tx.salt \in Salt /\ tx.time \in Time
      /\ SellerSalt \in Salt /\ SellerWallet \in Address /\ BuyerWallet \in Address
      /\ DealNonce \in Nonce /\ DealAmount \in Amount
  BY AgentAssumption DEF AgentInv, AgentTypeOK, TxSet
<1>2. CASE /\ tx.circuit = "propose"
           /\ propose(terms.portAuthorityKeyHash, terms.durationSeconds,
                      terms.timeoutDirection, SellerWitness(tx.salt))
  <2>1. terms \in Terms
    BY <1>2 DEF AgentInv, FreshInv, TxInv
  <2>2. SellerWitness(tx.salt) \in ProposeWitness
    BY <1>1, MemoAssumption DEF SellerWitness, ProposeWitness
  <2>3. CallPropose
    BY <1>2, <2>1, <2>2 DEF CallPropose, Terms, propose
  <2> QED BY <2>3 DEF ChainNext
<1>3. CASE tx.circuit = "lockEscrow" /\ lockEscrow(tx.time, BuyerWitness(tx.salt))
  <2>1. terms \in Terms
    BY <1>3 DEF AgentInv, FreshInv, TxInv
  <2>2. BuyerWitness(tx.salt) \in LockWitness
    BY <1>1, <2>1, MemoAssumption, DealTypes DEF BuyerWitness, LockWitness, Terms
  <2>3. CallLockEscrow
    BY <1>1, <1>3, <2>2 DEF CallLockEscrow, lockEscrow, lockEscrowAccepted
  <2> QED BY <2>3 DEF ChainNext
<1>4. CASE /\ tx.circuit = "claimPayout"
           /\ claimPayout(DealCoin, SellerSalt, Wallet(tx.role), tx.salt)
  BY <1>1, <1>4, DealTypes DEF CallClaimPayout, ChainNext
<1>5. CASE /\ tx.circuit = "releaseOnTimeout"
           /\ releaseOnTimeout(DealCoin, SellerSalt, Wallet(tx.role), tx.salt)
  BY <1>1, <1>5, DealTypes DEF CallReleaseOnTimeout, ChainNext
<1> QED BY <1>2, <1>3, <1>4, <1>5 DEF Apply

-----------------------------------------------------------------------------
(***************************************************************************)
(* Each step keeps the invariant                                           *)
(***************************************************************************)

\* The seller queues, approves or rejects the proposal.
LEMMA QueueProposeKeeps ==
    ASSUME AgentInv, NEW h \in KeyHash, NEW duration \in Duration, NEW direction \in Direction,
           QueuePropose(h, duration, direction)
    PROVE  AgentInv'
<1>1. /\ ledger.state = "Empty" /\ offer = "none"
      /\ \A i \in LockId : status[i] = "none" /\ pc[i] = "idle"
      /\ \A tx \in mempool : tx.circuit # "lockEscrow"
  BY DEF AgentInv, AgentTypeOK, FreshInv, TxInv, QueuePropose
<1>2. /\ terms' \in Terms /\ status' = [status EXCEPT ![ProposeCall] = "awaiting_approval"]
      /\ ledger' = ledger /\ offer' = offer /\ pc' = pc /\ mempool' = mempool
  BY DEF QueuePropose, SetStatus, Terms, chainVars
<1>3. (ChainTypeOK /\ SaltInv)'
  BY DEF AgentInv, ChainTypeOK, SaltInv, QueuePropose, chainVars
<1>4. AgentTypeOK'
  BY DEF AgentInv, AgentTypeOK, InFlight, Maybe, Terms, QueuePropose, SetStatus, boundVars
<1>5. FreshInv'
  BY <1>1, <1>2 DEF AgentInv, FreshInv
<1>6. OneLockInv'
  BY Roles DEF AgentInv, OneLockInv, InFlightLocks, QueuePropose, SetStatus
<1>7. TxInv'
  BY DEF AgentInv, TxInv, QueuePropose, SetStatus
<1>8. UntouchedInv'
  BY DEF AgentInv, UntouchedInv, Untouched, QueuePropose, SetStatus, chainVars
<1>9. PortInv'
  BY <1>1, <1>2 DEF PortInv
<1>10. LedgerInv'
  BY <1>1, <1>2 DEF LedgerInv
<1>11. DoneInv'
  BY DEF AgentInv, DoneInv, Done, QueuePropose, SetStatus, chainVars
<1> QED BY <1>3, <1>4, <1>5, <1>6, <1>7, <1>8, <1>9, <1>10, <1>11 DEF AgentInv

LEMMA ApproveProposeKeeps ==
    ASSUME AgentInv, ApprovePropose
    PROVE  AgentInv'
<1>1. (ChainTypeOK /\ LedgerInv)'
  BY DEF AgentInv, ChainTypeOK, LedgerInv, ApprovePropose, chainVars
<1>2. AgentTypeOK'
  BY Calls DEF AgentInv, AgentTypeOK, InFlight, ApprovePropose, Goto, SetStatus, boundVars
<1>3. FreshInv'
  BY DEF AgentInv, FreshInv, ApprovePropose, Goto, SetStatus
<1>4. OneLockInv'
  BY DEF AgentInv, OneLockInv, InFlight, InFlightLocks, ApprovePropose, Goto, SetStatus
<1>5. SaltInv'
  BY Calls DEF AgentInv, SaltInv, ApprovePropose, Goto, SetStatus
<1>6. TxInv'
  BY DEF AgentInv, AgentTypeOK, TxInv, ApprovePropose, Goto, SetStatus
<1>7. UntouchedInv'
  BY Calls DEF AgentInv, UntouchedInv, Untouched, ApprovePropose, Goto, SetStatus, chainVars
<1>8. PortInv'
  BY DEF AgentInv, PortInv, ApprovePropose, Goto, SetStatus, chainVars
<1>9. DoneInv'
  BY DEF AgentInv, DoneInv, Done, ApprovePropose, Goto, SetStatus, chainVars
<1> QED BY <1>1, <1>2, <1>3, <1>4, <1>5, <1>6, <1>7, <1>8, <1>9 DEF AgentInv

LEMMA RejectProposeKeeps ==
    ASSUME AgentInv, RejectPropose
    PROVE  AgentInv'
<1>1. (ChainTypeOK /\ SaltInv /\ PortInv /\ LedgerInv)'
  BY DEF AgentInv, ChainTypeOK, SaltInv, PortInv, LedgerInv, RejectPropose, chainVars
<1>2. AgentTypeOK'
  BY DEF AgentInv, AgentTypeOK, RejectPropose, SetStatus, boundVars
<1>3. FreshInv'
  BY DEF AgentInv, FreshInv, RejectPropose, SetStatus
<1>4. OneLockInv'
  BY DEF AgentInv, OneLockInv, InFlight, InFlightLocks, RejectPropose, SetStatus
<1>5. TxInv'
  BY DEF AgentInv, TxInv, RejectPropose, SetStatus
<1>6. UntouchedInv'
  BY DEF AgentInv, UntouchedInv, Untouched, RejectPropose, SetStatus, chainVars
<1>7. DoneInv'
  BY DEF AgentInv, DoneInv, Done, RejectPropose, SetStatus, chainVars
<1> QED BY <1>1, <1>2, <1>3, <1>4, <1>5, <1>6, <1>7 DEF AgentInv

\* proposeDeal, from one await to the next.
LEMMA DeployDealKeeps ==
    ASSUME AgentInv, DeployDeal
    PROVE  AgentInv'
<1>1. (ChainTypeOK /\ FreshInv /\ OneLockInv /\ LedgerInv)'
  BY DEF AgentInv, ChainTypeOK, FreshInv, OneLockInv, LedgerInv, DeployDeal, chainVars,
     tableVars
<1>2. AgentTypeOK'
  BY Calls, Salts DEF AgentInv, AgentTypeOK, Maybe, DeployDeal, Goto, tableVars, boundVars
<1>3. SaltInv'
  BY Roles, Salts DEF AgentInv, AgentTypeOK, SaltInv, Maybe, DeployDeal, Goto, tableVars
<1>4. TxInv'
  BY DEF AgentInv, TxInv, DeployDeal, Goto, tableVars
<1>5. UntouchedInv'
  BY DEF AgentInv, UntouchedInv, Untouched, DeployDeal, Goto, tableVars, chainVars
<1>6. PortInv'
  BY Roles DEF AgentInv, PortInv, DeployDeal, Goto, tableVars, chainVars
<1>7. DoneInv'
  BY DEF AgentInv, DoneInv, Done, DeployDeal, Goto, tableVars, chainVars
<1> QED BY <1>1, <1>2, <1>3, <1>4, <1>5, <1>6, <1>7 DEF AgentInv

LEMMA SaveProposeKeeps ==
    ASSUME AgentInv, SavePropose
    PROVE  AgentInv'
<1>1. (ChainTypeOK /\ FreshInv /\ OneLockInv)'
  BY DEF AgentInv, ChainTypeOK, FreshInv, OneLockInv, SavePropose, chainVars
<1>2. AgentTypeOK'
  BY Calls, Salts DEF AgentInv, AgentTypeOK, Maybe, SavePropose, Goto, boundVars
<1>3. SaltInv'
  BY Salts DEF AgentInv, AgentTypeOK, SaltInv, Maybe, Role, SavePropose, Goto
<1>4. TxInv'
  BY DEF AgentInv, TxInv, SavePropose, Goto
<1>5. UntouchedInv'
  BY DEF AgentInv, UntouchedInv, Untouched, SavePropose, Goto, chainVars
<1>6. PortInv'
  BY DEF AgentInv, PortInv, SavePropose, Goto, chainVars
<1>7. LedgerInv'
  BY DEF AgentInv, LedgerInv, SavePropose, Goto, chainVars
<1>8. DoneInv'
  BY DEF AgentInv, DoneInv, Done, SavePropose, Goto, chainVars
<1> QED BY <1>1, <1>2, <1>3, <1>4, <1>5, <1>6, <1>7, <1>8 DEF AgentInv

LEMMA DeliverOfferKeeps ==
    ASSUME AgentInv, DeliverOffer
    PROVE  AgentInv'
<1>1. (ChainTypeOK /\ LedgerInv)'
  BY DEF AgentInv, ChainTypeOK, LedgerInv, DeliverOffer, chainVars
<1>2. AgentTypeOK'
  BY Calls DEF AgentInv, AgentTypeOK, DeliverOffer, Goto, boundVars
<1>3. FreshInv'
  BY DEF AgentInv, AgentTypeOK, FreshInv, DeliverOffer, Goto
<1>4. OneLockInv'
  BY DEF AgentInv, OneLockInv, InFlight, InFlightLocks, DeliverOffer, Goto
<1>5. SaltInv'
  BY DEF AgentInv, SaltInv, DeliverOffer, Goto
<1>6. TxInv'
  BY DEF AgentInv, TxInv, DeliverOffer, Goto
<1>7. UntouchedInv'
  BY DEF AgentInv, UntouchedInv, Untouched, DeliverOffer, Goto, chainVars
<1>8. PortInv'
  BY DEF AgentInv, PortInv, DeliverOffer, Goto, chainVars
<1>9. DoneInv'
  BY DEF AgentInv, DoneInv, Done, DeliverOffer, Goto, chainVars
<1> QED BY <1>1, <1>2, <1>3, <1>4, <1>5, <1>6, <1>7, <1>8, <1>9 DEF AgentInv

LEMMA ProposeReturnsKeeps ==
    ASSUME AgentInv, ProposeReturns
    PROVE  AgentInv'
<1>1. (ChainTypeOK /\ LedgerInv)'
  BY DEF AgentInv, ChainTypeOK, LedgerInv, ProposeReturns, chainVars
<1>2. AgentTypeOK'
  BY Calls DEF AgentInv, AgentTypeOK, ProposeReturns, Goto, SetStatus, boundVars
<1>3. FreshInv'
  BY DEF AgentInv, AgentTypeOK, FreshInv, ProposeReturns, Goto, SetStatus
<1>4. OneLockInv'
  BY DEF AgentInv, OneLockInv, InFlight, InFlightLocks, ProposeReturns, Goto, SetStatus
<1>5. SaltInv'
  BY DEF AgentInv, SaltInv, ProposeReturns, Goto, SetStatus
<1>6. TxInv'
  BY DEF AgentInv, TxInv, ProposeReturns, Goto, SetStatus
<1>7. UntouchedInv'
  BY DEF AgentInv, UntouchedInv, Untouched, ProposeReturns, Goto, SetStatus, chainVars
<1>8. PortInv'
  BY DEF AgentInv, PortInv, ProposeReturns, Goto, SetStatus, chainVars
<1>9. DoneInv'
  BY DEF AgentInv, DoneInv, Done, ProposeReturns, Goto, SetStatus, chainVars
<1> QED BY <1>1, <1>2, <1>3, <1>4, <1>5, <1>6, <1>7, <1>8, <1>9 DEF AgentInv

\* The buyer queues, rejects or dismisses a lock.
LEMMA QueueLockKeeps ==
    ASSUME AgentInv, NEW i \in LockId, NEW fromOffer \in BOOLEAN, QueueLock(i, fromOffer)
    PROVE  AgentInv'
<1>1. (ChainTypeOK /\ SaltInv /\ PortInv /\ LedgerInv)'
  BY DEF AgentInv, ChainTypeOK, SaltInv, PortInv, LedgerInv, QueueLock, chainVars
<1>2. AgentTypeOK'
  BY DEF AgentInv, AgentTypeOK, InFlight, QueueLock, SetStatus, boundVars
<1>3. FreshInv'
  BY DEF AgentInv, FreshInv, QueueLock, SetStatus
<1>4. OneLockInv'
  BY DEF AgentInv, OneLockInv, InFlightLocks, QueueLock, SetStatus
<1>5. TxInv'
  BY DEF AgentInv, TxInv, QueueLock, SetStatus
<1>6. UntouchedInv'
  BY DEF AgentInv, UntouchedInv, Untouched, QueueLock, SetStatus, chainVars
<1>7. DoneInv'
  BY DEF AgentInv, DoneInv, Done, QueueLock, SetStatus, chainVars
<1> QED BY <1>1, <1>2, <1>3, <1>4, <1>5, <1>6, <1>7 DEF AgentInv

LEMMA RejectLockKeeps ==
    ASSUME AgentInv, NEW i \in LockId, RejectLock(i)
    PROVE  AgentInv'
<1>1. (ChainTypeOK /\ SaltInv /\ PortInv /\ LedgerInv)'
  BY DEF AgentInv, ChainTypeOK, SaltInv, PortInv, LedgerInv, RejectLock, chainVars
<1>2. AgentTypeOK'
  BY DEF AgentInv, AgentTypeOK, RejectLock, SetStatus, boundVars
<1>3. FreshInv'
  BY DEF AgentInv, FreshInv, RejectLock, SetStatus
<1>4. OneLockInv'
  BY DEF AgentInv, OneLockInv, InFlight, InFlightLocks, RejectLock, SetStatus
<1>5. TxInv'
  BY DEF AgentInv, TxInv, RejectLock, SetStatus
<1>6. UntouchedInv'
  BY DEF AgentInv, UntouchedInv, Untouched, RejectLock, SetStatus, chainVars
<1>7. DoneInv'
  BY DEF AgentInv, DoneInv, Done, RejectLock, SetStatus, chainVars
<1> QED BY <1>1, <1>2, <1>3, <1>4, <1>5, <1>6, <1>7 DEF AgentInv

LEMMA DismissOfferKeeps ==
    ASSUME AgentInv, DismissOffer
    PROVE  AgentInv'
<1>1. (ChainTypeOK /\ SaltInv /\ PortInv /\ LedgerInv)'
  BY DEF AgentInv, ChainTypeOK, SaltInv, PortInv, LedgerInv, DismissOffer, chainVars
<1>2. AgentTypeOK'
  BY DEF AgentInv, AgentTypeOK, DismissOffer, boundVars
<1>3. FreshInv'
  BY DEF AgentInv, AgentTypeOK, FreshInv, DismissOffer
<1>4. OneLockInv'
  BY DEF AgentInv, AgentTypeOK, OneLockInv, InFlightLocks, DismissOffer
<1>5. TxInv'
  BY DEF AgentInv, AgentTypeOK, TxInv, DismissOffer
<1>6. UntouchedInv'
  BY DEF AgentInv, AgentTypeOK, UntouchedInv, Untouched, DismissOffer, chainVars
<1>7. DoneInv'
  BY DEF AgentInv, AgentTypeOK, DoneInv, Done, DismissOffer, chainVars
<1> QED BY <1>1, <1>2, <1>3, <1>4, <1>5, <1>6, <1>7 DEF AgentInv

\* lockDeal, from one await to the next.
LEMMA FindDealKeeps ==
    ASSUME AgentInv, NEW i \in LockId, FindDeal(i)
    PROVE  AgentInv'
<1>1. (ChainTypeOK /\ FreshInv /\ OneLockInv /\ LedgerInv)'
  BY DEF AgentInv, ChainTypeOK, FreshInv, OneLockInv, LedgerInv, FindDeal, chainVars, tableVars
<1>2. AgentTypeOK'
  BY Calls, Salts DEF AgentInv, AgentTypeOK, Maybe, Role, FindDeal, Goto, tableVars, boundVars
<1>3. SaltInv'
  BY Roles, Salts DEF AgentInv, AgentTypeOK, SaltInv, Maybe, FindDeal, Goto, tableVars
<1>4. TxInv'
  BY DEF AgentInv, TxInv, FindDeal, Goto, tableVars
<1>5. UntouchedInv'
  BY DEF AgentInv, AgentTypeOK, UntouchedInv, Untouched, FindDeal, Goto, tableVars, chainVars
<1>6. PortInv'
  BY DEF AgentInv, PortInv, FindDeal, Goto, tableVars
<1>7. DoneInv'
  BY DEF AgentInv, DoneInv, Done, FindDeal, Goto, tableVars, chainVars
<1> QED BY <1>1, <1>2, <1>3, <1>4, <1>5, <1>6, <1>7 DEF AgentInv

LEMMA SaveLockKeeps ==
    ASSUME AgentInv, NEW i \in LockId, SaveLock(i)
    PROVE  AgentInv'
<1>1. (ChainTypeOK /\ FreshInv /\ OneLockInv)'
  BY DEF AgentInv, ChainTypeOK, FreshInv, OneLockInv, SaveLock, chainVars
<1>2. AgentTypeOK'
  BY Calls, Salts DEF AgentInv, AgentTypeOK, Maybe, Role, SaveLock, Goto, boundVars
<1>3. SaltInv'
  BY Roles, Salts DEF AgentInv, SaltInv, Maybe, SaveLock, Goto
<1>4. TxInv'
  BY DEF AgentInv, TxInv, SaveLock, Goto
<1>5. UntouchedInv'
  BY DEF AgentInv, AgentTypeOK, UntouchedInv, Untouched, SaveLock, Goto, chainVars
<1>6. PortInv'
  BY DEF AgentInv, PortInv, SaveLock, Goto
<1>7. LedgerInv'
  BY DEF AgentInv, LedgerInv, SaveLock, Goto, chainVars
<1>8. DoneInv'
  BY DEF AgentInv, DoneInv, Done, SaveLock, Goto, chainVars
<1> QED BY <1>1, <1>2, <1>3, <1>4, <1>5, <1>6, <1>7, <1>8 DEF AgentInv

LEMMA LockReturnsKeeps ==
    ASSUME AgentInv, NEW i \in LockId, LockReturns(i)
    PROVE  AgentInv'
<1>1. (ChainTypeOK /\ LedgerInv)'
  BY DEF AgentInv, ChainTypeOK, LedgerInv, LockReturns, chainVars
<1>2. AgentTypeOK'
  BY Calls DEF AgentInv, AgentTypeOK, Role, LockReturns, Goto, SetStatus, boundVars
<1>3. FreshInv'
  BY DEF AgentInv, AgentTypeOK, FreshInv, LockReturns, Goto, SetStatus
<1>4. OneLockInv'
  BY DEF AgentInv, OneLockInv, InFlight, InFlightLocks, LockReturns, Goto, SetStatus
<1>5. SaltInv'
  BY DEF AgentInv, SaltInv, LockReturns, Goto, SetStatus
<1>6. TxInv'
  BY DEF AgentInv, TxInv, LockReturns, Goto, SetStatus
<1>7. UntouchedInv'
  BY DEF AgentInv, UntouchedInv, Untouched, LockReturns, Goto, SetStatus, chainVars
<1>8. PortInv'
  BY DEF AgentInv, PortInv, LockReturns, Goto, SetStatus, chainVars
<1>9. DoneInv'
  BY DEF AgentInv, DoneInv, Done, LockReturns, Goto, SetStatus, chainVars
<1> QED BY <1>1, <1>2, <1>3, <1>4, <1>5, <1>6, <1>7, <1>8, <1>9 DEF AgentInv

\* A payout, from one await to the next.
LEMMA StartPayoutKeeps ==
    ASSUME AgentInv, NEW call \in PayCall, NEW circuit \in {"claimPayout", "releaseOnTimeout"},
           StartPayout(call, circuit)
    PROVE  AgentInv'
<1>1. \A i \in LockId : i # db["buyer"] => i # db[RoleOf(call)]
  BY Calls, Roles, Salts DEF AgentInv, SaltInv, Maybe, Role
<1>2. (ChainTypeOK /\ FreshInv /\ OneLockInv /\ LedgerInv)'
  BY DEF AgentInv, ChainTypeOK, FreshInv, OneLockInv, LedgerInv, StartPayout, chainVars,
     tableVars
<1>3. AgentTypeOK'
  BY Calls, Roles DEF AgentInv, AgentTypeOK, Maybe, Job, StartPayout, Goto, tableVars, boundVars
<1>4. SaltInv'
  BY Roles DEF AgentInv, AgentTypeOK, SaltInv, Maybe, Job, StartPayout, Goto, tableVars
<1>5. TxInv'
  BY DEF AgentInv, TxInv, StartPayout, Goto, tableVars
<1>6. UntouchedInv'
  BY <1>1 DEF AgentInv, AgentTypeOK, UntouchedInv, Untouched, StartPayout, Goto, chainVars,
     tableVars
<1>7. PortInv'
  BY DEF AgentInv, PortInv, StartPayout, Goto, tableVars, chainVars
<1>8. DoneInv'
  BY DEF AgentInv, DoneInv, Done, StartPayout, Goto, tableVars, chainVars
<1> QED BY <1>2, <1>3, <1>4, <1>5, <1>6, <1>7, <1>8 DEF AgentInv

LEMMA FindPayoutKeeps ==
    ASSUME AgentInv, NEW call \in PayCall, FindPayout(call)
    PROVE  AgentInv'
<1>1. job[call].salt \in Salt /\ job[call].salt \in RoleSalts(RoleOf(call))
  BY Calls, Roles, Salts DEF AgentInv, SaltInv, FindPayout
<1>2. (ChainTypeOK /\ FreshInv /\ OneLockInv /\ LedgerInv)'
  BY DEF AgentInv, ChainTypeOK, FreshInv, OneLockInv, LedgerInv, FindPayout, chainVars,
     tableVars
<1>3. AgentTypeOK'
  BY <1>1, Calls, Roles DEF AgentInv, AgentTypeOK, Maybe, FindPayout, Goto, tableVars, boundVars
<1>4. SaltInv'
  BY Roles, Salts DEF AgentInv, AgentTypeOK, SaltInv, Maybe, FindPayout, Goto, tableVars
<1>5. TxInv'
  BY DEF AgentInv, TxInv, FindPayout, Goto, tableVars
<1>6. UntouchedInv'
  BY DEF AgentInv, UntouchedInv, Untouched, FindPayout, Goto, tableVars, chainVars
<1>7. PortInv'
  BY DEF AgentInv, PortInv, FindPayout, Goto, tableVars, chainVars
<1>8. DoneInv'
  BY DEF AgentInv, DoneInv, Done, FindPayout, Goto, tableVars, chainVars
<1> QED BY <1>2, <1>3, <1>4, <1>5, <1>6, <1>7, <1>8 DEF AgentInv

LEMMA SavePayoutKeeps ==
    ASSUME AgentInv, NEW call \in PayCall, SavePayout(call)
    PROVE  AgentInv'
<1>1. /\ job[call].salt \in Salt /\ job[call].salt \in RoleSalts(RoleOf(call))
      /\ RoleOf(call) \in Role
  BY Calls, Roles, Salts DEF AgentInv, SaltInv, SavePayout
<1>2. db["seller"] = SellerSalt => db'["seller"] = SellerSalt
  BY <1>1, Salts DEF AgentInv, SavePayout
<1>3. (ChainTypeOK /\ FreshInv /\ OneLockInv)'
  BY DEF AgentInv, ChainTypeOK, FreshInv, OneLockInv, SavePayout, chainVars
<1>4. AgentTypeOK'
  BY <1>1, Calls DEF AgentInv, AgentTypeOK, Maybe, SavePayout, Goto, boundVars
<1>5. SaltInv'
  BY Roles, Salts DEF AgentInv, AgentTypeOK, SaltInv, Maybe, SavePayout, Goto
<1>6. TxInv'
  BY <1>2 DEF AgentInv, TxInv, SavePayout, Goto
<1>7. UntouchedInv'
  BY DEF AgentInv, UntouchedInv, Untouched, SavePayout, Goto, chainVars
<1>8. PortInv'
  BY DEF AgentInv, PortInv, SavePayout, Goto, chainVars
<1>9. LedgerInv'
  BY <1>2 DEF AgentInv, LedgerInv, SavePayout, chainVars
<1>10. DoneInv'
  BY DEF AgentInv, DoneInv, Done, SavePayout, Goto, chainVars
<1> QED BY <1>3, <1>4, <1>5, <1>6, <1>7, <1>8, <1>9, <1>10 DEF AgentInv

LEMMA PayoutReturnsKeeps ==
    ASSUME AgentInv, NEW call \in PayCall, PayoutReturns(call)
    PROVE  AgentInv'
<1>1. (ChainTypeOK /\ FreshInv /\ OneLockInv /\ LedgerInv)'
  BY DEF AgentInv, ChainTypeOK, FreshInv, OneLockInv, LedgerInv, PayoutReturns, chainVars,
     tableVars
<1>2. AgentTypeOK'
  BY Calls DEF AgentInv, AgentTypeOK, Maybe, PayoutReturns, Goto, tableVars, boundVars
<1>3. SaltInv'
  BY Calls DEF AgentInv, AgentTypeOK, SaltInv, PayoutReturns, Goto, tableVars
<1>4. TxInv'
  BY DEF AgentInv, TxInv, PayoutReturns, Goto, tableVars
<1>5. UntouchedInv'
  BY Calls DEF AgentInv, AgentTypeOK, UntouchedInv, Untouched, PayoutReturns, Goto, tableVars,
     chainVars
<1>6. PortInv'
  BY DEF AgentInv, PortInv, PayoutReturns, Goto, tableVars, chainVars
<1>7. DoneInv'
  BY DEF AgentInv, DoneInv, Done, PayoutReturns, Goto, tableVars, chainVars
<1> QED BY <1>1, <1>2, <1>3, <1>4, <1>5, <1>6, <1>7 DEF AgentInv

-----------------------------------------------------------------------------
(***************************************************************************)
(* Calls that throw, submit, or are told of their transaction              *)
(***************************************************************************)

\* A call throws, and what it submitted is orphaned: the approve route of a lock
\* and every later await of any call.
LEMMA ThrowKeeps ==
    ASSUME AgentInv, NEW call \in Call,
           pc[call] # "idle" \/ (call \in LockId /\ status[call] = "awaiting_approval"),
           Throw(call),
           \/ mempool' = Orphaned({call})
           \/ mempool' = mempool /\ pc[call] # "await",
           mtCache' \subseteq Role,
           trusted' \in Maybe(KeyHash), trusted # Nil => trusted' = trusted,
           faults' \in 0 .. MaxFaults,
           UNCHANGED <<chainVars, deployed, terms, offer, db, slot, published, rotations>>
    PROVE  AgentInv'
<1>1. /\ pc' = [pc EXCEPT ![call] = "idle"]
      /\ call \in PayCall =>
            status' = status /\ job' = [job EXCEPT ![call] = Nil]
      /\ call \notin PayCall =>
            status' = [status EXCEPT ![call] = "failed"] /\ job' = job
  BY DEF Throw, Goto
<1>2. /\ \A c \in Call : pc'[c] # "idle" => c # call /\ pc'[c] = pc[c]
      /\ \A c \in PayCall : pc'[c] # "idle" => job'[c] = job[c]
      /\ \A row \in LockId \cup {ProposeCall} :
            \/ status'[row] = status[row]
            \/ row = call /\ status'[row] = "failed" /\ status[row] \in InFlight
      /\ \A row \in LockId \cup {ProposeCall} : Done(row)' => Done(row)
  BY <1>1 DEF AgentInv, AgentTypeOK, Done
<1>3. \A tx \in mempool' :
         /\ tx \in TxSet
         /\ \E old \in mempool :
               /\ tx.salt = old.salt /\ tx.circuit = old.circuit /\ tx.role = old.role
               /\ tx.by # Nil => tx = old /\ tx.by # call
  <2>1. CASE mempool' = Orphaned({call})
    <3>1. \A old \in mempool :
             /\ [old EXCEPT !.by = Nil] \in TxSet
             /\ [old EXCEPT !.by = Nil].by = Nil
             /\ [old EXCEPT !.by = Nil].salt = old.salt
             /\ [old EXCEPT !.by = Nil].circuit = old.circuit
             /\ [old EXCEPT !.by = Nil].role = old.role
      BY DEF AgentInv, AgentTypeOK, TxSet
    <3>2. ASSUME NEW tx \in mempool'
          PROVE  \E old \in mempool : tx = [old EXCEPT !.by = Nil] \/ (tx = old /\ old.by # call)
      <4>1. PICK old \in mempool : tx = IF old.by \in {call} THEN [old EXCEPT !.by = Nil] ELSE old
        BY <2>1 DEF Orphaned
      <4>2. tx = [old EXCEPT !.by = Nil] \/ (tx = old /\ old.by # call)
        BY <4>1
      <4> QED BY <4>2
    <3> TAKE tx \in mempool'
    <3>3. PICK old \in mempool : tx = [old EXCEPT !.by = Nil] \/ (tx = old /\ old.by # call)
      BY <3>2
    <3>4. old \in TxSet
      BY DEF AgentInv, AgentTypeOK
    <3>5. tx \in TxSet /\ tx.salt = old.salt /\ tx.circuit = old.circuit /\ tx.role = old.role
      BY <3>1, <3>3, <3>4
    <3>6. tx.by # Nil => tx = old /\ tx.by # call
      BY <3>1, <3>3
    <3> QED BY <3>5, <3>6
  <2>2. CASE mempool' = mempool /\ pc[call] # "await"
    BY <2>2 DEF AgentInv, AgentTypeOK, TxInv
  <2> QED BY <2>1, <2>2
<1>4. AgentTypeOK'
  <2>1. status' \in [LockId \cup {ProposeCall} ->
                      InFlight \cup {"none", "confirmed", "rejected", "failed"}]
    BY <1>1 DEF AgentInv, AgentTypeOK
  <2>2. job' \in [PayCall -> Maybe(Job)]
    BY <1>1 DEF AgentInv, AgentTypeOK, Maybe
  <2>3. mempool' \subseteq TxSet
    BY <1>3
  <2>4. \A row \in LockId \cup {ProposeCall} :
           pc'[row] # "idle" => status'[row] = "submitted_pending"
    BY <1>1, <1>2 DEF AgentInv, AgentTypeOK
  <2> QED BY <1>1, <2>1, <2>2, <2>3, <2>4 DEF AgentInv, AgentTypeOK
<1>5. (ChainTypeOK /\ LedgerInv)'
  BY DEF AgentInv, ChainTypeOK, LedgerInv, chainVars
<1>6. (FreshInv /\ OneLockInv /\ DoneInv)'
  BY <1>2 DEF AgentInv, FreshInv, OneLockInv, DoneInv, chainVars, InFlight
<1>7. SaltInv'
  BY <1>2, Calls DEF AgentInv, SaltInv
<1>8. TxInv'
  <2>1. status[ProposeCall] # "none" => status'[ProposeCall] # "none"
    BY <1>2
  <2>2. \A tx \in mempool' : tx.by # Nil => pc'[tx.by] = "await"
    BY <1>1, <1>3 DEF AgentInv, TxInv
  <2>3. \A tx1, tx2 \in mempool' : tx1.by # Nil /\ tx1.by = tx2.by => tx1 = tx2
    BY <1>3 DEF AgentInv, TxInv
  <2> QED BY <1>3, <2>1, <2>2, <2>3 DEF AgentInv, TxInv
<1>9. UntouchedInv'
  <2>1. SUFFICES ASSUME NEW i \in LockId,
                        status'[i] \in {"none", "awaiting_approval", "rejected"}
                 PROVE  Untouched(i)'
    BY DEF UntouchedInv
  <2>2. Untouched(i)
    BY <1>2, <2>1 DEF AgentInv, UntouchedInv
  <2> QED BY <1>2, <1>3, <2>2, Calls DEF Untouched, chainVars
<1>10. PortInv'
  <2>1. ASSUME trusted = terms.portAuthorityKeyHash, status[ProposeCall] # "none"
        PROVE  trusted' = terms'.portAuthorityKeyHash
    BY <2>1, Nils DEF AgentInv, FreshInv, Terms
  <2>2. /\ \A i \in LockId : pc[i] # "idle" => status[ProposeCall] # "none"
        /\ ledger.state # "Empty" => status[ProposeCall] # "none"
        /\ \A tx \in mempool : tx.circuit = "lockEscrow" => status[ProposeCall] # "none"
    BY DEF AgentInv, AgentTypeOK, FreshInv, TxInv
  <2> QED BY <1>2, <1>3, <2>1, <2>2, Calls DEF AgentInv, PortInv, chainVars
<1> QED BY <1>4, <1>5, <1>6, <1>7, <1>8, <1>9, <1>10 DEF AgentInv

LEMMA SubmitKeeps ==
    ASSUME AgentInv, NEW call \in Call, pc[call] = "submit", NEW tx \in TxSet,
           tx.by = call, tx.role = RoleOf(call), tx.salt = slot[RoleOf(call)],
           Submits(call, tx.circuit),
           mempool' = mempool \cup {tx}, Goto(call, "await"),
           UNCHANGED <<chainVars, deployed, terms, tableVars, slot, job, published, boundVars>>
    PROVE  AgentInv'
<1>1. /\ tx.salt \in RoleSalts(tx.role)
      /\ tx.circuit = "propose" => tx.role = "seller" /\ db["seller"] = SellerSalt
      /\ tx.circuit = "lockEscrow" => tx.role = "buyer"
      /\ tx.circuit \in {"propose", "lockEscrow"} => status[ProposeCall] # "none"
      /\ tx.circuit = "lockEscrow" => trusted = terms.portAuthorityKeyHash
  <2>1. tx.salt \in RoleSalts(tx.role)
    BY Roles DEF AgentInv, SaltInv, Maybe
  <2>2. tx.circuit = "propose" =>
           tx.role = "seller" /\ db["seller"] = SellerSalt /\ status[ProposeCall] # "none"
    BY Roles DEF AgentInv, AgentTypeOK, SaltInv, Submits
  <2>3. tx.circuit = "lockEscrow" =>
           /\ tx.role = "buyer" /\ status[ProposeCall] # "none"
           /\ trusted = terms.portAuthorityKeyHash
    BY Roles DEF AgentInv, AgentTypeOK, FreshInv, PortInv, Submits
  <2> QED BY <2>1, <2>2, <2>3
<1>2. \A i \in LockId :
         status[i] \in {"none", "awaiting_approval", "rejected"} => tx.salt # i
  BY Roles, Salts DEF AgentInv, UntouchedInv, Untouched, SaltInv, Maybe, Role
<1>3. (ChainTypeOK /\ FreshInv /\ OneLockInv /\ LedgerInv)'
  BY DEF AgentInv, ChainTypeOK, FreshInv, OneLockInv, LedgerInv, chainVars, tableVars
<1>4. AgentTypeOK'
  BY DEF AgentInv, AgentTypeOK, Goto, tableVars, boundVars
<1>5. SaltInv'
  BY DEF AgentInv, SaltInv, Goto, tableVars
<1>6. TxInv'
  BY <1>1 DEF AgentInv, AgentTypeOK, TxInv, Goto, tableVars
<1>7. UntouchedInv'
  BY <1>2 DEF AgentInv, UntouchedInv, Untouched, Goto, chainVars, tableVars
<1>8. PortInv'
  BY <1>1 DEF AgentInv, PortInv, Goto, chainVars, tableVars
<1>9. DoneInv'
  BY DEF AgentInv, DoneInv, Done, Goto, chainVars, tableVars
<1> QED BY <1>3, <1>4, <1>5, <1>6, <1>7, <1>8, <1>9 DEF AgentInv

\* The chain refuses or the network drops a transaction.
LEMMA RefusedKeeps ==
    ASSUME AgentInv, NEW tx \in mempool, Resolve(tx, "refused"),
           UNCHANGED chainVars, faults' \in 0 .. MaxFaults
    PROVE  AgentInv'
<1>1. /\ mempool' = mempool \ {tx}
      /\ \/ tx.by = Nil /\ pc' = pc
         \/ /\ tx.by \in Call /\ pc[tx.by] = "await"
            /\ pc' = [pc EXCEPT ![tx.by] = "refused"]
  BY DEF Resolve, AgentInv, AgentTypeOK, TxInv, TxSet
<1>2. \A c \in Call :
         /\ pc'[c] = pc[c] \/ (pc[c] = "await" /\ pc'[c] = "refused")
         /\ pc'[c] = "landed" => pc[c] = "landed"
  BY <1>1 DEF AgentInv, AgentTypeOK
<1>3. (ChainTypeOK /\ FreshInv /\ OneLockInv /\ LedgerInv)'
  BY DEF AgentInv, ChainTypeOK, FreshInv, OneLockInv, LedgerInv, chainVars, tableVars, Resolve
<1>4. AgentTypeOK'
  BY <1>1, <1>2 DEF AgentInv, AgentTypeOK, Resolve, tableVars
<1>5. SaltInv'
  BY <1>2, Calls DEF AgentInv, SaltInv, Resolve, tableVars
<1>6. TxInv'
  <2>1. \A other \in mempool' : other.by # Nil => pc'[other.by] = "await"
    BY <1>1 DEF AgentInv, AgentTypeOK, TxInv, TxSet
  <2> QED BY <1>1, <2>1 DEF AgentInv, TxInv, Resolve, tableVars
<1>7. UntouchedInv'
  BY <1>1, <1>2 DEF AgentInv, UntouchedInv, Untouched, Resolve, chainVars, tableVars
<1>8. PortInv'
  BY <1>1, <1>2 DEF AgentInv, PortInv, Resolve, chainVars, tableVars
<1>9. DoneInv'
  BY <1>2 DEF AgentInv, DoneInv, Done, Resolve, chainVars, tableVars
<1> QED BY <1>3, <1>4, <1>5, <1>6, <1>7, <1>8, <1>9 DEF AgentInv

\* A transaction lands.
LEMMA LandKeeps ==
    ASSUME AgentInv, NEW tx \in mempool, Land(tx)
    PROVE  AgentInv'
<1>1. /\ mempool' = mempool \ {tx}
      /\ \/ tx.by = Nil /\ pc' = pc
         \/ /\ tx.by \in Call /\ pc[tx.by] = "await"
            /\ pc' = [pc EXCEPT ![tx.by] = "landed"]
      /\ UNCHANGED <<deployed, terms, tableVars, slot, job, published, rotations, faults>>
  BY DEF Land, Resolve, AgentInv, AgentTypeOK, TxInv, TxSet
<1>2. \A c \in Call :
         \/ pc'[c] = pc[c]
         \/ c = tx.by /\ pc[c] = "await" /\ pc'[c] = "landed"
  BY <1>1 DEF AgentInv, AgentTypeOK
<1>3. /\ tx \in TxSet /\ tx.salt \in RoleSalts(tx.role)
      /\ tx.circuit = "propose" =>
            tx.role = "seller" /\ db["seller"] = SellerSalt /\ status[ProposeCall] # "none"
      /\ tx.circuit = "lockEscrow" =>
            /\ tx.role = "buyer" /\ status[ProposeCall] # "none"
            /\ trusted = terms.portAuthorityKeyHash
      /\ tx.by # Nil => Submits(tx.by, tx.circuit)
  BY DEF AgentInv, AgentTypeOK, TxInv, PortInv
<1>4. ProposeLands(tx) \/ LockLands(tx) \/ PayoutLands(tx)
  BY ApplyLands DEF AgentInv, Land
<1>5. ChainTypeOK'
  BY ApplyIsCall, NextType DEF AgentInv, Land
<1>6. AgentTypeOK'
  BY <1>1, <1>2, Calls DEF AgentInv, AgentTypeOK, tableVars
<1>7. OneLockInv'
  BY <1>1 DEF AgentInv, OneLockInv, tableVars
<1>8. SaltInv'
  BY <1>1, <1>2, Calls DEF AgentInv, SaltInv, tableVars
<1>9. TxInv'
  <2>1. \A other \in mempool' : other.by # Nil => pc'[other.by] = "await"
    BY <1>1 DEF AgentInv, AgentTypeOK, TxInv, TxSet
  <2> QED BY <1>1, <2>1 DEF AgentInv, TxInv, tableVars
<1>10. FreshInv'
  BY <1>1, <1>3, <1>4 DEF AgentInv, FreshInv, ProposeLands, LockLands, PayoutLands, tableVars
<1>11. UntouchedInv'
  <2>1. SUFFICES ASSUME NEW i \in LockId,
                        status[i] \in {"none", "awaiting_approval", "rejected"}
                 PROVE  Untouched(i)'
    BY <1>1 DEF UntouchedInv, tableVars
  <2>2. Untouched(i)
    BY <2>1 DEF AgentInv, UntouchedInv
  <2>3. ledger'.buyerAddressCommitment # persistentCommit(BuyerWallet, i)
    BY <1>4, <2>2 DEF Untouched, ProposeLands, LockLands, PayoutLands, SameTerms,
       persistentCommit
  <2> QED BY <1>1, <1>2, <2>2, <2>3, Calls DEF Untouched, tableVars
<1>12. PortInv'
  BY <1>1, <1>2, <1>3, <1>4, Calls DEF AgentInv, PortInv, ProposeLands, LockLands, PayoutLands,
     tableVars
<1>13. LedgerInv'
  BY <1>1, <1>3, <1>4, Salts DEF AgentInv, LedgerInv, ProposeLands, LockLands, PayoutLands,
     SameTerms, tableVars
<1>14. DoneInv'
  <2>1. /\ Done(ProposeCall)' => Done(ProposeCall) \/ tx.circuit = "propose"
        /\ \A i \in LockId : Done(i)' => Done(i) \/ (tx.circuit = "lockEscrow" /\ i = tx.by)
    BY <1>1, <1>2, <1>3, Calls DEF Done, Submits, tableVars
  <2> QED BY <1>4, <2>1 DEF AgentInv, DoneInv, ProposeLands, LockLands, PayoutLands
<1> QED
  BY <1>5, <1>6, <1>7, <1>8, <1>9, <1>10, <1>11, <1>12, <1>13, <1>14 DEF AgentInv

\* An attestation and the passing of time.
LEMMA OutsideKeeps ==
    ASSUME AgentInv, ChainNext, ledger'.state = ledger.state, SameTerms, UNCHANGED agentVars
    PROVE  AgentInv'
<1>1. ChainTypeOK'
  BY NextType DEF AgentInv
<1>2. (AgentTypeOK /\ FreshInv /\ OneLockInv /\ SaltInv /\ TxInv)'
  BY DEF AgentInv, AgentTypeOK, FreshInv, OneLockInv, SaltInv, TxInv, agentVars
<1>3. (UntouchedInv /\ PortInv /\ LedgerInv /\ DoneInv)'
  BY DEF AgentInv, UntouchedInv, Untouched, PortInv, LedgerInv, DoneInv, Done, SameTerms,
     agentVars
<1> QED BY <1>1, <1>2, <1>3 DEF AgentInv

-----------------------------------------------------------------------------
(***************************************************************************)
(* The remaining steps                                                     *)
(***************************************************************************)

LEMMA CallTxKeeps ==
    ASSUME AgentInv, NEW call \in Call, pc[call] = "submit", NEW time \in Time,
           NEW circuit \in {"propose", "lockEscrow", "claimPayout", "releaseOnTimeout"},
           Submits(call, circuit), CallTx(call, circuit, time),
           UNCHANGED <<chainVars, deployed, terms, offer, db, slot, mtCache, published,
                       trusted, boundVars>>
    PROVE  AgentInv'
<1> DEFINE tx == [circuit |-> circuit, role |-> RoleOf(call), salt |-> slot[RoleOf(call)],
                  time |-> time, by |-> call]
<1>1. CASE /\ mempool' = mempool \cup {tx}
           /\ Goto(call, "await")
           /\ UNCHANGED <<status, job>>
  <2>1. slot[RoleOf(call)] \in Salt
    BY Roles DEF AgentInv, AgentTypeOK, SaltInv, Maybe
  <2>2. tx \in TxSet
    BY <2>1, Roles DEF TxSet
  <2> QED BY <1>1, <2>2, SubmitKeeps DEF tableVars
<1>2. CASE Throw(call) /\ UNCHANGED mempool
  <2>1. mtCache \subseteq Role /\ trusted \in Maybe(KeyHash) /\ faults \in 0 .. MaxFaults
    BY DEF AgentInv, AgentTypeOK
  <2> QED BY <1>2, <2>1, ThrowKeeps DEF boundVars
<1> QED BY <1>1, <1>2 DEF CallTx

LEMMA SubmitProposeKeeps ==
    ASSUME AgentInv, SubmitPropose
    PROVE  AgentInv'
<1>1. Submits(ProposeCall, "propose") /\ 0 \in Time
  BY Calls, ContractAssumption DEF Submits, Time
<1> QED BY <1>1, CallTxKeeps, Calls DEF SubmitPropose

LEMMA SubmitLockKeeps ==
    ASSUME AgentInv, NEW i \in LockId, SubmitLock(i)
    PROVE  AgentInv'
<1>1. Submits(i, "lockEscrow") /\ \A t \in Clock : t \in Time
  BY Calls DEF Submits, Clock
<1> QED BY <1>1, CallTxKeeps, Calls DEF SubmitLock

LEMMA SubmitPayoutKeeps ==
    ASSUME AgentInv, NEW call \in PayCall, SubmitPayout(call)
    PROVE  AgentInv'
<1>1. job[call].circuit \in {"claimPayout", "releaseOnTimeout"}
  BY DEF AgentInv, SaltInv, Job, SubmitPayout
<1>2. Submits(call, job[call].circuit) /\ 0 \in Time
  BY <1>1, Calls, ContractAssumption DEF Submits, Time
<1> QED BY <1>1, <1>2, CallTxKeeps, Calls DEF SubmitPayout

LEMMA ApproveLockKeeps ==
    ASSUME AgentInv, NEW i \in LockId, ApproveLock(i)
    PROVE  AgentInv'
<1>1. CASE SetStatus(i, "submitted_pending") /\ Goto(i, "resolve") /\ UNCHANGED job
  <2>1. (ChainTypeOK /\ LedgerInv)'
    BY DEF AgentInv, ChainTypeOK, LedgerInv, ApproveLock, chainVars
  <2>2. AgentTypeOK'
    BY <1>1, Calls DEF AgentInv, AgentTypeOK, InFlight, ApproveLock, Goto, SetStatus, boundVars
  <2>3. FreshInv'
    BY <1>1 DEF AgentInv, FreshInv, ApproveLock, SetStatus
  <2>4. OneLockInv'
    BY <1>1 DEF AgentInv, OneLockInv, InFlight, ApproveLock, SetStatus
  <2>5. SaltInv'
    BY <1>1, Calls DEF AgentInv, SaltInv, ApproveLock, Goto
  <2>6. TxInv'
    BY <1>1 DEF AgentInv, AgentTypeOK, TxInv, ApproveLock, Goto, SetStatus
  <2>7. UntouchedInv'
    BY <1>1, Calls DEF AgentInv, UntouchedInv, Untouched, ApproveLock, Goto, SetStatus,
       chainVars
  <2>8. PortInv'
    BY <1>1 DEF AgentInv, PortInv, ApproveLock, Goto, chainVars
  <2>9. DoneInv'
    BY <1>1 DEF AgentInv, DoneInv, Done, ApproveLock, Goto, SetStatus, chainVars
  <2> QED BY <2>1, <2>2, <2>3, <2>4, <2>5, <2>6, <2>7, <2>8, <2>9 DEF AgentInv
<1>2. CASE Throw(i)
  <2>1. pc[i] # "await" /\ status[i] = "awaiting_approval"
    BY DEF AgentInv, AgentTypeOK, ApproveLock
  <2>2. mtCache \subseteq Role /\ trusted \in Maybe(KeyHash) /\ faults \in 0 .. MaxFaults
    BY DEF AgentInv, AgentTypeOK
  <2> QED BY <1>2, <2>1, <2>2, ThrowKeeps, Calls DEF ApproveLock, boundVars
<1> QED BY <1>1, <1>2 DEF ApproveLock

\* What the whitelist pins stays pinned; a lock goes on only under it.
LEMMA ResolvePortKeeps ==
    ASSUME AgentInv, NEW i \in LockId, ResolvePort(i)
    PROVE  AgentInv'
<1>1. /\ trusted' \in Maybe(KeyHash)
      /\ trusted # Nil => trusted' = trusted
  BY DEF AgentInv, AgentTypeOK, Maybe, ResolvePort
<1>2. CASE Goto(i, "find") /\ trusted' = terms.portAuthorityKeyHash /\ UNCHANGED <<status, job>>
  <2>1. (ChainTypeOK /\ FreshInv /\ OneLockInv /\ LedgerInv)'
    BY <1>2 DEF AgentInv, ChainTypeOK, FreshInv, OneLockInv, LedgerInv, ResolvePort, chainVars
  <2>2. AgentTypeOK'
    BY <1>1, <1>2, Calls DEF AgentInv, AgentTypeOK, ResolvePort, Goto, boundVars
  <2>3. SaltInv'
    BY <1>2 DEF AgentInv, SaltInv, ResolvePort, Goto
  <2>4. TxInv'
    BY <1>2 DEF AgentInv, TxInv, ResolvePort, Goto
  <2>5. UntouchedInv'
    BY <1>2 DEF AgentInv, UntouchedInv, Untouched, ResolvePort, Goto, chainVars
  <2>6. PortInv'
    BY <1>2 DEF PortInv, ResolvePort
  <2>7. DoneInv'
    BY <1>2 DEF AgentInv, DoneInv, Done, ResolvePort, Goto, chainVars
  <2> QED BY <2>1, <2>2, <2>3, <2>4, <2>5, <2>6, <2>7 DEF AgentInv
<1>3. CASE Throw(i)
  <2>1. pc[i] = "resolve" /\ mtCache \subseteq Role /\ faults \in 0 .. MaxFaults
    BY DEF AgentInv, AgentTypeOK, ResolvePort
  <2> QED BY <1>1, <1>3, <2>1, ThrowKeeps, Calls DEF ResolvePort, boundVars
<1> QED BY <1>2, <1>3 DEF ResolvePort

LEMMA ResolveIndexKeeps ==
    ASSUME AgentInv, NEW call \in PayCall, ResolveIndex(call)
    PROVE  AgentInv'
<1>1. CASE /\ mtCache' = mtCache \cup {RoleOf(call)}
           /\ Goto(call, "find")
           /\ UNCHANGED <<status, job>>
  <2>1. (ChainTypeOK /\ FreshInv /\ OneLockInv /\ LedgerInv)'
    BY <1>1 DEF AgentInv, ChainTypeOK, FreshInv, OneLockInv, LedgerInv, ResolveIndex, chainVars
  <2>2. AgentTypeOK'
    BY <1>1, Calls, Roles DEF AgentInv, AgentTypeOK, ResolveIndex, Goto, boundVars
  <2>3. SaltInv'
    BY <1>1 DEF AgentInv, SaltInv, ResolveIndex, Goto
  <2>4. TxInv'
    BY <1>1 DEF AgentInv, TxInv, ResolveIndex, Goto
  <2>5. UntouchedInv'
    BY <1>1 DEF AgentInv, UntouchedInv, Untouched, ResolveIndex, Goto, chainVars
  <2>6. PortInv'
    BY <1>1, Calls DEF AgentInv, PortInv, ResolveIndex, Goto, chainVars
  <2>7. DoneInv'
    BY <1>1 DEF AgentInv, DoneInv, Done, ResolveIndex, Goto, chainVars
  <2> QED BY <2>1, <2>2, <2>3, <2>4, <2>5, <2>6, <2>7 DEF AgentInv
<1>2. CASE Throw(call) /\ UNCHANGED mtCache
  <2>1. /\ pc[call] = "index" /\ mtCache \subseteq Role
        /\ trusted \in Maybe(KeyHash) /\ faults \in 0 .. MaxFaults
    BY DEF AgentInv, AgentTypeOK, ResolveIndex
  <2> QED BY <1>2, <2>1, ThrowKeeps, Calls DEF ResolveIndex, boundVars
<1> QED BY <1>1, <1>2 DEF ResolveIndex

LEMMA CallThrowsKeeps ==
    ASSUME AgentInv, NEW call \in Call, CallThrows(call)
    PROVE  AgentInv'
<1>1. /\ pc[call] = "refused" /\ mtCache \subseteq Role
      /\ trusted \in Maybe(KeyHash) /\ faults \in 0 .. MaxFaults
  BY DEF AgentInv, AgentTypeOK, CallThrows
<1> QED BY <1>1, ThrowKeeps DEF CallThrows, boundVars

LEMMA OneMoreFault ==
    ASSUME AgentInv, faults < MaxFaults, faults' = faults + 1
    PROVE  faults' \in 0 .. MaxFaults
  BY AgentAssumption DEF AgentInv, AgentTypeOK

LEMMA CallFailsKeeps ==
    ASSUME AgentInv, NEW call \in Call, CallFails(call)
    PROVE  AgentInv'
<1>1. mtCache \subseteq Role /\ trusted \in Maybe(KeyHash)
  BY DEF AgentInv, AgentTypeOK
<1> QED BY <1>1, ThrowKeeps, OneMoreFault DEF CallFails

\* A crash only ends calls.
LEMMA CrashKeeps ==
    ASSUME AgentInv, NEW r \in Role, Crash(r)
    PROVE  AgentInv'
<1>1. /\ pc' \in [Call -> {"idle", "deploy", "resolve", "index", "find", "save", "submit",
                           "await", "landed", "delivered", "refused", "dead"}]
      /\ job' \in [PayCall -> Maybe(Job)]
      /\ \A c \in Call :
            \/ pc'[c] = pc[c] /\ (RoleOf(c) # r \/ pc[c] \in {"idle", "dead"})
            \/ pc'[c] = "idle" /\ RoleOf(c) = r
            \/ pc'[c] = "dead" /\ RoleOf(c) = r /\ c \notin PayCall /\ pc[c] # "idle"
      /\ \A c \in PayCall : pc'[c] # "idle" => job'[c] = job[c] /\ pc'[c] = pc[c]
  BY Calls DEF AgentInv, AgentTypeOK, Crash, Maybe
<1>2. \A tx \in mempool' :
         /\ tx \in TxSet
         /\ \E old \in mempool :
               /\ tx.salt = old.salt /\ tx.circuit = old.circuit /\ tx.role = old.role
               /\ tx.by # Nil => tx = old /\ RoleOf(tx.by) # r
  <2>1. \A old \in mempool :
           /\ [old EXCEPT !.by = Nil] \in TxSet
           /\ [old EXCEPT !.by = Nil].by = Nil
           /\ [old EXCEPT !.by = Nil].salt = old.salt
           /\ [old EXCEPT !.by = Nil].circuit = old.circuit
           /\ [old EXCEPT !.by = Nil].role = old.role
    BY DEF AgentInv, AgentTypeOK, TxSet
  <2>2. ASSUME NEW tx \in mempool'
        PROVE  \E old \in mempool :
                  \/ tx = [old EXCEPT !.by = Nil]
                  \/ tx = old /\ (old.by # Nil => RoleOf(old.by) # r)
    <3>1. PICK old \in mempool :
             tx = IF old.by \in {c \in Call : RoleOf(c) = r} THEN [old EXCEPT !.by = Nil] ELSE old
      BY DEF Crash, Orphaned
    <3>2. old.by # Nil => old.by \in Call
      BY DEF AgentInv, AgentTypeOK, TxSet
    <3>3. CASE old.by \in {c \in Call : RoleOf(c) = r}
      BY <3>1, <3>3, Zenon
    <3>4. CASE old.by \notin {c \in Call : RoleOf(c) = r}
      <4>1. tx = old
        BY <3>1, <3>4, Zenon
      <4>2. old.by # Nil => RoleOf(old.by) # r
        BY <3>2, <3>4
      <4> QED BY <4>1, <4>2
    <3> QED BY <3>3, <3>4
  <2> TAKE tx \in mempool'
  <2>3. PICK old \in mempool :
           \/ tx = [old EXCEPT !.by = Nil]
           \/ tx = old /\ (old.by # Nil => RoleOf(old.by) # r)
    BY <2>2
  <2>4. old \in TxSet
    BY DEF AgentInv, AgentTypeOK
  <2>5. tx \in TxSet /\ tx.salt = old.salt /\ tx.circuit = old.circuit /\ tx.role = old.role
    BY <2>1, <2>3, <2>4
  <2>6. tx.by # Nil => tx = old /\ RoleOf(tx.by) # r
    BY <2>1, <2>3
  <2> QED BY <2>5, <2>6
<1>3. AgentTypeOK'
  <2>1. \A row \in LockId \cup {ProposeCall} :
           pc'[row] # "idle" => status'[row] = "submitted_pending"
    BY <1>1, Calls DEF AgentInv, AgentTypeOK, Crash, tableVars
  <2>2. mempool' \subseteq TxSet
    BY <1>2
  <2> QED BY <1>1, <2>1, <2>2, OneMoreFault DEF AgentInv, AgentTypeOK, Crash, tableVars
<1>4. (ChainTypeOK /\ FreshInv /\ OneLockInv /\ LedgerInv)'
  BY DEF AgentInv, ChainTypeOK, FreshInv, OneLockInv, LedgerInv, Crash, chainVars, tableVars
<1>5. SaltInv'
  BY <1>1, Calls DEF AgentInv, SaltInv, Crash, tableVars
<1>6. TxInv'
  <2>1. \A tx \in mempool' : tx.by # Nil => pc'[tx.by] = "await"
    BY <1>1, <1>2 DEF AgentInv, TxInv, TxSet
  <2>2. \A tx1, tx2 \in mempool' : tx1.by # Nil /\ tx1.by = tx2.by => tx1 = tx2
    BY <1>2 DEF AgentInv, TxInv
  <2> QED BY <1>2, <2>1, <2>2 DEF AgentInv, TxInv, Crash, tableVars
<1>7. UntouchedInv'
  BY <1>1, <1>2 DEF AgentInv, UntouchedInv, Untouched, Crash, chainVars, tableVars
<1>8. PortInv'
  BY <1>1, <1>2, Calls DEF AgentInv, PortInv, Crash, chainVars, tableVars
<1>9. DoneInv'
  BY <1>1, Calls DEF AgentInv, DoneInv, Done, Crash, chainVars, tableVars
<1> QED BY <1>3, <1>4, <1>5, <1>6, <1>7, <1>8, <1>9 DEF AgentInv

LEMMA RotateKeyKeeps ==
    ASSUME AgentInv, RotateKey
    PROVE  AgentInv'
<1>1. AgentTypeOK'
  BY AgentAssumption DEF AgentInv, AgentTypeOK, RotateKey, tableVars
<1>2. (ChainTypeOK /\ FreshInv /\ OneLockInv /\ SaltInv /\ TxInv)'
  BY DEF AgentInv, ChainTypeOK, FreshInv, OneLockInv, SaltInv, TxInv, RotateKey, chainVars,
     tableVars
<1>3. (UntouchedInv /\ PortInv /\ LedgerInv /\ DoneInv)'
  BY DEF AgentInv, UntouchedInv, Untouched, PortInv, LedgerInv, DoneInv, Done, RotateKey,
     chainVars, tableVars
<1> QED BY <1>1, <1>2, <1>3 DEF AgentInv

LEMMA AttestDealKeeps ==
    ASSUME AgentInv, AttestDeal
    PROVE  AgentInv'
<1>1. ChainNext
  BY DEF AttestDeal, CallAttestMilestone, ChainNext
<1>2. ledger'.state = ledger.state /\ SameTerms
  BY DEF AgentInv, ChainTypeOK, AttestDeal, attestMilestone, SameTerms
<1> QED BY <1>1, <1>2, OutsideKeeps DEF AttestDeal

LEMMA AdvanceTimeKeeps ==
    ASSUME AgentInv, AdvanceTime
    PROVE  AgentInv'
<1>1. ChainNext /\ ledger'.state = ledger.state /\ SameTerms
  BY DEF AdvanceTime, AdvanceBlock, ChainNext, SameTerms
<1> QED BY <1>1, OutsideKeeps DEF AdvanceTime

LEMMA PayoutsStartKeeps ==
    ASSUME AgentInv, NEW r \in Role, WatcherTick(r) \/ OperatorPosts(r)
    PROVE  AgentInv'
<1>1. <<r, "watcher">> \in PayCall /\ <<r, "operator">> \in PayCall
  BY DEF PayCall
<1> QED BY <1>1, StartPayoutKeeps DEF WatcherTick, OperatorPosts

-----------------------------------------------------------------------------
(***************************************************************************)
(* The theorems                                                            *)
(***************************************************************************)

LEMMA AgentsInit == Init => AgentInv
<1> SUFFICES ASSUME Init PROVE AgentInv
  OBVIOUS
<1>1. ChainTypeOK /\ ledger.state = "Empty" /\ ledger.buyerAddressCommitment = Nil
  BY InitType DEF Init, ChainInit, EmptyLedger
<1>2. AgentTypeOK
  <2>1. /\ status \in [LockId \cup {ProposeCall} ->
                         InFlight \cup {"none", "confirmed", "rejected", "failed"}]
        /\ pc \in [Call -> {"idle", "deploy", "resolve", "index", "find", "save", "submit",
                            "await", "landed", "delivered", "refused", "dead"}]
        /\ \A row \in LockId \cup {ProposeCall} : pc[row] = "idle"
    BY Calls DEF Init
  <2>2. /\ db \in [Role -> Maybe(Salt)] /\ slot \in [Role -> Maybe(Salt)]
        /\ job \in [PayCall -> Maybe(Job)]
    BY DEF Init, Maybe
  <2>3. faults \in 0 .. MaxFaults /\ rotations \in 0 .. MaxRotations
    BY AgentAssumption DEF Init
  <2> QED BY <2>1, <2>2, <2>3 DEF Init, AgentTypeOK, Maybe
<1>3. \A i \in LockId : Untouched(i)
  <2>1. \A i \in LockId : persistentCommit(BuyerWallet, i) # Nil
    BY CommitmentIsSet, AgentAssumption
  <2> QED BY <1>1, <2>1, Calls DEF Init, Untouched, Role
<1>4. FreshInv /\ OneLockInv /\ SaltInv /\ TxInv
  BY <1>1, Calls DEF Init, FreshInv, OneLockInv, SaltInv, TxInv, InFlight, Maybe
<1>5. UntouchedInv /\ PortInv /\ LedgerInv /\ DoneInv
  BY <1>1, <1>3, Calls DEF Init, UntouchedInv, PortInv, LedgerInv, DoneInv, Done
<1> QED BY <1>1, <1>2, <1>4, <1>5 DEF AgentInv

LEMMA AgentsNext == AgentInv /\ [Next]_vars => AgentInv'
<1> SUFFICES ASSUME AgentInv, [Next]_vars PROVE AgentInv'
  OBVIOUS
<1>1. CASE OperatorStep
  BY <1>1, QueueProposeKeeps, ApproveProposeKeeps, RejectProposeKeeps, QueueLockKeeps,
     ApproveLockKeeps, RejectLockKeeps, DismissOfferKeeps, PayoutsStartKeeps, AttestDealKeeps
     DEF OperatorStep
<1>2. CASE ProposeStep
  BY <1>2, DeployDealKeeps, SaveProposeKeeps, SubmitProposeKeeps, DeliverOfferKeeps,
     ProposeReturnsKeeps
     DEF ProposeStep
<1>3. ASSUME NEW i \in LockId, LockStep(i) PROVE AgentInv'
  BY <1>3, ResolvePortKeeps, FindDealKeeps, SaveLockKeeps, SubmitLockKeeps, LockReturnsKeeps
     DEF LockStep
<1>4. ASSUME NEW call \in PayCall, PayoutStep(call) PROVE AgentInv'
  BY <1>4, ResolveIndexKeeps, FindPayoutKeeps, SavePayoutKeeps, SubmitPayoutKeeps,
     PayoutReturnsKeeps DEF PayoutStep
<1>5. ASSUME NEW tx \in mempool, Land(tx) \/ Refuse(tx) \/ Lose(tx) PROVE AgentInv'
  <2>1. faults \in 0 .. MaxFaults
    BY DEF AgentInv, AgentTypeOK
  <2>2. CASE Refuse(tx)
    BY <2>1, <2>2, RefusedKeeps DEF Refuse
  <2>3. CASE Lose(tx)
    BY <2>3, RefusedKeeps, OneMoreFault DEF Lose
  <2> QED BY <1>5, <2>2, <2>3, LandKeeps
<1>6. CASE UNCHANGED vars
  <2>1. (ChainTypeOK /\ AgentTypeOK /\ FreshInv /\ OneLockInv /\ SaltInv)'
    BY <1>6 DEF AgentInv, ChainTypeOK, AgentTypeOK, FreshInv, OneLockInv, SaltInv, vars,
       chainVars, agentVars
  <2>2. (TxInv /\ UntouchedInv /\ PortInv /\ LedgerInv /\ DoneInv)'
    BY <1>6 DEF AgentInv, TxInv, UntouchedInv, Untouched, PortInv, LedgerInv, DoneInv, Done,
       vars, chainVars, agentVars
  <2> QED BY <2>1, <2>2 DEF AgentInv
<1> QED
  BY <1>1, <1>2, <1>3, <1>4, <1>5, <1>6, CallThrowsKeeps, CallFailsKeeps, CrashKeeps,
     RotateKeyKeeps, AdvanceTimeKeeps, PayoutsStartKeeps DEF Next

\* The inductive invariant: whose salt each table, handler and transaction may hold,
\* and what the rows, the handlers and the chain say of each other.
THEOREM AgentInvariant == Spec => []AgentInv
  BY AgentsInit, AgentsNext, PTL DEF Spec

\* The handlers and the queue keep their types, and a lock row that is being
\* executed is marked submitted_pending.
THEOREM AgentTypes == Spec => []AgentTypeOK
  BY AgentInvariant, PTL DEF AgentInv

\* A confirmed row tells the operator of something that is on the chain.
THEOREM ConfirmedRowsAreTrue == Spec => []ConfirmedIsOnChain
<1>1. AgentInv => ConfirmedIsOnChain
  BY DEF AgentInv, DoneInv, Done, ConfirmedIsOnChain
<1> QED BY <1>1, AgentInvariant, PTL

\* What an operator rejected did not happen and cannot happen any more.
THEOREM RejectionIsFinal == Spec => []RejectedNeverRan
<1>1. AgentInv => RejectedNeverRan
  BY DEF AgentInv, AgentTypeOK, UntouchedInv, Untouched, RejectedNeverRan
<1> QED BY <1>1, AgentInvariant, PTL

\* The pending queue serialises the buyer's attempts to lock.
THEOREM LocksAreSerial == Spec => []OneLockAtATime
<1>1. AgentInv => OneLockAtATime
  <2>1. SUFFICES ASSUME OneLockInv PROVE Cardinality(InFlightLocks) <= 1
    BY DEF AgentInv, OneLockAtATime
  <2>2. CASE InFlightLocks = {}
    BY <2>2, FS_EmptySet
  <2>3. CASE InFlightLocks # {}
    <3>1. PICK i \in InFlightLocks : TRUE
      BY <2>3
    <3>2. InFlightLocks = {i}
      BY <2>1, <3>1 DEF InFlightLocks, OneLockInv
    <3> QED BY <3>2, FS_Singleton
  <2> QED BY <2>2, <2>3
<1> QED BY <1>1, AgentInvariant, PTL

\* The seller holds what it needs to be paid, from the proposal on.
THEOREM SellerKeepsItsWitness == Spec => []SellerCanBePaid
<1>1. AgentInv => SellerCanBePaid
  BY DEF AgentInv, LedgerInv, SellerCanBePaid, depositVerified
<1> QED BY <1>1, AgentInvariant, PTL

\* No deposit is made under a key that the buyer did not pin.
THEOREM PinnedKeyOnly == Spec => []LockedUnderPinnedKey
<1>1. AgentInv => LockedUnderPinnedKey
  BY DEF AgentInv, LedgerInv, PortInv, LockedUnderPinnedKey
<1> QED BY <1>1, AgentInvariant, PTL

-----------------------------------------------------------------------------
(***************************************************************************)
(* The buyer's refund.  Every lock of the deal draws a fresh salt over the  *)
(* one stored before, so that the stored row opens the refund address only  *)
(* as long as one lock of the deal went past approval (SettlementRelock.cfg *)
(* shows what a second one does).                                          *)
(***************************************************************************)

\* The lock rows that went past approval.
LocksThatRan == {i \in LockId : status[i] \notin {"none", "awaiting_approval", "rejected"}}

OnlyOneLockRan == \A i, j \in LocksThatRan : i = j

\* The buyer has stored a row before a lock is submitted, and what is locked
\* refunds to an address of one of its rows.
BuyerInv ==
    /\ \A i \in LockId : pc[i] = "submit" => db["buyer"] # Nil
    /\ \A tx \in mempool : tx.circuit = "lockEscrow" => db["buyer"] # Nil
    /\ ledger.state \in {"Locked", "Released"} =>
          /\ db["buyer"] # Nil
          /\ \E i \in LockId : ledger.buyerAddressCommitment = persistentCommit(BuyerWallet, i)

\* What a step may do to the state that BuyerInv is about.
KeepsBuyerRow == db["buyer"] # Nil => db'["buyer"] # Nil
NoNewSubmit == \A i \in LockId : pc'[i] = "submit" => pc[i] = "submit"
NoNewLockTx ==
    \A tx \in mempool' :
        tx.circuit = "lockEscrow" => \E old \in mempool : old.circuit = "lockEscrow"
NoNewRefundAddress ==
    /\ ledger'.state \in {"Locked", "Released"} => ledger.state \in {"Locked", "Released"}
    /\ ledger'.buyerAddressCommitment = ledger.buyerAddressCommitment

LEMMA QuietKeepsBuyer ==
    ASSUME BuyerInv, KeepsBuyerRow, NoNewSubmit, NoNewLockTx, NoNewRefundAddress
    PROVE  BuyerInv'
  BY DEF BuyerInv, KeepsBuyerRow, NoNewSubmit, NoNewLockTx, NoNewRefundAddress

LEMMA OrphanedKeepsCircuits ==
    ASSUME AgentInv, NEW calls, mempool' = Orphaned(calls)
    PROVE  NoNewLockTx
<1>1. ASSUME NEW tx \in mempool'
      PROVE  \E old \in mempool : tx.circuit = old.circuit
  <2>1. PICK old \in mempool : tx = IF old.by \in calls THEN [old EXCEPT !.by = Nil] ELSE old
    BY DEF Orphaned
  <2>2. old \in TxSet
    BY DEF AgentInv, AgentTypeOK
  <2>3. [old EXCEPT !.by = Nil].circuit = old.circuit
    BY <2>2 DEF TxSet
  <2>4. tx.circuit = old.circuit
    BY <2>1, <2>3
  <2> QED BY <2>4
<1> QED BY <1>1 DEF NoNewLockTx

LEMMA ThrowIsQuiet ==
    ASSUME AgentInv, NEW call \in Call, Throw(call)
    PROVE  NoNewSubmit
  BY Calls DEF AgentInv, AgentTypeOK, Throw, Goto, NoNewSubmit

LEMMA BuyerInit == Init => BuyerInv
<1>1. Init => ledger.state = "Empty" /\ mempool = {} /\ \A i \in LockId : pc[i] = "idle"
  BY Calls DEF Init, ChainInit, EmptyLedger
<1> QED BY <1>1 DEF BuyerInv

\* The operators' steps, and C's.
LEMMA OperatorKeepsBuyer ==
    ASSUME AgentInv, BuyerInv, OperatorStep
    PROVE  BuyerInv'
<1>1. CASE AttestDeal
  <2>1. NoNewRefundAddress
    BY <1>1 DEF AgentInv, ChainTypeOK, AttestDeal, attestMilestone, NoNewRefundAddress
  <2> QED BY <1>1, <2>1, QuietKeepsBuyer DEF AttestDeal, agentVars, KeepsBuyerRow, NoNewSubmit,
     NoNewLockTx
<1>2. ASSUME NEW r \in Role, OperatorPosts(r)
      PROVE  BuyerInv'
  <2>1. <<r, "operator">> \in PayCall
    BY DEF PayCall
  <2>2. UNCHANGED <<chainVars, db, mempool>> /\ NoNewSubmit
    BY <1>2, <2>1, Calls DEF AgentInv, AgentTypeOK, OperatorPosts, StartPayout, Goto, tableVars,
       NoNewSubmit
  <2> QED BY <2>2, QuietKeepsBuyer DEF chainVars, KeepsBuyerRow, NoNewLockTx, NoNewRefundAddress
<1>3. ASSUME NEW i \in LockId, ApproveLock(i)
      PROVE  BuyerInv'
  <2>1. UNCHANGED <<chainVars, db, mempool>> /\ NoNewSubmit
    BY <1>3, ThrowIsQuiet, Calls DEF AgentInv, AgentTypeOK, ApproveLock, Goto, NoNewSubmit
  <2> QED BY <2>1, QuietKeepsBuyer DEF chainVars, KeepsBuyerRow, NoNewLockTx, NoNewRefundAddress
<1>4. CASE ApprovePropose
  <2>1. UNCHANGED <<chainVars, db, mempool>> /\ NoNewSubmit
    BY <1>4, Calls DEF AgentInv, AgentTypeOK, ApprovePropose, Goto, NoNewSubmit
  <2> QED BY <2>1, QuietKeepsBuyer DEF chainVars, KeepsBuyerRow, NoNewLockTx, NoNewRefundAddress
<1>5. CASE UNCHANGED <<chainVars, db, mempool, pc>>
  BY <1>5, QuietKeepsBuyer DEF chainVars, KeepsBuyerRow, NoNewSubmit, NoNewLockTx,
     NoNewRefundAddress
<1> QED
  BY <1>1, <1>2, <1>3, <1>4, <1>5 DEF OperatorStep, QueuePropose, RejectPropose, QueueLock,
     RejectLock, DismissOffer

\* A call submits a transaction, or its local run throws.
LEMMA CallTxKeepsBuyer ==
    ASSUME AgentInv, BuyerInv, NEW call \in Call, NEW circuit, NEW time,
           call \in LockId <=> circuit = "lockEscrow", pc[call] = "submit",
           CallTx(call, circuit, time), UNCHANGED <<chainVars, db>>
    PROVE  BuyerInv'
<1> DEFINE tx == [circuit |-> circuit, role |-> RoleOf(call), salt |-> slot[RoleOf(call)],
                  time |-> time, by |-> call]
<1>1. NoNewSubmit
  BY ThrowIsQuiet, Calls DEF AgentInv, AgentTypeOK, CallTx, Goto, NoNewSubmit
<1>2. mempool' \subseteq mempool \cup {tx}
  BY DEF CallTx
<1>3. \A t \in mempool' : t.circuit = "lockEscrow" => db["buyer"] # Nil
  BY <1>2 DEF BuyerInv
<1> QED BY <1>1, <1>3 DEF BuyerInv, NoNewSubmit, chainVars

LEMMA ProposeKeepsBuyer ==
    ASSUME AgentInv, BuyerInv, ProposeStep
    PROVE  BuyerInv'
<1>1. CASE SubmitPropose
  BY <1>1, CallTxKeepsBuyer, Calls DEF SubmitPropose
<1>2. CASE DeployDeal \/ SavePropose \/ DeliverOffer \/ ProposeReturns
  <2>1. UNCHANGED <<chainVars, mempool>> /\ KeepsBuyerRow
    BY <1>2 DEF AgentInv, AgentTypeOK, Role, DeployDeal, SavePropose, DeliverOffer, ProposeReturns,
       tableVars, KeepsBuyerRow
  <2>2. NoNewSubmit
    BY <1>2, Calls DEF AgentInv, AgentTypeOK, DeployDeal, SavePropose, DeliverOffer, ProposeReturns,
       Goto, NoNewSubmit
  <2> QED BY <2>1, <2>2, QuietKeepsBuyer DEF chainVars, NoNewLockTx, NoNewRefundAddress
<1> QED BY <1>1, <1>2 DEF ProposeStep

LEMMA LockKeepsBuyer ==
    ASSUME AgentInv, BuyerInv, NEW i \in LockId, LockStep(i)
    PROVE  BuyerInv'
<1>1. CASE SubmitLock(i)
  BY <1>1, CallTxKeepsBuyer, Calls DEF SubmitLock
<1>2. CASE SaveLock(i)
  <2>1. db'["buyer"] # Nil /\ UNCHANGED <<chainVars, mempool>>
    BY <1>2, Salts, AgentAssumption DEF AgentInv, AgentTypeOK, SaveLock, Role
  <2> QED BY <2>1 DEF BuyerInv, chainVars
<1>3. CASE ResolvePort(i) \/ FindDeal(i) \/ LockReturns(i)
  <2>1. UNCHANGED <<chainVars, db, mempool>>
    BY <1>3 DEF ResolvePort, FindDeal, LockReturns, tableVars
  <2>2. NoNewSubmit
    BY <1>3, ThrowIsQuiet, Calls DEF AgentInv, AgentTypeOK, ResolvePort, FindDeal, LockReturns,
       Goto, NoNewSubmit
  <2> QED BY <2>1, <2>2, QuietKeepsBuyer DEF chainVars, KeepsBuyerRow, NoNewLockTx,
     NoNewRefundAddress
<1> QED BY <1>1, <1>2, <1>3 DEF LockStep

LEMMA PayoutKeepsBuyer ==
    ASSUME AgentInv, BuyerInv, NEW call \in PayCall, PayoutStep(call)
    PROVE  BuyerInv'
<1>1. CASE SubmitPayout(call)
  <2>1. job[call].circuit # "lockEscrow"
    BY <1>1 DEF AgentInv, SaltInv, Job, SubmitPayout
  <2> QED BY <1>1, <2>1, CallTxKeepsBuyer, Calls DEF SubmitPayout
<1>2. CASE ResolveIndex(call) \/ FindPayout(call) \/ SavePayout(call) \/ PayoutReturns(call)
  <2>1. UNCHANGED <<chainVars, mempool>>
    BY <1>2 DEF ResolveIndex, FindPayout, SavePayout, PayoutReturns
  <2>2. KeepsBuyerRow
    <3>1. CASE SavePayout(call)
      <4>1. job[call].salt # Nil
        BY <3>1, Calls, Roles, Salts DEF AgentInv, SaltInv, SavePayout
      <4> QED BY <3>1, <4>1 DEF AgentInv, AgentTypeOK, SavePayout, KeepsBuyerRow
    <3>2. CASE ~SavePayout(call)
      BY <1>2, <3>2 DEF ResolveIndex, FindPayout, PayoutReturns, tableVars, KeepsBuyerRow
    <3> QED BY <3>1, <3>2
  <2>3. NoNewSubmit
    BY <1>2, ThrowIsQuiet, Calls DEF AgentInv, AgentTypeOK, ResolveIndex, FindPayout,
       SavePayout, PayoutReturns, Goto, NoNewSubmit
  <2> QED BY <2>1, <2>2, <2>3, QuietKeepsBuyer DEF chainVars, NoNewLockTx, NoNewRefundAddress
<1> QED BY <1>1, <1>2 DEF PayoutStep

LEMMA ResolveIsQuiet ==
    ASSUME AgentInv, NEW tx \in mempool, NEW step \in {"landed", "refused"}, Resolve(tx, step)
    PROVE  NoNewSubmit /\ NoNewLockTx /\ UNCHANGED db
  BY Calls DEF AgentInv, AgentTypeOK, TxSet, Resolve, tableVars, NoNewSubmit, NoNewLockTx

LEMMA LandKeepsBuyer ==
    ASSUME AgentInv, BuyerInv, NEW tx \in mempool, Land(tx)
    PROVE  BuyerInv'
<1>1. NoNewSubmit /\ NoNewLockTx /\ UNCHANGED db
  BY ResolveIsQuiet DEF Land
<1>2. ProposeLands(tx) \/ LockLands(tx) \/ PayoutLands(tx)
  BY ApplyLands DEF AgentInv, Land
<1>3. CASE LockLands(tx)
  <2>1. db["buyer"] # Nil /\ tx.salt \in LockId
    BY <1>3, Salts DEF AgentInv, TxInv, BuyerInv, LockLands
  <2>2. ledger'.buyerAddressCommitment = persistentCommit(BuyerWallet, tx.salt)
    BY <1>3 DEF LockLands
  <2> QED BY <1>1, <2>1, <2>2 DEF BuyerInv, NoNewSubmit, NoNewLockTx
<1>4. CASE ProposeLands(tx) \/ PayoutLands(tx)
  <2>1. NoNewRefundAddress
    BY <1>4 DEF ProposeLands, PayoutLands, SameTerms, NoNewRefundAddress
  <2> QED BY <1>1, <2>1, QuietKeepsBuyer DEF KeepsBuyerRow
<1> QED BY <1>2, <1>3, <1>4

\* Every other step leaves the buyer's row and the ledger alone.
LEMMA OthersKeepBuyer ==
    ASSUME AgentInv, BuyerInv, NoNewSubmit, NoNewLockTx, UNCHANGED <<db, ledger>>
    PROVE  BuyerInv'
  BY QuietKeepsBuyer DEF KeepsBuyerRow, NoNewRefundAddress

LEMMA BuyerNext == AgentInv /\ BuyerInv /\ [Next]_vars => BuyerInv'
<1> SUFFICES ASSUME AgentInv, BuyerInv, [Next]_vars PROVE BuyerInv'
  OBVIOUS
<1>1. ASSUME NEW tx \in mempool, Refuse(tx) \/ Lose(tx) PROVE BuyerInv'
  <2>1. Resolve(tx, "refused") /\ ledger' = ledger
    BY <1>1 DEF Refuse, Lose, chainVars
  <2> QED BY <2>1, ResolveIsQuiet, OthersKeepBuyer
<1>2. ASSUME NEW call \in Call, CallThrows(call) PROVE BuyerInv'
  BY <1>2, ThrowIsQuiet, OthersKeepBuyer DEF CallThrows, chainVars, NoNewLockTx
<1>3. ASSUME NEW call \in Call, CallFails(call) PROVE BuyerInv'
  BY <1>3, ThrowIsQuiet, OrphanedKeepsCircuits, OthersKeepBuyer DEF CallFails, chainVars
<1>4. ASSUME NEW r \in Role, WatcherTick(r) PROVE BuyerInv'
  <2>1. <<r, "watcher">> \in PayCall
    BY DEF PayCall
  <2>2. UNCHANGED <<db, ledger, mempool>> /\ NoNewSubmit
    BY <1>4, <2>1, Calls DEF AgentInv, AgentTypeOK, WatcherTick, StartPayout, Goto, tableVars,
       chainVars, NoNewSubmit
  <2> QED BY <2>2, OthersKeepBuyer DEF NoNewLockTx
<1>5. ASSUME NEW r \in Role, Crash(r) PROVE BuyerInv'
  <2>1. NoNewSubmit
    BY <1>5, Calls DEF Crash, NoNewSubmit
  <2> QED BY <1>5, <2>1, OrphanedKeepsCircuits, OthersKeepBuyer DEF Crash, chainVars, tableVars
<1>6. CASE AdvanceTime \/ RotateKey \/ UNCHANGED vars
  BY <1>6, OthersKeepBuyer DEF AdvanceTime, AdvanceBlock, RotateKey, vars, agentVars, chainVars,
     tableVars, NoNewSubmit, NoNewLockTx
<1> QED
  BY <1>1, <1>2, <1>3, <1>4, <1>5, <1>6, OperatorKeepsBuyer, ProposeKeepsBuyer, LockKeepsBuyer,
     PayoutKeepsBuyer, LandKeepsBuyer DEF Next

LEMMA BuyerInvariant == Spec => []BuyerInv
  BY AgentInvariant, BuyerInit, BuyerNext, PTL DEF Spec

\* While the deal was locked once, whatever crashed or failed in between, the
\* row that the buyer saved opens the refund address that the contract holds.
THEOREM BuyerKeepsItsWitness == Spec => [](OnlyOneLockRan => BuyerCanBeRefunded)
<1>1. AgentInv /\ BuyerInv => (OnlyOneLockRan => BuyerCanBeRefunded)
  <2> SUFFICES ASSUME AgentInv, BuyerInv, OnlyOneLockRan, ledger.state = "Locked"
               PROVE  ledger.buyerAddressCommitment = persistentCommit(BuyerWallet, db["buyer"])
    BY DEF BuyerCanBeRefunded
  <2>1. PICK i \in LockId : ledger.buyerAddressCommitment = persistentCommit(BuyerWallet, i)
    BY DEF BuyerInv
  <2>2. db["buyer"] \in LockId
    BY Salts DEF BuyerInv, AgentInv, SaltInv, Maybe, Role
  <2>3. i \in LocksThatRan
    BY <2>1 DEF AgentInv, UntouchedInv, Untouched, LocksThatRan
  <2>4. db["buyer"] \in LocksThatRan
    BY <2>2 DEF AgentInv, UntouchedInv, Untouched, LocksThatRan
  <2> QED BY <2>1, <2>3, <2>4 DEF OnlyOneLockRan
<1> QED BY <1>1, AgentInvariant, BuyerInvariant, PTL

-----------------------------------------------------------------------------
(***************************************************************************)
(* The agents use the contract as it allows: every theorem about the        *)
(* contract holds of the ledger the agents work on.                         *)
(***************************************************************************)
LEMMA AgentsStepIsChainStep == AgentInv /\ [Next]_vars => [ChainNext]_chainVars
<1> SUFFICES ASSUME AgentInv, [Next]_vars PROVE [ChainNext]_chainVars
  OBVIOUS
<1>1. CASE OperatorStep
  <2>1. CASE AttestDeal
    BY <2>1 DEF AttestDeal, CallAttestMilestone, ChainNext
  <2>2. CASE ~AttestDeal
    BY <1>1, <2>2 DEF OperatorStep, QueuePropose, ApprovePropose, RejectPropose, QueueLock,
       ApproveLock, RejectLock, DismissOffer, OperatorPosts, StartPayout
  <2> QED BY <2>1, <2>2
<1>2. CASE ProposeStep
  BY <1>2 DEF ProposeStep, DeployDeal, SavePropose, SubmitPropose, DeliverOffer, ProposeReturns
<1>3. ASSUME NEW i \in LockId, LockStep(i) PROVE UNCHANGED chainVars
  BY <1>3 DEF LockStep, ResolvePort, FindDeal, SaveLock, SubmitLock, LockReturns
<1>4. ASSUME NEW call \in PayCall, PayoutStep(call) PROVE UNCHANGED chainVars
  BY <1>4 DEF PayoutStep, ResolveIndex, FindPayout, SavePayout, SubmitPayout, PayoutReturns
<1>5. ASSUME NEW tx \in mempool, Land(tx) PROVE ChainNext
  BY <1>5, ApplyIsCall DEF Land
<1>6. ASSUME NEW tx \in mempool, Refuse(tx) \/ Lose(tx) PROVE UNCHANGED chainVars
  BY <1>6 DEF Refuse, Lose
<1>7. ASSUME NEW call \in Call, CallThrows(call) \/ CallFails(call) PROVE UNCHANGED chainVars
  BY <1>7 DEF CallThrows, CallFails
<1>8. ASSUME NEW r \in Role, WatcherTick(r) \/ Crash(r) PROVE UNCHANGED chainVars
  BY <1>8 DEF WatcherTick, StartPayout, Crash
<1>9. CASE AdvanceTime
  BY <1>9 DEF AdvanceTime, ChainNext
<1>10. CASE RotateKey \/ UNCHANGED vars
  BY <1>10 DEF RotateKey, vars
<1> QED BY <1>1, <1>2, <1>3, <1>4, <1>5, <1>6, <1>7, <1>8, <1>9, <1>10 DEF Next

\* What lands on the chain is a call that the contract's specification allows, and
\* no other step of the agents touches the chain.
THEOREM AgentsUseTheContract == Spec => ChainSpec
<1>1. Init => ChainInit
  BY DEF Init
<1> QED BY <1>1, AgentInvariant, AgentsStepIsChainStep, PTL DEF Spec, ChainSpec

\* So the deal as the two agents run it is a run of the abstract promise.
THEOREM AgentsKeepPromise == Spec => KeepsPromise
  BY AgentsUseTheContract, ContractKeepsPromise, PTL

\* The payout that a role's agent would make of a locked deal, with the coin of
\* the deal, the role's wallet and the salt that it stored.
ClaimAccepted(r) == claimPayoutAccepted(DealCoin, SellerSalt, Wallet(r), db[r])
ReleaseAccepted(r) == releaseOnTimeoutAccepted(DealCoin, SellerSalt, Wallet(r), db[r])

TimeoutIsDue(direction) ==
    /\ ~ledger.milestoneConfirmed
    /\ ledger.timeoutDirection = direction
    /\ blockTime >= ledger.deadlineTimestamp

\* A payout that is due passes every assert of its circuit when the agent whose
\* wallet it pays makes it from its stored row.
SellerIsAccepted ==
    ledger.state = "Locked" =>
        /\ ledger.milestoneConfirmed => ClaimAccepted("seller")
        /\ TimeoutIsDue("Seller") => ReleaseAccepted("seller")

BuyerIsAccepted ==
    ledger.state = "Locked" /\ TimeoutIsDue("Buyer") => ReleaseAccepted("buyer")

LEMMA DealCoinIsHeld ==
    ASSUME AgentInv, FundsConserved, ledger.state = "Locked"
    PROVE  HeldCoinOpened(DealCoin, SellerSalt)
  BY DEF AgentInv, LedgerInv, FundsConserved, HeldCoinOpened, persistentCommit

LEMMA AgentsFundsConserved == Spec => []FundsConserved
  BY AgentsUseTheContract, FundsSafe, PTL

\* Once C has attested, or the deadline of a deal that falls to the seller has
\* passed, the seller's own agent closes the deal from what it stored: no assert
\* of the contract refuses it, whatever the buyer's agent did in between.
THEOREM SellerCanClose == Spec => []SellerIsAccepted
<1>1. AgentInv /\ FundsConserved => SellerIsAccepted
  BY DealCoinIsHeld DEF AgentInv, LedgerInv, SellerIsAccepted, TimeoutIsDue, ClaimAccepted,
     ReleaseAccepted,
     claimPayoutAccepted, releaseOnTimeoutAccepted, timeoutPayoutAccepted,
     payOutToSellerAccepted, Wallet
<1> QED BY <1>1, AgentInvariant, AgentsFundsConserved, PTL

\* And the buyer's agent closes a deal that falls to the buyer, if it was locked
\* once.
THEOREM BuyerCanClose == Spec => [](OnlyOneLockRan => BuyerIsAccepted)
<1>1. AgentInv /\ FundsConserved /\ BuyerCanBeRefunded => BuyerIsAccepted
  BY DealCoinIsHeld DEF BuyerCanBeRefunded, BuyerIsAccepted, TimeoutIsDue, ReleaseAccepted,
     releaseOnTimeoutAccepted, timeoutPayoutAccepted, payOutToBuyerAccepted, Wallet
<1> QED
  BY <1>1, AgentInvariant, AgentsFundsConserved, BuyerKeepsItsWitness, PTL
=============================================================================
