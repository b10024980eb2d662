------------------------ MODULE EscrowContractProofs ------------------------
(***************************************************************************)
(* The contract's safety for every set of addresses, salts, coins, amounts, *)
(* keys and durations and every tolerance and time bound.                   *)
(***************************************************************************)
EXTENDS EscrowRefinement, TLAPS

\* The inductive invariant: the three money invariants hold each other up.
\* FundsConserved needs the coin's value to be the price (DepositMatchesTerms);
\* PaidToEntitledParty needs that nothing is paid before Released.
ChainInv ==
    /\ ChainTypeOK
    /\ DepositMatchesTerms
    /\ FundsConserved
    /\ PaidToEntitledParty
    /\ AttestationWindow

\* The one fact about Nil the proofs use: a commitment is a set cell.
LEMMA CommitmentIsSet ==
    /\ \A a \in Address, s \in Salt : persistentCommit(a, s) # Nil
    /\ \A n \in Amount, s \in Salt : persistentCommit(n, s) # Nil
    /\ \A n \in Nonce, s \in Salt : persistentCommit(n, s) # Nil
    /\ \A c \in CoinCore, s \in Salt : persistentCommit(c, s) # Nil
BY NilAssumption DEF persistentCommit

\* Init establishes the cell types: every cell starts unset or zero.
LEMMA InitType == ChainInit => ChainTypeOK
BY ContractAssumption
   DEF ChainInit, EmptyLedger, ChainTypeOK, LedgerCells, Maybe, EscrowState, Direction, Uint64, Time

\* Every circuit writes into each cell a value of the cell's type.
LEMMA NextType == ChainTypeOK /\ [ChainNext]_chainVars => ChainTypeOK'
<1> SUFFICES ASSUME ChainTypeOK, [ChainNext]_chainVars PROVE ChainTypeOK'
  OBVIOUS
<1> USE DEF ChainTypeOK
<1>1. CASE CallPropose
  <2>1. PICK h \in KeyHash, duration \in Duration, direction \in Direction, w \in ProposeWitness :
          propose(h, duration, direction, w)
    BY <1>1 DEF CallPropose
  <2>2. /\ h \in Maybe(KeyHash)
        /\ duration \in Duration \cup {0}
        /\ persistentCommit(w.sellerAddress, w.sellerAddressSalt) \in Maybe(Address \X Salt)
        /\ w.sellerMemo \in Maybe(Memo)
        /\ persistentCommit(w.agreedAmount, w.agreedAmountSalt) \in Maybe(Amount \X Salt)
        /\ persistentCommit(w.depositNonce, w.depositSalt) \in Maybe(Nonce \X Salt)
        /\ "Proposed" \in EscrowState
    BY DEF ProposeWitness, Maybe, persistentCommit, EscrowState
  <2>3. ledger' \in LedgerCells
    BY <2>1, <2>2 DEF propose, LedgerCells
  <2> QED
    BY <2>1, <2>3 DEF propose
<1>2. CASE CallLockEscrow
  <2>1. PICK lt \in Time, w \in LockWitness : lockEscrow(lt, w)
    BY <1>2 DEF CallLockEscrow
  <2>2. /\ lt + ledger.durationSeconds \in Uint64
        /\ persistentCommit(w.depositedCoin, w.depositSalt) \in Maybe(CoinCore \X Salt)
        /\ persistentCommit(w.buyerAddress, w.buyerAddressSalt) \in Maybe(Address \X Salt)
        /\ w.buyerAddressMemo \in Maybe(Memo)
        /\ w.depositedCoin \in CoinCore
        /\ "Locked" \in EscrowState
    BY <2>1 DEF lockEscrow, lockEscrowAccepted, FitsUint64, LockWitness, Maybe,
       persistentCommit, EscrowState
  <2>3. ledger' \in LedgerCells
    BY <2>1, <2>2 DEF lockEscrow, lockEscrowAccepted, LedgerCells
  <2> QED
    BY <2>1, <2>2, <2>3 DEF lockEscrow, lockEscrowAccepted
<1>3. CASE CallAttestMilestone
  BY <1>3 DEF CallAttestMilestone, attestMilestone, LedgerCells
<1>4. ASSUME NEW coin \in CoinCore, NEW address \in Address, sendShielded(coin, address),
             ledger' = [ledger EXCEPT !.state = "Released"], UNCHANGED <<blockTime, lockedAt>>
      PROVE  ChainTypeOK'
  <2>1. ledger' \in LedgerCells
    BY <1>4 DEF LedgerCells, EscrowState
  <2>2. custody' \subseteq CoinCore /\ payouts' \subseteq CoinCore \X Address \X Amount
    BY <1>4 DEF sendShielded, CoinCore
  <2> QED
    BY <1>4, <2>1, <2>2
<1>5. CASE CallClaimPayout
  BY <1>4, <1>5 DEF CallClaimPayout, claimPayout, claimPayoutAccepted, payOutToSellerAccepted,
     HeldCoinOpened, payOut
<1>6. CASE CallReleaseOnTimeout
  BY <1>4, <1>6 DEF CallReleaseOnTimeout, releaseOnTimeout, releaseOnTimeoutAccepted, payOut
<1>7. CASE AdvanceBlock
  BY <1>7, ContractAssumption DEF AdvanceBlock, Time
<1>8. CASE UNCHANGED chainVars
  BY <1>8 DEF chainVars
<1> QED
  BY <1>1, <1>2, <1>3, <1>5, <1>6, <1>7, <1>8 DEF ChainNext

\* Type correctness of Escrow.compact's ledger in every reachable state.
THEOREM TypeCorrect == ChainSpec => []ChainTypeOK
BY InitType, NextType, PTL DEF ChainSpec

\* What DepositMatchesTerms says of the held coin, cell by cell.
LEMMA HeldCoin ==
    ASSUME ChainTypeOK, DepositMatchesTerms, ledger.state \in {"Locked", "Released"}
    PROVE  /\ ledger.heldCommitment \in CoinCore \X Salt
           /\ ledger.heldCommitment # Nil
           /\ ledger.heldCommitment[1].value = ledger.agreedAmountCommitment[1]
<1>1. /\ ledger.agreedAmountCommitment \in Amount \X Salt
      /\ ledger.depositParamsCommitment \in Nonce \X Salt
  BY DEF ChainTypeOK, LedgerCells, Maybe, DepositMatchesTerms
<1>2. PICK color \in Color :
         ledger.heldCommitment
           = persistentCommit(SellersCoin(color), ledger.depositParamsCommitment[2])
  BY DEF DepositMatchesTerms
<1>3. SellersCoin(color) \in CoinCore /\ SellersCoin(color).value = ledger.agreedAmountCommitment[1]
  BY <1>1 DEF SellersCoin, CoinCore
<1>4. ledger.depositParamsCommitment[2] \in Salt
  BY <1>1
<1> QED
  BY <1>2, <1>3, <1>4, CommitmentIsSet DEF persistentCommit

\* A payout of the held coin to an entitled address keeps every money
\* invariant; claimPayout and both branches of releaseOnTimeout end in one.
LEMMA PayoutKeepsInv ==
    ASSUME ChainInv, ledger.state = "Locked",
           NEW coin \in CoinCore, NEW coinSalt \in Salt, NEW address \in Address,
           persistentCommit(coin, coinSalt) = ledger.heldCommitment,
           sendShielded(coin, address),
           ledger' = [ledger EXCEPT !.state = "Released"],
           UNCHANGED <<blockTime, lockedAt>>,
           IF ledger.milestoneConfirmed
             THEN address = ledger.sellerAddressCommitment[1]
             ELSE blockTime >= ledger.deadlineTimestamp /\ address = TimeoutPayee
    PROVE  (DepositMatchesTerms /\ FundsConserved /\ PaidToEntitledParty /\ AttestationWindow)'
<1>1. ledger \in LedgerCells
  BY DEF ChainInv, ChainTypeOK
<1>2. /\ ledger'.state = "Released"
      /\ ledger'.milestoneConfirmed = ledger.milestoneConfirmed
      /\ ledger'.deadlineTimestamp = ledger.deadlineTimestamp
      /\ ledger'.durationSeconds = ledger.durationSeconds
      /\ ledger'.timeoutDirection = ledger.timeoutDirection
      /\ ledger'.heldCommitment = ledger.heldCommitment
      /\ ledger'.sellerAddressCommitment = ledger.sellerAddressCommitment
      /\ ledger'.buyerAddressCommitment = ledger.buyerAddressCommitment
      /\ ledger'.agreedAmountCommitment = ledger.agreedAmountCommitment
      /\ ledger'.depositParamsCommitment = ledger.depositParamsCommitment
  BY <1>1 DEF LedgerCells
<1>3. coin = ledger.heldCommitment[1]
  BY DEF persistentCommit
<1>4. custody' = {} /\ payouts' = {<<coin, address, coin.value>>}
  BY <1>3 DEF ChainInv, FundsConserved, sendShielded
<1>5. coin.value = ledger.agreedAmountCommitment[1]
  BY <1>3, HeldCoin DEF ChainInv
<1>6. DepositMatchesTerms'
  BY <1>2 DEF ChainInv, DepositMatchesTerms, SellersCoin
<1>7. FundsConserved'
  BY <1>2, <1>3, <1>4, <1>5 DEF FundsConserved
<1>8. PaidToEntitledParty'
  BY <1>2, <1>4 DEF PaidToEntitledParty, TimeoutPayee
<1>9. AttestationWindow'
  BY <1>2 DEF ChainInv, AttestationWindow
<1> QED
  BY <1>6, <1>7, <1>8, <1>9

\* Whichever branch releaseOnTimeout takes, it pays the address it must.
LEMMA ReleasePaysTimeoutPayee ==
    ASSUME NEW coin, NEW cs, NEW a, NEW as, releaseOnTimeout(coin, cs, a, as)
    PROVE  a = TimeoutPayee
<1>1. CASE ledger.timeoutDirection = "Buyer"
  <2>1. persistentCommit(a, as) = ledger.buyerAddressCommitment
    BY <1>1 DEF releaseOnTimeout, releaseOnTimeoutAccepted, timeoutPayoutAccepted,
       payOutToBuyerAccepted
  <2> QED
    BY <1>1, <2>1 DEF persistentCommit, TimeoutPayee
<1>2. CASE ledger.timeoutDirection # "Buyer"
  <2>1. persistentCommit(a, as) = ledger.sellerAddressCommitment
    BY <1>2 DEF releaseOnTimeout, releaseOnTimeoutAccepted, timeoutPayoutAccepted,
       payOutToSellerAccepted
  <2> QED
    BY <1>2, <2>1 DEF persistentCommit, TimeoutPayee
<1> QED
  BY <1>1, <1>2

\* The invariant survives every transaction of every caller.
LEMMA NextInv == ChainInv /\ [ChainNext]_chainVars => ChainInv'
<1> SUFFICES ASSUME ChainInv, [ChainNext]_chainVars PROVE ChainInv'
  OBVIOUS
<1>0. ChainTypeOK'
  BY NextType DEF ChainInv
<1> SUFFICES (DepositMatchesTerms /\ FundsConserved /\ PaidToEntitledParty /\ AttestationWindow)'
  BY <1>0 DEF ChainInv
<1>1. ledger \in LedgerCells /\ blockTime \in Time
  BY DEF ChainInv, ChainTypeOK
<1>2. CASE CallPropose
  <2>1. PICK h \in KeyHash, duration \in Duration, direction \in Direction, w \in ProposeWitness :
          propose(h, duration, direction, w)
    BY <1>2 DEF CallPropose
  <2>2. /\ ledger.state = "Empty" /\ ledger'.state = "Proposed"
        /\ ledger'.milestoneConfirmed = ledger.milestoneConfirmed
        /\ ledger'.sellerAddressCommitment = persistentCommit(w.sellerAddress, w.sellerAddressSalt)
        /\ ledger'.agreedAmountCommitment = persistentCommit(w.agreedAmount, w.agreedAmountSalt)
        /\ ledger'.depositParamsCommitment = persistentCommit(w.depositNonce, w.depositSalt)
    BY <1>1, <2>1 DEF propose, LedgerCells
  <2>3. custody' = {} /\ payouts' = {}
    BY <2>1, <2>2 DEF propose, ChainInv, FundsConserved
  <2>4. DepositMatchesTerms'
    BY <2>2, CommitmentIsSet DEF ChainInv, DepositMatchesTerms, ProposeWitness
  <2> QED
    BY <2>2, <2>3, <2>4 DEF FundsConserved, PaidToEntitledParty, AttestationWindow
<1>3. CASE CallLockEscrow
  <2>1. PICK lt \in Time, w \in LockWitness : lockEscrow(lt, w)
    BY <1>3 DEF CallLockEscrow
  <2>2. /\ ledger.state = "Proposed" /\ ledger'.state = "Locked"
        /\ ledger'.milestoneConfirmed = ledger.milestoneConfirmed
        /\ ledger'.durationSeconds = ledger.durationSeconds
        /\ ledger'.deadlineTimestamp = lt + ledger.durationSeconds
        /\ ledger'.heldCommitment = persistentCommit(w.depositedCoin, w.depositSalt)
        /\ ledger'.buyerAddressCommitment = persistentCommit(w.buyerAddress, w.buyerAddressSalt)
        /\ ledger'.sellerAddressCommitment = ledger.sellerAddressCommitment
        /\ ledger'.agreedAmountCommitment = ledger.agreedAmountCommitment
        /\ ledger'.depositParamsCommitment = ledger.depositParamsCommitment
    BY <1>1, <2>1 DEF lockEscrow, lockEscrowAccepted, LedgerCells
  <2>3. custody' = {w.depositedCoin} /\ payouts' = {}
    BY <2>1, <2>2 DEF lockEscrow, lockEscrowAccepted, ChainInv, FundsConserved
  <2>4. DepositMatchesTerms'
    <3>1. ledger'.buyerAddressCommitment # Nil
      BY <2>2, CommitmentIsSet DEF LockWitness
    <3>2. /\ ledger'.agreedAmountCommitment[1] = w.depositedCoin.value
          /\ ledger'.depositParamsCommitment[1] = w.depositedCoin.nonce
          /\ ledger'.depositParamsCommitment[2] = w.depositSalt
      BY <2>1, <2>2 DEF lockEscrow, lockEscrowAccepted, DepositAccepted, persistentCommit
    <3>3. PICK nonce \in Nonce, color \in Color, value \in Amount :
             w.depositedCoin = [nonce |-> nonce, color |-> color, value |-> value]
      BY DEF LockWitness, CoinCore
    <3>4. SellersCoin(color)' = w.depositedCoin
      BY <3>2, <3>3 DEF SellersCoin
    <3>5. ledger'.heldCommitment
            = persistentCommit(SellersCoin(color)', ledger'.depositParamsCommitment[2])
      BY <2>2, <3>2, <3>4
    <3> QED
      BY <2>2, <3>1, <3>5 DEF ChainInv, DepositMatchesTerms
  <2>5. FundsConserved' /\ PaidToEntitledParty'
    BY <2>2, <2>3 DEF FundsConserved, PaidToEntitledParty, persistentCommit
  <2>6. AttestationWindow'
    <3>0. ledger.durationSeconds \in Duration \/ ledger.durationSeconds = 0
      BY <1>1 DEF LedgerCells
    <3>1. ledger.durationSeconds \in Nat
      <4>1. \A d \in Duration : d \in Nat
        BY ContractAssumption
      <4> QED
        BY <3>0, <4>1
    <3>2. lockedAt' = blockTime /\ blockTime >= lt /\ blockTime <= lt + Tolerance
      BY <2>1 DEF lockEscrow, lockEscrowAccepted, LockTimeAccepted
    <3> QED
      BY <1>1, <2>2, <3>1, <3>2, ContractAssumption DEF AttestationWindow, Time
  <2> QED
    BY <2>4, <2>5, <2>6
<1>4. CASE CallAttestMilestone
  <2>1. ledger.state = "Locked" /\ ledger' = [ledger EXCEPT !.milestoneConfirmed = TRUE]
        /\ UNCHANGED <<blockTime, custody, payouts, lockedAt>>
    BY <1>4 DEF CallAttestMilestone, attestMilestone
  <2>2. payouts = {} /\ payouts' = {}
    BY <2>1 DEF ChainInv, FundsConserved
  <2>3. DepositMatchesTerms' /\ AttestationWindow'
    BY <1>1, <2>1 DEF ChainInv, DepositMatchesTerms, SellersCoin, AttestationWindow, LedgerCells
  <2>4. FundsConserved' /\ PaidToEntitledParty'
    BY <1>1, <2>1, <2>2 DEF ChainInv, FundsConserved, PaidToEntitledParty, LedgerCells
  <2> QED
    BY <2>3, <2>4
<1>5. CASE CallClaimPayout
  <2>1. PICK coin \in CoinCore, cs \in Salt, a \in Address, as \in Salt : claimPayout(coin, cs, a, as)
    BY <1>5 DEF CallClaimPayout
  <2>2. a = ledger.sellerAddressCommitment[1]
    BY <2>1 DEF claimPayout, claimPayoutAccepted, payOutToSellerAccepted, persistentCommit
  <2> QED
    BY <2>1, <2>2, PayoutKeepsInv DEF claimPayout, claimPayoutAccepted, payOutToSellerAccepted,
       HeldCoinOpened, payOut
<1>6. CASE CallReleaseOnTimeout
  <2>1. PICK coin \in CoinCore, cs \in Salt, a \in Address, as \in Salt : releaseOnTimeout(coin, cs, a, as)
    BY <1>6 DEF CallReleaseOnTimeout
  <2>2. a = TimeoutPayee
    BY <2>1, ReleasePaysTimeoutPayee
  <2> QED
    BY <2>1, <2>2, PayoutKeepsInv DEF releaseOnTimeout, releaseOnTimeoutAccepted,
       timeoutPayoutAccepted, payOutToSellerAccepted, payOutToBuyerAccepted, HeldCoinOpened, payOut
<1>7. CASE AdvanceBlock
  <2>1. blockTime' = blockTime + 1 /\ UNCHANGED <<ledger, custody, payouts, lockedAt>>
    BY <1>7 DEF AdvanceBlock
  <2>2. ledger.deadlineTimestamp \in Nat
    BY <1>1, ContractAssumption DEF LedgerCells, Uint64
  <2>3. PaidToEntitledParty'
    BY <1>1, <2>1, <2>2, ContractAssumption DEF ChainInv, PaidToEntitledParty, TimeoutPayee, Time
  <2> QED
    BY <2>1, <2>3 DEF ChainInv, DepositMatchesTerms, SellersCoin, FundsConserved, AttestationWindow
<1>8. CASE UNCHANGED chainVars
  BY <1>8 DEF chainVars, ChainInv, DepositMatchesTerms, SellersCoin, FundsConserved, PaidToEntitledParty,
              TimeoutPayee, AttestationWindow
<1> QED
  BY <1>2, <1>3, <1>4, <1>5, <1>6, <1>7, <1>8 DEF ChainNext

LEMMA InitInv == ChainInit => ChainInv
BY InitType DEF ChainInit, EmptyLedger, ChainInv, DepositMatchesTerms, FundsConserved,
                PaidToEntitledParty, AttestationWindow

LEMMA Invariance == ChainSpec => []ChainInv
BY InitInv, NextInv, PTL DEF ChainSpec

\* The deposit is conserved: held exactly while Locked, paid exactly once.
THEOREM FundsSafe == ChainSpec => []FundsConserved
BY Invariance, PTL DEF ChainInv

\* Every payment reaches the party the terms entitle at that moment.
THEOREM PayeeCorrect == ChainSpec => []PaidToEntitledParty
BY Invariance, PTL DEF ChainInv

\* The coin held is, but for its colour, the one the terms fixed at propose
\* time: the seller's nonce, the committed price, the seller's opening.
THEOREM DepositCorrect == ChainSpec => []DepositMatchesTerms
BY Invariance, PTL DEF ChainInv

\* Whatever lock time the buyer claims, C loses at most the tolerance.
THEOREM WindowCorrect == ChainSpec => []AttestationWindow
BY Invariance, PTL DEF ChainInv

\* The commitments of a locked deal have openings, and the coin is there: the
\* held coin and the address of the party that is due make a call that every
\* assert of the payout accepts.
LEMMA SomeOpeningIsAccepted == ChainInv => AlwaysResolvable
<1> SUFFICES ASSUME ChainInv, ledger.state = "Locked"
             PROVE  \E coin \in CoinCore, cs \in Salt, a \in Address, as \in Salt :
                       /\ ledger.milestoneConfirmed => claimPayoutAccepted(coin, cs, a, as)
                       /\ ~ledger.milestoneConfirmed /\ blockTime >= ledger.deadlineTimestamp
                             => releaseOnTimeoutAccepted(coin, cs, a, as)
  BY DEF AlwaysResolvable
<1> DEFINE refund == ~ledger.milestoneConfirmed /\ ledger.timeoutDirection = "Buyer"
           due == IF refund THEN ledger.buyerAddressCommitment
                            ELSE ledger.sellerAddressCommitment
<1>1. /\ ledger.heldCommitment \in CoinCore \X Salt
      /\ ledger.sellerAddressCommitment \in Address \X Salt
      /\ ledger.buyerAddressCommitment \in Address \X Salt
  BY HeldCoin DEF ChainInv, ChainTypeOK, LedgerCells, Maybe, DepositMatchesTerms
<1>2. PICK coin \in CoinCore, cs \in Salt : ledger.heldCommitment = persistentCommit(coin, cs)
  BY <1>1 DEF persistentCommit
<1>3. PICK a \in Address, as \in Salt : due = persistentCommit(a, as)
  BY <1>1 DEF persistentCommit
<1>4. HeldCoinOpened(coin, cs)
  BY <1>2 DEF ChainInv, FundsConserved, HeldCoinOpened, persistentCommit
<1>5. ledger.milestoneConfirmed => claimPayoutAccepted(coin, cs, a, as)
  BY <1>3, <1>4 DEF claimPayoutAccepted, payOutToSellerAccepted
<1>6. ~ledger.milestoneConfirmed /\ blockTime >= ledger.deadlineTimestamp
         => releaseOnTimeoutAccepted(coin, cs, a, as)
  BY <1>3, <1>4 DEF releaseOnTimeoutAccepted, timeoutPayoutAccepted, payOutToSellerAccepted,
     payOutToBuyerAccepted
<1> QED BY <1>5, <1>6

\* No deal is ever stuck: one that is attested or past its deadline can be paid out.
THEOREM NeverStuck == ChainSpec => []AlwaysResolvable
BY Invariance, SomeOpeningIsAccepted, PTL

\* No transaction rewrites terms that are already fixed.
LEMMA StepKeepsTerms ==
    ChainTypeOK /\ [ChainNext]_chainVars =>
        [/\ ledger.state # "Empty" => ProposedTerms(ledger') = ProposedTerms(ledger)
         /\ ledger.state \in {"Locked", "Released"} => LockedTerms(ledger') = LockedTerms(ledger)
         /\ ledger.state = "Released" => ledger' = ledger]_ledger
<1> SUFFICES ASSUME ChainTypeOK, [ChainNext]_chainVars, ledger' # ledger
             PROVE  /\ ledger.state # "Empty" => ProposedTerms(ledger') = ProposedTerms(ledger)
                    /\ ledger.state \in {"Locked", "Released"} => LockedTerms(ledger') = LockedTerms(ledger)
                    /\ ledger.state = "Released" => ledger' = ledger
  OBVIOUS
<1> USE DEF ChainTypeOK, LedgerCells, ProposedTerms, LockedTerms
<1>1. CASE CallPropose
  BY <1>1 DEF CallPropose, propose
<1>2. CASE CallLockEscrow
  <2>1. PICK lt \in Time, w \in LockWitness : lockEscrow(lt, w)
    BY <1>2 DEF CallLockEscrow
  <2>2. ledger.state = "Proposed" /\ ProposedTerms(ledger') = ProposedTerms(ledger)
    BY <2>1 DEF lockEscrow, lockEscrowAccepted
  <2> QED
    BY <2>2
<1>3. CASE CallAttestMilestone
  BY <1>3 DEF CallAttestMilestone, attestMilestone
<1>4. CASE ledger.state = "Locked" /\ ledger' = [ledger EXCEPT !.state = "Released"]
  BY <1>4
<1>5. CASE CallClaimPayout
  BY <1>4, <1>5 DEF CallClaimPayout, claimPayout, claimPayoutAccepted, payOutToSellerAccepted,
     HeldCoinOpened, payOut
<1>6. CASE CallReleaseOnTimeout
  BY <1>4, <1>6 DEF CallReleaseOnTimeout, releaseOnTimeout, releaseOnTimeoutAccepted, payOut
<1> QED
  BY <1>1, <1>2, <1>3, <1>5, <1>6 DEF ChainNext, AdvanceBlock, chainVars

\* What propose and lockEscrow fixed stays fixed, and Released is final.
THEOREM TermsStayFixed == ChainSpec => TermsImmutable
BY TypeCorrect, StepKeepsTerms, PTL DEF ChainSpec, TermsImmutable

-----------------------------------------------------------------------------
\* An empty ledger is an escrow nobody has offered.
LEMMA RefinesInit == ChainInit => Promise!PromiseInit
BY DEF ChainInit, EmptyLedger, Promise!PromiseInit, Phase, Committed

\* A payout of the held coin to address is the promise's Settle.
LEMMA PayoutRefines ==
    ASSUME ChainInv, ledger.state = "Locked",
           NEW coin \in CoinCore, NEW coinSalt \in Salt, NEW address \in Address,
           persistentCommit(coin, coinSalt) = ledger.heldCommitment,
           sendShielded(coin, address),
           ledger' = [ledger EXCEPT !.state = "Released"],
           UNCHANGED <<blockTime, lockedAt>>,
           IF ledger.milestoneConfirmed
             THEN address = ledger.sellerAddressCommitment[1]
             ELSE blockTime >= ledger.deadlineTimestamp /\ address = TimeoutPayee
    PROVE  Promise!Settle
<1>1. ledger \in LedgerCells
  BY DEF ChainInv, ChainTypeOK
<1>2. /\ Phase = "held" /\ Phase' = "settled"
      /\ UNCHANGED <<ledger.sellerAddressCommitment, ledger.buyerAddressCommitment,
                     ledger.agreedAmountCommitment, ledger.timeoutDirection,
                     ledger.milestoneConfirmed, ledger.deadlineTimestamp, blockTime>>
  BY <1>1 DEF LedgerCells, Phase
<1>3. coin.value = ledger.agreedAmountCommitment[1]
  BY HeldCoin DEF persistentCommit, ChainInv
<1>4. /\ ledger.sellerAddressCommitment # Nil /\ ledger.buyerAddressCommitment # Nil
      /\ ledger.agreedAmountCommitment # Nil
  BY DEF ChainInv, DepositMatchesTerms
<1>5. ledger.timeoutDirection \in {"Buyer", "Seller"}
  BY <1>1 DEF LedgerCells, Direction
<1>6. address = Promise!Entitled
  BY <1>4, <1>5 DEF Promise!Entitled, Committed, TimeoutPayee
<1>7. {<<p[2], p[3]>> : p \in payouts'}
        = {<<p[2], p[3]>> : p \in payouts} \cup {<<address, coin.value>>}
  <2>1. payouts = {} /\ payouts' = {<<coin, address, coin.value>>}
    BY DEF ChainInv, FundsConserved, sendShielded
  <2> QED
    BY <2>1
<1>8. Committed(ledger.agreedAmountCommitment, 0) = coin.value
  BY <1>3, <1>4 DEF Committed
<1> QED
  BY <1>2, <1>6, <1>7, <1>8 DEF Promise!Settle, Committed

\* Every accepted transaction is a step of the promise, or invisible to it.
LEMMA RefinesNext ==
    ChainInv /\ ChainInv' /\ [ChainNext]_chainVars => [Promise!PromiseNext]_(Promise!promiseVars)
<1> SUFFICES ASSUME ChainInv, ChainInv', [ChainNext]_chainVars
             PROVE  [Promise!PromiseNext]_(Promise!promiseVars)
  OBVIOUS
<1>1. ledger \in LedgerCells
  BY DEF ChainInv, ChainTypeOK
<1>2. CASE CallPropose
  <2>1. PICK h \in KeyHash, duration \in Duration, direction \in Direction, w \in ProposeWitness :
          propose(h, duration, direction, w)
    BY <1>2 DEF CallPropose
  <2>2. /\ ledger.state = "Empty" /\ ledger'.state = "Proposed"
        /\ ledger'.timeoutDirection = direction
        /\ ledger'.sellerAddressCommitment = persistentCommit(w.sellerAddress, w.sellerAddressSalt)
        /\ ledger'.agreedAmountCommitment = persistentCommit(w.agreedAmount, w.agreedAmountSalt)
        /\ UNCHANGED <<ledger.buyerAddressCommitment, ledger.milestoneConfirmed,
                       ledger.deadlineTimestamp, blockTime, payouts>>
    BY <1>1, <2>1 DEF propose, LedgerCells
  <2>3. /\ w.sellerAddress \in Address /\ w.sellerAddressSalt \in Salt
        /\ w.agreedAmount \in Amount /\ w.agreedAmountSalt \in Salt
    BY DEF ProposeWitness
  <2>4. /\ Committed(ledger'.sellerAddressCommitment, Nil) = w.sellerAddress
        /\ Committed(ledger'.agreedAmountCommitment, 0) = w.agreedAmount
    BY <2>2, <2>3, CommitmentIsSet DEF Committed, persistentCommit
  <2>5. Promise!Offer
    BY <2>2, <2>3, <2>4 DEF Promise!Offer, Phase, Direction, Committed
  <2> QED
    BY <2>5 DEF Promise!PromiseNext
<1>3. CASE CallLockEscrow
  <2>1. PICK lt \in Time, w \in LockWitness : lockEscrow(lt, w)
    BY <1>3 DEF CallLockEscrow
  <2>2. /\ ledger.state = "Proposed" /\ ledger'.state = "Locked"
        /\ ledger'.buyerAddressCommitment = persistentCommit(w.buyerAddress, w.buyerAddressSalt)
        /\ UNCHANGED <<ledger.sellerAddressCommitment, ledger.agreedAmountCommitment,
                       ledger.timeoutDirection, ledger.milestoneConfirmed, blockTime, payouts>>
    BY <1>1, <2>1 DEF lockEscrow, lockEscrowAccepted, LedgerCells
  <2>3. w.buyerAddress \in Address /\ w.buyerAddressSalt \in Salt
    BY DEF LockWitness
  <2>4. Committed(ledger'.buyerAddressCommitment, Nil) = w.buyerAddress
    BY <2>2, <2>3, CommitmentIsSet DEF Committed, persistentCommit
  <2>5. ledger'.deadlineTimestamp \in Nat
    BY ContractAssumption DEF ChainInv, ChainTypeOK, LedgerCells, Uint64
  <2>6. Promise!Deposit
    BY <2>2, <2>3, <2>4, <2>5 DEF Promise!Deposit, Phase, Committed
  <2> QED
    BY <2>6 DEF Promise!PromiseNext
<1>4. CASE CallAttestMilestone
  <2>1. /\ ledger.state = "Locked" /\ ~ledger.milestoneConfirmed
        /\ ledger' = [ledger EXCEPT !.milestoneConfirmed = TRUE]
        /\ UNCHANGED <<blockTime, payouts>>
    BY <1>4 DEF CallAttestMilestone, attestMilestone
  <2>2. Promise!Attest
    BY <1>1, <2>1 DEF Promise!Attest, Phase, LedgerCells, Committed
  <2> QED
    BY <2>2 DEF Promise!PromiseNext
<1>5. CASE CallClaimPayout
  <2>1. PICK coin \in CoinCore, cs \in Salt, a \in Address, as \in Salt : claimPayout(coin, cs, a, as)
    BY <1>5 DEF CallClaimPayout
  <2>2. a = ledger.sellerAddressCommitment[1]
    BY <2>1 DEF claimPayout, claimPayoutAccepted, payOutToSellerAccepted, persistentCommit
  <2>3. Promise!Settle
    BY <2>1, <2>2, PayoutRefines DEF claimPayout, claimPayoutAccepted, payOutToSellerAccepted,
       HeldCoinOpened, payOut
  <2> QED
    BY <2>3 DEF Promise!PromiseNext
<1>6. CASE CallReleaseOnTimeout
  <2>1. PICK coin \in CoinCore, cs \in Salt, a \in Address, as \in Salt : releaseOnTimeout(coin, cs, a, as)
    BY <1>6 DEF CallReleaseOnTimeout
  <2>2. a = TimeoutPayee
    BY <2>1, ReleasePaysTimeoutPayee
  <2>3. Promise!Settle
    BY <2>1, <2>2, PayoutRefines DEF releaseOnTimeout, releaseOnTimeoutAccepted,
       timeoutPayoutAccepted, payOutToSellerAccepted, payOutToBuyerAccepted, HeldCoinOpened, payOut
  <2> QED
    BY <2>3 DEF Promise!PromiseNext
<1>7. CASE AdvanceBlock
  BY <1>7 DEF AdvanceBlock, Promise!PromiseNext, Promise!Pass, Phase
<1>8. CASE UNCHANGED chainVars
  BY <1>8 DEF chainVars, Promise!promiseVars, Phase
<1> QED
  BY <1>2, <1>3, <1>4, <1>5, <1>6, <1>7, <1>8 DEF ChainNext

\* The contract implements the abstract escrow: one payment, of the agreed
\* price, to the entitled party, for every choice of witnesses by every caller.
THEOREM ContractKeepsPromise == ChainSpec => KeepsPromise
<1>1. ChainInv /\ ChainInv' /\ [ChainNext]_chainVars => [Promise!PromiseNext]_(Promise!promiseVars)
  BY RefinesNext
<1>2. ChainSpec => Promise!PromiseInit /\ [][Promise!PromiseNext]_(Promise!promiseVars)
  BY <1>1, RefinesInit, Invariance, PTL DEF ChainSpec
<1> QED
  BY <1>2, PTL DEF KeepsPromise, Promise!PromiseSpec
=============================================================================
