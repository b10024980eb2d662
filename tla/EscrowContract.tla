--------------------------- MODULE EscrowContract ---------------------------
(***************************************************************************)
(* The on-chain escrow of modules/incoterms-escrow/contracts/Escrow.compact:*)
(* one deployed contract, its ledger, its five circuits, and the two things *)
(* outside the contract a circuit relies on, block time and the shielded    *)
(* coin pool (receiveShielded, sendShielded).                               *)
(*                                                                          *)
(* A witness is a value the caller supplies and nobody vouches for, so every*)
(* circuit takes its witnesses from anywhere in their type: whatever the    *)
(* asserts do not pin down, some caller will supply.  persistentCommit is   *)
(* ideal (binding): the commitment to v opened by salt s is the pair        *)
(* <<v, s>>.                                                                *)
(***************************************************************************)
EXTENDS Integers, FiniteSets

CONSTANTS
    Address,      \* Either<ZswapCoinPublicKey, ContractAddress>
    Salt,         \* commitment openings
    Nonce,        \* coin nonces
    Color,        \* coin colours (token types)
    Amount,       \* coin values
    SecretKey,    \* role keys a port authority may hold
    Memo,         \* encrypted memos, opaque to the contract
    Duration,     \* agreed window lengths
    Tolerance,    \* toleranceSeconds
    MaxUint64,    \* the largest Uint<64>
    MaxTime,      \* bound on block time
    Nil           \* an unset ledger cell

CoinCore == [nonce : Nonce, color : Color, value : Amount]

ASSUME ContractAssumption ==
    /\ Amount \subseteq Nat
    /\ Duration \subseteq Nat
    /\ Tolerance \in Nat
    /\ MaxUint64 \in Nat
    /\ MaxTime \in Nat

\* An unset cell is told apart from every commitment.
ASSUME NilAssumption ==
    /\ Nil \notin Address \X Salt
    /\ Nil \notin Amount \X Salt
    /\ Nil \notin Nonce \X Salt
    /\ Nil \notin CoinCore \X Salt

VARIABLES
    ledger,       \* the exported and private ledger cells
    blockTime,    \* the time blockTimeGte and blockTimeLte compare with
    custody,      \* shielded coins the contract owns
    payouts,      \* every sendShielded so far: <<coin, recipient, value>>
    lockedAt      \* history: the block time at which lockEscrow landed

chainVars == <<ledger, blockTime, custody, payouts, lockedAt>>

Time == 0 .. MaxTime
Uint64 == 0 .. MaxUint64
Direction == {"Buyer", "Seller"}
EscrowState == {"Empty", "Proposed", "Locked", "Released"}

\* persistentCommit<T>(value, opening): binding, so equal only when both are.
persistentCommit(value, opening) == <<value, opening>>

\* roleKeyHash(sk, domain) under the one domain this contract uses; injective.
roleKeyHash(sk) == <<"incoterms-escrow:port-auth:v1", sk>>
KeyHash == {roleKeyHash(sk) : sk \in SecretKey}

EmptyLedger ==
    [state |-> "Empty",
     portAuthorityKeyHash |-> Nil,
     durationSeconds |-> 0,
     deadlineTimestamp |-> 0,
     timeoutDirection |-> "Buyer",
     milestoneConfirmed |-> FALSE,
     heldCommitment |-> Nil,
     sellerAddressCommitment |-> Nil,
     buyerAddressCommitment |-> Nil,
     agreedAmountCommitment |-> Nil,
     depositParamsCommitment |-> Nil,
     sellerMemo |-> Nil,
     buyerAddressMemo |-> Nil]

ChainInit ==
    /\ ledger = EmptyLedger
    /\ blockTime = 0
    /\ custody = {}
    /\ payouts = {}
    /\ lockedAt = 0

-----------------------------------------------------------------------------
(***************************************************************************)
(* The circuits.  A circuit whose assert fails changes nothing, so each     *)
(* assert is a conjunct and each action is one accepted transaction.  Where  *)
(* a property or the agents ask whether a call would be accepted, the       *)
(* asserts are an operator of their own, named ...Accepted.                 *)
(***************************************************************************)

\* propose(): the seller fixes the terms; w holds the witnesses it read.
propose(portAuthKeyHash, duration, direction, w) ==
    /\ ledger.state = "Empty"
    /\ ledger' = [ledger EXCEPT
         !.portAuthorityKeyHash = portAuthKeyHash,
         !.durationSeconds = duration,
         !.timeoutDirection = direction,
         !.sellerAddressCommitment = persistentCommit(w.sellerAddress, w.sellerAddressSalt),
         !.sellerMemo = w.sellerMemo,
         !.agreedAmountCommitment = persistentCommit(w.agreedAmount, w.agreedAmountSalt),
         !.depositParamsCommitment = persistentCommit(w.depositNonce, w.depositSalt),
         !.state = "Proposed"]
    /\ UNCHANGED <<blockTime, custody, payouts, lockedAt>>

\* Faulty variant: an unchecked cast.
FitsUint64_Unchecked(n) == n \in Nat

\* Both additions of lockEscrow() are cast back to Uint<64>, a checked cast:
\* a sum that does not fit rejects the transaction.
FitsUint64(n) == n \in Uint64

\* Faulty variant: only a claim about the future is refused.
LockTimeAccepted_NoUpperBound(lt) ==
    /\ FitsUint64(lt + Tolerance)
    /\ blockTime >= lt

\* "claimed lock time is not close enough to the real block time".
LockTimeAccepted(lt) ==
    /\ FitsUint64(lt + Tolerance)
    /\ blockTime >= lt
    /\ blockTime <= lt + Tolerance

\* Faulty variant: the coin is not compared with the agreed amount.
DepositAccepted_AnyValue(w) ==
    /\ persistentCommit(w.depositedCoin.nonce, w.depositSalt) = ledger.depositParamsCommitment
    /\ persistentCommit(w.agreedAmount, w.agreedAmountSalt) = ledger.agreedAmountCommitment

\* The asserts about the coin: its nonce and salt are the ones the seller
\* chose, its value the agreed amount.  Its colour is compared with nothing.
DepositAccepted(w) ==
    /\ persistentCommit(w.depositedCoin.nonce, w.depositSalt) = ledger.depositParamsCommitment
    /\ persistentCommit(w.agreedAmount, w.agreedAmountSalt) = ledger.agreedAmountCommitment
    /\ w.depositedCoin.value = w.agreedAmount

\* The asserts of lockEscrow(), its casts among them.
lockEscrowAccepted(lt, w) ==
    /\ ledger.state = "Proposed"
    /\ w.resolvedPortAuthorityKeyHash = ledger.portAuthorityKeyHash
    /\ LockTimeAccepted(lt)
    /\ FitsUint64(lt + ledger.durationSeconds)
    /\ DepositAccepted(w)

\* lockEscrow(): the buyer's deposit starts the deadline and fixes the refund
\* address.
lockEscrow(lt, w) ==
    /\ lockEscrowAccepted(lt, w)
    /\ custody' = custody \cup {w.depositedCoin}
    /\ ledger' = [ledger EXCEPT
         !.deadlineTimestamp = lt + ledger.durationSeconds,
         !.heldCommitment = persistentCommit(w.depositedCoin, w.depositSalt),
         !.buyerAddressCommitment = persistentCommit(w.buyerAddress, w.buyerAddressSalt),
         !.buyerAddressMemo = w.buyerAddressMemo,
         !.state = "Locked"]
    /\ lockedAt' = blockTime
    /\ UNCHANGED <<blockTime, payouts>>

\* attestMilestone(): C proves only that it holds the role key.
attestMilestone(sk) ==
    /\ ledger.state = "Locked"
    /\ ~ledger.milestoneConfirmed
    /\ roleKeyHash(sk) = ledger.portAuthorityKeyHash
    /\ ledger' = [ledger EXCEPT !.milestoneConfirmed = TRUE]
    /\ UNCHANGED <<blockTime, custody, payouts, lockedAt>>

\* The coin is the one heldCommitment opens to, and sendShielded() can spend it:
\* the contract owns it.
HeldCoinOpened(coin, coinSalt) ==
    /\ persistentCommit(coin, coinSalt) = ledger.heldCommitment
    /\ coin \in custody

\* sendShielded() moves the whole coin to the recipient.
sendShielded(coin, recipient) ==
    /\ custody' = custody \ {coin}
    /\ payouts' = payouts \cup {<<coin, recipient, coin.value>>}

\* Faulty variants: the state stays Locked; the record of the deposit is cleared.
payOut_StillLocked(coin, recipient) ==
    /\ sendShielded(coin, recipient)
    /\ UNCHANGED <<ledger, blockTime, lockedAt>>

payOut_ClearsHeld(coin, recipient) ==
    /\ sendShielded(coin, recipient)
    /\ ledger' = [ledger EXCEPT !.state = "Released", !.heldCommitment = Nil]
    /\ UNCHANGED <<blockTime, lockedAt>>

\* What payOutToSeller() and payOutToBuyer() both do once their asserts held.
payOut(coin, recipient) ==
    /\ sendShielded(coin, recipient)
    /\ ledger' = [ledger EXCEPT !.state = "Released"]
    /\ UNCHANGED <<blockTime, lockedAt>>

payOutToSellerAccepted(coin, coinSalt, address, addressSalt) ==
    /\ HeldCoinOpened(coin, coinSalt)
    /\ persistentCommit(address, addressSalt) = ledger.sellerAddressCommitment

payOutToBuyerAccepted(coin, coinSalt, address, addressSalt) ==
    /\ HeldCoinOpened(coin, coinSalt)
    /\ persistentCommit(address, addressSalt) = ledger.buyerAddressCommitment

\* Faulty variant: the seller must claim before the deadline.
claimPayoutAccepted_UntilDeadline(coin, coinSalt, address, addressSalt) ==
    /\ ledger.state = "Locked"
    /\ ledger.milestoneConfirmed
    /\ blockTime < ledger.deadlineTimestamp
    /\ payOutToSellerAccepted(coin, coinSalt, address, addressSalt)

claimPayoutAccepted(coin, coinSalt, address, addressSalt) ==
    /\ ledger.state = "Locked"
    /\ ledger.milestoneConfirmed
    /\ payOutToSellerAccepted(coin, coinSalt, address, addressSalt)

\* claimPayout(): callable by anyone once C has attested.
claimPayout(coin, coinSalt, address, addressSalt) ==
    /\ claimPayoutAccepted(coin, coinSalt, address, addressSalt)
    /\ payOut(coin, address)

\* The party that timeoutDirection names is paid.
timeoutPayoutAccepted(coin, coinSalt, address, addressSalt) ==
    \/ /\ ledger.timeoutDirection = "Buyer"
       /\ payOutToBuyerAccepted(coin, coinSalt, address, addressSalt)
    \/ /\ ledger.timeoutDirection # "Buyer"
       /\ payOutToSellerAccepted(coin, coinSalt, address, addressSalt)

\* Faulty variants: an attested deal still times out; any time is too late.
releaseOnTimeoutAccepted_Attested(coin, coinSalt, address, addressSalt) ==
    /\ ledger.state = "Locked"
    /\ blockTime >= ledger.deadlineTimestamp
    /\ timeoutPayoutAccepted(coin, coinSalt, address, addressSalt)

releaseOnTimeoutAccepted_Early(coin, coinSalt, address, addressSalt) ==
    /\ ledger.state = "Locked"
    /\ ~ledger.milestoneConfirmed
    /\ timeoutPayoutAccepted(coin, coinSalt, address, addressSalt)

releaseOnTimeoutAccepted(coin, coinSalt, address, addressSalt) ==
    /\ ledger.state = "Locked"
    /\ ~ledger.milestoneConfirmed
    /\ blockTime >= ledger.deadlineTimestamp
    /\ timeoutPayoutAccepted(coin, coinSalt, address, addressSalt)

\* releaseOnTimeout(): callable by anyone after the deadline, unless attested.
releaseOnTimeout(coin, coinSalt, address, addressSalt) ==
    /\ releaseOnTimeoutAccepted(coin, coinSalt, address, addressSalt)
    /\ payOut(coin, address)

\* Blocks keep being produced; MaxTime only bounds the instance.
AdvanceBlock ==
    /\ blockTime < MaxTime
    /\ blockTime' = blockTime + 1
    /\ UNCHANGED <<ledger, custody, payouts, lockedAt>>

-----------------------------------------------------------------------------
(***************************************************************************)
(* Every caller, with every witness its type allows.  CallPropose and       *)
(* CallLockEscrow repeat the circuit's first assert so that TLC enumerates  *)
(* witnesses only where one could be accepted.                              *)
(***************************************************************************)
ProposeWitness ==
    [sellerAddress : Address, sellerAddressSalt : Salt, sellerMemo : Memo,
     agreedAmount : Amount, agreedAmountSalt : Salt,
     depositNonce : Nonce, depositSalt : Salt]

LockWitness ==
    [resolvedPortAuthorityKeyHash : KeyHash, depositedCoin : CoinCore, depositSalt : Salt,
     agreedAmount : Amount, agreedAmountSalt : Salt,
     buyerAddress : Address, buyerAddressSalt : Salt, buyerAddressMemo : Memo]

CallPropose ==
    /\ ledger.state = "Empty"
    /\ \E h \in KeyHash, duration \in Duration, direction \in Direction, w \in ProposeWitness :
           propose(h, duration, direction, w)

CallLockEscrow ==
    /\ ledger.state = "Proposed"
    /\ \E lt \in Time, w \in LockWitness : lockEscrow(lt, w)

CallAttestMilestone == \E sk \in SecretKey : attestMilestone(sk)

CallClaimPayout ==
    \E coin \in CoinCore, cs \in Salt, a \in Address, as \in Salt : claimPayout(coin, cs, a, as)

CallReleaseOnTimeout ==
    \E coin \in CoinCore, cs \in Salt, a \in Address, as \in Salt : releaseOnTimeout(coin, cs, a, as)

ChainNext ==
    \/ CallPropose
    \/ CallLockEscrow
    \/ CallAttestMilestone
    \/ CallClaimPayout
    \/ CallReleaseOnTimeout
    \/ AdvanceBlock

ChainSpec == ChainInit /\ [][ChainNext]_chainVars

-----------------------------------------------------------------------------
(***************************************************************************)
(* What the contract promises.                                              *)
(***************************************************************************)
Maybe(S) == S \cup {Nil}

LedgerCells ==
    [state : EscrowState,
     portAuthorityKeyHash : Maybe(KeyHash),
     durationSeconds : Duration \cup {0},
     deadlineTimestamp : Uint64,
     timeoutDirection : Direction,
     milestoneConfirmed : BOOLEAN,
     heldCommitment : Maybe(CoinCore \X Salt),
     sellerAddressCommitment : Maybe(Address \X Salt),
     buyerAddressCommitment : Maybe(Address \X Salt),
     agreedAmountCommitment : Maybe(Amount \X Salt),
     depositParamsCommitment : Maybe(Nonce \X Salt),
     sellerMemo : Maybe(Memo),
     buyerAddressMemo : Maybe(Memo)]

\* Every cell holds a value of its declared type, or is still unset.
ChainTypeOK ==
    /\ ledger \in LedgerCells
    /\ blockTime \in Time
    /\ custody \subseteq CoinCore
    /\ payouts \subseteq CoinCore \X Address \X Amount
    /\ lockedAt \in Time

\* The deposit is neither lost nor paid twice: while Locked the contract owns
\* exactly the coin heldCommitment commits to and has paid nothing; once
\* Released it owns nothing and has made exactly one payment, of that coin and
\* of the whole agreed amount; before lockEscrow it has neither.
FundsConserved ==
    /\ ledger.state \in {"Empty", "Proposed"} => custody = {} /\ payouts = {}
    /\ ledger.state = "Locked" => custody = {ledger.heldCommitment[1]} /\ payouts = {}
    /\ ledger.state = "Released" =>
         /\ custody = {}
         /\ \E a \in Address :
               payouts = {<<ledger.heldCommitment[1], a, ledger.agreedAmountCommitment[1]>>}

\* The coin the seller committed to at propose time, but for its colour: no
\* commitment holds a colour and lockEscrow compares it with nothing.
SellersCoin(color) ==
    [nonce |-> ledger.depositParamsCommitment[1], color |-> color,
     value |-> ledger.agreedAmountCommitment[1]]

\* The agreed terms and the deposit correspond up to the coin's colour, and no
\* further: from propose on, the seller's address, the price and the coin
\* parameters are committed to; from lockEscrow on, heldCommitment commits,
\* under the opening the seller chose, to the coin of the seller's nonce and of
\* the committed price in some colour (so the deposit is worth the price only
\* if the colour is the agreed one, which the seller's agent finds out when it
\* rebuilds the coin, computeDepositVerification), and a refund address is
\* committed to.  Nothing is attested before that.
DepositMatchesTerms ==
    /\ ledger.state # "Empty" =>
         /\ ledger.sellerAddressCommitment # Nil
         /\ ledger.agreedAmountCommitment # Nil
         /\ ledger.depositParamsCommitment # Nil
    /\ ledger.state \in {"Locked", "Released"} =>
         /\ \E color \in Color :
               ledger.heldCommitment
                 = persistentCommit(SellersCoin(color), ledger.depositParamsCommitment[2])
         /\ ledger.buyerAddressCommitment # Nil
    /\ ledger.state \in {"Empty", "Proposed"} => ~ledger.milestoneConfirmed

\* Money only ever reaches the party the terms entitle: the seller's committed
\* address once C has attested; otherwise nobody before the deadline, and then
\* the address timeoutDirection names.  In particular a payout racing an
\* attestation around the deadline can never send an attested deal's money to
\* the buyer.
TimeoutPayee ==
    IF ledger.timeoutDirection = "Buyer" THEN ledger.buyerAddressCommitment[1]
                                         ELSE ledger.sellerAddressCommitment[1]

PaidToEntitledParty ==
    \A p \in payouts :
        IF ledger.milestoneConfirmed
        THEN p[2] = ledger.sellerAddressCommitment[1]
        ELSE /\ blockTime >= ledger.deadlineTimestamp
             /\ p[2] = TimeoutPayee

\* "Bounds the exploit ... down to a few minutes" (the tolerance comment of
\* lockEscrow): whatever time the buyer claims, C's real window from the block
\* that locked the deal is at most the agreed length and at most the tolerance
\* shorter.
AttestationWindow ==
    ledger.state \in {"Locked", "Released"} =>
        /\ ledger.deadlineTimestamp <= lockedAt + ledger.durationSeconds
        /\ ledger.deadlineTimestamp + Tolerance >= lockedAt + ledger.durationSeconds

\* "A stuck deal must always be resolvable by someone": a Locked deal that is
\* attested or past its deadline can always be paid out by a caller who knows
\* the openings; no reachable ledger has commitments that no witness opens, or
\* commits to a coin that the contract does not own.
AlwaysResolvable ==
    ledger.state = "Locked" =>
        \E coin \in CoinCore, cs \in Salt, a \in Address, as \in Salt :
            /\ ledger.milestoneConfirmed => claimPayoutAccepted(coin, cs, a, as)
            /\ ~ledger.milestoneConfirmed /\ blockTime >= ledger.deadlineTimestamp
                  => releaseOnTimeoutAccepted(coin, cs, a, as)

\* "Terms fixed at propose time - immutable afterward", and what lockEscrow
\* fixes is immutable after that: no later transaction rewrites who is paid,
\* how much, by whom attested, or by when.
ProposedTerms(l) ==
    <<l.portAuthorityKeyHash, l.durationSeconds, l.timeoutDirection, l.sellerAddressCommitment,
      l.agreedAmountCommitment, l.depositParamsCommitment, l.sellerMemo>>

LockedTerms(l) ==
    <<l.deadlineTimestamp, l.heldCommitment, l.buyerAddressCommitment, l.buyerAddressMemo>>

TermsImmutable ==
    [][/\ ledger.state # "Empty" => ProposedTerms(ledger') = ProposedTerms(ledger)
       /\ ledger.state \in {"Locked", "Released"} => LockedTerms(ledger') = LockedTerms(ledger)
       /\ ledger.state = "Released" => ledger' = ledger]_ledger
=============================================================================
