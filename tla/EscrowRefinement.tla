-------------------------- MODULE EscrowRefinement --------------------------
(***************************************************************************)
(* EscrowContract implements EscrowPromise: each commitment is mapped to the*)
(* value it commits to, the payouts to who received how much.               *)
(***************************************************************************)
EXTENDS EscrowContract

\* The value a commitment cell commits to, or what an unset cell stands for.
Committed(cell, unset) == IF cell = Nil THEN unset ELSE cell[1]

Phase ==
    CASE ledger.state = "Empty" -> "none"
      [] ledger.state = "Proposed" -> "offered"
      [] ledger.state = "Locked" -> "held"
      [] ledger.state = "Released" -> "settled"

Promise == INSTANCE EscrowPromise WITH
    Party <- Address,
    Price <- Amount,
    Nobody <- Nil,
    phase <- Phase,
    seller <- Committed(ledger.sellerAddressCommitment, Nil),
    buyer <- Committed(ledger.buyerAddressCommitment, Nil),
    price <- Committed(ledger.agreedAmountCommitment, 0),
    onTimeout <- ledger.timeoutDirection,
    attested <- ledger.milestoneConfirmed,
    due <- ledger.deadlineTimestamp,
    clock <- blockTime,
    paid <- {<<p[2], p[3]>> : p \in payouts}

\* Every transaction the contract accepts is a step the promise allows: the
\* commitments, salts and coin bookkeeping of Escrow.compact add up to one
\* payment of the agreed price to the entitled party.
KeepsPromise == Promise!PromiseSpec
=============================================================================
