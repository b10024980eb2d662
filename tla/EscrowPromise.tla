---------------------------- MODULE EscrowPromise ----------------------------
(***************************************************************************)
(* What the escrow promises its two parties, without commitments, witnesses *)
(* or coins: a price is offered, that price is deposited, and it is paid out*)
(* exactly once, to the party the terms entitle at that moment.  The source *)
(* is the state machine in the header of                                    *)
(* modules/incoterms-escrow/contracts/Escrow.compact.                       *)
(***************************************************************************)
EXTENDS Integers

CONSTANTS Party, Price, Nobody

VARIABLES
    phase,       \* "none", "offered", "held" or "settled"
    seller,      \* who is paid when the goods arrive
    buyer,       \* who is refunded
    price,       \* what is owed
    onTimeout,   \* who is paid if nobody attests: "Buyer" or "Seller"
    attested,    \* has C confirmed the milestone
    due,         \* the deadline
    clock,       \* now
    paid         \* payments made: <<party, amount>>

promiseVars == <<phase, seller, buyer, price, onTimeout, attested, due, clock, paid>>

PromiseInit ==
    /\ phase = "none"
    /\ seller = Nobody
    /\ buyer = Nobody
    /\ price = 0
    /\ onTimeout = "Buyer"
    /\ attested = FALSE
    /\ due = 0
    /\ clock = 0
    /\ paid = {}

\* The seller offers: its own address, the price and the timeout rule.
Offer ==
    /\ phase = "none"
    /\ phase' = "offered"
    /\ seller' \in Party
    /\ price' \in Price
    /\ onTimeout' \in {"Buyer", "Seller"}
    /\ UNCHANGED <<buyer, attested, due, clock, paid>>

\* The buyer deposits the price and names its refund address.
Deposit ==
    /\ phase = "offered"
    /\ phase' = "held"
    /\ buyer' \in Party
    /\ due' \in Nat
    /\ UNCHANGED <<seller, price, onTimeout, attested, clock, paid>>

\* C confirms the milestone, at most once and only while the money is held.
Attest ==
    /\ phase = "held"
    /\ ~attested
    /\ attested' = TRUE
    /\ UNCHANGED <<phase, seller, buyer, price, onTimeout, due, clock, paid>>

Entitled ==
    IF attested \/ onTimeout = "Seller" THEN seller ELSE buyer

\* The whole price goes to the entitled party, before the deadline only if the
\* milestone is confirmed.
Settle ==
    /\ phase = "held"
    /\ attested \/ clock >= due
    /\ phase' = "settled"
    /\ paid' = paid \cup {<<Entitled, price>>}
    /\ UNCHANGED <<seller, buyer, price, onTimeout, attested, due, clock>>

Pass ==
    /\ clock' = clock + 1
    /\ UNCHANGED <<phase, seller, buyer, price, onTimeout, attested, due, paid>>

PromiseNext == Offer \/ Deposit \/ Attest \/ Settle \/ Pass

PromiseSpec == PromiseInit /\ [][PromiseNext]_promiseVars
=============================================================================
