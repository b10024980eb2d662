---------------------------- MODULE MCDealSlots ----------------------------
(* Small instances of DealSlots. *)
EXTENDS DealSlots
=============================================================================
