------------------------- MODULE MCSettlementAgents -------------------------
(***************************************************************************)
(* Instances of SettlementAgents: two wallets, the rows for lockEscrow as   *)
(* the buyer's fresh salts.                                                 *)
(***************************************************************************)
EXTENDS SettlementAgents, TLC

CONSTANTS aS, aB, sS

MCAddress == {aS, aB}
MCSalt == LockId \cup {sS}
MCMemo == MCAddress \X MCSalt
LockSymmetry == Permutations(LockId)
=============================================================================
