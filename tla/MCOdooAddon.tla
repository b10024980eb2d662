----------------------------- MODULE MCOdooAddon -----------------------------
(* Small instances of the addon and its agent.                             *)
EXTENDS OdooAddon, TLC

MCKeys == {OdooKey, WalletKey}
MCChallenges == Requests \cup {"panel"}
OdooSymmetry == Permutations(Requests) \cup Permutations(Tokens)
=============================================================================
