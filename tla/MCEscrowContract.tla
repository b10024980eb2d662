-------------------------- MODULE MCEscrowContract --------------------------
(***************************************************************************)
(* EscrowContract with every caller and every witness, on an instance where *)
(* each commitment has a wrong value and a wrong opening to be tried.  The  *)
(* contract's states do not depend on the attestation policies of           *)
(* PolicyChecks, whose assumptions TLC evaluates first.                     *)
(***************************************************************************)
EXTENDS EscrowRefinement, PolicyChecks
=============================================================================
