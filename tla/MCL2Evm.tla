------------------------------ MODULE MCL2Evm ------------------------------
(* The instance of L2Evm in L2EvmSafety.cfg.  It checks a liveness property, so there *)
(* is no symmetry.                                                                    *)
EXTENDS L2Evm
=============================================================================
