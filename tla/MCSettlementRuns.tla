-------------------------- MODULE MCSettlementRuns --------------------------
(* Finite instance of SettlementRuns. *)
EXTENDS SettlementRuns, TLC

CONSTANTS p, q
=============================================================================
