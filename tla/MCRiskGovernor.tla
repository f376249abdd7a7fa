-------------------------- MODULE MCRiskGovernor --------------------------
(* A small instance of RiskGovernor; the numbers are in its configurations. *)
EXTENDS RiskGovernor
===========================================================================
