------------------------------- MODULE MCPsci -------------------------------
(* Instances of Psci for TLC.                                              *)
EXTENDS Psci
=============================================================================
