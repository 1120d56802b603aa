------------------------------- MODULE MCPmic -------------------------------
(***************************************************************************)
(* Pmic with one buck and one LDO of those that are always on.              *)
(***************************************************************************)
EXTENDS Pmic

MCAlwaysOn == <<"buck1", "ldo7">>
MCBucks == {"buck1"}
=============================================================================
