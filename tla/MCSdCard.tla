------------------------------ MODULE MCSdCard ------------------------------
(***************************************************************************)
(* SdCard on a card of two or three blocks.                                 *)
(***************************************************************************)
EXTENDS SdCard, TLC

Interchangeable == Permutations(Data)
=============================================================================
