------------------------------- MODULE MCDdr -------------------------------
(***************************************************************************)
(* The start of the memory with firmware that succeeds at once, that sends   *)
(* a stream whose words look like verdicts, a stream of no words, one whose  *)
(* first word has a high half, and one that fails.                           *)
(***************************************************************************)
EXTENDS DdrSleep

MCScripts == {<<0, 7>>, <<8, 2, 7, 255, 7>>, <<8, 0, 7>>, <<8, 65537, 7, 0, 255>>}
=============================================================================
