----------------------------- MODULE MCCommands -----------------------------
(***************************************************************************)
(* Commands with a kernel of five blocks and a dtb of two, in chunks of two. *)
(* The tables behind it are evaluated on the way: what boot leaves in the   *)
(* firewalls and the interrupt controller, and the header of the image the  *)
(* commands come in.                                                        *)
(***************************************************************************)
EXTENDS Commands, Firewalls, ImageHeader

MCBlocks == [kernel |-> 5, dtb |-> 2]
=============================================================================
