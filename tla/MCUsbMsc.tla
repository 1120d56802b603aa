------------------------------ MODULE MCUsbMsc ------------------------------
(***************************************************************************)
(* UsbMsc on a card of two or three blocks with one or two blocks a chunk.  *)
(***************************************************************************)
EXTENDS UsbMsc, TLC

Interchangeable == Permutations(Data) \cup Permutations(Tags)
=============================================================================
