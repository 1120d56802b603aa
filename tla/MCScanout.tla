----------------------------- MODULE MCScanout -----------------------------
(***************************************************************************)
(* Boards with one or two screens and CRTCs: connected or not, in use or    *)
(* not, with and without a preferred mode.  A CRTC that would be taken from *)
(* another screen is left out: see the README.                              *)
(***************************************************************************)
EXTENDS Scanout

Mode(preferred, rows) == [preferred |-> preferred, rows |-> rows]
Screen(connected, modes, encoder, encoders) ==
  [connected |-> connected, modes |-> modes, encoder |-> encoder, encoders |-> encoders]
Encoder(c, possible) == [crtc |-> c, possible |-> possible]

Panel(encoder) == Screen(TRUE, <<Mode(FALSE, 2), Mode(TRUE, 3)>>, encoder, <<1, 2>>)
Unplugged == Screen(FALSE, <<>>, 0, <<2>>)
Monitor(encoder) == Screen(TRUE, <<Mode(FALSE, 2)>>, encoder, <<2>>)

MCBoards ==
  {[connectors |-> <<Unplugged, Panel(1)>>, encoders |-> <<Encoder(11, {11}), Encoder(0, {11, 12})>>, crtcs |-> <<11, 12>>],
   [connectors |-> <<Panel(0)>>, encoders |-> <<Encoder(0, {}), Encoder(0, {12})>>, crtcs |-> <<11, 12>>],
   [connectors |-> <<Monitor(2), Panel(1)>>, encoders |-> <<Encoder(11, {11}), Encoder(12, {11, 12})>>, crtcs |-> <<11, 12>>],
   [connectors |-> <<Unplugged>>, encoders |-> <<Encoder(0, {11}), Encoder(0, {11})>>, crtcs |-> <<11>>]}
=============================================================================
