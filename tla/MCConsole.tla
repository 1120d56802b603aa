------------------------------ MODULE MCConsole ------------------------------
(***************************************************************************)
(* Console with three short names: one is a prefix of another, one can be   *)
(* completed, and two share no name that is their prefix.                   *)
(***************************************************************************)
EXTENDS Console, Format

S == <<"s">>
MCUsb == <<"u", "s">>
MCNames == {S, <<"s", "s">>, MCUsb}
MCPrintable == {"s", "u", " ", "[", "A", "B"}
MCKeys ==
  {<<"u">>, <<"s", "CR">>, <<"u", "CR">>, <<"CR">>, <<"BS">>, <<"TAB">>, <<"FF">>, <<"CTL">>, <<"ETX">>,
   <<"ESC", "[", "A">>, <<"ESC", "[", "B">>}
MCBits == [char |-> 4, short |-> 6, int |-> 8, long |-> 16]

\* Bytes the ring has given out already do not tell two states apart.
Ahead == <<keys, fifo, Waiting, rx_tail, interrupt_flag, text, past, main, job, screen>>
=============================================================================
