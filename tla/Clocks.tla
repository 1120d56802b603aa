------------------------------- MODULE Clocks -------------------------------
(***************************************************************************)
(* rcc.c: the PLLs, the switch of the CPU cluster between its bypass clock  *)
(* and PLL1, and the routing of a peripheral channel.                       *)
(*                                                                         *)
(* The driver writes a request and polls a status with a bound; the clock   *)
(* hardware answers in its own time, perhaps after the driver gave up.  A   *)
(* write to a divider that is busy may be dropped (rcc.c:167-171), and a    *)
(* PLL takes its dividers over only when it starts (rcc.c:357-361).         *)
(***************************************************************************)
EXTENDS Integers, Sequences

CONSTANTS
  Retries,  \* rounds of flexgen_to_hsi() and flexgen_to_pll4()
  MaxDrops, \* bound: so many divider writes dropped
  MaxDdr    \* bound: so many calls of rcc_pll2_init(), one for each `ddr`

ASSUME ClocksAssumption == Retries \in Nat \ {0} /\ MaxDrops \in Nat /\ MaxDdr \in Nat

VARIABLES
  hse,     \* the crystal: off, starting or ready
  pll,     \* enable, lock, dividers written, dividers it runs with, reference
  cluster, \* the cluster's switch: CHGCLKREQ and the reset of its output stage
  chan,    \* two flexgen channels: dividers and source
  fn, at,  \* the function that runs, "main" between the calls, and where in it
  round, drops, calls,
  ret,     \* what the last call of each function returned; 1 before any
  dropped  \* writes dropped in the last routing of each channel

hardware == <<hse, pll, cluster, chan>>
vars == <<hardware, fn, at, round, drops, calls, ret, dropped>>

(* main() routes the USART and I2C channels, raises the cluster and routes  *)
(* the bus of the memory; after that every `ddr` starts PLL2.               *)
MainCalls == <<"i2c7", "a35_pll1", "icn_ddr">>
Channels == {"i2c7", "icn_ddr"}
Functions == {"a35_pll1", "pll2"} \cup Channels

(* What the ROM leaves: PLL1 and PLL4 run; the cluster is on its bypass     *)
(* clock or on PLL1 behind a divider.                                       *)
Init ==
  /\ hse \in {"off", "ready"}
  /\ \E on \in [{2, 4} -> BOOLEAN] :
       pll = [p \in {1, 2, 4} |->
                [en |-> p = 1 \/ on[p], lock |-> p = 1 \/ on[p], div |-> "boot", runs |-> "boot", ref |-> "boot"]]
  /\ \E b, d \in BOOLEAN : cluster = [req |-> b, ack |-> b, divsel |-> d, divack |-> d, out |-> TRUE]
  /\ chan \in [Channels -> [pre : {0, 1}, fin : {0, 1}, src : {"boot"}]]
  /\ fn = "main" /\ at = "return" /\ round = 0 /\ drops = 0 /\ calls = 0 /\ dropped = [c \in Channels |-> 0]
  /\ ret = [f \in Functions |-> 1]

-----------------------------------------------------------------------------
(* The hardware.                                                            *)

HseStarts == hse = "starting" /\ hse' = "ready" /\ UNCHANGED <<pll, cluster, chan>>

Locks(p) ==
  /\ pll[p].en /\ ~pll[p].lock
  /\ pll' = [pll EXCEPT ![p].lock = TRUE, ![p].runs = pll[p].div]
  /\ UNCHANGED <<hse, cluster, chan>>

Unlocks(p) ==
  /\ ~pll[p].en /\ pll[p].lock
  /\ pll' = [pll EXCEPT ![p].lock = FALSE]
  /\ UNCHANGED <<hse, cluster, chan>>

ClusterSwitches ==
  /\ cluster.ack # cluster.req
  /\ cluster' = [cluster EXCEPT !.ack = cluster.req]
  /\ UNCHANGED <<hse, pll, chan>>

DividerReleased ==
  /\ cluster.divack /\ ~cluster.divsel
  /\ cluster' = [cluster EXCEPT !.divack = FALSE]
  /\ UNCHANGED <<hse, pll, chan>>

Hardware ==
  /\ HseStarts \/ (\E p \in DOMAIN pll : Locks(p) \/ Unlocks(p)) \/ ClusterSwitches \/ DividerReleased
  /\ UNCHANGED <<fn, at, round, drops, calls, ret, dropped>>

-----------------------------------------------------------------------------
(* The driver.                                                              *)

Idle == UNCHANGED <<round, drops, calls, dropped>>
Calls(f) ==
  /\ fn = "main" /\ calls < Len(MainCalls) + MaxDdr /\ calls' = calls + 1
  /\ f = IF calls < Len(MainCalls) THEN MainCalls[calls + 1] ELSE "pll2"
  /\ round' = 0 /\ UNCHANGED <<drops, dropped>>

Enter(f, label) == fn' = f /\ at' = label /\ UNCHANGED ret
Goto(label) == at' = label /\ UNCHANGED <<fn, ret>>
Return(f, code) == fn' = "main" /\ at' = "return" /\ ret' = [ret EXCEPT ![f] = code]

HseOn == IF hse = "off" THEN "starting" ELSE hse

(* A poll: it goes on when the status is there, and may give up before.     *)
Poll(label, status, then, f, code) ==
  /\ at = label
  /\ \/ status /\ then
     \/ ~status /\ Return(f, code) /\ UNCHANGED hardware
  /\ Idle

rcc_a35_pll1_init ==
  /\ Calls("a35_pll1") /\ Enter("a35_pll1", "a35_hse")
  /\ hse' = HseOn /\ UNCHANGED <<pll, cluster, chan>>

A35Parked == cluster' = [cluster EXCEPT !.out = FALSE]

A35Hse ==
  Poll("a35_hse", hse = "ready",
       CASE cluster.ack ->
              A35Parked /\ Goto("a35_down") /\ UNCHANGED <<hse, pll, chan>>
         [] ~cluster.ack /\ cluster.divsel ->
              cluster' = [cluster EXCEPT !.divsel = FALSE] /\ Goto("a35_div") /\ UNCHANGED <<hse, pll, chan>>
         [] OTHER ->
              cluster' = [cluster EXCEPT !.req = TRUE] /\ Goto("a35_bypass") /\ UNCHANGED <<hse, pll, chan>>,
       "a35_pll1", -1)

A35Div ==
  Poll("a35_div", ~cluster.divack,
       cluster' = [cluster EXCEPT !.req = TRUE] /\ Goto("a35_bypass") /\ UNCHANGED <<hse, pll, chan>>,
       "a35_pll1", -2)

\* Wrong variant, for the sensitivity checks: the switch to the bypass clock
\* is requested and not waited for.
A35Bypass_no_wait ==
  Poll("a35_bypass", TRUE,
       A35Parked /\ Goto("a35_down") /\ UNCHANGED <<hse, pll, chan>>, "a35_pll1", -3)

A35Bypass ==
  Poll("a35_bypass", cluster.ack,
       A35Parked /\ Goto("a35_down") /\ UNCHANGED <<hse, pll, chan>>, "a35_pll1", -3)

A35PowerDown ==
  /\ at = "a35_down" /\ Goto("a35_unlock")
  /\ pll' = [pll EXCEPT ![1].en = FALSE]
  /\ UNCHANGED <<hse, cluster, chan>> /\ Idle

A35Unlock ==
  Poll("a35_unlock", ~pll[1].lock, Goto("a35_program") /\ UNCHANGED hardware, "a35_pll1", -6)

A35Program ==
  /\ at = "a35_program" /\ Goto("a35_lock")
  /\ pll' = [pll EXCEPT ![1].ref = "hse", ![1].div = "new", ![1].en = TRUE]
  /\ UNCHANGED <<hse, cluster, chan>> /\ Idle

A35Lock ==
  Poll("a35_lock", pll[1].lock,
       cluster' = [cluster EXCEPT !.out = TRUE, !.req = FALSE] /\ Goto("a35_switch") /\ UNCHANGED <<hse, pll, chan>>,
       "a35_pll1", -4)

A35Switch ==
  Poll("a35_switch", ~cluster.ack, Return("a35_pll1", 0) /\ UNCHANGED hardware, "a35_pll1", -5)

rcc_pll2_init ==
  /\ Calls("pll2") /\ Enter("pll2", "pll2_hse")
  /\ hse' = HseOn /\ UNCHANGED <<pll, cluster, chan>>

Pll2Hse ==
  Poll("pll2_hse", hse = "ready",
       pll' = [pll EXCEPT ![2].en = FALSE] /\ Goto("pll2_stop") /\ UNCHANGED <<hse, cluster, chan>>,
       "pll2", -1)

Pll2Stop ==
  Poll("pll2_stop", ~pll[2].lock,
       pll' = [pll EXCEPT ![2].ref = "hse"] /\ Goto("pll2_ref") /\ UNCHANGED <<hse, cluster, chan>>,
       "pll2", -2)

(* The status of the reference may be missing for good: -3.                 *)
Pll2Ref ==
  /\ at = "pll2_ref" /\ Idle
  /\ \/ /\ pll' = [pll EXCEPT ![2].div = "new", ![2].en = TRUE]
        /\ Goto("pll2_lock") /\ UNCHANGED <<hse, cluster, chan>>
     \/ Return("pll2", -3) /\ UNCHANGED hardware

Pll2Lock ==
  Poll("pll2_lock", pll[2].lock, Return("pll2", 0) /\ UNCHANGED hardware, "pll2", -4)

-----------------------------------------------------------------------------
(* Routing a channel: to the HSI undivided, or to PLL4 halved.              *)

Target(c) == IF c = "i2c7" THEN [pre |-> 0, fin |-> 0, src |-> "hsi"]
                           ELSE [pre |-> 0, fin |-> 1, src |-> "pll4"]

flexgen_to_hsi == Calls("i2c7") /\ Enter("i2c7", "pre") /\ UNCHANGED hardware

rcc_bus_clk_init ==
  /\ Calls("icn_ddr")
  /\ IF pll[4].lock THEN Enter("icn_ddr", "pre") ELSE Return("icn_ddr", -1)
  /\ UNCHANGED hardware

(* A write to a divider, or to the selector, either takes effect or is      *)
(* dropped because the channel is still busy.                               *)
Route(field, next, c) ==
  /\ fn = c /\ at = field /\ Goto(next)
  /\ \/ chan' = [chan EXCEPT ![c][field] = Target(c)[field]] /\ UNCHANGED <<drops, dropped>>
     \/ /\ drops < MaxDrops /\ drops' = drops + 1 /\ dropped' = [dropped EXCEPT ![c] = @ + 1]
        /\ UNCHANGED chan
  /\ UNCHANGED <<hse, pll, cluster, round, calls>>

(* Read back, and again until it is right or the rounds are used up.        *)
RouteCheck(c) ==
  /\ fn = c /\ at = "check"
  /\ round' = round + 1
  /\ IF round' < Retries /\ chan[c] # Target(c) THEN Goto("pre") ELSE Return(c, 0)
  /\ UNCHANGED <<hardware, drops, calls, dropped>>

Routing(c) == Route("pre", "fin", c) \/ Route("fin", "src", c) \/ Route("src", "check", c) \/ RouteCheck(c)

Driver ==
  \/ rcc_a35_pll1_init \/ A35Hse \/ A35Div \/ A35Bypass \/ A35PowerDown \/ A35Unlock
  \/ A35Program \/ A35Lock \/ A35Switch
  \/ rcc_pll2_init \/ Pll2Hse \/ Pll2Stop \/ Pll2Ref \/ Pll2Lock
  \/ flexgen_to_hsi \/ rcc_bus_clk_init \/ \E c \in Channels : Routing(c)

Next == Hardware \/ Driver
Spec == Init /\ [][Next]_vars

-----------------------------------------------------------------------------
(* The cluster never runs from a PLL that is off, unlocked or being set up, *)
(* nor from an output stage in reset, however late the hardware answers.    *)
ClusterClocked == cluster.ack \/ (pll[1].en /\ pll[1].lock /\ cluster.out)

(* What the functions return is so: after 0 the cluster is on PLL1, or PLL2 *)
(* runs, with the new dividers and from the crystal; a routed channel has   *)
(* its source and dividers, unless a write was dropped in every round.      *)
ReturnsTrue ==
  fn = "main" =>
    /\ ret["a35_pll1"] = 0 =>
         ~cluster.ack /\ pll[1].lock /\ pll[1].runs = "new" /\ pll[1].ref = "hse" /\ hse = "ready"
    /\ ret["pll2"] = 0 =>
         pll[2].lock /\ pll[2].runs = "new" /\ pll[2].ref = "hse" /\ hse = "ready"
    /\ \A c \in Channels : ret[c] = 0 /\ dropped[c] < Retries => chan[c] = Target(c)

(* rcc.c:319 "the cluster stays on the bypass clock on error".  It does not *)
(* hold: see -1 with the cluster on PLL1, -3 and -5.                        *)
ErrorMeansBypass == ret["a35_pll1"] < 0 => cluster.ack
=============================================================================
