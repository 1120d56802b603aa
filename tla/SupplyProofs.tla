----------------------------- MODULE SupplyProofs -----------------------------
(***************************************************************************)
(* What supplies the board, proved with TLAPS: what rcc.c guarantees for    *)
(* every number of rounds, of dropped writes and of calls, and what         *)
(* pmic_init_rails() guarantees over i2c.c for any rails, bytes not         *)
(* acknowledged and waits given up.                                         *)
(***************************************************************************)
EXTENDS Clocks, Pmic, TLAPS

-----------------------------------------------------------------------------
(* The clocks.                                                              *)

Labels == {"a35_hse", "a35_div", "a35_bypass", "a35_down", "a35_unlock", "a35_program", "a35_lock", "a35_switch",
           "pll2_hse", "pll2_stop", "pll2_ref", "pll2_lock", "pre", "fin", "src", "check", "return"}
Pll == [en : BOOLEAN, lock : BOOLEAN, div : {"boot", "new"}, runs : {"boot", "new"}, ref : {"boot", "hse"}]
Cluster == [req : BOOLEAN, ack : BOOLEAN, divsel : BOOLEAN, divack : BOOLEAN, out : BOOLEAN]
Channel == [pre : {0, 1}, fin : {0, 1}, src : {"boot", "hsi", "pll4"}]

TypeOK ==
  /\ hse \in {"off", "starting", "ready"}
  /\ pll \in [{1, 2, 4} -> Pll] /\ cluster \in Cluster /\ chan \in [Channels -> Channel]
  /\ fn \in Functions \cup {"main"} /\ at \in Labels
  /\ round \in Nat /\ drops \in Nat /\ calls \in Nat
  /\ ret \in [Functions -> Int] /\ dropped \in [Channels -> Nat]

\* The function a place in the code belongs to, and the calls made until then.
PlaceInv ==
  /\ at \in {"a35_hse", "a35_div", "a35_bypass", "a35_down", "a35_unlock", "a35_program", "a35_lock", "a35_switch"}
       <=> fn = "a35_pll1"
  /\ at \in {"pll2_hse", "pll2_stop", "pll2_ref", "pll2_lock"} <=> fn = "pll2"
  /\ at \in {"pre", "fin", "src", "check"} <=> fn \in Channels
  /\ fn = "i2c7" => calls = 1
  /\ fn = "a35_pll1" => calls = 2
  /\ fn = "icn_ddr" => calls = 3
  /\ fn = "pll2" => calls > 3

\* Unless the bypass clock is both asked for and in use, PLL1 runs; and the
\* driver stops PLL1 only in between.
ClusterInv ==
  /\ ~(cluster.req /\ cluster.ack) => pll[1].en /\ pll[1].lock /\ cluster.out
  /\ calls < 2 \/ at = "a35_hse" => cluster.ack = cluster.req
  /\ at = "a35_bypass" => cluster.req
  /\ at \in {"a35_down", "a35_unlock", "a35_program", "a35_lock"} => cluster.req /\ cluster.ack
  /\ at = "a35_lock" => pll[1].en

\* What a function has reached when it is at a certain place, or has returned 0.
OnNew(p) == pll[p].en /\ pll[p].div = "new" /\ pll[p].ref = "hse" /\ hse = "ready" /\ (pll[p].lock => pll[p].runs = "new")
A35Inv ==
  /\ at \in {"a35_div", "a35_bypass", "a35_down", "a35_unlock", "a35_program"} => hse = "ready"
  /\ at \in {"a35_unlock", "a35_program"} => ~pll[1].en
  /\ at = "a35_program" => ~pll[1].lock
  /\ at \in {"a35_lock", "a35_switch"} => OnNew(1)
  /\ at = "a35_switch" => pll[1].lock /\ ~cluster.req
  /\ calls < 2 \/ fn = "a35_pll1" => ret["a35_pll1"] = 1
  /\ ret["a35_pll1"] = 0 => ~cluster.ack /\ ~cluster.req /\ pll[1].lock /\ OnNew(1)
Pll2Inv ==
  /\ at \in {"pll2_stop", "pll2_ref"} => hse = "ready" /\ ~pll[2].en
  /\ at = "pll2_ref" => ~pll[2].lock /\ pll[2].ref = "hse"
  /\ at = "pll2_lock" => OnNew(2)
  /\ calls <= 3 => ret["pll2"] = 1
  /\ fn = "main" /\ ret["pll2"] = 0 => pll[2].lock /\ OnNew(2)

\* A round of a routing that leaves something wrong has dropped a write.
Wrong(c) ==
  \/ at \in {"fin", "src", "check"} /\ chan[c].pre # Target(c).pre
  \/ at \in {"src", "check"} /\ chan[c].fin # Target(c).fin
  \/ at = "check" /\ chan[c].src # Target(c).src
RouteInv ==
  \A c \in Channels :
    /\ fn = c => dropped[c] >= round /\ (Wrong(c) => dropped[c] > round)
    /\ fn # c /\ ret[c] = 0 => chan[c] = Target(c) \/ dropped[c] >= Retries

IInv == TypeOK /\ PlaceInv /\ ClusterInv /\ A35Inv /\ Pll2Inv /\ RouteInv

-----------------------------------------------------------------------------
(* The actions of Next, one by one.                                         *)
LEMMA NextCases ==
  ASSUME [Next]_vars
  PROVE  \/ Hardware
         \/ rcc_a35_pll1_init \/ A35Hse \/ A35Div \/ A35Bypass \/ A35PowerDown \/ A35Unlock
         \/ A35Program \/ A35Lock \/ A35Switch
         \/ rcc_pll2_init \/ Pll2Hse \/ Pll2Stop \/ Pll2Ref \/ Pll2Lock
         \/ flexgen_to_hsi \/ rcc_bus_clk_init \/ (\E c \in Channels : Routing(c))
         \/ UNCHANGED vars
BY Zenon DEF Next, Driver

(* The functions main() calls, by the number of calls before.               *)
LEMMA CallsOf ==
  ASSUME TypeOK, NEW f, Calls(f)
  PROVE  /\ fn = "main" /\ calls' = calls + 1 /\ round' = 0
         /\ UNCHANGED <<drops, dropped>>
         /\ calls = 0 => f = "i2c7"
         /\ calls = 1 => f = "a35_pll1"
         /\ calls = 2 => f = "icn_ddr"
         /\ calls > 2 => f = "pll2"
BY DEF TypeOK, Calls, MainCalls

(* What the hardware does by itself.                                        *)
LEMMA HardwareCases ==
  ASSUME TypeOK, Hardware
  PROVE  /\ UNCHANGED <<chan, fn, at, round, drops, calls, ret, dropped>>
         /\ \/ HseStarts
            \/ \E p \in {1, 2, 4} : Locks(p) \/ Unlocks(p)
            \/ ClusterSwitches
            \/ DividerReleased
BY DEF Hardware, TypeOK, HseStarts, Locks, Unlocks, ClusterSwitches, DividerReleased

LEMMA PllStep ==
  ASSUME pll \in [{1, 2, 4} -> Pll], NEW p \in {1, 2, 4}, Locks(p) \/ Unlocks(p)
  PROVE  pll' \in [{1, 2, 4} -> Pll]
<1>1. CASE Locks(p)
  BY <1>1 DEF Locks, Pll
<1>2. CASE Unlocks(p)
  BY <1>2 DEF Unlocks, Pll
<1> QED BY <1>1, <1>2

LEMMA PllDriven ==
  ASSUME pll \in [{1, 2, 4} -> Pll],
         \/ A35Hse \/ A35Div \/ A35Bypass \/ A35PowerDown \/ A35Unlock \/ A35Program \/ A35Lock \/ A35Switch
         \/ Pll2Hse \/ Pll2Stop \/ Pll2Ref \/ Pll2Lock
  PROVE  pll' \in [{1, 2, 4} -> Pll]
<1> USE DEF Poll, hardware
<1>1. CASE A35Hse \/ A35Div \/ A35Bypass \/ A35Unlock \/ A35Lock \/ A35Switch
  BY <1>1 DEF A35Hse, A35Div, A35Bypass, A35Unlock, A35Lock, A35Switch
<1>2. CASE A35PowerDown
  BY <1>2 DEF A35PowerDown, Pll
<1>5. CASE A35Program
  <2>1. pll' = [pll EXCEPT ![1] = [@ EXCEPT !.ref = "hse", !.div = "new", !.en = TRUE]]
    BY <1>5 DEF A35Program
  <2> QED BY <2>1 DEF Pll
<1>3. CASE Pll2Hse \/ Pll2Stop
  BY <1>3 DEF Pll2Hse, Pll2Stop, Pll
<1>4. CASE Pll2Ref \/ Pll2Lock
  BY <1>4 DEF Pll2Ref, Pll2Lock, Pll
<1> QED BY <1>1, <1>2, <1>3, <1>4, <1>5

LEMMA TypeInit == Init => TypeOK
BY DEF Init, TypeOK, Pll, Cluster, Channel, Labels, Functions, Channels

LEMMA TypeStep ==
  ASSUME TypeOK, [Next]_vars
  PROVE  TypeOK'
<1> USE DEF TypeOK, hardware
<1>1. ASSUME Hardware PROVE TypeOK'
  <2>1. CASE HseStarts
    BY <1>1, <2>1, HardwareCases DEF HseStarts
  <2>2. ASSUME NEW p \in {1, 2, 4}, Locks(p) PROVE TypeOK'
    <3>1. pll' \in [{1, 2, 4} -> Pll]
      BY <2>2, PllStep
    <3> QED BY <1>1, <2>2, <3>1, HardwareCases DEF Locks
  <2>3. ASSUME NEW p \in {1, 2, 4}, Unlocks(p) PROVE TypeOK'
    <3>1. pll' \in [{1, 2, 4} -> Pll]
      BY <2>3, PllStep
    <3> QED BY <1>1, <2>3, <3>1, HardwareCases DEF Unlocks
  <2>4. CASE ClusterSwitches \/ DividerReleased
    <3>1. cluster' \in Cluster
      BY <2>4 DEF ClusterSwitches, DividerReleased, Cluster
    <3> QED BY <1>1, <2>4, <3>1, HardwareCases DEF ClusterSwitches, DividerReleased
  <2> QED BY <1>1, <2>1, <2>2, <2>3, <2>4, HardwareCases
<1>2. CASE rcc_a35_pll1_init \/ rcc_pll2_init \/ flexgen_to_hsi \/ rcc_bus_clk_init
  <2>1. /\ hse' \in {"off", "starting", "ready"} /\ UNCHANGED <<pll, cluster, chan, drops, dropped>>
        /\ round' = 0 /\ calls' \in Nat
    BY <1>2 DEF rcc_a35_pll1_init, rcc_pll2_init, flexgen_to_hsi, rcc_bus_clk_init, Calls, HseOn
  <2>2. fn' \in Functions \cup {"main"} /\ at' \in Labels /\ ret' \in [Functions -> Int]
    BY <1>2 DEF rcc_a35_pll1_init, rcc_pll2_init, flexgen_to_hsi, rcc_bus_clk_init, Enter, Return,
      Functions, Channels, Labels
  <2> QED BY <2>1, <2>2
<1>3. ASSUME \/ A35Hse \/ A35Div \/ A35Bypass \/ A35PowerDown \/ A35Unlock \/ A35Program \/ A35Lock \/ A35Switch
             \/ Pll2Hse \/ Pll2Stop \/ Pll2Ref \/ Pll2Lock
      PROVE  TypeOK'
  <2> USE DEF Poll
  <2>1. UNCHANGED <<hse, chan, round, drops, calls, dropped>>
    BY <1>3 DEF A35Hse, A35Div, A35Bypass, A35PowerDown, A35Unlock, A35Program, A35Lock, A35Switch,
      Pll2Hse, Pll2Stop, Pll2Ref, Pll2Lock, Idle, A35Parked
  <2>2. pll' \in [{1, 2, 4} -> Pll]
    BY <1>3, PllDriven
  <2>3. cluster' \in Cluster
    BY <1>3 DEF A35Hse, A35Div, A35Bypass, A35PowerDown, A35Unlock, A35Program, A35Lock, A35Switch,
      Pll2Hse, Pll2Stop, Pll2Ref, Pll2Lock, Cluster, A35Parked
  <2>4. fn' \in Functions \cup {"main"} /\ at' \in Labels /\ ret' \in [Functions -> Int]
    BY <1>3 DEF A35Hse, A35Div, A35Bypass, A35PowerDown, A35Unlock, A35Program, A35Lock, A35Switch,
      Pll2Hse, Pll2Stop, Pll2Ref, Pll2Lock, Goto, Return, Functions, Labels
  <2> QED BY <2>1, <2>2, <2>3, <2>4
<1>4. ASSUME NEW c \in Channels, Routing(c)
      PROVE  TypeOK'
  <2>1. UNCHANGED <<hse, pll, cluster, calls>> /\ round' \in Nat /\ drops' \in Nat /\ dropped' \in [Channels -> Nat]
    BY <1>4 DEF Routing, Route, RouteCheck
  <2>2. chan' \in [Channels -> Channel]
    BY <1>4 DEF Routing, Route, RouteCheck, Target, Channel
  <2>3. fn' \in Functions \cup {"main"} /\ at' \in Labels /\ ret' \in [Functions -> Int]
    BY <1>4 DEF Routing, Route, RouteCheck, Goto, Return, Functions, Channels, Labels
  <2> QED BY <2>1, <2>2, <2>3
<1>5. CASE UNCHANGED vars
  BY <1>5 DEF vars
<1> QED BY <1>1, <1>2, <1>3, <1>4, <1>5, NextCases, Zenon

(* The types of the clocks and of the driver's place in rcc.c, whatever the *)
(* hardware answers and when.                                               *)
THEOREM TypeCorrect == Spec => []TypeOK
<1>1. TypeOK /\ [Next]_vars => TypeOK'
  BY TypeStep
<1> QED BY TypeInit, <1>1, PTL DEF Spec

-----------------------------------------------------------------------------
(* The switch of the cluster.                                               *)

LEMMA PlaceStep ==
  ASSUME TypeOK, PlaceInv, [Next]_vars
  PROVE  PlaceInv'
<1> USE DEF PlaceInv
<1>1. CASE Hardware
  BY <1>1, HardwareCases
<1>2. CASE rcc_a35_pll1_init \/ rcc_pll2_init \/ flexgen_to_hsi \/ rcc_bus_clk_init
  BY <1>2, CallsOf DEF rcc_a35_pll1_init, rcc_pll2_init, flexgen_to_hsi, rcc_bus_clk_init, Enter, Return, Channels, TypeOK
<1>3. CASE A35Hse \/ A35Div \/ A35Bypass \/ A35PowerDown \/ A35Unlock \/ A35Program \/ A35Lock \/ A35Switch
  BY <1>3 DEF A35Hse, A35Div, A35Bypass, A35PowerDown, A35Unlock, A35Program, A35Lock, A35Switch,
    Poll, Goto, Return, Idle, Channels
<1>4. CASE Pll2Hse \/ Pll2Stop \/ Pll2Ref \/ Pll2Lock
  BY <1>4 DEF Pll2Hse, Pll2Stop, Pll2Ref, Pll2Lock, Poll, Goto, Return, Idle, Channels
<1>5. ASSUME NEW c \in Channels, Routing(c)
      PROVE  PlaceInv'
  BY <1>5 DEF Routing, Route, RouteCheck, Goto, Return, Channels
<1>6. CASE UNCHANGED vars
  BY <1>6 DEF vars
<1> QED BY <1>1, <1>2, <1>3, <1>4, <1>5, <1>6, NextCases, Zenon

LEMMA ClusterStep ==
  ASSUME TypeOK, PlaceInv, ClusterInv, [Next]_vars
  PROVE  ClusterInv'
<1> USE DEF ClusterInv
<1>0. pll \in [{1, 2, 4} -> Pll] /\ cluster \in Cluster /\ calls \in Nat
  BY DEF TypeOK
<1>1. ASSUME Hardware PROVE ClusterInv'
  <2>1. CASE HseStarts
    BY <1>1, <2>1, HardwareCases DEF HseStarts
  <2>2. ASSUME NEW p \in {1, 2, 4}, Locks(p) \/ Unlocks(p) PROVE ClusterInv'
    BY <1>0, <1>1, <2>2, HardwareCases DEF Locks, Unlocks, Pll
  <2>3. CASE ClusterSwitches \/ DividerReleased
    BY <1>0, <1>1, <2>3, HardwareCases DEF ClusterSwitches, DividerReleased, Cluster
  <2> QED BY <1>1, <2>1, <2>2, <2>3, HardwareCases
<1>2. CASE rcc_a35_pll1_init \/ rcc_pll2_init \/ flexgen_to_hsi \/ rcc_bus_clk_init
  <2>1. UNCHANGED <<pll, cluster>> /\ calls' = calls + 1 /\ (at' = "a35_hse" => calls < 2)
    BY <1>2, <1>0, CallsOf DEF rcc_a35_pll1_init, rcc_pll2_init, flexgen_to_hsi, rcc_bus_clk_init, Enter, Return, hardware
  <2>2. at' \in {"a35_hse", "pll2_hse", "pre", "return"}
    BY <1>2 DEF rcc_a35_pll1_init, rcc_pll2_init, flexgen_to_hsi, rcc_bus_clk_init, Enter, Return
  <2> QED BY <1>0, <2>1, <2>2
<1>3. CASE A35Hse \/ A35Div \/ A35Bypass
  BY <1>0, <1>3 DEF A35Hse, A35Div, A35Bypass, Poll, Goto, Return, Idle, A35Parked, Cluster, hardware, PlaceInv
<1>4. CASE A35PowerDown \/ A35Unlock \/ A35Program
  BY <1>0, <1>4 DEF A35PowerDown, A35Unlock, A35Program, Poll, Goto, Return, Idle, Pll, hardware, PlaceInv
<1>5. CASE A35Lock
  <2>1. CASE pll[1].lock
    <3>1. /\ at = "a35_lock" /\ at' = "a35_switch" /\ UNCHANGED <<pll, calls>>
          /\ cluster' = [cluster EXCEPT !.out = TRUE, !.req = FALSE]
      BY <1>5, <2>1 DEF A35Lock, Poll, Goto, Return, Idle, hardware
    <3>2. cluster'.out /\ ~cluster'.req
      BY <1>0, <3>1 DEF Cluster
    <3> QED BY <1>5, <2>1, <3>1, <3>2 DEF PlaceInv
  <2>2. CASE ~pll[1].lock
    BY <1>5, <2>2 DEF A35Lock, Poll, Goto, Return, Idle, hardware, PlaceInv
  <2> QED BY <2>1, <2>2
<1>9. CASE A35Switch
  BY <1>9 DEF A35Switch, Poll, Return, Idle, hardware, PlaceInv
<1>6. CASE Pll2Hse \/ Pll2Stop \/ Pll2Ref \/ Pll2Lock
  <2>1. UNCHANGED cluster /\ pll'[1] = pll[1] /\ UNCHANGED calls
    BY <1>0, <1>6 DEF Pll2Hse, Pll2Stop, Pll2Ref, Pll2Lock, Poll, Idle, hardware
  <2>2. at' \in {"pll2_stop", "pll2_ref", "pll2_lock", "return"}
    BY <1>6 DEF Pll2Hse, Pll2Stop, Pll2Ref, Pll2Lock, Poll, Goto, Return
  <2> QED BY <2>1, <2>2
<1>7. ASSUME NEW c \in Channels, Routing(c)
      PROVE  ClusterInv'
  BY <1>7 DEF Routing, Route, RouteCheck, Goto, Return, hardware
<1>8. CASE UNCHANGED vars
  BY <1>8 DEF vars, hardware
<1> QED BY <1>1, <1>2, <1>3, <1>4, <1>5, <1>6, <1>7, <1>8, <1>9, NextCases, Zenon

(* What the ROM leaves.                                                     *)
LEMMA ClusterInit == Init => TypeOK /\ PlaceInv /\ ClusterInv
<1> SUFFICES ASSUME Init PROVE TypeOK /\ PlaceInv /\ ClusterInv
  OBVIOUS
<1>1. PlaceInv
  BY DEF Init, PlaceInv, Channels
<1>2. pll[1].en /\ pll[1].lock
  <2>1. PICK on \in [{2, 4} -> BOOLEAN] :
          pll = [p \in {1, 2, 4} |->
                  [en |-> p = 1 \/ on[p], lock |-> p = 1 \/ on[p], div |-> "boot", runs |-> "boot", ref |-> "boot"]]
    BY DEF Init
  <2> QED BY <2>1
<1>3. cluster.ack = cluster.req /\ cluster.out
  BY DEF Init
<1>4. at = "return"
  BY DEF Init
<1> QED BY <1>1, <1>2, <1>3, <1>4, TypeInit DEF ClusterInv

(* The cluster never runs from a PLL that is off, unlocked or being set up, *)
(* however late the hardware answers and wherever the driver gives up.      *)
THEOREM ClusterClockedHolds == Spec => []ClusterClocked
<1>1. Init => TypeOK /\ PlaceInv /\ ClusterInv
  BY ClusterInit
<1>2. TypeOK /\ PlaceInv /\ ClusterInv /\ [Next]_vars => (TypeOK /\ PlaceInv /\ ClusterInv)'
  BY TypeStep, PlaceStep, ClusterStep
<1>3. ClusterInv => ClusterClocked
  BY DEF ClusterInv, ClusterClocked
<1> QED BY <1>1, <1>2, <1>3, PTL DEF Spec

-----------------------------------------------------------------------------
(* What the functions return.                                               *)

(* A step of the driver changes at most one of the PLLs.                    *)
LEMMA A35Step ==
  ASSUME TypeOK, PlaceInv, ClusterInv, A35Inv, [Next]_vars
  PROVE  A35Inv'
<1> USE DEF A35Inv, OnNew
<1>0. pll \in [{1, 2, 4} -> Pll] /\ cluster \in Cluster /\ calls \in Nat /\ ret \in [Functions -> Int]
  BY DEF TypeOK
<1>1. ASSUME Hardware PROVE A35Inv'
  <2>1. CASE HseStarts
    BY <1>1, <2>1, HardwareCases DEF HseStarts
  <2>2. ASSUME NEW p \in {1, 2, 4}, Locks(p) PROVE A35Inv'
    BY <1>0, <1>1, <2>2, HardwareCases DEF Locks, Pll
  <2>3. ASSUME NEW p \in {1, 2, 4}, Unlocks(p) PROVE A35Inv'
    BY <1>0, <1>1, <2>3, HardwareCases DEF Unlocks, Pll
  <2>4. CASE ClusterSwitches \/ DividerReleased
    BY <1>0, <1>1, <2>4, HardwareCases DEF ClusterSwitches, DividerReleased, Cluster
  <2> QED BY <1>1, <2>1, <2>2, <2>3, <2>4, HardwareCases
<1>2. CASE rcc_a35_pll1_init \/ rcc_pll2_init \/ flexgen_to_hsi \/ rcc_bus_clk_init
  <2>1. /\ UNCHANGED <<pll, cluster>> /\ (hse = "ready" => hse' = "ready") /\ calls' = calls + 1
        /\ at' \in {"a35_hse", "pll2_hse", "pre", "return"}
        /\ UNCHANGED ret["a35_pll1"]
    BY <1>0, <1>2, CallsOf DEF rcc_a35_pll1_init, rcc_pll2_init, flexgen_to_hsi, rcc_bus_clk_init, Enter, Return, HseOn,
      hardware, Functions, Channels
  <2>2. (fn' = "a35_pll1" => calls < 2) /\ fn = "main"
    BY <1>0, <1>2, CallsOf DEF rcc_a35_pll1_init, rcc_pll2_init, flexgen_to_hsi, rcc_bus_clk_init, Enter, Return
  <2> QED BY <1>0, <2>1, <2>2
<1>3. ASSUME \/ A35Hse \/ A35Div \/ A35Bypass \/ A35PowerDown \/ A35Unlock \/ A35Lock
      PROVE A35Inv'
  <2>1. fn = "a35_pll1" /\ calls = 2 /\ UNCHANGED <<hse, calls>> /\ ret["a35_pll1"] = 1
    BY <1>3 DEF A35Hse, A35Div, A35Bypass, A35PowerDown, A35Unlock, A35Lock, Poll, Idle, hardware, PlaceInv, A35Parked
  <2>2. \/ at' = "return" /\ fn' = "main" /\ ret'["a35_pll1"] < 0
        \/ UNCHANGED <<fn, ret>> /\ at' \in {"a35_div", "a35_bypass", "a35_down"} /\ hse = "ready"
        \/ UNCHANGED <<fn, ret>> /\ at = "a35_down" /\ at' = "a35_unlock" /\ ~pll'[1].en
        \/ UNCHANGED <<fn, ret, pll>> /\ at = "a35_unlock" /\ at' = "a35_program" /\ ~pll[1].lock
        \/ UNCHANGED <<fn, ret, pll>> /\ at = "a35_lock" /\ at' = "a35_switch" /\ pll[1].lock /\ ~cluster'.req
    <3> USE DEF Poll, Goto, Return, hardware, Functions
    <3>1. CASE A35Hse \/ A35Div \/ A35Bypass
      BY <1>0, <3>1 DEF A35Hse, A35Div, A35Bypass
    <3>2. CASE A35PowerDown
      BY <1>0, <3>2 DEF A35PowerDown, Pll
    <3>3. CASE A35Unlock
      BY <1>0, <3>3 DEF A35Unlock
    <3>4. CASE A35Lock
      <4>1. CASE pll[1].lock
        BY <1>0, <3>4, <4>1 DEF A35Lock, Cluster
      <4>2. CASE ~pll[1].lock
        BY <1>0, <3>4, <4>2 DEF A35Lock
      <4> QED BY <4>1, <4>2
    <3> QED BY <1>3, <3>1, <3>2, <3>3, <3>4
  <2>3. CASE at' = "return" /\ fn' = "main" /\ ret'["a35_pll1"] < 0
    BY <2>1, <2>3
  <2>4. CASE UNCHANGED <<fn, ret>> /\ at' \in {"a35_div", "a35_bypass", "a35_down"} /\ hse = "ready"
    BY <2>1, <2>4
  <2>5. CASE UNCHANGED <<fn, ret>> /\ at = "a35_down" /\ at' = "a35_unlock" /\ ~pll'[1].en
    BY <2>1, <2>5
  <2>6. CASE UNCHANGED <<fn, ret, pll>> /\ at = "a35_unlock" /\ at' = "a35_program" /\ ~pll[1].lock
    BY <2>1, <2>6
  <2>7. CASE UNCHANGED <<fn, ret, pll>> /\ at = "a35_lock" /\ at' = "a35_switch" /\ pll[1].lock /\ ~cluster'.req
    BY <2>1, <2>7
  <2> QED BY <2>2, <2>3, <2>4, <2>5, <2>6, <2>7
<1>4. ASSUME A35Program PROVE A35Inv'
  <2>1. /\ UNCHANGED <<hse, cluster, calls, fn, ret>> /\ fn = "a35_pll1" /\ at = "a35_program" /\ at' = "a35_lock"
        /\ pll' = [pll EXCEPT ![1] = [@ EXCEPT !.ref = "hse", !.div = "new", !.en = TRUE]]
    BY <1>0, <1>4 DEF A35Program, Goto, Idle, PlaceInv
  <2>2. pll'[1].en /\ pll'[1].div = "new" /\ pll'[1].ref = "hse" /\ pll'[1].lock = pll[1].lock
    BY <1>0, <2>1 DEF Pll
  <2> QED BY <2>1, <2>2, <1>0
<1>5. ASSUME A35Switch PROVE A35Inv'
  <2>1. /\ UNCHANGED <<hse, pll, cluster, calls>> /\ fn = "a35_pll1" /\ at = "a35_switch" /\ calls = 2
        /\ at' = "return" /\ fn' = "main"
        /\ \/ ~cluster.ack /\ ret'["a35_pll1"] = 0
           \/ ret'["a35_pll1"] = -5
    BY <1>0, <1>5 DEF A35Switch, Poll, Return, Idle, hardware, PlaceInv, Functions
  <2> QED BY <2>1
<1>6. ASSUME Pll2Hse \/ Pll2Stop \/ Pll2Ref \/ Pll2Lock PROVE A35Inv'
  <2>1. UNCHANGED <<hse, cluster, calls, ret["a35_pll1"]>> /\ pll'[1] = pll[1]
    BY <1>0, <1>6 DEF Pll2Hse, Pll2Stop, Pll2Ref, Pll2Lock, Poll, Goto, Return, Idle, hardware, Functions
  <2>2. at' \in {"pll2_stop", "pll2_ref", "pll2_lock", "return"} /\ fn' \in {"pll2", "main"}
    BY <1>6 DEF Pll2Hse, Pll2Stop, Pll2Ref, Pll2Lock, Poll, Goto, Return, PlaceInv
  <2> QED BY <2>1, <2>2
<1>7. ASSUME NEW c \in Channels, Routing(c) PROVE A35Inv'
  <2>1. UNCHANGED <<hse, pll, cluster, calls, ret["a35_pll1"]>> /\ fn \in Channels
    BY <1>0, <1>7 DEF Routing, Route, RouteCheck, Goto, Return, hardware, Functions, Channels
  <2>2. at' \in {"pre", "fin", "src", "check", "return"} /\ fn' \in Channels \cup {"main"}
    BY <1>7 DEF Routing, Route, RouteCheck, Goto, Return
  <2> QED BY <2>1, <2>2 DEF Channels
<1>8. CASE UNCHANGED vars
  BY <1>8 DEF vars, hardware
<1> QED BY <1>1, <1>2, <1>3, <1>4, <1>5, <1>6, <1>7, <1>8, NextCases, Zenon

LEMMA Pll2Step ==
  ASSUME TypeOK, PlaceInv, Pll2Inv, [Next]_vars
  PROVE  Pll2Inv'
<1> USE DEF Pll2Inv, OnNew
<1>0. pll \in [{1, 2, 4} -> Pll] /\ calls \in Nat /\ ret \in [Functions -> Int]
  BY DEF TypeOK
<1>1. ASSUME Hardware PROVE Pll2Inv'
  <2>1. CASE HseStarts
    BY <1>1, <2>1, HardwareCases DEF HseStarts
  <2>2. ASSUME NEW p \in {1, 2, 4}, Locks(p) PROVE Pll2Inv'
    BY <1>0, <1>1, <2>2, HardwareCases DEF Locks, Pll
  <2>3. ASSUME NEW p \in {1, 2, 4}, Unlocks(p) PROVE Pll2Inv'
    BY <1>0, <1>1, <2>3, HardwareCases DEF Unlocks, Pll
  <2>4. CASE ClusterSwitches \/ DividerReleased
    BY <1>1, <2>4, HardwareCases DEF ClusterSwitches, DividerReleased
  <2> QED BY <1>1, <2>1, <2>2, <2>3, <2>4, HardwareCases
<1>2. CASE rcc_a35_pll1_init \/ rcc_pll2_init \/ flexgen_to_hsi \/ rcc_bus_clk_init
  <2>1. /\ UNCHANGED pll /\ (hse = "ready" => hse' = "ready") /\ calls' = calls + 1
        /\ at' \in {"a35_hse", "pll2_hse", "pre", "return"}
        /\ UNCHANGED ret["pll2"] /\ fn = "main"
    BY <1>0, <1>2, CallsOf DEF rcc_a35_pll1_init, rcc_pll2_init, flexgen_to_hsi, rcc_bus_clk_init, Enter, Return, HseOn,
      hardware, Functions, Channels
  <2> QED BY <1>0, <2>1
<1>3. ASSUME A35Hse \/ A35Div \/ A35Bypass \/ A35PowerDown \/ A35Unlock \/ A35Program \/ A35Lock \/ A35Switch
      PROVE Pll2Inv'
  <2>1. UNCHANGED <<hse, calls, ret["pll2"]>> /\ pll'[2] = pll[2] /\ calls = 2
    BY <1>0, <1>3 DEF A35Hse, A35Div, A35Bypass, A35PowerDown, A35Unlock, A35Program, A35Lock, A35Switch,
      Poll, Goto, Return, Idle, hardware, Functions, PlaceInv
  <2>2. at' \in {"a35_div", "a35_bypass", "a35_down", "a35_unlock", "a35_program", "a35_lock", "a35_switch", "return"}
    BY <1>3 DEF A35Hse, A35Div, A35Bypass, A35PowerDown, A35Unlock, A35Program, A35Lock, A35Switch, Poll, Goto, Return
  <2> QED BY <2>1, <2>2
<1>4. ASSUME Pll2Hse PROVE Pll2Inv'
  <2>1. UNCHANGED <<hse, calls>> /\ calls > 3
    BY <1>4 DEF Pll2Hse, Poll, Goto, Return, Idle, hardware, PlaceInv
  <2>2. \/ at' = "return" /\ ret'["pll2"] = -1
        \/ at' = "pll2_stop" /\ fn' = "pll2" /\ hse = "ready" /\ ~pll'[2].en
    BY <1>0, <1>4 DEF Pll2Hse, Poll, Goto, Return, Pll, Functions, PlaceInv
  <2> QED BY <1>0, <2>1, <2>2
<1>5. ASSUME Pll2Stop PROVE Pll2Inv'
  <2>1. UNCHANGED <<hse, calls>> /\ calls > 3
    BY <1>5 DEF Pll2Stop, Poll, Goto, Return, Idle, hardware, PlaceInv
  <2>2. \/ at' = "return" /\ ret'["pll2"] = -2
        \/ /\ at = "pll2_stop" /\ at' = "pll2_ref" /\ fn' = "pll2"
           /\ ~pll'[2].en /\ ~pll'[2].lock /\ pll'[2].ref = "hse"
    BY <1>0, <1>5 DEF Pll2Stop, Poll, Goto, Return, Pll, Functions, PlaceInv
  <2> QED BY <1>0, <2>1, <2>2
<1>6. ASSUME Pll2Ref PROVE Pll2Inv'
  <2>1. UNCHANGED <<hse, calls>> /\ calls > 3
    BY <1>6 DEF Pll2Ref, Goto, Return, Idle, hardware, PlaceInv
  <2>2. \/ at' = "return" /\ ret'["pll2"] = -3
        \/ /\ at = "pll2_ref" /\ at' = "pll2_lock" /\ fn' = "pll2"
           /\ pll' = [pll EXCEPT ![2] = [@ EXCEPT !.div = "new", !.en = TRUE]]
    BY <1>0, <1>6 DEF Pll2Ref, Goto, Return, Functions, PlaceInv
  <2>3. at' = "pll2_lock" => pll'[2].en /\ pll'[2].div = "new" /\ pll'[2].ref = pll[2].ref /\ pll'[2].lock = pll[2].lock
    BY <1>0, <2>2 DEF Pll
  <2> QED BY <1>0, <2>1, <2>2, <2>3
<1>7. ASSUME Pll2Lock PROVE Pll2Inv'
  <2>1. UNCHANGED <<hse, pll, calls>> /\ calls > 3 /\ at = "pll2_lock" /\ at' = "return" /\ fn' = "main"
    BY <1>7 DEF Pll2Lock, Poll, Return, Idle, hardware, PlaceInv
  <2>2. pll[2].lock \/ ret'["pll2"] = -4
    BY <1>0, <1>7 DEF Pll2Lock, Poll, Return, Functions
  <2> QED BY <1>0, <2>1, <2>2
<1>8. ASSUME NEW c \in Channels, Routing(c) PROVE Pll2Inv'
  <2>1. UNCHANGED <<hse, pll, calls, ret["pll2"]>> /\ fn \in Channels
    BY <1>0, <1>8 DEF Routing, Route, RouteCheck, Goto, Return, hardware, Functions, Channels
  <2>2. at' \in {"pre", "fin", "src", "check", "return"} /\ calls <= 3
    BY <1>8, <2>1 DEF Routing, Route, RouteCheck, Goto, Return, PlaceInv, Channels
  <2> QED BY <1>0, <2>1, <2>2
<1>9. CASE UNCHANGED vars
  BY <1>9 DEF vars, hardware
<1> QED BY <1>1, <1>2, <1>3, <1>4, <1>5, <1>6, <1>7, <1>8, <1>9, NextCases, Zenon

(* A write that was not dropped has its effect, a dropped one is counted.   *)
LEMMA RouteStep ==
  ASSUME TypeOK, PlaceInv, RouteInv, NEW c \in Channels,
         Route("pre", "fin", c) \/ Route("fin", "src", c) \/ Route("src", "check", c)
  PROVE  RouteInv'
<1>0. chan \in [Channels -> Channel] /\ dropped \in [Channels -> Nat] /\ round \in Nat
  BY DEF TypeOK
<1>1. /\ fn = c /\ fn' = c /\ UNCHANGED <<ret, round>>
      /\ \A e \in Channels \ {c} : chan'[e] = chan[e] /\ dropped'[e] = dropped[e]
  BY <1>0 DEF Route, Goto
<1>2. dropped'[c] >= round' /\ (Wrong(c)' => dropped'[c] > round')
  <2>1. CASE dropped'[c] = dropped[c] + 1
    BY <1>0, <1>1, <2>1 DEF RouteInv
  <2>2. CASE dropped' = dropped
    <3>1. dropped[c] >= round /\ (Wrong(c) => dropped[c] > round)
      BY <1>1 DEF RouteInv
    <3>2. CASE Route("pre", "fin", c)
      <4>1. at' = "fin" /\ chan' = [chan EXCEPT ![c] = [@ EXCEPT !.pre = Target(c).pre]]
        BY <1>0, <2>2, <3>2 DEF Route, Goto
      <4>2. ~Wrong(c)'
        BY <1>0, <4>1 DEF Wrong, Channel, Target
      <4> QED BY <1>1, <2>2, <3>1, <4>2
    <3>3. CASE Route("fin", "src", c)
      <4>1. at = "fin" /\ at' = "src" /\ chan' = [chan EXCEPT ![c] = [@ EXCEPT !.fin = Target(c).fin]]
        BY <1>0, <2>2, <3>3 DEF Route, Goto
      <4>2. Wrong(c)' => Wrong(c)
        BY <1>0, <4>1 DEF Wrong, Channel, Target
      <4> QED BY <1>1, <2>2, <3>1, <4>2
    <3>4. CASE Route("src", "check", c)
      <4>1. at = "src" /\ at' = "check" /\ chan' = [chan EXCEPT ![c] = [@ EXCEPT !.src = Target(c).src]]
        BY <1>0, <2>2, <3>4 DEF Route, Goto
      <4>2. Wrong(c)' => Wrong(c)
        BY <1>0, <4>1 DEF Wrong, Channel, Target
      <4> QED BY <1>1, <2>2, <3>1, <4>2
    <3> QED BY <3>2, <3>3, <3>4
  <2>3. dropped' = dropped \/ dropped'[c] = dropped[c] + 1
    BY <1>0 DEF Route
  <2> QED BY <2>1, <2>2, <2>3
<1>3. \A e \in Channels : fn' # e /\ ret'[e] = 0 => chan'[e] = Target(e) \/ dropped'[e] >= Retries
  BY <1>1 DEF RouteInv, Target
<1> QED BY <1>1, <1>2, <1>3 DEF RouteInv

LEMMA ChannelEq ==
  ASSUME NEW c \in Channels, chan[c] \in Channel, at = "check", ~Wrong(c)
  PROVE  chan[c] = Target(c)
BY DEF Channel, Channels, Wrong, Target

(* The read back ends the routing only when nothing is wrong or the rounds  *)
(* are used up.                                                             *)
LEMMA RouteCheckStep ==
  ASSUME TypeOK, PlaceInv, RouteInv, NEW c \in Channels, RouteCheck(c)
  PROVE  RouteInv'
<1>0. chan \in [Channels -> Channel] /\ dropped \in [Channels -> Nat] /\ round \in Nat /\ ret \in [Functions -> Int]
  BY DEF TypeOK
<1>1. /\ fn = c /\ at = "check" /\ round' = round + 1 /\ UNCHANGED <<chan, dropped>>
      /\ fn' \in {c, "main"} /\ at' \in {"pre", "return"}
  BY DEF RouteCheck, Goto, Return, hardware
<1>2. chan[c] # Target(c) => dropped[c] > round
  BY <1>0, <1>1, Zenon, ChannelEq DEF RouteInv, Wrong
<1>3. CASE round' < Retries /\ chan[c] # Target(c)
  <2>1. at' = "pre" /\ UNCHANGED <<fn, ret>>
    BY <1>3 DEF RouteCheck, Goto
  <2> QED BY <1>0, <1>1, <1>2, <1>3, <2>1 DEF RouteInv, Wrong, Target
<1>4. CASE ~(round' < Retries /\ chan[c] # Target(c))
  <2>1. fn' = "main" /\ ret' = [ret EXCEPT ![c] = 0]
    BY <1>4 DEF RouteCheck, Return
  <2>2. chan[c] = Target(c) \/ dropped[c] >= Retries
    BY <1>0, <1>1, <1>2, <1>4, ClocksAssumption
  <2>3. \A e \in Channels : e # "main" /\ e \in Functions
    BY DEF Channels, Functions
  <2> QED BY <1>0, <1>1, <2>1, <2>2, <2>3 DEF RouteInv, Target
<1> QED BY <1>3, <1>4

LEMMA RouteInvStep ==
  ASSUME TypeOK, PlaceInv, RouteInv, [Next]_vars
  PROVE  RouteInv'
<1>0. ret \in [Functions -> Int] /\ dropped \in [Channels -> Nat] /\ calls \in Nat
  BY DEF TypeOK
<1>1. CASE Hardware
  BY <1>1, HardwareCases DEF RouteInv, Wrong, Target
<1>2. CASE rcc_a35_pll1_init \/ rcc_pll2_init \/ flexgen_to_hsi \/ rcc_bus_clk_init
  <2>1. UNCHANGED <<chan, dropped>> /\ round' = 0 /\ fn = "main"
    BY <1>2, CallsOf DEF rcc_a35_pll1_init, rcc_pll2_init, flexgen_to_hsi, rcc_bus_clk_init, hardware
  <2>2. at' \in {"a35_hse", "pll2_hse", "pre", "return"}
    BY <1>2 DEF rcc_a35_pll1_init, rcc_pll2_init, flexgen_to_hsi, rcc_bus_clk_init, Enter, Return
  <2>3. \A e \in Channels : ret'[e] = 0 => ret[e] = 0
    BY <1>0, <1>2 DEF rcc_a35_pll1_init, rcc_pll2_init, flexgen_to_hsi, rcc_bus_clk_init, Enter, Return, Channels, Functions
  <2>4. \A e \in Channels : e # "main"
    BY DEF Channels
  <2> QED BY <1>0, <2>1, <2>2, <2>3, <2>4 DEF RouteInv, Wrong, Target
<1>3. ASSUME \/ A35Hse \/ A35Div \/ A35Bypass \/ A35PowerDown \/ A35Unlock \/ A35Program \/ A35Lock \/ A35Switch
             \/ Pll2Hse \/ Pll2Stop \/ Pll2Ref \/ Pll2Lock
      PROVE  RouteInv'
  <2>1. UNCHANGED <<chan, dropped, round>>
    BY <1>3 DEF A35Hse, A35Div, A35Bypass, A35PowerDown, A35Unlock, A35Program, A35Lock, A35Switch,
      Pll2Hse, Pll2Stop, Pll2Ref, Pll2Lock, Poll, Idle, hardware
  <2>2. fn \notin Channels /\ fn' \notin Channels /\ \A e \in Channels : ret'[e] = ret[e]
    BY <1>0, <1>3 DEF A35Hse, A35Div, A35Bypass, A35PowerDown, A35Unlock, A35Program, A35Lock, A35Switch,
      Pll2Hse, Pll2Stop, Pll2Ref, Pll2Lock, Poll, Goto, Return, PlaceInv, Channels, Functions
  <2> QED BY <2>1, <2>2 DEF RouteInv, Target
<1>4. ASSUME NEW c \in Channels, Routing(c) PROVE RouteInv'
  BY <1>4, RouteStep, RouteCheckStep DEF Routing
<1>5. CASE UNCHANGED vars
  BY <1>5 DEF vars, hardware, RouteInv, Wrong, Target
<1> QED BY <1>1, <1>2, <1>3, <1>4, <1>5, NextCases, Zenon

(* 0 from a function means what main() takes it to mean: the cluster on     *)
(* PLL1, or PLL2, locked on the new dividers and fed by the crystal; and a  *)
(* routed channel is right unless every round lost a write.                 *)
THEOREM ReturnsTrueHolds == Spec => []ReturnsTrue
<1>1. Init => IInv
  <2> SUFFICES ASSUME Init PROVE A35Inv /\ Pll2Inv /\ RouteInv
    BY ClusterInit DEF IInv
  <2>1. at = "return" /\ fn = "main" /\ calls = 0 /\ \A f \in Functions : ret[f] = 1
    BY DEF Init
  <2> QED BY <2>1 DEF A35Inv, Pll2Inv, RouteInv, Functions, Channels
<1>2. IInv /\ [Next]_vars => IInv'
  BY TypeStep, PlaceStep, ClusterStep, A35Step, Pll2Step, RouteInvStep DEF IInv
<1>3. IInv => ReturnsTrue
  <2> SUFFICES ASSUME IInv, fn = "main" PROVE ReturnsTrue
    BY DEF ReturnsTrue
  <2>1. \A c \in Channels : c # "main" /\ dropped[c] \in Nat
    BY DEF Channels, IInv, TypeOK
  <2> QED BY <2>1, ClocksAssumption DEF IInv, A35Inv, Pll2Inv, RouteInv, OnNew, ReturnsTrue
<1> QED BY <1>1, <1>2, <1>3, PTL DEF Spec

-----------------------------------------------------------------------------
(* The rails.                                                               *)

(* A transfer as the controller has it: it points the PMIC at a register,   *)
(* reads it, or writes it.                                                  *)
Value == [en : {0, 1}, volt : Reg \cup {Set, Junk}]
Byte == [reg : Reg, val : Value]
BusStates == {"addr", "txis", "byte", "rx", "tc", "stop"}
Transfer ==
  [st : BusStates, read : BOOLEAN, nbytes : {1, 2}, autoend : BOOLEAN,
   sent : {0, 1}, tx : SUBSET Byte]
Points(b) == ~b.read /\ b.nbytes = 1 /\ ~b.autoend /\ b.sent = 0
Reads(b) == b.read /\ b.nbytes = 1 /\ b.autoend /\ b.sent = 0
Writes(b) == ~b.read /\ b.nbytes = 2 /\ b.autoend
Stages == {"read", "reg", "tc", "rx", "read_stop", "write", "write_reg", "write_val", "write_stop", "done"}
Writing == {"write", "write_reg", "write_val", "write_stop"}

WireTypes ==
  /\ regs \in [Reg -> Value] /\ ptr \in Reg /\ flags \subseteq {"NACKF", "STOPF"} /\ rxdr \in Value \cup {NONE}
  /\ bus.st # "idle" => bus \in Transfer
  /\ pending # NONE => pending \in Transfer /\ pending.st = "addr" /\ pending.sent = 0 /\ bus.st # "idle"
BusKinds ==
  /\ bus.st # "idle" =>
       \/ Points(bus) /\ bus.st # "rx"
       \/ Reads(bus) /\ bus.st \in {"addr", "rx", "stop"}
       \/ Writes(bus) /\ bus.st \in {"addr", "txis", "byte", "stop"}
  /\ pending # NONE => Points(pending) \/ Reads(pending) \/ Writes(pending)
DriverTypes ==
  /\ k \in 0 .. Updates + 2 * Rows /\ stage \in Stages /\ v \in Value \cup {NONE} /\ err \in BOOLEAN
  /\ stage \in {"read_stop"} \cup Writing => v \in Value
  /\ stage \in Writing => k \in 1 .. Updates
  /\ stage = "done" => k = 0
  /\ nacks \in Nat /\ slow \in Nat
PmicTypes == WireTypes /\ BusKinds /\ DriverTypes

(* The value that is on its way, and the update it belongs to: it is the    *)
(* register as it was read, with one field changed.                         *)
Quiet == bus.st \in {"idle", "stop"}
Sending == bus.st = "byte" /\ Writes(bus) /\ bus.sent = 1
Rail(i) == pmic_init_rails[i]
Carries(i) == ptr = Rail(i).reg /\ bus.tx = AsValue([regs[ptr] EXCEPT ![Rail(i).field] = Rail(i).val])
IsSet(i) == regs[Rail(i).reg][Rail(i).field] = Rail(i).val
Nack == "NACKF" \in flags

(* Driver and bus agree where they are, unless a wait was given up while    *)
(* the transfer went on.  During the updates that shows in err, or the wait *)
(* was one for STOPF, after which the next START waits for the bus.         *)
Aligned == slow = 0 \/ (~err /\ k <= Updates /\ stage # "done")

(* What one transfer leaves for the next: a stop on its way, the value of   *)
(* the last write, or the address of a read that was given up.              *)
BetweenTransfers ==
  stage \in {"read", "done", "reg"} =>
    /\ pending = NONE \/ Points(pending)
    /\ Quiet \/ Sending \/ (Points(bus) /\ bus.st \in {"addr", "txis"})

(* Once the register is accepted the bus does what the driver waits for, or *)
(* the transfer is over and the next wait fails; nothing stale is in RXDR.  *)
Reading ==
  /\ stage = "tc" =>
       /\ pending = NONE \/ Points(pending)
       /\ Quiet \/ (bus.st \in {"addr", "txis", "byte", "tc"} /\ Points(bus))
       /\ bus.st \in {"byte", "tc"} => ~Nack
       /\ bus.st = "byte" => bus.tx = AsRegister(Asked)
       /\ bus.st = "tc" => ptr = Asked /\ pending = NONE
  /\ stage = "rx" =>
       /\ pending = NONE /\ (Quiet \/ (Reads(bus) /\ rxdr = NONE /\ ptr = Asked /\ ~Nack))
       /\ rxdr # NONE => rxdr = regs[Asked] /\ ~Nack
  /\ stage \in {"read_stop", "write"} => pending = NONE /\ Quiet /\ ~Nack
  /\ rxdr # NONE => stage = "rx"

(* The write follows a read that succeeded, so the bus was free for it and  *)
(* the value written is the one read.                                       *)
WritingInv ==
  /\ stage \in {"read_stop", "write", "write_reg", "write_val"} => v = regs[Asked]
  /\ stage = "write_reg" =>
       \/ pending = NONE /\ Quiet
       \/ pending = NONE /\ Writes(bus) /\ bus.st \in {"addr", "txis"} /\ bus.sent = 0 /\ ~Nack
       \/ pending # NONE /\ bus.st = "stop" /\ Writes(pending) /\ ~Nack
  /\ stage = "write_val" => pending = NONE /\ (Quiet \/ (Writes(bus) /\ ~Nack))
  /\ stage = "write_val" /\ bus.st = "byte" => bus.sent = 0 /\ bus.tx = AsRegister(Asked)
  /\ stage = "write_val" /\ ~Quiet /\ bus.st # "byte" => bus.st = "txis" /\ bus.sent = 1 /\ ptr = Asked
  /\ stage = "write_stop" => pending = NONE /\ (Quiet \/ Sending)

(* A value on its way is that of an update, for the register pointed at.    *)
SendingInv == Sending => ~Nack /\ \E i \in 1 .. Updates : Carries(i)
Together == BetweenTransfers /\ Reading /\ WritingInv /\ SendingInv /\ VoltagesKept
StepInv == Aligned => Together

Carried(i) == Sending => Carries(i)
Late(i) == (IsSet(i) \/ Nack \/ Sending) /\ Carried(i)

(* The updates made so far are in the PMIC.  The last may still be on its   *)
(* way, or was not acknowledged: then the next transfer will see NACKF.     *)
UpdatesSet ==
  \A i \in 1 .. Updates :
    /\ i < k - 1 \/ (i < k /\ stage \notin {"read", "reg"}) => IsSet(i)
    /\ i = k - 1 /\ stage \in {"read", "reg"} => Late(i)
    /\ i = k /\ stage = "write_stop" => Late(i)

(* After RAILS OK no write is started, and the one that may be left over    *)
(* carries the last update.                                                 *)
RailsSet ==
  /\ \A i \in 1 .. Updates - 1 : IsSet(i)
  /\ bus.st # "idle" /\ Writes(bus) => bus.st = "stop" \/ (Sending /\ Carries(Updates))
  /\ pending # NONE => ~Writes(pending)
SetInv == ~err => (stage # "done" /\ k <= Updates => UpdatesSet) /\ (RailsOk => RailsSet)
PmicInv == PmicTypes /\ StepInv /\ SetInv

-----------------------------------------------------------------------------
LEMMA RailsAre ==
  /\ Updates \in Nat /\ Updates >= 4 /\ Rows \in Nat /\ Rows >= 2
  /\ \A i \in 1 .. Updates :
       /\ Rail(i).reg \in Reg
       /\ \/ Rail(i).field = "en" /\ Rail(i).val = 1
          \/ Rail(i).field = "volt" /\ Rail(i).val = Set /\ Rail(i).reg \in {VoltReg("ldo3"), VoltReg("buck6")}
  /\ Rail(Updates).reg = EnReg("buck6") /\ Rail(Updates).field = "en"
<1> DEFINE on == [i \in DOMAIN AlwaysOn |-> [reg |-> EnReg(AlwaysOn[i]), field |-> "en", val |-> 1]]
           rest == <<[reg |-> VoltReg("ldo3"), field |-> "volt", val |-> Set],
                     [reg |-> VoltReg("buck6"), field |-> "volt", val |-> Set],
                     [reg |-> EnReg("ldo3"), field |-> "en", val |-> 1],
                     [reg |-> EnReg("buck6"), field |-> "en", val |-> 1]>>
           Update == [reg : Reg, field : {"en", "volt"}, val : {1, Set}]
<1>1. AlwaysOn \in Seq(STRING) /\ Len(AlwaysOn) \in Nat /\ DOMAIN AlwaysOn = 1 .. Len(AlwaysOn)
  BY PmicAssumption
<1>2. \A r \in Rails : VoltReg(r) \in Reg /\ EnReg(r) \in Reg
  BY DEF Reg
<1>3. \A i \in 1 .. Len(AlwaysOn) : AlwaysOn[i] \in Rails
  BY <1>1 DEF Rails, Range
<1>4. "ldo3" \in Rails /\ "buck6" \in Rails
  BY DEF Rails
<1>5. on \in Seq(Update) /\ Len(on) = Len(AlwaysOn)
  BY <1>1, <1>2, <1>3
<1>6. rest \in Seq(Update) /\ Len(rest) = 4
  BY <1>2, <1>4
<1>7. pmic_init_rails = on \o rest
  BY DEF pmic_init_rails
<1>8. Updates = Len(AlwaysOn) + 4
  BY <1>1, <1>5, <1>6, <1>7 DEF Updates
<1>9. ASSUME NEW i \in 1 .. Len(AlwaysOn)
      PROVE  Rail(i).reg \in Reg /\ Rail(i).field = "en" /\ Rail(i).val = 1
  <2>1. Rail(i) = on[i]
    BY <1>1, <1>5, <1>6, <1>7 DEF Rail
  <2> QED BY <1>1, <1>2, <1>3, <2>1
<1>10. ASSUME NEW j \in 1 .. 4
       PROVE  Rail(Len(AlwaysOn) + j) = rest[j]
  BY <1>1, <1>5, <1>6, <1>7 DEF Rail
<1>11. /\ rest[1] = [reg |-> VoltReg("ldo3"), field |-> "volt", val |-> Set]
       /\ rest[2] = [reg |-> VoltReg("buck6"), field |-> "volt", val |-> Set]
       /\ rest[3] = [reg |-> EnReg("ldo3"), field |-> "en", val |-> 1]
       /\ rest[4] = [reg |-> EnReg("buck6"), field |-> "en", val |-> 1]
  OBVIOUS
<1>12. ASSUME NEW j \in 1 .. 4
       PROVE  LET r == Rail(Len(AlwaysOn) + j)
              IN  /\ r.reg \in Reg
                  /\ \/ r.field = "en" /\ r.val = 1
                     \/ r.field = "volt" /\ r.val = Set /\ r.reg \in {VoltReg("ldo3"), VoltReg("buck6")}
  <2> HIDE DEF rest
  <2>1. j = 1 \/ j = 2 \/ j = 3 \/ j = 4
    OBVIOUS
  <2> QED BY <1>2, <1>4, <1>10, <1>11, <2>1
<1>13. Rail(Updates).reg = EnReg("buck6") /\ Rail(Updates).field = "en"
  <2> HIDE DEF rest
  <2>1. Rail(Len(AlwaysOn) + 4) = rest[4]
    BY <1>10
  <2> QED BY <1>8, <1>11, <2>1
<1>14. Rows \in Nat /\ Rows >= 2
  BY <1>1 DEF Rows, Table
<1>15. ASSUME NEW i \in 1 .. Updates
       PROVE  /\ Rail(i).reg \in Reg
              /\ \/ Rail(i).field = "en" /\ Rail(i).val = 1
                 \/ Rail(i).field = "volt" /\ Rail(i).val = Set /\ Rail(i).reg \in {VoltReg("ldo3"), VoltReg("buck6")}
  <2>1. CASE i \in 1 .. Len(AlwaysOn)
    BY <1>9, <2>1
  <2>2. CASE i \notin 1 .. Len(AlwaysOn)
    <3>1. PICK j \in 1 .. 4 : i = Len(AlwaysOn) + j
      <4>1. i - Len(AlwaysOn) \in 1 .. 4 /\ i = Len(AlwaysOn) + (i - Len(AlwaysOn))
        BY <1>1, <1>8, <2>2
      <4> QED BY <4>1
    <3> QED BY <1>12, <3>1
  <2> QED BY <2>1, <2>2
<1> QED BY <1>1, <1>8, <1>13, <1>14, <1>15

Kept == {VoltReg(r) : r \in Range(AlwaysOn)} \cup {EnReg(r) : r \in Range(AlwaysOn)}

LEMMA KeptApart ==
  /\ Kept \subseteq Reg
  /\ VoltReg("ldo3") \notin Kept /\ VoltReg("buck6") \notin Kept
  /\ VoltagesKept <=> \A r \in Kept : regs[r].volt = r
  /\ EnReg("buck6") # VoltReg("buck6") /\ EnReg("buck6") # VoltReg("ldo3")
<1>1. "ldo3" \notin Range(AlwaysOn) /\ "buck6" \notin Range(AlwaysOn)
  BY PmicAssumption
<1>2. Kept \subseteq Reg
  BY DEF Kept, Reg, Rails
<1>3. \A r, s : VoltReg(r) = VoltReg(s) => r = s
  BY DEF VoltReg
<1>4. \A r, s : VoltReg(r) = EnReg(s) => r = s
  BY DEF VoltReg, EnReg
<1>5. VoltReg("ldo3") \notin Kept /\ VoltReg("buck6") \notin Kept
  BY <1>1, <1>3, <1>4 DEF Kept
<1>6. EnReg("buck6") # VoltReg("buck6") /\ EnReg("buck6") # VoltReg("ldo3")
  BY DEF EnReg, VoltReg
<1>7. VoltagesKept <=> \A r \in Kept : regs[r].volt = r
  BY DEF VoltagesKept, Kept
<1> QED BY <1>2, <1>5, <1>6, <1>7

LEMMA AskedIs ==
  ASSUME k \in 0 .. Updates + 2 * Rows
  PROVE  Asked \in Reg /\ (k \in 1 .. Updates => Asked = Rail(k).reg)
<1>1. Updates \in Nat /\ Rows \in Nat
  BY RailsAre
<1>2. CASE k = 0
  <2>1. Asked = Id
    BY <1>1, <1>2 DEF Asked
  <2> QED BY <1>1, <1>2, <2>1 DEF Reg
<1>3. CASE k \in 1 .. Updates
  <2>1. Asked = Rail(k).reg
    BY <1>1, <1>3 DEF Asked, Rail
  <2> QED BY <1>3, <2>1, RailsAre
<1>4. CASE k > Updates
  <2>1. Asked = pmic_print_rails[k - Updates] /\ k # 0 /\ k \notin 1 .. Updates
    BY <1>1, <1>4 DEF Asked
  <2>2. PICK i \in 1 .. 2 * Rows : i = k - Updates
    BY <1>1, <1>4
  <2>3. (i + 1) \div 2 \in 1 .. Rows
    BY <1>1
  <2>4. Table[(i + 1) \div 2] \in Rails
    <3>1. AlwaysOn \in Seq(STRING) /\ Len(AlwaysOn) \in Nat /\ DOMAIN AlwaysOn = 1 .. Len(AlwaysOn)
      BY PmicAssumption
    <3>2. PICK n \in 1 .. Rows : n = (i + 1) \div 2
      BY <2>3
    <3>3. Rows = Len(AlwaysOn) + 2
      BY <3>1 DEF Rows, Table
    <3>4. CASE n <= Len(AlwaysOn)
      <4>1. Table[n] = AlwaysOn[n] /\ n \in DOMAIN AlwaysOn
        BY <3>1, <3>4 DEF Table
      <4> QED BY <3>2, <4>1 DEF Rails, Range
    <3>5. CASE n > Len(AlwaysOn)
      <4>1. Table[n] = <<"ldo3", "buck6">>[n - Len(AlwaysOn)] /\ n - Len(AlwaysOn) \in {1, 2}
        BY <3>1, <3>3, <3>5 DEF Table
      <4> QED BY <3>2, <4>1 DEF Rails
    <3> QED BY <3>1, <3>2, <3>4, <3>5
  <2>5. pmic_print_rails[i] \in Reg
    BY <2>4 DEF pmic_print_rails, Reg
  <2> QED BY <2>1, <2>2, <2>5
<1> QED BY <1>1, <1>2, <1>3, <1>4

LEMMA NextUpdateIs ==
  ASSUME DriverTypes, NEW failed \in BOOLEAN, NextUpdate(failed)
  PROVE  /\ k' \in 0 .. Updates + 2 * Rows /\ err' \in BOOLEAN
         /\ stage' \in {"read", "done"} /\ (stage' = "done" <=> k' = 0)
         /\ (err => err') /\ (failed /\ k <= Updates => err') /\ (err' => err \/ (failed /\ k <= Updates))
         /\ k > Updates => k' = 0 \/ k' > Updates
         /\ k <= Updates /\ ~err' => k' = k + 1
<1>1. Updates \in Nat /\ Updates >= 4 /\ Rows \in Nat /\ Rows >= 2 /\ k \in 0 .. Updates + 2 * Rows /\ err \in BOOLEAN
  BY RailsAre DEF DriverTypes
<1>2. err' = (err \/ (failed /\ k <= Updates)) /\ k' = Next_k(failed) /\ stage' = IF k' = 0 THEN "done" ELSE "read"
  BY DEF NextUpdate
<1>3. err' \in BOOLEAN /\ (err => err') /\ (failed /\ k <= Updates => err') /\ (err' => err \/ (failed /\ k <= Updates))
  BY <1>1, <1>2
<1>4. /\ Next_k(failed) \in 0 .. Updates + 2 * Rows
      /\ k > Updates => Next_k(failed) = 0 \/ Next_k(failed) > Updates
      /\ k <= Updates /\ ~err /\ ~failed => Next_k(failed) = k + 1
  <2>1. CASE k = 0
    BY <1>1, <2>1 DEF Next_k
  <2>2. CASE k \in 1 .. Updates
    BY <1>1, <2>2 DEF Next_k
  <2>3. CASE k > Updates
    BY <1>1, <2>3 DEF Next_k
  <2> QED BY <1>1, <2>1, <2>2, <2>3
<1> QED BY <1>1, <1>2, <1>3, <1>4

LEMMA Cr2Is ==
  ASSUME NEW read \in BOOLEAN, NEW nbytes \in {1, 2}, NEW autoend \in BOOLEAN, NEW c, c = Cr2(read, nbytes, autoend)
  PROVE  /\ c \in Transfer /\ c.st = "addr" /\ (c.read <=> read) /\ c.nbytes = nbytes /\ (c.autoend <=> autoend)
         /\ c.sent = 0 /\ c # NONE
<1>1. c \in Transfer /\ c.st = "addr" /\ c.nbytes = nbytes /\ c.sent = 0
  BY DEF Cr2, Transfer, BusStates
<1>2. (c.read <=> read) /\ (c.autoend <=> autoend)
  BY DEF Cr2
<1>3. NONE.st = "none"
  BY DEF NONE
<1> QED BY <1>1, <1>2, <1>3

(* Giving up on a flag, and going on.                                       *)
GivesUp(flag) ==
  /\ \/ Nack /\ flags' = flags \ {"NACKF"} /\ slow' = slow
     \/ ~Nack /\ TimedOut(flag) /\ flags' = flags
  /\ NextUpdate(TRUE) /\ UNCHANGED <<regs, ptr, nacks, bus, pending, rxdr, v>>
Continues(step) ==
  ~Nack /\ stage' = step /\ UNCHANGED <<k, err, flags, slow, regs, ptr, nacks>>

LEMMA Tries ==
  /\ ReadRegister => /\ stage = "reg"
                     /\ \/ GivesUp("TXIS")
                        \/ /\ Continues("tc") /\ bus.st = "txis" /\ UNCHANGED <<pending, rxdr, v>>
                           /\ bus' = [bus EXCEPT !.st = "byte", !.tx = AsRegister(Asked)]
  /\ ReadPhase2 => /\ stage = "tc"
                   /\ \/ GivesUp("TC")
                      \/ /\ Continues("rx") /\ bus.st = "tc" /\ UNCHANGED <<pending, rxdr, v>>
                         /\ bus' = Cr2(TRUE, 1, TRUE)
  /\ ReadValue => /\ stage = "rx"
                  /\ \/ GivesUp("RXNE")
                     \/ /\ Continues("read_stop") /\ rxdr # NONE /\ UNCHANGED <<bus, pending>>
                        /\ v' = rxdr /\ rxdr' = NONE
  /\ WriteRegister => /\ stage = "write_reg"
                      /\ \/ GivesUp("TXIS")
                         \/ /\ Continues("write_val") /\ bus.st = "txis" /\ UNCHANGED <<pending, rxdr, v>>
                            /\ bus' = [bus EXCEPT !.st = "byte", !.tx = AsRegister(Asked)]
  /\ WriteValue => /\ stage = "write_val"
                   /\ \/ GivesUp("TXIS")
                      \/ /\ Continues("write_stop") /\ bus.st = "txis" /\ UNCHANGED <<pending, rxdr, v>>
                         /\ bus' = [bus EXCEPT !.st = "byte", !.tx = AsValue(Updated)]
<1> USE DEF wait_flag, GivesUp, Continues, Nack, Present, Transmit, Proceed, Started
<1>1. ReadRegister => /\ stage = "reg"
                      /\ \/ GivesUp("TXIS")
                         \/ /\ Continues("tc") /\ bus.st = "txis" /\ UNCHANGED <<pending, rxdr, v>>
                            /\ bus' = [bus EXCEPT !.st = "byte", !.tx = AsRegister(Asked)]
  BY Zenon DEF ReadRegister
<1>2. ReadPhase2 => /\ stage = "tc"
                    /\ \/ GivesUp("TC")
                       \/ /\ Continues("rx") /\ bus.st = "tc" /\ UNCHANGED <<pending, rxdr, v>>
                          /\ bus' = Cr2(TRUE, 1, TRUE)
  <2>1. "tc" \in {"idle", "tc"}
    OBVIOUS
  <2> QED BY <2>1, Zenon DEF ReadPhase2
<1>3. ReadValue => /\ stage = "rx"
                   /\ \/ GivesUp("RXNE")
                      \/ /\ Continues("read_stop") /\ rxdr # NONE /\ UNCHANGED <<bus, pending>>
                         /\ v' = rxdr /\ rxdr' = NONE
  BY Zenon DEF ReadValue
<1>4. WriteRegister => /\ stage = "write_reg"
                       /\ \/ GivesUp("TXIS")
                          \/ /\ Continues("write_val") /\ bus.st = "txis" /\ UNCHANGED <<pending, rxdr, v>>
                             /\ bus' = [bus EXCEPT !.st = "byte", !.tx = AsRegister(Asked)]
  BY Zenon DEF WriteRegister
<1>5. WriteValue => /\ stage = "write_val"
                    /\ \/ GivesUp("TXIS")
                       \/ /\ Continues("write_stop") /\ bus.st = "txis" /\ UNCHANGED <<pending, rxdr, v>>
                          /\ bus' = [bus EXCEPT !.st = "byte", !.tx = AsValue(Updated)]
  BY Zenon DEF WriteValue
<1> QED BY <1>1, <1>2, <1>3, <1>4, <1>5

LEMMA MovedBus ==
  ASSUME bus \in Transfer, NEW s \in BusStates, NEW t \in SUBSET Byte,
         bus' = [bus EXCEPT !.st = s] \/ bus' = [bus EXCEPT !.st = s, !.sent = 1]
                                      \/ bus' = [bus EXCEPT !.st = s, !.tx = t]
  PROVE  /\ bus' \in Transfer /\ bus'.st = s /\ (Writes(bus') <=> Writes(bus))
         /\ bus' = [bus EXCEPT !.st = s] \/ bus' = [bus EXCEPT !.st = s, !.tx = t] =>
              bus'.sent = bus.sent /\ (Points(bus') <=> Points(bus)) /\ (Reads(bus') <=> Reads(bus))
         /\ bus' = [bus EXCEPT !.st = s, !.sent = 1] => bus'.sent = 1 /\ bus'.tx = bus.tx
         /\ bus' = [bus EXCEPT !.st = s] => bus'.tx = bus.tx
         /\ bus' = [bus EXCEPT !.st = s, !.tx = t] => bus'.tx = t
<1> DEFINE
      moves == bus' = [bus EXCEPT !.st = s]
      counts == bus' = [bus EXCEPT !.st = s, !.sent = 1]
      sends == bus' = [bus EXCEPT !.st = s, !.tx = t]
<1>1. /\ bus' \in Transfer /\ bus'.st = s
      /\ (bus'.read <=> bus.read) /\ (bus'.autoend <=> bus.autoend) /\ bus'.nbytes = bus.nbytes
      /\ moves => bus'.sent = bus.sent /\ bus'.tx = bus.tx
      /\ counts => bus'.sent = 1 /\ bus'.tx = bus.tx
      /\ sends => bus'.sent = bus.sent /\ bus'.tx = t
  <2>1. CASE moves
    BY <2>1 DEF Transfer
  <2>2. CASE counts
    BY <2>2 DEF Transfer
  <2>3. CASE sends
    BY <2>3 DEF Transfer
  <2> QED BY <2>1, <2>2, <2>3
<1> HIDE DEF moves, counts, sends
<1>2. Writes(bus') <=> Writes(bus)
  BY <1>1 DEF Writes
<1>3. moves \/ sends => bus'.sent = bus.sent /\ (Points(bus') <=> Points(bus)) /\ (Reads(bus') <=> Reads(bus))
  BY <1>1 DEF Points, Reads
<1> QED BY <1>1, <1>2, <1>3 DEF moves, counts, sends

LEMMA BytesAre ==
  /\ \A r \in Reg : AsRegister(r) \subseteq Byte
  /\ \A x \in Value : AsValue(x) \subseteq Byte
<1>1. \A e \in {0, 1} : [en |-> e, volt |-> Junk] \in Value
  BY DEF Value
<1> QED BY <1>1 DEF AsRegister, AsValue, Byte

LEMMA UpdatedIs ==
  ASSUME v \in Value, k \in 1 .. Updates
  PROVE  Updated \in Value /\ Updated = [v EXCEPT ![Rail(k).field] = Rail(k).val]
<1>1. Updated = [v EXCEPT ![Rail(k).field] = Rail(k).val]
  BY DEF Updated, Rail
<1>2. CASE Rail(k).field = "en" /\ Rail(k).val = 1
  BY <1>1, <1>2 DEF Value
<1>3. CASE Rail(k).field = "volt" /\ Rail(k).val = Set
  BY <1>1, <1>3 DEF Value
<1> QED BY <1>1, <1>2, <1>3, RailsAre

-----------------------------------------------------------------------------
(* Types.                                                                   *)

LEMMA PmicTypesInit == PmicInit => PmicTypes
<1> SUFFICES ASSUME PmicInit PROVE PmicTypes
  OBVIOUS
<1>1. regs \in [Reg -> Value] /\ Id \in Reg
  BY DEF PmicInit, Value, Reg
<1>2. bus.st = "idle" /\ pending = NONE /\ flags = {} /\ rxdr = NONE /\ ptr = Id
  BY DEF PmicInit
<1>3. k = 0 /\ stage = "read" /\ v = NONE /\ err = FALSE /\ nacks = 0 /\ slow = 0
  BY DEF PmicInit
<1>4. Updates \in Nat /\ Rows \in Nat
  BY RailsAre
<1>5. WireTypes /\ BusKinds
  BY <1>1, <1>2 DEF WireTypes, BusKinds
<1>6. err \in BOOLEAN
  BY <1>3
<1>7. k \in 0 .. Updates + 2 * Rows /\ nacks \in Nat /\ slow \in Nat
  BY <1>3, <1>4
<1>8. stage \in Stages /\ stage # "done" /\ stage \notin {"read_stop"} \cup Writing
  BY <1>3 DEF Stages, Writing
<1>9. DriverTypes
  BY <1>3, <1>6, <1>7, <1>8, Zenon DEF DriverTypes
<1> QED BY <1>5, <1>9 DEF PmicTypes

LEMMA WiresStep == PmicTypes /\ PmicNext => (WireTypes /\ BusKinds)'
<1> SUFFICES ASSUME PmicTypes, PmicNext PROVE (WireTypes /\ BusKinds)'
  OBVIOUS
<1> USE DEF WireTypes, BusKinds, BusStates
<1>0. WireTypes /\ BusKinds /\ DriverTypes
  BY DEF PmicTypes
<1>a. Asked \in Reg /\ AsRegister(Asked) \in SUBSET Byte
  BY <1>0, AskedIs, BytesAre DEF DriverTypes
<1>b. "addr" \in BusStates /\ "txis" \in BusStates /\ "byte" \in BusStates /\ "rx" \in BusStates /\ "tc" \in BusStates
      /\ "stop" \in BusStates /\ {} \in SUBSET Byte
  OBVIOUS
<1>c. ASSUME Started(Cr2(FALSE, 1, FALSE)) \/ Started(Cr2(FALSE, 2, TRUE)), UNCHANGED <<regs, flags, rxdr, ptr>>
      PROVE  (WireTypes /\ BusKinds)'
  <2>1. PICK c : /\ c \in Transfer /\ c.st = "addr" /\ c.sent = 0 /\ c # NONE /\ (Points(c) \/ Writes(c))
                 /\ Started(c)
    <3>1. CASE Started(Cr2(FALSE, 1, FALSE))
      BY <3>1, Cr2Is DEF Points
    <3>2. CASE Started(Cr2(FALSE, 2, TRUE))
      BY <3>2, Cr2Is DEF Writes
    <3> QED BY <1>c, <3>1, <3>2
  <2>2. \/ bus' = c /\ pending' = pending /\ (bus.st = "idle" \/ bus.st = "tc")
        \/ pending' = c /\ bus' = bus /\ bus.st # "idle"
    BY <2>1 DEF Started
  <2> QED BY <1>c, <1>0, <2>1, <2>2
<1>d. ASSUME NEW flag, GivesUp(flag) PROVE (WireTypes /\ BusKinds)'
  BY <1>0, <1>d DEF GivesUp
<1>e. ASSUME bus.st # "idle", AfterLast, UNCHANGED <<flags>>,
             regs' \in [Reg -> Value], ptr' \in Reg, rxdr' \in Value \cup {NONE},
             Reads(bus) => bus.st = "rx"
      PROVE  (WireTypes /\ BusKinds)'
  <2>1. \/ bus' = [bus EXCEPT !.st = "stop"] /\ pending' = pending
        \/ bus' = pending /\ pending' = NONE /\ pending # NONE
        \/ bus' = [bus EXCEPT !.st = "tc"] /\ pending' = pending /\ ~bus.autoend
    BY <1>e DEF AfterLast
  <2>2. CASE bus' = [bus EXCEPT !.st = "stop"] /\ pending' = pending
    BY <1>0, <1>b, <1>e, <2>2, MovedBus
  <2>3. CASE bus' = pending /\ pending' = NONE /\ pending # NONE
    BY <1>0, <1>e, <2>3
  <2>4. CASE bus' = [bus EXCEPT !.st = "tc"] /\ pending' = pending /\ ~bus.autoend
    <3>1. Points(bus)
      BY <1>0, <1>e, <2>4 DEF Reads, Writes
    <3> QED BY <1>0, <1>b, <1>e, <2>4, <3>1, MovedBus
  <2> QED BY <2>1, <2>2, <2>3, <2>4
<1>f. ASSUME Nacked, bus.st \in {"addr", "byte"} PROVE (WireTypes /\ BusKinds)'
  <2>1. bus' = [bus EXCEPT !.st = "stop"] /\ flags' = flags \cup {"NACKF"} /\ UNCHANGED <<regs, pending, rxdr, ptr>>
    BY <1>f DEF Nacked
  <2> QED BY <1>0, <1>b, <1>f, <2>1, MovedBus
<1>1. CASE Addressed
  <2>1. CASE Nacked
    BY <1>1, <1>f, <2>1 DEF Addressed
  <2>2. CASE ~Nacked
    <3>1. PICK s \in {"rx", "txis"} : s = IF bus.read THEN "rx" ELSE "txis"
      OBVIOUS
    <3>2. bus.st = "addr" /\ bus' = [bus EXCEPT !.st = s] /\ UNCHANGED <<regs, pending, flags, rxdr, ptr>>
      BY <1>1, <2>2, <3>1 DEF Addressed
    <3>3. s = "rx" => Reads(bus)
      BY <1>0, <3>1, <3>2 DEF Points, Writes
    <3>4. s = "txis" => ~Reads(bus)
      BY <3>1 DEF Reads
    <3> QED BY <1>0, <1>b, <3>1, <3>2, <3>3, <3>4, MovedBus
  <2> QED BY <2>1, <2>2
<1>2. CASE ByteSent
  <2>1. CASE Nacked
    BY <1>2, <1>f, <2>1 DEF ByteSent
  <2>2. CASE ~Nacked
    <3>1. /\ bus.st = "byte" /\ UNCHANGED <<flags, rxdr>>
          /\ \/ bus.sent = 0 /\ (\E b \in bus.tx : ptr' = b.reg) /\ regs' = regs
             \/ bus.sent # 0 /\ (\E b \in bus.tx : regs' = [regs EXCEPT ![ptr] = b.val]) /\ ptr' = ptr
          /\ \/ bus.sent + 1 = bus.nbytes /\ AfterLast
             \/ /\ bus.sent + 1 # bus.nbytes /\ bus' = [bus EXCEPT !.st = "txis", !.sent = 1]
                /\ pending' = pending
      BY <1>2, <2>2, Zenon DEF ByteSent
    <3>2. regs' \in [Reg -> Value] /\ ptr' \in Reg
      <4>1. \A b \in bus.tx : b.reg \in Reg /\ b.val \in Value
        BY <1>0, <3>1 DEF Transfer, Byte
      <4> QED BY <1>0, <3>1, <4>1
    <3>3. ~Reads(bus)
      BY <1>0, <3>1 DEF Points, Reads, Writes
    <3>4. CASE AfterLast
      BY <1>0, <1>e, <3>1, <3>2, <3>3, <3>4
    <3>5. CASE bus.sent + 1 # bus.nbytes /\ bus' = [bus EXCEPT !.st = "txis", !.sent = 1] /\ pending' = pending
      <4>1. Writes(bus)
        BY <1>0, <3>1, <3>3, <3>5 DEF Points, Transfer
      <4> QED BY <1>0, <1>b, <3>1, <3>2, <3>5, <4>1, MovedBus
    <3> QED BY <3>1, <3>4, <3>5
  <2> QED BY <2>1, <2>2
<1>3. CASE ByteReceived
  <2>1. bus.st = "rx" /\ rxdr' = regs[ptr] /\ AfterLast /\ UNCHANGED <<regs, flags, ptr>>
    BY <1>3 DEF ByteReceived
  <2> QED BY <1>0, <1>e, <2>1
<1>4. CASE Stopped
  <2>1. /\ bus.st = "stop" /\ flags' = flags \cup {"STOPF"} /\ pending' = NONE /\ UNCHANGED <<regs, rxdr, ptr>>
        /\ (pending = NONE /\ bus'.st = "idle") \/ (pending # NONE /\ bus' = pending)
    BY <1>4 DEF Stopped
  <2> QED BY <1>0, <2>1
<1>5. CASE ReadPhase1
  BY <1>5, <1>c DEF ReadPhase1
<1>6. CASE ReadRegister
  <2>1. CASE /\ Continues("tc") /\ bus.st = "txis" /\ UNCHANGED <<pending, rxdr, v>>
             /\ bus' = [bus EXCEPT !.st = "byte", !.tx = AsRegister(Asked)]
    BY <1>0, <1>a, <1>b, <2>1, MovedBus DEF Continues
  <2> QED BY <1>6, <1>d, <2>1, Tries
<1>7. CASE ReadPhase2
  <2>1. CASE /\ Continues("rx") /\ bus.st = "tc" /\ UNCHANGED <<pending, rxdr, v>> /\ bus' = Cr2(TRUE, 1, TRUE)
    <3>1. bus' \in Transfer /\ bus'.st = "addr" /\ Reads(bus')
      BY <2>1, Cr2Is DEF Reads
    <3> QED BY <1>0, <2>1, <3>1 DEF Continues
  <2> QED BY <1>7, <1>d, <2>1, Tries
<1>8. CASE ReadValue
  <2>1. CASE Continues("read_stop") /\ UNCHANGED <<bus, pending>> /\ rxdr' = NONE
    BY <1>0, <2>1 DEF Continues
  <2> QED BY <1>8, <1>d, <2>1, Tries
<1>9. CASE ReadDone
  <2>1. flags' = flags \ {"STOPF"} /\ UNCHANGED <<regs, bus, pending, rxdr, ptr>>
    BY <1>9 DEF ReadDone, wait_stop
  <2> QED BY <1>0, <2>1
<1>10. CASE WriteStart
  BY <1>10, <1>c DEF WriteStart
<1>11. CASE WriteRegister
  <2>1. CASE /\ Continues("write_val") /\ bus.st = "txis" /\ UNCHANGED <<pending, rxdr, v>>
             /\ bus' = [bus EXCEPT !.st = "byte", !.tx = AsRegister(Asked)]
    BY <1>0, <1>a, <1>b, <2>1, MovedBus DEF Continues
  <2> QED BY <1>11, <1>d, <2>1, Tries
<1>12. CASE WriteValue
  <2>1. CASE /\ Continues("write_stop") /\ bus.st = "txis" /\ UNCHANGED <<pending, rxdr, v>>
             /\ bus' = [bus EXCEPT !.st = "byte", !.tx = AsValue(Updated)]
    <3>1. stage = "write_val"
      BY <1>12, Tries
    <3>2. AsValue(Updated) \in SUBSET Byte
      BY <1>0, <3>1, UpdatedIs, BytesAre DEF DriverTypes, Writing
    <3> QED BY <1>0, <1>b, <2>1, <3>2, MovedBus DEF Continues
  <2> QED BY <1>12, <1>d, <2>1, Tries
<1>13. CASE WriteDone
  <2>1. flags' = flags \ {"STOPF"} /\ UNCHANGED <<regs, bus, pending, rxdr, ptr>>
    BY <1>13 DEF WriteDone, wait_stop
  <2> QED BY <1>0, <2>1
<1>14. CASE cmd_pmic
  BY <1>0, <1>14 DEF cmd_pmic, wires
<1> QED BY <1>1, <1>2, <1>3, <1>4, <1>5, <1>6, <1>7, <1>8, <1>9, <1>10, <1>11, <1>12, <1>13, <1>14 DEF PmicNext

(* How the driver moves on: not, to the next update, within one, or to the  *)
(* command.                                                                 *)
LEMMA DriverMoves ==
  ASSUME PmicTypes, PmicNext
  PROVE  /\ nacks' \in Nat /\ slow' \in Nat /\ slow' >= slow
         /\ \/ UNCHANGED driver
            \/ stage # "done" /\ (\E failed \in BOOLEAN : NextUpdate(failed)) /\ v' = v
            \/ /\ stage # "done" /\ stage' \in Stages \ {"done"} /\ UNCHANGED <<k, err>>
               /\ v' \in Value \cup {NONE} /\ (stage' \in {"read_stop"} \cup Writing => v' \in Value)
               /\ stage' \in Writing => k \in 1 .. Updates
            \/ stage = "done" /\ k' = Updates + 1 /\ stage' = "read" /\ UNCHANGED <<v, err>>
<1> DEFINE
      Counts == nacks' \in Nat /\ slow' \in Nat /\ slow' >= slow
      Leaves == stage # "done" /\ (\E failed \in BOOLEAN : NextUpdate(failed)) /\ v' = v
      Within == /\ stage # "done" /\ stage' \in Stages \ {"done"} /\ UNCHANGED <<k, err>>
                /\ v' \in Value \cup {NONE} /\ (stage' \in {"read_stop"} \cup Writing => v' \in Value)
                /\ stage' \in Writing => k \in 1 .. Updates
      Commands == stage = "done" /\ k' = Updates + 1 /\ stage' = "read" /\ UNCHANGED <<v, err>>
<1>0. WireTypes /\ DriverTypes /\ nacks \in Nat /\ slow \in Nat
  BY DEF PmicTypes, DriverTypes
<1>t. TRUE \in BOOLEAN /\ FALSE \in BOOLEAN
  OBVIOUS
<1>a. ASSUME UNCHANGED slow, nacks' = nacks \/ Nacked PROVE Counts
  BY <1>0, <1>a DEF Nacked
<1>b. ASSUME NEW flag, TimedOut(flag), nacks' = nacks PROVE Counts
  BY <1>0, <1>b DEF TimedOut
<1>c. ASSUME NEW flag, GivesUp(flag), stage # "done" PROVE Counts /\ Leaves
  <2>1. nacks' = nacks /\ (slow' = slow \/ TimedOut(flag)) /\ NextUpdate(TRUE) /\ v' = v
    BY <1>c DEF GivesUp
  <2> QED BY <1>a, <1>b, <1>c, <1>t, <2>1
<1>d. ASSUME NEW step, Continues(step), stage # "done", step \in Stages \ {"done"},
             v' = v \/ (v' \in Value /\ step \notin Writing),
             step \in {"read_stop"} => v' \in Value, step \in Writing => stage \in Writing
      PROVE  Counts /\ Within
  <2>1. stage' = step /\ UNCHANGED <<k, err, slow, nacks>>
    BY <1>d DEF Continues
  <2>2. v \in Value \cup {NONE} /\ (stage \in Writing => v \in Value /\ k \in 1 .. Updates)
    BY <1>0 DEF DriverTypes
  <2>3. Counts
    BY <1>a, <2>1
  <2> QED BY <1>d, <2>1, <2>2, <2>3
<1> HIDE DEF Counts, Leaves, Within, Commands
<1>1. CASE Addressed \/ ByteSent \/ ByteReceived \/ Stopped
  <2>1. UNCHANGED <<driver, slow>> /\ (nacks' = nacks \/ Nacked)
    <3>1. CASE Nacked
      BY <3>1 DEF Nacked
    <3>2. CASE Addressed /\ ~Nacked
      BY <3>2 DEF Addressed
    <3>3. CASE ByteSent /\ ~Nacked
      BY <3>3, Zenon DEF ByteSent
    <3>4. CASE ByteReceived
      BY <3>4 DEF ByteReceived
    <3>5. CASE Stopped
      BY <3>5 DEF Stopped
    <3> QED BY <1>1, <3>1, <3>2, <3>3, <3>4, <3>5
  <2> QED BY <1>a, <2>1 DEF Counts
<1>2. CASE ReadPhase1
  <2>1. stage = "read" /\ stage' = "reg" /\ UNCHANGED <<k, err, v, nacks, slow>>
    BY <1>2 DEF ReadPhase1, Proceed
  <2>2. Counts
    BY <1>a, <2>1
  <2>3. Within
    BY <1>0, <2>1 DEF Within, Stages, Writing, DriverTypes
  <2> QED BY <2>2, <2>3 DEF Counts, Within
<1>3. CASE ReadRegister
  <2>1. stage = "reg" /\ (GivesUp("TXIS") \/ (Continues("tc") /\ v' = v))
    BY <1>3, Tries
  <2>2. CASE GivesUp("TXIS")
    BY <1>c, <2>1, <2>2 DEF Counts, Leaves
  <2>3. CASE Continues("tc") /\ v' = v
    BY <1>d, <2>1, <2>3 DEF Stages, Writing, Counts, Within
  <2> QED BY <2>1, <2>2, <2>3
<1>4. CASE ReadPhase2
  <2>1. stage = "tc" /\ (GivesUp("TC") \/ (Continues("rx") /\ v' = v))
    BY <1>4, Tries
  <2>2. CASE GivesUp("TC")
    BY <1>c, <2>1, <2>2 DEF Counts, Leaves
  <2>3. CASE Continues("rx") /\ v' = v
    BY <1>d, <2>1, <2>3 DEF Stages, Writing, Counts, Within
  <2> QED BY <2>1, <2>2, <2>3
<1>5. CASE ReadValue
  <2>1. stage = "rx" /\ (GivesUp("RXNE") \/ (Continues("read_stop") /\ v' = rxdr /\ rxdr # NONE))
    BY <1>5, Tries
  <2>2. CASE GivesUp("RXNE")
    BY <1>c, <2>1, <2>2 DEF Counts, Leaves
  <2>3. CASE Continues("read_stop") /\ v' = rxdr /\ rxdr # NONE
    <3>1. v' \in Value
      BY <1>0, <2>3 DEF WireTypes
    <3> QED BY <1>d, <2>1, <2>3, <3>1 DEF Stages, Writing, Counts, Within
  <2> QED BY <2>1, <2>2, <2>3
<1>6. CASE ReadDone
  <2>1. /\ stage = "read_stop" /\ UNCHANGED <<v, nacks>> /\ (slow' = slow \/ TimedOut("STOPF"))
        /\ IF k \in 1 .. Updates THEN Proceed("write") ELSE NextUpdate(FALSE)
    BY <1>6 DEF ReadDone, wait_stop
  <2>2. Counts
    BY <1>a, <1>b, <2>1
  <2>3. CASE k \in 1 .. Updates
    <3>1. Within
      BY <1>0, <2>1, <2>3 DEF Within, Stages, Writing, DriverTypes, Proceed
    <3> QED BY <2>2, <3>1 DEF Counts, Within
  <2>4. CASE k \notin 1 .. Updates
    BY <1>t, <2>1, <2>2, <2>4 DEF Counts
  <2> QED BY <2>3, <2>4
<1>7. CASE WriteStart
  <2>1. stage = "write" /\ stage' = "write_reg" /\ UNCHANGED <<k, err, v, nacks, slow>>
    BY <1>7 DEF WriteStart, Proceed
  <2>2. Counts
    BY <1>a, <2>1
  <2>3. Within
    BY <1>0, <2>1 DEF Within, Stages, Writing, DriverTypes
  <2> QED BY <2>2, <2>3 DEF Counts, Within
<1>8. CASE WriteRegister
  <2>1. stage = "write_reg" /\ (GivesUp("TXIS") \/ (Continues("write_val") /\ v' = v))
    BY <1>8, Tries
  <2>2. CASE GivesUp("TXIS")
    BY <1>c, <2>1, <2>2 DEF Counts, Leaves
  <2>3. CASE Continues("write_val") /\ v' = v
    BY <1>d, <2>1, <2>3 DEF Stages, Writing, Counts, Within
  <2> QED BY <2>1, <2>2, <2>3
<1>9. CASE WriteValue
  <2>1. stage = "write_val" /\ (GivesUp("TXIS") \/ (Continues("write_stop") /\ v' = v))
    BY <1>9, Tries
  <2>2. CASE GivesUp("TXIS")
    BY <1>c, <2>1, <2>2 DEF Counts, Leaves
  <2>3. CASE Continues("write_stop") /\ v' = v
    BY <1>d, <2>1, <2>3 DEF Stages, Writing, Counts, Within
  <2> QED BY <2>1, <2>2, <2>3
<1>10. CASE WriteDone
  <2>1. stage = "write_stop" /\ UNCHANGED <<v, nacks>> /\ (slow' = slow \/ TimedOut("STOPF")) /\ NextUpdate(FALSE)
    BY <1>10 DEF WriteDone, wait_stop
  <2>2. Counts
    BY <1>a, <1>b, <2>1
  <2> QED BY <1>t, <2>1, <2>2 DEF Counts
<1>11. CASE cmd_pmic
  <2>1. stage = "done" /\ stage' = "read" /\ k' = Updates + 1 /\ UNCHANGED <<v, err, nacks, slow>>
    BY <1>11 DEF cmd_pmic
  <2>2. Counts
    BY <1>a, <2>1
  <2> QED BY <2>1, <2>2 DEF Counts
<1> QED BY <1>1, <1>2, <1>3, <1>4, <1>5, <1>6, <1>7, <1>8, <1>9, <1>10, <1>11 DEF PmicNext

LEMMA DriverStep == PmicTypes /\ PmicNext => DriverTypes'
<1> SUFFICES ASSUME PmicTypes, PmicNext PROVE DriverTypes'
  OBVIOUS
<1>0. DriverTypes /\ Updates \in Nat /\ Updates >= 4 /\ Rows \in Nat /\ Rows >= 2
  BY RailsAre DEF PmicTypes
<1>1. nacks' \in Nat /\ slow' \in Nat
  BY DriverMoves
<1>2. CASE UNCHANGED driver
  BY <1>0, <1>1, <1>2 DEF driver, DriverTypes
<1>3. CASE (\E failed \in BOOLEAN : NextUpdate(failed)) /\ v' = v
  <2>1. k' \in 0 .. Updates + 2 * Rows /\ err' \in BOOLEAN /\ stage' \in {"read", "done"} /\ (stage' = "done" <=> k' = 0)
    BY <1>0, <1>3, NextUpdateIs
  <2> QED BY <1>0, <1>1, <1>3, <2>1 DEF DriverTypes, Stages, Writing
<1>4. CASE /\ stage' \in Stages \ {"done"} /\ UNCHANGED <<k, err>>
           /\ v' \in Value \cup {NONE} /\ (stage' \in {"read_stop"} \cup Writing => v' \in Value)
           /\ stage' \in Writing => k \in 1 .. Updates
  BY <1>0, <1>1, <1>4 DEF DriverTypes
<1>5. CASE k' = Updates + 1 /\ stage' = "read" /\ UNCHANGED <<v, err>>
  BY <1>0, <1>1, <1>5 DEF DriverTypes, Stages, Writing
<1> QED BY <1>2, <1>3, <1>4, <1>5, DriverMoves

(* Out of step is out of step for good.                                     *)
LEMMA AlignedBefore ==
  ASSUME PmicTypes, PmicNext, Aligned' PROVE Aligned /\ (slow # 0 => slow' # 0 /\ ~err' /\ k' <= Updates /\ stage' # "done")
<1>0. DriverTypes /\ Updates \in Nat /\ k \in 0 .. Updates + 2 * Rows /\ slow \in Nat
  BY RailsAre DEF PmicTypes, DriverTypes
<1>1. slow' \in Nat /\ slow' >= slow
  BY DriverMoves
<1>2. CASE slow = 0
  BY <1>2 DEF Aligned
<1>3. CASE slow # 0
  <2>1. slow' # 0 /\ ~err' /\ k' <= Updates /\ stage' # "done"
    BY <1>0, <1>1, <1>3 DEF Aligned
  <2>2. CASE UNCHANGED driver
    BY <2>1, <2>2 DEF driver, Aligned
  <2>3. CASE stage # "done" /\ (\E failed \in BOOLEAN : NextUpdate(failed)) /\ v' = v
    <3>1. (err => err') /\ (k > Updates => k' = 0 \/ k' > Updates) /\ (stage' = "done" <=> k' = 0)
          /\ k' \in 0 .. Updates + 2 * Rows
      BY <1>0, <2>3, NextUpdateIs
    <3>2. k <= Updates
      BY <1>0, <2>1, <3>1, RailsAre
    <3> QED BY <2>1, <2>3, <3>1, <3>2 DEF Aligned
  <2>4. CASE stage # "done" /\ UNCHANGED <<k, err>>
    BY <2>1, <2>4 DEF Aligned
  <2>5. CASE k' = Updates + 1
    BY <1>0, <2>1, <2>5
  <2> QED BY <2>1, <2>2, <2>3, <2>4, <2>5, DriverMoves
<1> QED BY <1>2, <1>3

(* An update or a row that is given up on: then nothing was slow so far.    *)
LEMMA GaveUp ==
  ASSUME PmicTypes, NEW flag, GivesUp(flag), Aligned'
  PROVE  /\ slow = 0 /\ slow' = 0 /\ stage' \in {"read", "done"}
         /\ UNCHANGED <<regs, ptr, bus, pending, rxdr, v>>
         /\ \/ Nack /\ flags' = flags \ {"NACKF"}
            \/ ~Nack /\ flags' = flags /\ ~Present(flag) /\ bus.st \in {"txis", "tc", "idle"}
<1>0. DriverTypes /\ Updates \in Nat /\ k \in 0 .. Updates + 2 * Rows /\ slow \in Nat
  BY RailsAre DEF PmicTypes, DriverTypes
<1>1. NextUpdate(TRUE) /\ TRUE \in BOOLEAN
  BY DEF GivesUp
<1>2. /\ stage' \in {"read", "done"} /\ (k <= Updates => err') /\ (k > Updates => k' = 0 \/ k' > Updates)
      /\ (stage' = "done" <=> k' = 0) /\ k' \in 0 .. Updates + 2 * Rows
  BY <1>0, <1>1, NextUpdateIs
<1>3. slow' = 0
  <2>1. err' \/ k' = 0 \/ k' > Updates
    BY <1>0, <1>2
  <2>2. k' > Updates => ~(k' <= Updates)
    BY <1>0, <1>2, RailsAre
  <2> QED BY <1>2, <2>1, <2>2 DEF Aligned
<1>4. CASE Nack /\ flags' = flags \ {"NACKF"} /\ slow' = slow
  BY <1>2, <1>3, <1>4 DEF GivesUp
<1>5. CASE ~Nack /\ TimedOut(flag) /\ flags' = flags
  <2>1. slow' = slow /\ ~Present(flag) /\ bus.st \in {"txis", "tc", "idle"}
    BY <1>0, <1>3, <1>5 DEF TimedOut
  <2> QED BY <1>2, <1>3, <1>5, <2>1 DEF GivesUp
<1> QED BY <1>4, <1>5 DEF GivesUp

-----------------------------------------------------------------------------
(* In step.                                                                 *)

LEMMA KindsApart ==
  /\ \A b : ~(Points(b) /\ Reads(b)) /\ ~(Points(b) /\ Writes(b)) /\ ~(Reads(b) /\ Writes(b))
  /\ k' = k => Asked' = Asked
<1>1. \A b : ~(Points(b) /\ Reads(b)) /\ ~(Points(b) /\ Writes(b)) /\ ~(Reads(b) /\ Writes(b))
  BY DEF Points, Reads, Writes
<1>2. k' = k => Asked' = Asked
  BY DEF Asked
<1> QED BY <1>1, <1>2

LEMMA SendingKept ==
  ASSUME SendingInv, VoltagesKept, UNCHANGED <<regs, ptr>>, Nack' => Nack,
         bus' = bus \/ ~Sending'
  PROVE  SendingInv' /\ VoltagesKept'
<1>1. VoltagesKept'
  BY DEF VoltagesKept
<1>2. CASE bus' = bus
  <2>1. Sending' <=> Sending
    BY <1>2 DEF Sending
  <2>2. \A i \in 1 .. Updates : Carries(i) => Carries(i)'
    BY <1>2 DEF Carries
  <2> QED BY <1>1, <2>1, <2>2 DEF SendingInv
<1> QED BY <1>1, <1>2 DEF SendingInv

(* What a value that is sent does to its register.                          *)
LEMMA ValueSent ==
  ASSUME PmicTypes, Sending, ByteSent, ~Nacked, NEW i \in 1 .. Updates, Carries(i)
  PROVE  /\ regs' = [regs EXCEPT ![Rail(i).reg] = [regs[Rail(i).reg] EXCEPT ![Rail(i).field] = Rail(i).val]]
         /\ bus' = [bus EXCEPT !.st = "stop"] /\ UNCHANGED <<pending, ptr>>
<1>1. bus.st = "byte" /\ Writes(bus) /\ bus.sent = 1 /\ bus.nbytes = 2 /\ bus.autoend
  BY DEF Sending, Writes
<1>2. (\E b \in bus.tx : regs' = [regs EXCEPT ![ptr] = b.val]) /\ ptr' = ptr /\ AfterLast
  BY <1>1 DEF ByteSent
<1>3. bus' = [bus EXCEPT !.st = "stop"] /\ pending' = pending
  BY <1>1, <1>2 DEF AfterLast
<1>4. PICK x : x = [regs[ptr] EXCEPT ![Rail(i).field] = Rail(i).val]
  OBVIOUS
<1>5. ptr = Rail(i).reg /\ bus.tx = AsValue(x)
  BY <1>4 DEF Carries
<1>6. \A b \in AsValue(x) : b.val = x
  BY DEF AsValue
<1>7. regs' = [regs EXCEPT ![ptr] = x]
  BY <1>2, <1>5, <1>6
<1> QED BY <1>2, <1>3, <1>4, <1>5, <1>7

LEMMA ValueKeepsVoltages ==
  ASSUME PmicTypes, VoltagesKept, NEW i \in 1 .. Updates,
         regs' = [regs EXCEPT ![Rail(i).reg] = [regs[Rail(i).reg] EXCEPT ![Rail(i).field] = Rail(i).val]]
  PROVE  VoltagesKept'
<1>1. regs \in [Reg -> Value] /\ Rail(i).reg \in Reg
  BY RailsAre DEF PmicTypes, WireTypes
<1>2. \A r \in Kept : regs[r].volt = r
  BY KeptApart
<1>3. ASSUME NEW r \in Kept PROVE regs'[r].volt = r
  <2>1. r \in Reg /\ regs[r] \in Value
    BY <1>1, KeptApart
  <2>2. CASE r # Rail(i).reg
    BY <1>1, <1>2, <2>1, <2>2
  <2>3. CASE r = Rail(i).reg
    <3>1. Rail(i).field = "en"
      BY <2>3, RailsAre, KeptApart
    <3>2. regs'[r] = [regs[r] EXCEPT !["en"] = Rail(i).val]
      BY <1>1, <2>1, <2>3, <3>1
    <3>3. regs'[r].volt = regs[r].volt
      BY <2>1, <3>2 DEF Value
    <3> QED BY <1>2, <3>3
  <2> QED BY <2>2, <2>3
<1>4. \A r \in Range(AlwaysOn) : VoltReg(r) \in Kept /\ EnReg(r) \in Kept
  BY DEF Kept
<1> QED BY <1>3, <1>4 DEF VoltagesKept

LEMMA BusInStep ==
  ASSUME PmicTypes, Together, Addressed \/ ByteSent \/ ByteReceived \/ Stopped
  PROVE  Together'
<1>0. WireTypes /\ BusKinds /\ BetweenTransfers /\ Reading /\ WritingInv /\ SendingInv /\ VoltagesKept /\ stage \in Stages
  BY DEF PmicTypes, Together, DriverTypes
<1>b. "txis" \in BusStates /\ "rx" \in BusStates /\ "tc" \in BusStates /\ "stop" \in BusStates /\ {} \in SUBSET Byte
  BY DEF BusStates
<1>f. ASSUME Nacked, bus.st \in {"addr", "byte"} PROVE Together'
  <2>1. bus' = [bus EXCEPT !.st = "stop"] /\ UNCHANGED <<regs, pending, rxdr, ptr, k, stage, v>>
    BY <1>f DEF Nacked, driver
  <2>2. bus'.st = "stop"
    BY <1>0, <1>b, <1>f, <2>1, MovedBus DEF WireTypes
  <2>3. Asked' = Asked
    BY <2>1, KindsApart
  <2>4. BetweenTransfers' /\ Reading' /\ WritingInv'
    BY <1>0, <1>f, <2>1, <2>2, <2>3 DEF BetweenTransfers, Reading, WritingInv, Quiet, Sending
  <2>5. SendingInv' /\ VoltagesKept'
    BY <1>0, <2>1, <2>2 DEF SendingInv, Sending, VoltagesKept
  <2> QED BY <2>4, <2>5 DEF Together
<1>1. CASE Addressed /\ ~Nacked
  <2>1. PICK s \in {"rx", "txis"} : s = IF bus.read THEN "rx" ELSE "txis"
    OBVIOUS
  <2>2. bus.st = "addr" /\ bus' = [bus EXCEPT !.st = s] /\ UNCHANGED <<regs, pending, flags, rxdr, ptr, k, stage, v>>
    BY <1>1, <2>1 DEF Addressed, driver
  <2>3. (s = "rx" <=> Reads(bus)) /\ bus' \in Transfer /\ bus'.st = s /\ bus'.sent = bus.sent
        /\ (Writes(bus') <=> Writes(bus)) /\ (Points(bus') <=> Points(bus)) /\ (Reads(bus') <=> Reads(bus))
    <3>1. s = "rx" => Reads(bus)
      BY <1>0, <2>1, <2>2 DEF Points, Writes, BusKinds
    <3>2. s = "txis" => ~Reads(bus)
      BY <2>1 DEF Reads
    <3> QED BY <1>0, <1>b, <2>1, <2>2, <3>1, <3>2, MovedBus DEF WireTypes
  <2>4. Asked' = Asked
    BY <2>2, KindsApart
  <2>5. (Nack' <=> Nack) /\ ~Sending'
    BY <2>1, <2>2, <2>3 DEF Nack, Sending
  <2>6. BetweenTransfers' /\ Reading' /\ WritingInv'
    BY <1>0, <2>1, <2>2, <2>3, <2>4, <2>5, KindsApart DEF BetweenTransfers, Reading, WritingInv, Quiet, Sending
  <2>7. SendingInv' /\ VoltagesKept'
    BY <1>0, <2>2, <2>5, SendingKept
  <2> QED BY <2>6, <2>7 DEF Together
<1>2. CASE ByteSent /\ ~Nacked
  <2>1. /\ bus.st = "byte" /\ UNCHANGED <<flags, rxdr, k, stage, v>> /\ (Nack' <=> Nack)
        /\ \/ bus.sent = 0 /\ (\E b \in bus.tx : ptr' = b.reg) /\ regs' = regs
           \/ bus.sent # 0 /\ ptr' = ptr
        /\ \/ bus.sent + 1 = bus.nbytes /\ AfterLast
           \/ /\ bus.sent + 1 # bus.nbytes /\ bus' = [bus EXCEPT !.st = "txis", !.sent = 1]
              /\ pending' = pending
    BY <1>2, Zenon DEF ByteSent, driver, Nack
  <2>2. Asked' = Asked
    BY <2>1, KindsApart
  <2>3. CASE Sending
    <3>1. PICK i \in 1 .. Updates : Carries(i)
      BY <1>0, <2>3 DEF SendingInv
    <3>2. /\ regs' = [regs EXCEPT ![Rail(i).reg] = [regs[Rail(i).reg] EXCEPT ![Rail(i).field] = Rail(i).val]]
          /\ bus' = [bus EXCEPT !.st = "stop"] /\ pending' = pending
      BY <1>2, <2>3, <3>1, ValueSent
    <3>3. bus'.st = "stop"
      BY <1>0, <1>b, <2>1, <3>2, MovedBus DEF WireTypes
    <3>4. VoltagesKept'
      BY <1>0, <3>2, ValueKeepsVoltages
    <3>5. stage \in {"read", "done", "reg", "write_stop"}
      BY <1>0, <2>1, <2>3, KindsApart DEF Reading, WritingInv, Quiet, Sending, Stages
    <3>6. BetweenTransfers' /\ Reading' /\ WritingInv'
      BY <1>0, <2>1, <3>2, <3>3, <3>5 DEF BetweenTransfers, Reading, WritingInv, Quiet, Sending
    <3> QED BY <3>3, <3>4, <3>6 DEF Together, SendingInv, Sending
  <2>4. CASE ~Sending
    <3>1. (stage = "tc" /\ Points(bus)) \/ (stage = "write_val" /\ Writes(bus))
      <4>1. ~Reads(bus) /\ ~Quiet /\ bus.st \notin {"addr", "txis", "tc", "rx", "stop"}
        BY <1>0, <2>1, KindsApart DEF BusKinds, Quiet
      <4>2. stage \notin {"read", "done", "reg"}
        BY <1>0, <2>4, <4>1 DEF BetweenTransfers
      <4>3. stage \notin {"rx", "read_stop", "write"} /\ (stage = "tc" => Points(bus))
        BY <1>0, <4>1 DEF Reading
      <4>4. stage \notin {"write_reg", "write_stop"} /\ (stage = "write_val" => Writes(bus))
        BY <1>0, <2>4, <4>1 DEF WritingInv
      <4> QED BY <1>0, <4>2, <4>3, <4>4 DEF Stages
    <3>2. bus.sent = 0 /\ bus.tx = AsRegister(Asked) /\ ~Nack
      BY <1>0, <2>1, <3>1 DEF Reading, WritingInv, Points, Quiet
    <3>3. ptr' = Asked /\ regs' = regs
      <4>1. \A r : \A b \in AsRegister(r) : b.reg = r
        BY DEF AsRegister
      <4> QED BY <2>1, <3>2, <4>1
    <3>4. CASE stage = "tc" /\ Points(bus)
      <4>1. AfterLast /\ ~bus.autoend
        BY <2>1, <3>2, <3>4 DEF Points
      <4>2. \/ bus' = pending /\ pending' = NONE /\ pending # NONE
            \/ bus' = [bus EXCEPT !.st = "tc"] /\ pending' = pending /\ pending = NONE
        BY <4>1 DEF AfterLast
      <4>3. CASE bus' = pending /\ pending' = NONE /\ pending # NONE
        <5>1. bus'.st = "addr" /\ Points(bus')
          BY <1>0, <3>4, <4>3 DEF WireTypes, Reading
        <5>2. BetweenTransfers' /\ Reading' /\ WritingInv' /\ ~Sending'
          BY <1>0, <2>1, <3>4, <4>3, <5>1 DEF BetweenTransfers, Reading, WritingInv, Quiet, Sending
        <5>3. VoltagesKept'
          BY <1>0, <3>3 DEF VoltagesKept
        <5> QED BY <5>2, <5>3 DEF Together, SendingInv
      <4>4. CASE bus' = [bus EXCEPT !.st = "tc"] /\ pending' = pending /\ pending = NONE
        <5>1. bus'.st = "tc" /\ Points(bus')
          BY <1>0, <1>b, <2>1, <3>4, <4>4, MovedBus DEF WireTypes
        <5>2. BetweenTransfers' /\ Reading' /\ WritingInv' /\ ~Sending'
          BY <1>0, <2>1, <2>2, <3>2, <3>3, <3>4, <4>4, <5>1 DEF BetweenTransfers, Reading, WritingInv, Quiet, Sending
        <5>3. VoltagesKept'
          BY <1>0, <3>3 DEF VoltagesKept
        <5> QED BY <5>2, <5>3 DEF Together, SendingInv
      <4> QED BY <4>2, <4>3, <4>4
    <3>5. CASE stage = "write_val" /\ Writes(bus)
      <4>1. bus' = [bus EXCEPT !.st = "txis", !.sent = 1] /\ pending' = pending
        BY <2>1, <3>2, <3>5 DEF Writes
      <4>2. bus'.st = "txis" /\ bus'.sent = 1 /\ Writes(bus')
        BY <1>0, <1>b, <2>1, <3>5, <4>1, MovedBus DEF WireTypes
      <4>3. BetweenTransfers' /\ Reading' /\ WritingInv' /\ ~Sending'
        BY <1>0, <2>1, <2>2, <3>2, <3>3, <3>5, <4>1, <4>2 DEF BetweenTransfers, Reading, WritingInv, Quiet, Sending
      <4>4. VoltagesKept'
        BY <1>0, <3>3 DEF VoltagesKept
      <4> QED BY <4>3, <4>4 DEF Together, SendingInv
    <3> QED BY <3>1, <3>4, <3>5
  <2> QED BY <2>3, <2>4
<1>3. CASE ByteReceived
  <2>1. /\ bus.st = "rx" /\ rxdr' = regs[ptr] /\ AfterLast /\ UNCHANGED <<regs, flags, ptr, k, stage, v>>
        /\ (Nack' <=> Nack)
    BY <1>3 DEF ByteReceived, driver, Nack
  <2>2. Reads(bus)
    BY <1>0, <2>1 DEF BusKinds
  <2>3. bus' = [bus EXCEPT !.st = "stop"] /\ pending' = pending
    BY <2>1, <2>2 DEF AfterLast, Reads
  <2>4. bus'.st = "stop"
    BY <1>0, <1>b, <2>1, <2>3, MovedBus DEF WireTypes
  <2>5. stage = "rx" /\ pending = NONE /\ ptr = Asked /\ ~Nack
    BY <1>0, <2>1, <2>2, KindsApart DEF BetweenTransfers, Reading, WritingInv, Quiet, Sending, Stages
  <2>6. Asked' = Asked
    BY <2>1, KindsApart
  <2>7. BetweenTransfers' /\ Reading' /\ WritingInv' /\ ~Sending'
    BY <1>0, <2>1, <2>3, <2>4, <2>5, <2>6 DEF BetweenTransfers, Reading, WritingInv, Quiet, Sending
  <2>8. SendingInv' /\ VoltagesKept'
    BY <1>0, <2>1, <2>7, SendingKept
  <2> QED BY <2>7, <2>8 DEF Together
<1>4. CASE Stopped
  <2>1. /\ bus.st = "stop" /\ flags' = flags \cup {"STOPF"} /\ pending' = NONE /\ UNCHANGED <<regs, rxdr, ptr, k, stage, v>>
        /\ (pending = NONE /\ bus'.st = "idle") \/ (pending # NONE /\ bus' = pending /\ bus'.st = "addr" /\ bus'.sent = 0)
    BY <1>0, <1>4 DEF Stopped, driver, WireTypes
  <2>2. (Nack' <=> Nack) /\ Asked' = Asked /\ ~Sending'
    BY <2>1, KindsApart DEF Nack, Sending
  <2>3. BetweenTransfers'
    BY <1>0, <2>1, <2>2 DEF BetweenTransfers, Quiet, Sending
  <2>4. Reading'
    BY <1>0, <2>1, <2>2 DEF Reading, Quiet
  <2>5. WritingInv'
    BY <1>0, <2>1, <2>2 DEF WritingInv, Quiet, Sending
  <2>6. SendingInv' /\ VoltagesKept'
    BY <1>0, <2>1, <2>2, SendingKept
  <2> QED BY <2>3, <2>4, <2>5, <2>6 DEF Together
<1>5. CASE Nacked /\ ~Stopped /\ ~ByteReceived
  BY <1>f, <1>5 DEF Addressed, ByteSent
<1> QED BY <1>1, <1>2, <1>3, <1>4, <1>5

LEMMA ValueGoesOut ==
  ASSUME PmicTypes, Together, WriteValue, ~GivesUp("TXIS")
  PROVE  /\ stage = "write_val" /\ stage' = "write_stop" /\ UNCHANGED <<regs, k, err>> /\ k' \in 1 .. Updates
         /\ Carries(k)' /\ Sending' /\ ~Nack' /\ pending' = NONE /\ rxdr' = NONE
<1>0. WireTypes /\ DriverTypes /\ Reading /\ WritingInv
  BY DEF PmicTypes, Together
<1>1. /\ stage = "write_val" /\ stage' = "write_stop" /\ ~Nack /\ UNCHANGED <<k, err, flags, regs, ptr, pending, rxdr, v>>
      /\ bus.st = "txis" /\ bus' = [bus EXCEPT !.st = "byte", !.tx = AsValue(Updated)]
  BY Tries DEF Continues
<1>2. pending = NONE /\ Writes(bus) /\ bus.sent = 1 /\ ptr = Asked /\ rxdr = NONE /\ v = regs[Asked]
  BY <1>0, <1>1 DEF WritingInv, Reading, Quiet
<1>3. v \in Value /\ k \in 1 .. Updates
  BY <1>0, <1>1 DEF DriverTypes, Writing
<1>4. AsValue(Updated) \in SUBSET Byte /\ Updated = [regs[ptr] EXCEPT ![Rail(k).field] = Rail(k).val]
  BY <1>2, <1>3, UpdatedIs, BytesAre
<1>5. bus'.st = "byte" /\ Writes(bus') /\ bus'.sent = 1 /\ bus'.tx = AsValue(Updated)
  <2>1. "byte" \in BusStates
    BY DEF BusStates
  <2> QED BY <1>0, <1>1, <1>2, <1>4, <2>1, MovedBus DEF WireTypes
<1>6. ptr = Rail(k).reg
  BY <1>0, <1>2, <1>3, AskedIs DEF DriverTypes
<1>7. ptr' = Rail(k').reg /\ bus'.tx = AsValue([regs'[ptr'] EXCEPT ![Rail(k').field] = Rail(k').val])
  <2>1. k' = k /\ ptr' = ptr /\ regs' = regs
    BY <1>1
  <2> QED BY <1>4, <1>5, <1>6, <2>1
<1> QED BY <1>1, <1>2, <1>3, <1>5, <1>7 DEF Carries, Nack, Sending

LEMMA DriverInStep ==
  ASSUME PmicTypes, Together, Aligned',
         \/ ReadPhase1 \/ ReadRegister \/ ReadPhase2 \/ ReadValue \/ ReadDone
         \/ WriteStart \/ WriteRegister \/ WriteValue \/ WriteDone \/ cmd_pmic
  PROVE  Together'
<1>0. WireTypes /\ BusKinds /\ DriverTypes /\ BetweenTransfers /\ Reading /\ WritingInv /\ SendingInv /\ VoltagesKept
  BY DEF PmicTypes, Together
<1>b. "byte" \in BusStates /\ AsRegister(Asked) \in SUBSET Byte
  BY <1>0, AskedIs, BytesAre DEF BusStates, DriverTypes
(* What is left behind between two transfers.                               *)
<1>n. ASSUME stage' \in {"read", "done", "reg"}, UNCHANGED <<regs, ptr>>, rxdr' = NONE, Nack' => Nack,
             pending' = NONE \/ Points(pending'),
             \/ bus' = bus /\ (Quiet \/ Sending \/ (Points(bus) /\ bus.st \in {"addr", "txis"}))
             \/ bus'.st = "addr" /\ Points(bus')
      PROVE  Together'
  <2>1. bus' = bus \/ ~Sending'
    BY <1>n DEF Sending
  <2>2. SendingInv' /\ VoltagesKept'
    BY <1>0, <1>n, <2>1, SendingKept
  <2>3. BetweenTransfers'
    BY <1>n DEF BetweenTransfers, Quiet, Sending
  <2>4. Reading' /\ WritingInv'
    BY <1>n DEF Reading, WritingInv
  <2> QED BY <2>2, <2>3, <2>4 DEF Together
<1>g. ASSUME NEW flag, GivesUp(flag), stage \in {"reg", "tc", "rx", "write_reg", "write_val"},
             flag = (CASE stage = "tc" -> "TC" [] stage = "rx" -> "RXNE" [] OTHER -> "TXIS")
      PROVE  Together'
  <2>1. /\ stage' \in {"read", "done"} /\ UNCHANGED <<regs, ptr, bus, pending, rxdr>>
        /\ \/ Nack /\ flags' = flags \ {"NACKF"}
           \/ ~Nack /\ flags' = flags /\ ~Present(flag) /\ bus.st \in {"txis", "tc", "idle"}
    BY <1>g, GaveUp
  <2>2. Nack' => Nack
    BY <2>1 DEF Nack
  <2>3. CASE stage = "reg"
    BY <1>0, <1>n, <2>1, <2>2, <2>3 DEF BetweenTransfers, Reading
  <2>4. CASE stage = "tc"
    <3>1. ~Nack => bus.st # "tc"
      BY <1>g, <2>1, <2>4 DEF Present
    <3>2. Quiet \/ (Points(bus) /\ bus.st \in {"addr", "txis"})
      BY <1>0, <2>1, <2>4, <3>1 DEF Reading
    <3> QED BY <1>0, <1>n, <2>1, <2>2, <2>4, <3>2 DEF Reading
  <2>5. CASE stage = "rx"
    <3>1. ~Nack => rxdr = NONE
      BY <1>g, <2>1, <2>5 DEF Present
    <3>2. rxdr = NONE /\ pending = NONE
      BY <1>0, <2>5, <3>1 DEF Reading
    <3>3. Quiet
      BY <1>0, <2>1, <2>5, KindsApart DEF Reading, Quiet, BusKinds
    <3> QED BY <1>n, <2>1, <2>2, <3>2, <3>3
  <2>6. CASE stage = "write_reg"
    <3>1. ~Nack => bus.st # "txis"
      BY <1>g, <2>1, <2>6 DEF Present
    <3>2. pending = NONE /\ Quiet
      BY <1>0, <2>1, <2>6, <3>1 DEF WritingInv
    <3>3. rxdr = NONE
      BY <1>0, <2>6 DEF Reading
    <3> QED BY <1>n, <2>1, <2>2, <3>2, <3>3
  <2>7. CASE stage = "write_val"
    <3>1. ~Nack => bus.st # "txis"
      BY <1>g, <2>1, <2>7 DEF Present
    <3>2. pending = NONE /\ Quiet
      BY <1>0, <2>1, <2>7, <3>1 DEF WritingInv, BusKinds, Quiet
    <3>3. rxdr = NONE
      BY <1>0, <2>7 DEF Reading
    <3> QED BY <1>n, <2>1, <2>2, <3>2, <3>3
  <2> QED BY <1>g, <2>3, <2>4, <2>5, <2>6, <2>7
(* A wait for STOPF that ends an update or a row.                           *)
<1>w. ASSUME NextUpdate(FALSE), flags' = flags \ {"STOPF"}, UNCHANGED <<regs, bus, pending, rxdr, ptr>>,
             pending = NONE, rxdr = NONE, Quiet \/ Sending
      PROVE  Together'
  <2>1. stage' \in {"read", "done"} /\ (Nack' => Nack)
    <3>1. FALSE \in BOOLEAN
      OBVIOUS
    <3> QED BY <1>0, <1>w, <3>1, NextUpdateIs DEF Nack
  <2> QED BY <1>n, <1>w, <2>1
<1>1. CASE ReadPhase1
  <2>1. PICK c : c \in Transfer /\ c.st = "addr" /\ c # NONE /\ Points(c) /\ Started(c)
    <3>1. Started(Cr2(FALSE, 1, FALSE))
      BY <1>1 DEF ReadPhase1
    <3> QED BY <3>1, Cr2Is DEF Points
  <2>2. stage = "read" /\ stage' = "reg" /\ UNCHANGED <<regs, flags, rxdr, ptr>> /\ (Nack' => Nack)
    BY <1>1 DEF ReadPhase1, Proceed, Nack
  <2>3. \/ bus' = c /\ pending' = pending
        \/ pending' = c /\ bus' = bus
    BY <2>1 DEF Started
  <2>4. /\ rxdr = NONE /\ (pending = NONE \/ Points(pending))
        /\ Quiet \/ Sending \/ (Points(bus) /\ bus.st \in {"addr", "txis"})
    BY <1>0, <2>2 DEF BetweenTransfers, Reading
  <2> QED BY <1>n, <2>1, <2>2, <2>3, <2>4
<1>2. CASE ReadRegister
  <2>1. CASE GivesUp("TXIS")
    BY <1>2, <1>g, <2>1, Tries
  <2>2. CASE ~GivesUp("TXIS")
    <3>1. /\ stage = "reg" /\ stage' = "tc" /\ ~Nack /\ UNCHANGED <<k, flags, regs, ptr, pending, rxdr>>
          /\ bus.st = "txis" /\ bus' = [bus EXCEPT !.st = "byte", !.tx = AsRegister(Asked)]
      BY <1>2, <2>2, Tries DEF Continues
    <3>2. (pending = NONE \/ Points(pending)) /\ Points(bus) /\ rxdr = NONE
      BY <1>0, <3>1 DEF BetweenTransfers, Reading, Quiet, Sending
    <3>3. bus'.st = "byte" /\ Points(bus') /\ bus'.tx = AsRegister(Asked)
      BY <1>0, <1>b, <3>1, <3>2, MovedBus DEF WireTypes
    <3>4. ~Sending' /\ Asked' = Asked /\ ~Nack'
      BY <3>1, <3>3, KindsApart DEF Sending, Nack
    <3>5. BetweenTransfers' /\ Reading' /\ WritingInv'
      BY <3>1, <3>2, <3>3, <3>4 DEF BetweenTransfers, Reading, WritingInv
    <3> QED BY <1>0, <3>1, <3>4, <3>5, SendingKept DEF Together
  <2> QED BY <2>1, <2>2
<1>3. CASE ReadPhase2
  <2>1. CASE GivesUp("TC")
    BY <1>3, <1>g, <2>1, Tries
  <2>2. CASE ~GivesUp("TC")
    <3>1. /\ stage = "tc" /\ stage' = "rx" /\ ~Nack /\ UNCHANGED <<k, flags, regs, ptr, pending, rxdr>>
          /\ bus.st = "tc" /\ bus' = Cr2(TRUE, 1, TRUE)
      BY <1>3, <2>2, Tries DEF Continues
    <3>2. pending = NONE /\ ptr = Asked /\ rxdr = NONE
      BY <1>0, <3>1 DEF Reading
    <3>3. bus'.st = "addr" /\ Reads(bus')
      BY <3>1, Cr2Is DEF Reads
    <3>4. ~Sending' /\ Asked' = Asked /\ ~Nack'
      BY <3>1, <3>3, KindsApart DEF Sending, Nack
    <3>5. BetweenTransfers' /\ Reading' /\ WritingInv'
      BY <3>1, <3>2, <3>3, <3>4 DEF BetweenTransfers, Reading, WritingInv
    <3> QED BY <1>0, <3>1, <3>4, <3>5, SendingKept DEF Together
  <2> QED BY <2>1, <2>2
<1>4. CASE ReadValue
  <2>1. CASE GivesUp("RXNE")
    BY <1>4, <1>g, <2>1, Tries
  <2>2. CASE ~GivesUp("RXNE")
    <3>1. /\ stage = "rx" /\ stage' = "read_stop" /\ ~Nack /\ UNCHANGED <<k, flags, regs, ptr, bus, pending>>
          /\ rxdr # NONE /\ v' = rxdr /\ rxdr' = NONE
      BY <1>4, <2>2, Tries DEF Continues
    <3>2. pending = NONE /\ Quiet /\ rxdr = regs[Asked]
      BY <1>0, <3>1 DEF Reading
    <3>3. Asked' = Asked /\ ~Nack' /\ (Quiet' <=> Quiet) /\ ~Sending
      BY <3>1, <3>2, KindsApart DEF Nack, Quiet, Sending
    <3>4. BetweenTransfers' /\ Reading' /\ WritingInv'
      BY <3>1, <3>2, <3>3 DEF BetweenTransfers, Reading, WritingInv
    <3> QED BY <1>0, <3>1, <3>3, <3>4, SendingKept DEF Together
  <2> QED BY <2>1, <2>2
<1>5. CASE ReadDone
  <2>1. /\ stage = "read_stop" /\ flags' = flags \ {"STOPF"} /\ UNCHANGED <<regs, bus, pending, rxdr, ptr, v>>
        /\ IF k \in 1 .. Updates THEN Proceed("write") ELSE NextUpdate(FALSE)
    BY <1>5 DEF ReadDone, wait_stop
  <2>2. pending = NONE /\ Quiet /\ ~Nack /\ rxdr = NONE /\ v = regs[Asked]
    BY <1>0, <2>1 DEF Reading, WritingInv
  <2>3. CASE NextUpdate(FALSE)
    BY <1>w, <2>1, <2>2, <2>3
  <2>4. CASE Proceed("write")
    <3>1. stage' = "write" /\ Asked' = Asked /\ ~Nack' /\ Quiet'
      BY <2>1, <2>2, <2>4, KindsApart DEF Proceed, Nack, Quiet
    <3>2. BetweenTransfers' /\ Reading' /\ WritingInv'
      BY <2>1, <2>2, <3>1 DEF BetweenTransfers, Reading, WritingInv
    <3> QED BY <1>0, <2>1, <3>1, <3>2, SendingKept DEF Together
  <2> QED BY <2>1, <2>3, <2>4
<1>6. CASE WriteStart
  <2>1. PICK c : c \in Transfer /\ c.st = "addr" /\ c.sent = 0 /\ c # NONE /\ Writes(c) /\ Started(c)
    <3>1. Started(Cr2(FALSE, 2, TRUE))
      BY <1>6 DEF WriteStart
    <3> QED BY <3>1, Cr2Is DEF Writes
  <2>2. /\ stage = "write" /\ stage' = "write_reg" /\ UNCHANGED <<regs, flags, rxdr, ptr, v, k>>
        /\ (Nack' <=> Nack) /\ Asked' = Asked
    BY <1>6, KindsApart DEF WriteStart, Proceed, Nack
  <2>3. pending = NONE /\ Quiet /\ ~Nack /\ rxdr = NONE /\ v = regs[Asked]
    BY <1>0, <2>2 DEF Reading, WritingInv
  <2>4. \/ bus' = c /\ pending' = pending
        \/ pending' = c /\ bus' = bus /\ bus.st = "stop"
    BY <2>1, <2>3 DEF Started, Quiet
  <2>5. BetweenTransfers' /\ Reading' /\ WritingInv'
    BY <2>1, <2>2, <2>3, <2>4 DEF BetweenTransfers, Reading, WritingInv
  <2>6. bus' = bus \/ ~Sending'
    BY <2>1, <2>4 DEF Sending
  <2> QED BY <1>0, <2>2, <2>5, <2>6, SendingKept DEF Together
<1>7. CASE WriteRegister
  <2>1. CASE GivesUp("TXIS")
    BY <1>7, <1>g, <2>1, Tries
  <2>2. CASE ~GivesUp("TXIS")
    <3>1. /\ stage = "write_reg" /\ stage' = "write_val" /\ ~Nack /\ UNCHANGED <<k, flags, regs, ptr, pending, rxdr, v>>
          /\ bus.st = "txis" /\ bus' = [bus EXCEPT !.st = "byte", !.tx = AsRegister(Asked)]
      BY <1>7, <2>2, Tries DEF Continues
    <3>2. pending = NONE /\ Writes(bus) /\ bus.sent = 0 /\ rxdr = NONE /\ v = regs[Asked]
      BY <1>0, <3>1 DEF WritingInv, Reading, Quiet
    <3>3. bus'.st = "byte" /\ Writes(bus') /\ bus'.sent = 0 /\ bus'.tx = AsRegister(Asked)
      BY <1>0, <1>b, <3>1, <3>2, MovedBus DEF WireTypes
    <3>4. ~Sending' /\ Asked' = Asked /\ ~Nack' /\ ~Quiet'
      BY <3>1, <3>3, KindsApart DEF Sending, Nack, Quiet
    <3>5. BetweenTransfers' /\ Reading' /\ WritingInv'
      BY <3>1, <3>2, <3>3, <3>4 DEF BetweenTransfers, Reading, WritingInv
    <3> QED BY <1>0, <3>1, <3>4, <3>5, SendingKept DEF Together
  <2> QED BY <2>1, <2>2
<1>8. CASE WriteValue
  <2>1. CASE GivesUp("TXIS")
    BY <1>8, <1>g, <2>1, Tries
  <2>2. CASE ~GivesUp("TXIS")
    <3>1. /\ stage' = "write_stop" /\ regs' = regs /\ Carries(k)' /\ Sending' /\ ~Nack' /\ k' \in 1 .. Updates
          /\ pending' = NONE /\ rxdr' = NONE
      BY <1>8, <2>2, ValueGoesOut
    <3>2. SendingInv'
      BY <3>1 DEF SendingInv
    <3>3. VoltagesKept'
      BY <1>0, <3>1 DEF VoltagesKept
    <3>4. BetweenTransfers' /\ Reading' /\ WritingInv'
      BY <3>1 DEF BetweenTransfers, Reading, WritingInv
    <3> QED BY <3>2, <3>3, <3>4 DEF Together
  <2> QED BY <2>1, <2>2
<1>9. CASE WriteDone
  <2>1. /\ stage = "write_stop" /\ flags' = flags \ {"STOPF"} /\ UNCHANGED <<regs, bus, pending, rxdr, ptr>>
        /\ NextUpdate(FALSE)
    BY <1>9 DEF WriteDone, wait_stop
  <2>2. pending = NONE /\ rxdr = NONE /\ (Quiet \/ Sending)
    BY <1>0, <2>1 DEF Reading, WritingInv
  <2> QED BY <1>w, <2>1, <2>2
<1>10. CASE cmd_pmic
  <2>1. stage = "done" /\ stage' = "read" /\ UNCHANGED <<regs, bus, pending, flags, rxdr, ptr>> /\ (Nack' => Nack)
    BY <1>10 DEF cmd_pmic, wires, Nack
  <2>2. /\ rxdr = NONE /\ (pending = NONE \/ Points(pending))
        /\ Quiet \/ Sending \/ (Points(bus) /\ bus.st \in {"addr", "txis"})
    BY <1>0, <2>1 DEF BetweenTransfers, Reading
  <2> QED BY <1>n, <2>1, <2>2
<1> QED BY <1>1, <1>2, <1>3, <1>4, <1>5, <1>6, <1>7, <1>8, <1>9, <1>10

-----------------------------------------------------------------------------
(* RAILS OK.                                                                *)

LEMMA ValueSets ==
  ASSUME PmicTypes, NEW i \in 1 .. Updates,
         regs' = [regs EXCEPT ![Rail(i).reg] = [regs[Rail(i).reg] EXCEPT ![Rail(i).field] = Rail(i).val]]
  PROVE  IsSet(i)' /\ \A j \in 1 .. Updates : IsSet(j) => IsSet(j)'
<1>1. regs \in [Reg -> Value] /\ Rail(i).reg \in Reg /\ regs[Rail(i).reg] \in Value
  BY RailsAre DEF PmicTypes, WireTypes
<1>2. /\ regs'[Rail(i).reg] = [regs[Rail(i).reg] EXCEPT ![Rail(i).field] = Rail(i).val]
      /\ \A r \in Reg : r # Rail(i).reg => regs'[r] = regs[r]
  BY <1>1
<1>3. \/ Rail(i).field = "en" /\ Rail(i).val = 1
      \/ Rail(i).field = "volt" /\ Rail(i).val = Set
  BY RailsAre
<1>4. regs'[Rail(i).reg][Rail(i).field] = Rail(i).val
  BY <1>1, <1>2, <1>3 DEF Value
<1>5. /\ Rail(i).field = "en" => regs'[Rail(i).reg].volt = regs[Rail(i).reg].volt
      /\ Rail(i).field = "volt" => regs'[Rail(i).reg].en = regs[Rail(i).reg].en
  BY <1>1, <1>2 DEF Value
<1>6. ASSUME NEW j \in 1 .. Updates, regs[Rail(j).reg][Rail(j).field] = Rail(j).val
      PROVE  regs'[Rail(j).reg][Rail(j).field] = Rail(j).val
  <2>1. Rail(j).reg \in Reg /\ \/ Rail(j).field = "en" /\ Rail(j).val = 1
                               \/ Rail(j).field = "volt" /\ Rail(j).val = Set
    BY RailsAre
  <2>2. CASE Rail(j).reg # Rail(i).reg
    BY <1>2, <1>6, <2>1, <2>2
  <2>3. CASE Rail(j).reg = Rail(i).reg /\ Rail(j).field = Rail(i).field
    BY <1>3, <1>4, <2>1, <2>3
  <2>4. CASE Rail(j).reg = Rail(i).reg /\ Rail(j).field # Rail(i).field
    BY <1>3, <1>5, <1>6, <2>1, <2>4
  <2> QED BY <2>2, <2>3, <2>4
<1> QED BY <1>4, <1>6 DEF IsSet

LEMMA SetKept ==
  ASSUME regs' = regs
  PROVE  \A i \in 1 .. Updates : /\ IsSet(i)' <=> IsSet(i)
                                 /\ ptr' = ptr /\ bus' = bus /\ Carries(i) => Carries(i)'
<1>1. ASSUME NEW i \in 1 .. Updates PROVE IsSet(i)' <=> IsSet(i)
  BY DEF IsSet
<1>2. ASSUME NEW i \in 1 .. Updates, ptr' = ptr, bus' = bus, Carries(i) PROVE Carries(i)'
  BY <1>2 DEF Carries
<1> QED BY <1>1, <1>2

(* The wires, while the updates go on and after RAILS OK.                   *)
LEMMA BusKeepsSet ==
  ASSUME PmicTypes, StepInv, SetInv, Addressed \/ ByteSent \/ ByteReceived \/ Stopped
  PROVE  SetInv'
<1>0. WireTypes /\ BusKinds
  BY DEF PmicTypes
<1>b. "txis" \in BusStates /\ "rx" \in BusStates /\ "tc" \in BusStates /\ "stop" \in BusStates /\ {} \in SUBSET Byte
  BY DEF BusStates
<1>1. UNCHANGED <<k, stage, err>> /\ (Nack => Nack')
  <2>1. CASE Nacked
    BY <2>1 DEF Nacked, driver, Nack
  <2>2. CASE ~Nacked
    <3>1. CASE Addressed
      BY <2>2, <3>1 DEF Addressed, driver, Nack
    <3>2. CASE ByteSent
      <4>1. UNCHANGED <<driver, flags>>
        BY <2>2, <3>2, Zenon DEF ByteSent
      <4> QED BY <4>1 DEF driver, Nack
    <3>3. CASE ByteReceived
      BY <3>3 DEF ByteReceived, driver, Nack
    <3>4. CASE Stopped
      BY <3>4 DEF Stopped, driver, Nack
    <3> QED BY <3>1, <3>2, <3>3, <3>4
  <2> QED BY <2>1, <2>2
<1>2. RailsOk' <=> RailsOk
  BY <1>1 DEF RailsOk
(* Nothing is written but the value that is sent.                           *)
<1>3. CASE Sending /\ ByteSent /\ ~Nacked
  <2>1. ASSUME NEW i \in 1 .. Updates, Carries(i)
        PROVE  /\ ~Sending' /\ bus'.st = "stop" /\ pending' = pending
               /\ IsSet(i)' /\ \A j \in 1 .. Updates : IsSet(j) => IsSet(j)'
    <3>1. /\ regs' = [regs EXCEPT ![Rail(i).reg] = [regs[Rail(i).reg] EXCEPT ![Rail(i).field] = Rail(i).val]]
          /\ bus' = [bus EXCEPT !.st = "stop"] /\ pending' = pending
      BY <1>3, <2>1, ValueSent
    <3>2. bus'.st = "stop"
      BY <1>0, <1>3, <1>b, <3>1, MovedBus DEF Sending, WireTypes
    <3> QED BY <3>1, <3>2, ValueSets DEF Sending
  <2>2. CASE ~err /\ stage # "done" /\ k <= Updates
    <3>1. Together /\ UpdatesSet
      BY <2>2 DEF StepInv, Aligned, SetInv
    <3>2. PICK i \in 1 .. Updates : Carries(i)
      BY <1>3, <3>1 DEF Together, SendingInv
    <3>3. ~Sending' /\ \A j \in 1 .. Updates : IsSet(j) => IsSet(j)'
      BY <2>1, <3>2
    <3>4. \A j \in 1 .. Updates : Late(j) => Late(j)'
      BY <1>3, <2>1, <3>3 DEF Late, Carried
    <3>5. UpdatesSet'
      BY <1>1, <3>1, <3>3, <3>4 DEF UpdatesSet
    <3> QED BY <1>1, <2>2, <3>5, RailsAre DEF SetInv, RailsOk, PmicTypes, DriverTypes
  <2>3. CASE RailsOk
    <3>1. RailsSet /\ bus.st = "byte" /\ Writes(bus)
      BY <1>3, <2>3 DEF SetInv, RailsOk, Sending
    <3>2. Carries(Updates) /\ Updates \in 1 .. Updates
      BY <3>1, RailsAre DEF RailsSet
    <3>3. RailsSet'
      BY <2>1, <3>1, <3>2, RailsAre DEF RailsSet
    <3> QED BY <1>1, <2>3, <3>3, RailsAre DEF SetInv, RailsOk, PmicTypes, DriverTypes
  <2>4. CASE err
    BY <1>1, <2>4 DEF SetInv
  <2> QED BY <2>2, <2>3, <2>4, RailsAre DEF RailsOk, PmicTypes, DriverTypes
<1>4. CASE ~(Sending /\ ByteSent /\ ~Nacked)
  <2>1. /\ UNCHANGED regs /\ ~Sending' /\ (Sending => Nack')
        /\ ~Writes(bus) \/ bus.st = "stop" \/ Sending \/ bus.st = "idle" =>
             (bus'.st # "idle" /\ Writes(bus') => bus'.st = "stop" \/ (pending # NONE /\ bus' = pending))
        /\ pending' = pending \/ pending' = NONE
    <3>1. CASE Nacked
      <4>1. bus' = [bus EXCEPT !.st = "stop"] /\ UNCHANGED <<regs, pending>> /\ Nack' /\ bus.st # "idle"
        <5>1. bus.st \in {"addr", "byte"}
          <6>0. nacks \in Nat
            BY DEF PmicTypes, DriverTypes
          <6>1. CASE Addressed
            BY <6>1 DEF Addressed
          <6>2. CASE ByteSent
            BY <6>2 DEF ByteSent
          <6>3. CASE ByteReceived
            BY <3>1, <6>0, <6>3 DEF ByteReceived, Nacked
          <6>4. CASE Stopped
            BY <3>1, <6>0, <6>4 DEF Stopped, Nacked
          <6> QED BY <6>1, <6>2, <6>3, <6>4
        <5> QED BY <3>1, <5>1 DEF Nacked, Nack
      <4>2. bus'.st = "stop"
        BY <1>0, <1>b, <4>1, MovedBus DEF WireTypes
      <4> QED BY <4>1, <4>2 DEF Sending
    <3>2. CASE Addressed /\ ~Nacked
      <4>1. PICK s \in {"rx", "txis"} : bus' = [bus EXCEPT !.st = s]
        BY <3>2 DEF Addressed
      <4>2. bus.st = "addr" /\ UNCHANGED <<regs, pending>>
        BY <3>2 DEF Addressed
      <4>3. bus'.st = s /\ (Writes(bus') <=> Writes(bus))
        BY <1>0, <1>b, <4>1, <4>2, MovedBus DEF WireTypes
      <4> QED BY <4>2, <4>3 DEF Sending
    <3>3. CASE ByteSent /\ ~Nacked
      <4>1. /\ bus.st = "byte" /\ ~Sending
            /\ \/ bus.sent = 0 /\ regs' = regs
               \/ bus.sent # 0
            /\ \/ bus.sent + 1 = bus.nbytes /\ AfterLast
               \/ /\ bus.sent + 1 # bus.nbytes /\ bus' = [bus EXCEPT !.st = "txis", !.sent = 1]
                  /\ pending' = pending
        BY <1>4, <3>3, Zenon DEF ByteSent
      <4>2. Points(bus) \/ (Writes(bus) /\ bus.sent = 0)
        BY <1>0, <4>1 DEF BusKinds, WireTypes, Transfer, Sending
      <4>3. CASE Points(bus)
        <5>1. regs' = regs /\ AfterLast /\ ~bus.autoend
          BY <4>1, <4>3 DEF Points
        <5>2. \/ bus' = pending /\ pending' = NONE /\ pending # NONE
              \/ bus' = [bus EXCEPT !.st = "tc"] /\ pending' = pending
          BY <5>1 DEF AfterLast
        <5>3. CASE bus' = pending /\ pending' = NONE /\ pending # NONE
          BY <1>0, <4>1, <5>1, <5>3 DEF WireTypes, Sending
        <5>4. CASE bus' = [bus EXCEPT !.st = "tc"] /\ pending' = pending
          <6>1. bus'.st = "tc" /\ (Writes(bus') <=> Writes(bus))
            BY <1>0, <1>b, <4>1, <5>4, MovedBus DEF WireTypes
          <6> QED BY <4>1, <4>3, <5>1, <5>4, <6>1, KindsApart DEF Sending
        <5> QED BY <5>2, <5>3, <5>4
      <4>4. CASE Writes(bus) /\ bus.sent = 0
        <5>1. bus' = [bus EXCEPT !.st = "txis", !.sent = 1] /\ pending' = pending /\ regs' = regs
          BY <4>1, <4>4 DEF Writes
        <5>2. bus'.st = "txis"
          BY <1>0, <1>b, <4>1, <5>1, MovedBus DEF WireTypes
        <5> QED BY <4>1, <4>4, <5>1, <5>2 DEF Sending
      <4> QED BY <4>2, <4>3, <4>4
    <3>4. CASE ByteReceived
      <4>1. bus.st = "rx" /\ AfterLast /\ regs' = regs
        BY <3>4 DEF ByteReceived
      <4>2. Reads(bus)
        BY <1>0, <4>1 DEF BusKinds
      <4>3. bus' = [bus EXCEPT !.st = "stop"] /\ pending' = pending
        BY <4>1, <4>2 DEF AfterLast, Reads
      <4>4. bus'.st = "stop"
        BY <1>0, <1>b, <4>1, <4>3, MovedBus DEF WireTypes
      <4> QED BY <4>1, <4>3, <4>4 DEF Sending
    <3>5. CASE Stopped
      <4>1. /\ bus.st = "stop" /\ pending' = NONE /\ regs' = regs
            /\ (pending = NONE /\ bus'.st = "idle") \/ (pending # NONE /\ bus' = pending /\ bus'.st = "addr")
        BY <1>0, <3>5 DEF Stopped, WireTypes
      <4> QED BY <4>1 DEF Sending
    <3> QED BY <3>1, <3>2, <3>3, <3>4, <3>5
  <2>2. CASE ~err /\ stage # "done" /\ k <= Updates
    <3>1. UpdatesSet
      BY <2>2 DEF SetInv
    <3>2. \A j \in 1 .. Updates : (IsSet(j) => IsSet(j)') /\ (Late(j) => Late(j)')
      BY <1>1, <2>1, SetKept DEF Late, Carried
    <3>3. UpdatesSet'
      BY <1>1, <3>1, <3>2 DEF UpdatesSet
    <3> QED BY <1>1, <2>2, <3>3, RailsAre DEF SetInv, RailsOk, PmicTypes, DriverTypes
  <2>3. CASE RailsOk
    <3>1. RailsSet
      BY <2>3 DEF SetInv, RailsOk
    <3>2. ~Writes(bus) \/ bus.st = "stop" \/ Sending \/ bus.st = "idle"
      BY <3>1 DEF RailsSet
    <3>3. RailsSet'
      BY <2>1, <3>1, <3>2, SetKept, RailsAre DEF RailsSet
    <3> QED BY <1>1, <2>3, <3>3, RailsAre DEF SetInv, RailsOk, PmicTypes, DriverTypes
  <2>4. CASE err
    BY <1>1, <2>4 DEF SetInv
  <2> QED BY <2>2, <2>3, <2>4, RailsAre DEF RailsOk, PmicTypes, DriverTypes
<1> QED BY <1>3, <1>4

(* The driver: an update that fails leaves RAILS OK out, and what follows   *)
(* RAILS OK only reads.                                                     *)
LEMMA DriverKeepsSet ==
  ASSUME PmicTypes, StepInv, SetInv,
         \/ ReadPhase1 \/ ReadRegister \/ ReadPhase2 \/ ReadValue \/ ReadDone
         \/ WriteStart \/ WriteRegister \/ WriteValue \/ WriteDone \/ cmd_pmic
  PROVE  SetInv'
<1> SUFFICES ASSUME ~err' PROVE (stage' # "done" /\ k' <= Updates => UpdatesSet') /\ (RailsOk' => RailsSet')
  BY DEF SetInv
<1>0. /\ WireTypes /\ BusKinds /\ DriverTypes /\ Updates \in Nat /\ Updates >= 4 /\ Rows \in Nat
      /\ k \in 0 .. Updates + 2 * Rows
  BY RailsAre DEF PmicTypes, DriverTypes
<1>1. ~err
  <2>1. CASE UNCHANGED driver
    BY <2>1 DEF driver
  <2>2. CASE \E failed \in BOOLEAN : NextUpdate(failed)
    BY <1>0, <2>2, NextUpdateIs
  <2>3. CASE err' = err
    BY <2>3
  <2> QED BY <2>1, <2>2, <2>3, DriverMoves DEF PmicNext
<1>b. "byte" \in BusStates /\ AsRegister(Asked) \in SUBSET Byte /\ TRUE \in BOOLEAN /\ FALSE \in BOOLEAN
  BY <1>0, AskedIs, BytesAre DEF BusStates, DriverTypes
<1>2. CASE stage # "done" /\ k <= Updates
  <2>0. Together /\ BetweenTransfers /\ Reading /\ WritingInv /\ UpdatesSet
    BY <1>1, <1>2 DEF StepInv, Aligned, SetInv, Together
  <2>e. ASSUME UpdatesSet', UNCHANGED k, stage' # "done" PROVE SetInv'
    BY <1>0, <1>2, <2>e DEF SetInv, RailsOk
  <2>g. \A flag : ~GivesUp(flag)
    <3> SUFFICES ASSUME NEW flag, GivesUp(flag) PROVE FALSE
      OBVIOUS
    <3>1. NextUpdate(TRUE)
      BY DEF GivesUp
    <3> QED BY <1>0, <1>2, <1>b, <3>1, NextUpdateIs
  (* Within the transfers of an update.                                     *)
  <2>m. ASSUME UNCHANGED <<k, regs>>, stage' \in {"tc", "rx", "read_stop", "write", "write_reg", "write_val"},
               stage \notin {"read", "reg"} \/ (~Nack /\ ~Sending)
        PROVE  SetInv'
    <3>1. UpdatesSet'
      <4>1. ASSUME NEW i \in 1 .. Updates, i < k PROVE IsSet(i)
        BY <1>0, <2>0, <2>m, <4>1 DEF UpdatesSet, Late
      <4> QED BY <1>0, <2>m, <4>1, SetKept DEF UpdatesSet
    <3> QED BY <2>e, <2>m, <3>1
  <2>1. CASE ReadPhase1
    <3>1. /\ stage = "read" /\ stage' = "reg" /\ UNCHANGED <<k, regs, ptr, flags>> /\ (Nack' <=> Nack)
          /\ Started(Cr2(FALSE, 1, FALSE))
      BY <2>1 DEF ReadPhase1, Proceed, Nack
    <3>2. bus' = bus \/ (~Sending /\ ~Sending')
      <4>1. \/ bus' = Cr2(FALSE, 1, FALSE) /\ bus.st \in {"idle", "tc"}
            \/ bus' = bus
        BY <3>1 DEF Started
      <4> QED BY <4>1, Cr2Is DEF Sending
    <3>3. Sending' <=> Sending
      BY <3>2 DEF Sending
    <3>4. \A i \in 1 .. Updates : (IsSet(i) => IsSet(i)') /\ (Late(i) => Late(i)')
      BY <3>1, <3>2, <3>3, SetKept DEF Late, Carried
    <3>5. UpdatesSet'
      BY <2>0, <3>1, <3>4 DEF UpdatesSet
    <3> QED BY <2>e, <3>1, <3>5 DEF SetInv
  <2>2. CASE ReadRegister
    <3>1. stage = "reg" /\ stage' = "tc" /\ UNCHANGED <<k, regs>> /\ ~Nack /\ ~Sending
      BY <2>2, <2>g, Tries DEF Continues, Sending
    <3> QED BY <2>m, <3>1 DEF SetInv
  <2>3. CASE ReadPhase2
    <3>1. stage = "tc" /\ stage' = "rx" /\ UNCHANGED <<k, regs>>
      BY <2>3, <2>g, Tries DEF Continues
    <3> QED BY <2>m, <3>1 DEF SetInv
  <2>4. CASE ReadValue
    <3>1. stage = "rx" /\ stage' = "read_stop" /\ UNCHANGED <<k, regs>>
      BY <2>4, <2>g, Tries DEF Continues
    <3> QED BY <2>m, <3>1 DEF SetInv
  <2>5. CASE ReadDone
    <3>1. /\ stage = "read_stop" /\ UNCHANGED <<regs>>
          /\ IF k \in 1 .. Updates THEN Proceed("write") ELSE NextUpdate(FALSE)
      BY <2>5 DEF ReadDone, wait_stop
    <3>2. CASE k \in 1 .. Updates
      <4>1. stage' = "write" /\ k' = k
        BY <3>1, <3>2 DEF Proceed
      <4> QED BY <2>m, <3>1, <4>1 DEF SetInv
    <3>3. CASE k = 0
      <4>1. NextUpdate(FALSE)
        <5>1. k \notin 1 .. Updates
          BY <3>3
        <5> QED BY <3>1, <5>1, Zenon
      <4>2. k' = 1 /\ stage' \in {"read", "done"} /\ (stage' = "done" <=> k' = 0)
        <5>1. k' = k + 1 /\ stage' \in {"read", "done"} /\ (stage' = "done" <=> k' = 0)
          BY <1>0, <1>2, <1>b, <4>1, NextUpdateIs
        <5> QED BY <3>3, <5>1
      <4>3. stage' = "read"
        BY <4>2
      <4> QED BY <1>0, <4>2, <4>3 DEF UpdatesSet, RailsOk
    <3> QED BY <1>0, <1>2, <3>2, <3>3
  <2>6. CASE WriteStart
    <3>1. stage = "write" /\ stage' = "write_reg" /\ UNCHANGED <<k, regs>>
      BY <2>6 DEF WriteStart, Proceed
    <3> QED BY <2>m, <3>1 DEF SetInv
  <2>7. CASE WriteRegister
    <3>1. stage = "write_reg" /\ stage' = "write_val" /\ UNCHANGED <<k, regs>>
      BY <2>7, <2>g, Tries DEF Continues
    <3> QED BY <2>m, <3>1 DEF SetInv
  <2>8. CASE WriteValue
    <3>1. /\ stage = "write_val" /\ stage' = "write_stop" /\ UNCHANGED <<regs, k>> /\ k' \in 1 .. Updates
          /\ Carries(k)' /\ Sending'
      BY <2>8, <2>0, <2>g, ValueGoesOut
    <3>2. Late(k)'
      BY <3>1 DEF Late, Carried
    <3>3. UpdatesSet'
      <4>1. ASSUME NEW i \in 1 .. Updates, i < k PROVE IsSet(i)'
        BY <1>0, <2>0, <3>1, <4>1, SetKept DEF UpdatesSet
      <4>2. ASSUME NEW i \in 1 .. Updates, i = k' PROVE Late(i)'
        BY <3>2, <4>2
      <4> QED BY <1>0, <3>1, <4>1, <4>2 DEF UpdatesSet
    <3> QED BY <2>e, <3>1, <3>3 DEF SetInv
  <2>9. CASE WriteDone
    <3>1. /\ stage = "write_stop" /\ flags' = flags \ {"STOPF"} /\ UNCHANGED <<regs, bus, pending, ptr>>
          /\ NextUpdate(FALSE) /\ (Nack' <=> Nack)
      BY <2>9 DEF WriteDone, wait_stop, Nack
    <3>2. k \in 1 .. Updates /\ k' = k + 1 /\ stage' = "read"
      <4>1. k \in 1 .. Updates
        BY <1>0, <3>1 DEF DriverTypes, Writing
      <4>2. k' = k + 1 /\ stage' \in {"read", "done"} /\ (stage' = "done" <=> k' = 0)
        BY <1>0, <1>2, <1>b, <3>1, NextUpdateIs
      <4> QED BY <1>0, <4>1, <4>2
    <3>3. Sending' <=> Sending
      BY <3>1 DEF Sending
    <3>4. \A i \in 1 .. Updates : (IsSet(i) => IsSet(i)') /\ (Late(i) => Late(i)') /\ (Carries(i) => Carries(i)')
      BY <3>1, <3>3, SetKept DEF Late, Carried
    <3>5. PICK n \in 1 .. Updates : n = k
      BY <3>2
    <3>6. Late(n) /\ Late(n)'
      BY <2>0, <3>1, <3>4, <3>5 DEF UpdatesSet
    <3>7. ASSUME NEW i \in 1 .. Updates, i < k PROVE IsSet(i)'
      <4>1. IsSet(i)
        BY <2>0, <3>1, <3>7 DEF UpdatesSet
      <4> QED BY <3>4, <4>1
    <3>8. UpdatesSet'
      <4>1. ASSUME NEW i \in 1 .. Updates, i = k' - 1 PROVE Late(i)'
        <5>1. i = n
          BY <1>0, <3>2, <3>5, <4>1
        <5> QED BY <3>6, <5>1
      <4>2. ASSUME NEW i \in 1 .. Updates, i < k' - 1 PROVE IsSet(i)'
        BY <1>0, <3>2, <3>7, <4>2
      <4> QED BY <3>2, <4>1, <4>2 DEF UpdatesSet
    <3>9. k = Updates => RailsSet'
      <4> SUFFICES ASSUME k = Updates PROVE RailsSet'
        OBVIOUS
      <4>1. pending' = NONE /\ (Quiet \/ Sending)
        BY <2>0, <3>1 DEF WritingInv
      <4>2. \A i \in 1 .. Updates - 1 : IsSet(i)'
        BY <1>0, <3>7
      <4>3. Sending => Carries(Updates)'
        <5>1. Sending => Carries(Updates)
          BY <3>5, <3>6 DEF Late, Carried
        <5>2. Updates \in 1 .. Updates
          BY <1>0
        <5> QED BY <3>4, <5>1, <5>2
      <4> QED BY <3>1, <3>3, <4>1, <4>2, <4>3 DEF RailsSet, Quiet
    <3> QED BY <1>0, <3>2, <3>8, <3>9 DEF RailsOk
  <2>10. CASE cmd_pmic
    BY <1>2, <2>10 DEF cmd_pmic
  <2> QED BY <2>1, <2>2, <2>3, <2>4, <2>5, <2>6, <2>7, <2>8, <2>9, <2>10
<1>3. CASE ~(stage # "done" /\ k <= Updates)
  <2>0. RailsSet /\ RailsOk /\ stage \notin Writing
    BY <1>0, <1>1, <1>3 DEF SetInv, RailsOk, DriverTypes
  <2>1. stage' = "done" \/ k' > Updates
    <3>1. CASE UNCHANGED driver
      BY <1>0, <1>3, <3>1 DEF driver
    <3>2. CASE stage # "done" /\ \E failed \in BOOLEAN : NextUpdate(failed)
      <4>1. k > Updates
        BY <1>0, <1>3, <3>2
      <4>2. (k' = 0 \/ k' > Updates) /\ (stage' = "done" <=> k' = 0)
        BY <1>0, <3>2, <4>1, NextUpdateIs
      <4> QED BY <4>2
    <3>3. CASE stage # "done" /\ UNCHANGED <<k, err>>
      BY <1>0, <1>3, <3>3
    <3>4. CASE k' = Updates + 1
      BY <1>0, <3>4
    <3> QED BY <3>1, <3>2, <3>3, <3>4, DriverMoves DEF PmicNext
  <2>2. ASSUME RailsSet' PROVE (stage' # "done" /\ k' <= Updates => UpdatesSet') /\ (RailsOk' => RailsSet')
    <3>1. k' \in 0 .. Updates + 2 * Rows
      BY DriverStep DEF DriverTypes, PmicNext
    <3> QED BY <1>0, <2>1, <2>2, <3>1
  <2>3. ASSUME UNCHANGED <<regs, ptr>>,
               bus' = bus \/ (~(bus'.st # "idle" /\ Writes(bus'))),
               pending' = pending \/ ~Writes(pending')
        PROVE  RailsSet'
    <3>1. bus' = bus => (Sending' <=> Sending)
      BY DEF Sending
    <3> QED BY <1>0, <2>0, <2>3, <3>1, SetKept DEF RailsSet
  <2>4. ASSUME NEW flag, GivesUp(flag) PROVE RailsSet'
    BY <2>3, <2>4 DEF GivesUp
  <2>5. CASE ReadPhase1
    <3>1. PICK c : c = Cr2(FALSE, 1, FALSE)
      OBVIOUS
    <3>2. ~Writes(c)
      BY <3>1, Cr2Is DEF Writes
    <3>3. UNCHANGED <<regs, ptr>> /\ Started(c)
      BY <2>5, <3>1 DEF ReadPhase1
    <3> QED BY <2>2, <2>3, <3>2, <3>3 DEF Started
  <2>6. CASE ReadRegister
    <3>1. CASE GivesUp("TXIS")
      BY <2>2, <2>4, <3>1
    <3>2. CASE ~GivesUp("TXIS")
      <4>1. /\ UNCHANGED <<regs, ptr, pending>> /\ bus.st = "txis"
            /\ bus' = [bus EXCEPT !.st = "byte", !.tx = AsRegister(Asked)]
        BY <2>6, <3>2, Tries DEF Continues
      <4>2. ~Writes(bus)
        BY <2>0, <4>1 DEF RailsSet, Sending
      <4>3. ~Writes(bus')
        BY <1>0, <1>b, <4>1, <4>2, MovedBus DEF WireTypes
      <4> QED BY <2>2, <2>3, <4>1, <4>3
    <3> QED BY <3>1, <3>2
  <2>7. CASE ReadPhase2
    <3>1. CASE GivesUp("TC")
      BY <2>2, <2>4, <3>1
    <3>2. CASE ~GivesUp("TC")
      <4>1. UNCHANGED <<regs, ptr, pending>> /\ bus' = Cr2(TRUE, 1, TRUE)
        BY <2>7, <3>2, Tries DEF Continues
      <4>2. ~Writes(bus')
        BY <4>1, Cr2Is DEF Writes
      <4> QED BY <2>2, <2>3, <4>1, <4>2
    <3> QED BY <3>1, <3>2
  <2>8. CASE ReadValue
    <3>1. CASE GivesUp("RXNE")
      BY <2>2, <2>4, <3>1
    <3>2. CASE ~GivesUp("RXNE")
      <4>1. UNCHANGED <<regs, ptr, bus, pending>>
        BY <2>8, <3>2, Tries DEF Continues
      <4> QED BY <2>2, <2>3, <4>1
    <3> QED BY <3>1, <3>2
  <2>9. CASE ReadDone
    <3>1. UNCHANGED <<regs, ptr, bus, pending>>
      BY <2>9 DEF ReadDone
    <3> QED BY <2>2, <2>3, <3>1
  <2>10. CASE WriteStart \/ WriteRegister \/ WriteValue \/ WriteDone
    <3>1. stage \in Writing
      BY <2>10, Tries DEF WriteStart, WriteDone, Writing
    <3> QED BY <2>0, <3>1
  <2>11. CASE cmd_pmic
    <3>1. UNCHANGED <<regs, ptr, bus, pending>>
      BY <2>11 DEF cmd_pmic, wires
    <3> QED BY <2>2, <2>3, <3>1
  <2> QED BY <2>5, <2>6, <2>7, <2>8, <2>9, <2>10, <2>11
<1> QED BY <1>2, <1>3

-----------------------------------------------------------------------------
LEMMA PmicInvInit == PmicInit => PmicInv
<1> SUFFICES ASSUME PmicInit PROVE PmicInv
  OBVIOUS
<1>1. PmicTypes
  BY PmicTypesInit
<1>2. bus.st = "idle" /\ pending = NONE /\ rxdr = NONE /\ k = 0 /\ stage = "read" /\ Updates \in Nat
  BY RailsAre DEF PmicInit
<1>3. VoltagesKept
  <2>1. \A r \in Kept : r \in Reg
    BY KeptApart
  <2>2. \A r \in Reg : regs[r].volt = r
    BY DEF PmicInit
  <2> QED BY <2>1, <2>2, KeptApart
<1>4. Together
  BY <1>2, <1>3 DEF Together, BetweenTransfers, Reading, WritingInv, SendingInv, Quiet, Sending
<1>5. SetInv
  BY <1>2 DEF SetInv, UpdatesSet, RailsOk
<1> QED BY <1>1, <1>4, <1>5 DEF PmicInv, StepInv

LEMMA PmicInvStep == PmicInv /\ [PmicNext]_PmicVars => PmicInv'
<1> SUFFICES ASSUME PmicInv, [PmicNext]_PmicVars PROVE PmicInv'
  OBVIOUS
<1>0. PmicTypes /\ StepInv /\ SetInv
  BY DEF PmicInv
<1>1. CASE PmicNext
  <2>1. PmicTypes'
    BY <1>0, <1>1, WiresStep, DriverStep DEF PmicTypes
  <2>2. StepInv'
    <3> SUFFICES ASSUME Aligned' PROVE Together'
      BY DEF StepInv
    <3>1. Together
      BY <1>0, <1>1, AlignedBefore DEF StepInv
    <3> QED BY <1>0, <1>1, <3>1, BusInStep, DriverInStep DEF PmicNext
  <2>3. SetInv'
    BY <1>0, <1>1, BusKeepsSet, DriverKeepsSet DEF PmicNext
  <2> QED BY <2>1, <2>2, <2>3 DEF PmicInv
<1>2. CASE UNCHANGED PmicVars
  <2>1. UNCHANGED <<regs, bus, pending, flags, rxdr, ptr, k, stage, v, err, nacks, slow>>
    BY <1>2 DEF PmicVars, wires, driver
  <2>2. Asked' = Asked /\ (Quiet' <=> Quiet) /\ (Sending' <=> Sending) /\ (Nack' <=> Nack)
    BY <2>1, KindsApart DEF Quiet, Sending, Nack
  <2>3. PmicTypes'
    BY <1>0, <2>1 DEF PmicTypes, WireTypes, BusKinds, DriverTypes
  <2>4. StepInv'
    <3>1. BetweenTransfers' <=> BetweenTransfers
      BY <2>1, <2>2 DEF BetweenTransfers
    <3>2. Reading' <=> Reading
      BY <2>1, <2>2 DEF Reading
    <3>3. WritingInv' <=> WritingInv
      BY <2>1, <2>2 DEF WritingInv
    <3>4. SendingInv /\ VoltagesKept => SendingInv' /\ VoltagesKept'
      BY <2>1, <2>2, SendingKept
    <3>5. Aligned' <=> Aligned
      BY <2>1 DEF Aligned
    <3> QED BY <1>0, <3>1, <3>2, <3>3, <3>4, <3>5 DEF StepInv, Together
  <2>5. SetInv'
    <3>1. \A i \in 1 .. Updates : /\ IsSet(i) => IsSet(i)'
                                  /\ Carries(i) => Carries(i)'
                                  /\ Late(i) => Late(i)'
      BY <2>1, <2>2, SetKept DEF Late, Carried
    <3>2. UpdatesSet => UpdatesSet'
      BY <2>1, <3>1 DEF UpdatesSet
    <3>3. RailsSet => RailsSet'
      BY <2>1, <2>2, <3>1, RailsAre DEF RailsSet
    <3>4. RailsOk' <=> RailsOk
      BY <2>1 DEF RailsOk
    <3> QED BY <1>0, <2>1, <3>2, <3>3, <3>4 DEF SetInv
  <2> QED BY <2>3, <2>4, <2>5 DEF PmicInv
<1> QED BY <1>1, <1>2

(* Registers, wires and driver keep their kinds: a transfer on the bus is   *)
(* one of three, and what waits behind it is a START.                       *)
THEOREM PmicTypeCorrect == PmicSpec => []PmicTypes
<1>1. PmicInv => PmicTypes
  BY DEF PmicInv
<1> QED BY <1>1, PmicInvInit, PmicInvStep, PTL DEF PmicSpec

(* As long as no wait is given up while the transfer goes on, what a read   *)
(* returned is what the register holds, and the voltages of the always-on   *)
(* rails stay, whatever was not acknowledged (pmic_read() and pmic_update() *)
(* over i2c.c).                                                             *)
THEOREM InStepHolds == PmicSpec => []InStep
<1>1. PmicInv => InStep
  BY DEF PmicInv, StepInv, Aligned, Together, WritingInv, InStep, ReadsTrue
<1> QED BY <1>1, PmicInvInit, PmicInvStep, PTL DEF PmicSpec

(* When pmic_init_rails() says RAILS OK, every update but the last is in    *)
(* the PMIC: also when devices were slow and values were not acknowledged.  *)
THEOREM RailsOkMeansSetHolds == PmicSpec => []RailsOkMeansSet
<1>1. PmicInv => RailsOkMeansSet
  BY DEF PmicInv, SetInv, RailsSet, RailsOk, RailsOkMeansSet, IsSet, Rail
<1> QED BY <1>1, PmicInvInit, PmicInvStep, PTL DEF PmicSpec
=============================================================================
