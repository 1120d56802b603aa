----------------------------- MODULE PhyConfig -----------------------------
(***************************************************************************)
(* What the PHY and its training firmware are told of the one memory this   *)
(* board has: the parameter set that is compiled in, the message block made *)
(* of it for the firmware, and the codes of the drivers' impedances.        *)
(* Left out are parameters of DDR3 and DDR4 only, and obsolete ones.        *)
(***************************************************************************)
EXTENDS Integers, Sequences, FiniteSets

Bits(v, low, high) == (v \div 2^low) % 2^(high - low + 1)

(* stm32mp25-lpddr4-1x32Gbits-1x32bits-1200MHz.h.                           *)
uib ==
  [dramtype |-> 2, dimmtype |-> 4, numdbyte |-> 4, numactive |-> <<2, 2>>, numanib |-> 8, numrank |-> <<1, 1>>,
   dramdatawidth |-> 16, numpstates |-> 1, frequency |-> 1200, pllbypass |-> 0, dfifreqratio |-> 1,
   dfi1exists |-> TRUE, hardmacrover |-> 3]
uia ==
  [lp4rxpreamblemode |-> 0, lp4postambleext |-> 1, is2ttiming |-> 0, extcalresval |-> 0, odtimpedance |-> 53,
   tximpedance |-> 40, atximpedance |-> 40, disdynadrtri |-> 1, phymstrtraininterval |-> 10,
   phymstrmaxreqtoack |-> 5, wdqsext |-> 1, calinterval |-> 9, calonce |-> 0, lp4rl |-> 4, lp4wl |-> 4,
   lp4wls |-> 0, lp4dbird |-> 0, lp4dbiwr |-> 0, lp4nwr |-> 4, drambyteswap |-> 0, disableretraining |-> 0,
   disablephyupdate |-> 1, disableunusedaddrlns |-> 1, phyvref |-> 20, sequencectrl |-> 4895]
uim ==
  [mr1 |-> 196, mr2 |-> 36, mr3 |-> 49, mr4 |-> 0, mr11 |-> 102, mr12 |-> 71, mr13 |-> 8, mr14 |-> 71, mr22 |-> 5]
(* How the board crosses the data lines of a byte, and the address lines of *)
(* a channel.                                                               *)
uis ==
  [dq |-> <<<<3, 2, 0, 1, 6, 7, 5, 4>>, <<5, 4, 7, 6, 0, 3, 2, 1>>, <<5, 7, 6, 4, 0, 1, 3, 2>>, <<7, 4, 5, 6, 2, 3, 1, 0>>>>,
   ca |-> <<<<0, 1, 2, 3, 4, 5>>, <<0, 1, 2, 3, 4, 5>>>>]

Retraining == uia.disableretraining = 0

-----------------------------------------------------------------------------
(* What ddrphy_phyinit_struct.h allows in them.                             *)

user_input_basic ==
  [dramtype : {0, 1, 2}, dimmtype : {4}, numdbyte : Nat, numactive : Nat \X Nat, numanib : Nat, numrank : Nat \X Nat,
   dramdatawidth : {8, 16}, numpstates : {1}, frequency : Nat, pllbypass : {0, 1}, dfifreqratio : {1},
   dfi1exists : BOOLEAN, hardmacrover : {3}]

SignalInputs(a) ==
  /\ {a.lp4rxpreamblemode, a.lp4postambleext, a.is2ttiming, a.wdqsext} \subseteq {0, 1}
  /\ a.extcalresval = 0 /\ a.calinterval = 9 /\ a.calonce = 0 /\ a.disdynadrtri = 1
(* The latencies are given here for the PHY and in the mode registers for   *)
(* the memory: they have to be the same.                                    *)
LatencyInputs(a, m) ==
  /\ a.lp4rl = Bits(m.mr2, 0, 2) /\ a.lp4wl = Bits(m.mr2, 3, 5) /\ a.lp4wls = Bits(m.mr2, 6, 6)
  /\ a.lp4dbird = Bits(m.mr3, 6, 6) /\ a.lp4dbiwr = Bits(m.mr3, 7, 7) /\ a.lp4nwr = Bits(m.mr1, 4, 6)
(* The length of the write postamble is given twice as well, and the two     *)
(* are not the same: see the README.                                        *)
PostambleAgrees(a, m) == a.lp4postambleext = Bits(m.mr3, 1, 1)
SwitchInputs(a) == {a.disableretraining, a.disablephyupdate, a.disableunusedaddrlns} \subseteq {0, 1}
(* No line is routed twice.                                                 *)
user_input_swizzle(s) ==
  /\ \A b \in 1 .. uib.numdbyte : {s.dq[b][i] : i \in 1 .. 8} = 0 .. 7
  /\ \A c \in 1 .. 2 : {s.ca[c][i] : i \in 1 .. 6} = 0 .. 5

-----------------------------------------------------------------------------
(* The codes of the drivers.  A data driver has one for every impedance;    *)
(* those of the address lines, and none else, may have no code.             *)

Thresholds == <<29, 31, 33, 35, 38, 41, 45, 50, 56, 64, 74, 88, 108, 140, 200, 360, 481>>
Codes == <<63, 62, 59, 58, 57, 56, 27, 26, 25, 24, 11, 10, 9, 8, 3, 2, 1>>
HighImpedance == 0
DataCode(ohm) ==
  LET above == {i \in DOMAIN Thresholds : ohm < Thresholds[i]}
  IN  IF ohm = 0 \/ above = {} THEN HighImpedance ELSE Codes[CHOOSE i \in above : \A j \in above : i <= j]
AddressCodes == {<<120, 0>>, <<60, 1>>, <<40, 3>>, <<30, 7>>, <<24, 15>>, <<20, 31>>}

(* The codes a register of this kind may get: none is an error.             *)
mapdrvstren(ohm, target) ==
  CASE target \in {"DRVSTRENFSDQP", "DRVSTRENFSDQN", "ODTSTRENN"} -> {DataCode(ohm)}
    [] target = "ODTSTRENP" -> {HighImpedance}
    [] target = "ADRV" -> {c[2] : c \in {p \in AddressCodes : p[1] = ohm}}

-----------------------------------------------------------------------------
(* The message block.                                                       *)

CsPresent(ranks) == IF ranks = 2 THEN 3 ELSE ranks
GeneralBlock ==
  [pstate |-> 0, sequencectrl |-> uia.sequencectrl, hdtctrl |-> 255, msgmisc |-> 0, dfimrlmargin |-> 2,
   phyvref |-> uia.phyvref, dramfreq |-> 0, pllbypassen |-> 0, dfifreqratio |-> 0, bpznresval |-> 0]
(* ddrphy_phyinit_initstruct(): everything from the parameters, also what   *)
(* ddrphy_phyinit_calcmb() works out anew.                                  *)
ddrphy_phyinit_initstruct ==
  LET rest == [enableddqs |-> [ch \in 1 .. 2 |-> (8 * uib.numactive[ch]) % 256],
               cspresent |-> [ch \in 1 .. 2 |-> CsPresent(uib.numrank[ch])],
               usebroadcastmr |-> 0, lp4misc |-> 0, caterminatingrank |-> <<0, 0>>, lp4quickboot |-> 0, catrainopt |-> 0,
               x8mode |-> 0, share2dvrefresult |-> 1, mr |-> [chrank \in (1 .. 2) \X (0 .. 1) |-> uim]]
  IN  [f \in DOMAIN GeneralBlock \cup DOMAIN rest |-> IF f \in DOMAIN rest THEN rest[f] ELSE GeneralBlock[f]]

(* ddrphy_phyinit_softsetmb(): the value of a field, as wide as it is.      *)
ddrphy_phyinit_softsetmb(mb, f, v) == [mb EXCEPT ![f] = v % (IF f = "dramfreq" THEN 2^16 ELSE 2^8)]

(* ddrphy_phyinit_calcmb(): the finished block, none if the bytes there are *)
(* do not fit together.                                                     *)
calcmb ==
  LET nad == uib.numactive
      mb0 == ddrphy_phyinit_softsetmb(ddrphy_phyinit_initstruct, "pstate", 0)
      mb1 == ddrphy_phyinit_softsetmb(mb0, "dramfreq", 2 * uib.frequency)
      mb2 == ddrphy_phyinit_softsetmb(mb1, "pllbypassen", uib.pllbypass)
      mb3 == IF uib.dfifreqratio = 1 THEN ddrphy_phyinit_softsetmb(mb2, "dfifreqratio", 2) ELSE mb2
      mb4 == ddrphy_phyinit_softsetmb(mb3, "bpznresval", 0)
      mb5 == [mb4 EXCEPT !.enableddqs = [ch \in 1 .. 2 |-> 8 * nad[ch]],
                         !.cspresent = [ch \in 1 .. 2 |-> CsPresent(uib.numrank[ch])]]
  IN  {mb \in {mb5} : nad[1] > 0 /\ nad[1] + nad[2] <= uib.numdbyte /\ (uib.dfi1exists \/ nad[2] = 0)}

(* What step F asks of the data lines before it loads the block.            *)
DqsFit(mb) ==
  /\ \A ch \in 1 .. 2 : mb.enableddqs[ch] % 16 = 0 /\ mb.enableddqs[ch] <= (8 * uib.numactive[ch]) % 256
  /\ \E ch \in 1 .. 2 : mb.enableddqs[ch] # 0

(* What mnpmusrammsgblock_lpddr4.h asks of a block.                         *)
GeneralFields(mb) ==
  /\ Bits(mb.msgmisc, 1, 2) = 0 /\ Bits(mb.msgmisc, 6, 7) = 0
  /\ mb.pstate \in 0 .. 3 /\ mb.pllbypassen \in {0, 1} /\ mb.dramfreq = 2 * uib.frequency
  /\ mb.dfifreqratio \in {1, 2, 4} /\ mb.bpznresval \in {0, 240, 120, 40}
LPCA == 12
TrainingFields(mb) ==
  /\ Bits(mb.sequencectrl, 0, 0) = 1 /\ Bits(mb.sequencectrl, 5, 7) = 0 /\ Bits(mb.sequencectrl, 10, 11) = 0
  /\ Bits(mb.sequencectrl, LPCA + 1, 15) = 0 /\ mb.dfimrlmargin >= 1 /\ mb.lp4misc \in {0, 1}
OptionFields(mb) ==
  /\ mb.usebroadcastmr \in {0, 1} /\ mb.lp4quickboot = 0 /\ mb.catrainopt \in 0 .. 3 /\ mb.x8mode \in {0, 15}
  /\ \A ch \in 1 .. 2 : mb.cspresent[ch] \in {1, 3}
RankFields(mb) ==
  /\ \A ch \in 1 .. 2 : mb.caterminatingrank[ch] \in {0, 1}
  /\ \A chrank \in (1 .. 2) \X (0 .. 1) : \A r \in DOMAIN uim : mb.mr[chrank][r] \in 0 .. 255
Understood(mb) == GeneralFields(mb) /\ TrainingFields(mb) /\ OptionFields(mb) /\ RankFields(mb)

(* The lines and ranks a block names are all there are.                     *)
Complete(mb) ==
  \A ch \in 1 .. 2 : mb.enableddqs[ch] = 8 * uib.numactive[ch] /\ mb.cspresent[ch] = CsPresent(uib.numrank[ch])

(* The parameters this board is built with are allowed, and its memory is   *)
(* told the latencies the PHY is told.                                      *)
ASSUME BoardParameters ==
  /\ uib \in user_input_basic /\ SignalInputs(uia) /\ LatencyInputs(uia, uim) /\ SwitchInputs(uia)
  /\ user_input_swizzle(uis)
=============================================================================
