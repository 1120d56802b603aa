------------------------------ MODULE DdrProofs ------------------------------
(***************************************************************************)
(* Proofs about DdrInit and DdrSleep: the mailbox is read in step with the  *)
(* firmware, what a warm start needs is kept, registers change at rest, and *)
(* a call returns 0 only for a memory in use or asleep, for every script of *)
(* the firmware and every number of lines, starts and naps.                 *)
(***************************************************************************)
EXTENDS DdrSleep, FiniteSetTheorems, SequenceTheorems, TLAPS

-----------------------------------------------------------------------------
(* Where ddr_init() and the functions for self-refresh are, by what is true  *)
(* of the hardware there.                                                   *)

Change(t) == pc \in {"set_qd3", "update", "unset_qd3"} /\ todo = t
InChange == pc \in {"update", "unset_qd3"}
Returned(r) == pc = "idle" /\ ret = r
Nap == pc = "idle" /\ Napping

Reset == pc \in {"set_reg", "release"}
Load == {"phy_c", "imem", "dmem", "exec"}
Talk == {"mail", "ack", "halt"}
Train == {"pie", "save"}
Holding == pc \in Load \cup Talk \cup Train \cup {"restore"} \/ Change("hold") \/ Change("activate")
Resuming == pc = "axi" \/ Change("resume")
Working ==
  \/ pc \in {"test", "sr", "port_off", "hsr_in", "hsr_out", "asr_in", "asr_out", "hsr_sr"}
  \/ Returned("ok") \/ (Nap /\ sr_mode # "SSR")
Falling == pc \in {"ddc", "dfi_lp", "sr_in", "lp3_in", "clk_off"} \/ Change("sleep")
Rising == pc \in {"clk_on", "lp3_out", "sr_out"} \/ Change("wake")
SoftNap(r) == Returned(r) /\ sr_mode = "SSR"
Soft == SoftNap("asleep") \/ SoftNap("no_sleep") \/ SoftNap("no_wake")
Running == Holding \/ Resuming \/ Working \/ Falling \/ Rising \/ Soft

(* Once the PHY is trained, and once the memory is tested.                  *)
Trained == pc \in Train \cup {"restore", "axi", "test"} \/ Change("activate") \/ Change("resume")
Up == (Working /\ pc # "test") \/ Falling \/ Rising \/ Soft
AfterTraining == Trained \/ Up

-----------------------------------------------------------------------------
(* The invariant: types, then one conjunct for each part of the hardware.   *)

Places ==
  {"idle", "pll2", "reset", "set_reg", "release", "set_qd3", "update", "unset_qd3", "phy_c", "imem", "dmem", "exec",
   "mail", "ack", "halt", "pie", "save", "restore", "axi", "test", "sr", "panic",
   "port_off", "ddc", "dfi_lp", "sr_in", "lp3_in", "clk_off", "clk_on", "lp3_out", "sr_out",
   "hsr_in", "hsr_out", "asr_in", "asr_out", "hsr_sr"}
Changes == {"hold", "activate", "resume", "sleep", "wake"}
CtlRecord ==
  [core : BOOLEAN, swdone : BOOLEAN, rfshctl3 : SUBSET {"DIS_AUTO_REFRESH"},
   pwrctl : SUBSET {"SELFREF_SW"}, dfimisc : SUBSET {"INIT_COMPLETE_EN", "FREQUENCY"},
   pctrl : SUBSET {"PORT_EN"}, dbg1 : SUBSET {"DIS_HIF", "DIS_DQ"}]
PmRecord ==
  [lp_en : BOOLEAN, clk : SUBSET Clocks, dlp : BOOLEAN, ckmod : {"SSR", "HSR"}, hwlp : BOOLEAN, auto : BOOLEAN,
   lp3 : BOOLEAN, retained : BOOLEAN, ddc : BOOLEAN]
PhyRecord ==
  [mux : {0, 1}, micro : {"reset", "runs", "stalled"}, loaded : SUBSET {"imem", "dmem", "block"}, trained : BOOLEAN]
MailRecord == [prot : {0, 1}, shadow : {0, 1}, word : Nat]
Steps == {"c_initphyconfig", "custompretrain", "d_loadimem", "i_loadpieimage"}
ListSteps == {"saveretregs"}

Scalars ==
  /\ pc \in Places /\ ret \in {"none", "failed", "ok", "asleep", "no_sleep", "no_wake", "off"}
  /\ size \in {0, 1} /\ sr_mode \in {"INVALID", "SSR", "HSR", "ASR"}
  /\ todo \in Changes \cup {"none"} /\ (pc \in {"set_qd3", "update", "unset_qd3"} => todo \in Changes)
PhyTypes ==
  /\ phy \in PhyRecord /\ written \subseteq Steps
  /\ tracken \in BOOLEAN /\ tracked \subseteq ListSteps /\ saved \subseteq ListSteps
MailTypes ==
  /\ mail \in MailRecord /\ expect \in {"major", "length", "word"} /\ left \in Nat /\ got \in Seq(Nat)
  /\ script \in Scripts /\ said \in 0 .. Len(script)
TypeOK == Scalars /\ ctl \in CtlRecord /\ pm \in PmRecord /\ PhyTypes /\ MailTypes

\* The remembered mode, which says how to enter and to leave self-refresh.
ModeInv ==
  /\ Returned("ok") \/ Nap \/ pc = "hsr_sr" => sr_mode # "INVALID"
  /\ pc \in {"hsr_in", "hsr_out"} => sr_mode = "HSR"
  /\ pc \in {"asr_in", "asr_out"} => sr_mode = "ASR"
  /\ Falling \/ Rising \/ pc = "port_off" => sr_mode = "SSR"

\* The registers of the controller, by the place.
CtlInv ==
  /\ pc # "panic" => reenable = IF InChange THEN {"hif"} ELSE {}
  /\ Reset => /\ ctl.core /\ ctl.swdone /\ ctl.rfshctl3 = {} /\ ctl.pctrl = {} /\ ctl.dbg1 = {}
  /\ Running =>
       /\ ~ctl.core /\ (ctl.swdone <=> ~InChange)
       /\ ctl.dbg1 = IF ~InChange THEN {} ELSE IF todo \in Activations THEN {"DIS_HIF", "DIS_DQ"} ELSE {"DIS_HIF"}
       /\ ctl.rfshctl3 = IF Holding THEN {"DIS_AUTO_REFRESH"} ELSE {}
       /\ ctl.pctrl = IF Working THEN {"PORT_EN"} ELSE {}
\* pwrctl, and dfimisc: the refresh by the memory itself, the frequency.
PowerInv ==
  /\ Holding \/ pc \in {"release", "sr_in", "lp3_in", "clk_off", "hsr_sr"} \/ Change("sleep")
     \/ SoftNap("asleep") \/ SoftNap("no_sleep") => ctl.pwrctl = {"SELFREF_SW"}
  /\ Resuming \/ (Working /\ pc # "hsr_sr") \/ pc \in {"ddc", "dfi_lp"} \/ SoftNap("no_wake") => ctl.pwrctl = {}
DfiInv ==
  /\ pc \in Load \cup Talk \cup Train \/ (Change("hold") /\ pc = "unset_qd3")
     \/ (Change("activate") /\ pc # "unset_qd3") => ctl.dfimisc = {}
  /\ pc \in {"lp3_in", "clk_off"} \/ (Change("sleep") /\ pc = "unset_qd3") \/ SoftNap("asleep")
       => ctl.dfimisc = {"FREQUENCY"}
  /\ (Change("hold") /\ pc # "unset_qd3") \/ (Change("activate") /\ pc = "unset_qd3") \/ pc = "restore"
     \/ Reset \/ Resuming \/ Working \/ pc \in {"ddc", "dfi_lp", "sr_in"} \/ (Change("sleep") /\ pc # "unset_qd3")
     \/ SoftNap("no_sleep") \/ SoftNap("no_wake") \/ (Change("wake") /\ pc = "unset_qd3") \/ pc \in {"lp3_out", "sr_out"}
       => ctl.dfimisc = {"INIT_COMPLETE_EN"}
  /\ pc = "clk_on" \/ Change("wake") => ctl.dfimisc \in {{"INIT_COMPLETE_EN"}, {"FREQUENCY"}}

\* The power of the memory, by the place.
PmInv ==
  /\ pm.dlp => pc = "clk_on" \/ SoftNap("asleep")
  /\ pc = "reset" \/ Reset \/ (Running /\ (Nap => sr_mode = "ASR") /\ pc \notin {"clk_on", "hsr_out"}) => pm.clk = Clocks
  /\ Running /\ ~SoftNap("asleep") => ~pm.retained
  /\ SoftNap("asleep") => (pm.retained <=> ~pm.ddc)
  /\ pc \in {"clk_off"} \/ SoftNap("asleep") => pm.lp3
  /\ Reset \/ (Running /\ pc \notin {"clk_off", "clk_on", "lp3_out"} /\ ~Change("wake") /\ ~SoftNap("asleep")) => ~pm.lp3
  /\ Reset \/ (Running /\ ~Falling /\ ~SoftNap("asleep") /\ ~SoftNap("no_sleep")) => pm.ddc
  /\ pc = "ddc" => pm.ddc
  /\ pc = "release" \/ Holding \/ Resuming \/ Working \/ pc \in {"ddc", "dfi_lp"} => pm.lp_en
  /\ pc \in {"sr_in", "lp3_in", "clk_off"} \/ Change("sleep") \/ SoftNap("asleep") => ~pm.lp_en

\* The PHY, its registers and the lists for a warm start.
PhyInv ==
  /\ Reset \/ Change("hold") \/ pc \in {"phy_c", "imem"} => phy.mux = 0
  /\ Reset \/ Change("hold") \/ pc \in Load => phy.micro = "reset"
  /\ Reset \/ Change("hold") \/ pc = "phy_c" => written = {}
  /\ pc \in Talk => phy.micro = "runs"
  /\ AfterTraining => phy.micro = "stalled"
  /\ pc \in (Load \ {"phy_c"}) \cup Talk \/ AfterTraining => {"c_initphyconfig", "custompretrain"} \subseteq written
  /\ pc \in Load \cup Talk \cup {"pie"} => "i_loadpieimage" \notin written
  /\ AfterTraining /\ pc # "pie" => "i_loadpieimage" \in written
  /\ pc \in Train => tracken
  /\ "i_loadpieimage" \in written /\ pc # "save" => saved = {"saveretregs"}

\* The mailbox: the words that were read, and the one on its way.
MailInv ==
  /\ Len(got) <= said /\ \A i \in 1 .. Len(got) : got[i] = script[i]
  /\ Reset \/ Change("hold") \/ pc \in Load => mail.prot = 1 /\ mail.shadow = 1 /\ said = 0 /\ got = <<>>
  /\ pc = "mail" => /\ mail.prot = 1
                    /\ mail.shadow = 1 => Len(got) = said
                    /\ mail.shadow = 0 => said = Len(got) + 1 /\ mail.word = script[said]
  /\ pc = "ack" => mail.prot = 0 /\ Len(got) = said /\ said > 0
  /\ pc = "halt" => Len(got) = Len(script)
  /\ pc \in Talk /\ said = Len(script) => (phy.trained <=> script[said] = FW_MAJ_MSG_TRAINING_SUCCESS)
  /\ pc = "halt" \/ AfterTraining => phy.trained

\* After p words the driver takes the next one for what it is.
Aligned(M, p) ==
  \/ expect = "major" /\ p + 1 \in M
  \/ expect = "length" /\ p \in M /\ Low16(script[p]) = FW_MAJ_MSG_START_STREAMING
  \/ expect = "word" /\ left > 0 /\ p + 1 + left \in M
ReadInv ==
  \E M \in SUBSET DOMAIN script :
    /\ Messages(script, M)
    /\ pc = "mail" => Aligned(M, Len(got))
    /\ pc = "ack" => Aligned(M, Len(got) - 1)

\* A step of Quiescent.
ChangedAtRest ==
  /\ ctl'.dfimisc # ctl.dfimisc => ctl'.core \/ (~ctl.swdone /\ ctl.pctrl = {} /\ "DIS_HIF" \in ctl.dbg1)
  /\ "FREQUENCY" \in ctl'.dfimisc <=> "FREQUENCY" \notin ctl.dfimisc => ctl'.core \/ "DIS_DQ" \in ctl.dbg1
  /\ written' # written \/ saved' # saved => phy.micro # "runs" \/ written' = {}

\* What the tests found, and the size.
TestInv ==
  /\ pc = "test" \/ Up => size = 1
  /\ Up => wiring \in Passing

IInv == TypeOK /\ ModeInv /\ CtlInv /\ PowerInv /\ DfiInv /\ PmInv /\ PhyInv /\ MailInv /\ ReadInv /\ TestInv

-----------------------------------------------------------------------------
(* What the assumption says of a script, and where Take leads.              *)
LEMMA ScriptIs ==
  ASSUME script \in Scripts
  PROVE  /\ script \in Seq(Nat) /\ Len(script) \in Nat \ {0} /\ script[Len(script)] \in Verdicts
         /\ \E M \in SUBSET DOMAIN script : Messages(script, M)
<1>1. script \in Seq(Nat) /\ script # <<>> /\ script[Len(script)] \in Verdicts
      /\ \E M \in SUBSET DOMAIN script : Messages(script, M)
  BY DdrAssumption
<1> QED BY <1>1

LEMMA TakeMoves ==
  Take => /\ pc = "ack" /\ pc' \in {"mail", "halt", "panic"}
          /\ UNCHANGED <<calls, ret, size, sr_mode, control, registers, tracking, got, firmware, wiring>>
<1> SUFFICES ASSUME Take PROVE pc = "ack" /\ pc' \in {"mail", "halt", "panic"}
  BY DEF Take, Stay
<1> QED BY DEF Take, ack_message_receipt, Goto, Panic

-----------------------------------------------------------------------------
(* Registers counted: a set has at most n members, and so do its subsets,   *)
(* its images, and by sums and products unions and pairs.                   *)

AtMost(S, n) == IsFiniteSet(S) /\ Cardinality(S) <= n

LEMMA AtMostSubset == ASSUME NEW S, NEW T, NEW n \in Nat, AtMost(S, n), T \subseteq S PROVE AtMost(T, n)
<1>1. IsFiniteSet(S) /\ IsFiniteSet(T) /\ Cardinality(T) <= Cardinality(S) /\ Cardinality(S) <= n
  BY FS_Subset DEF AtMost
<1>2. Cardinality(S) \in Nat /\ Cardinality(T) \in Nat
  BY <1>1, FS_CardinalityType
<1> QED BY <1>1, <1>2 DEF AtMost

LEMMA AtMostUnion ==
  ASSUME NEW S, NEW T, NEW m \in Nat, NEW n \in Nat, NEW k \in Nat, AtMost(S, m), AtMost(T, n), m + n <= k
  PROVE  AtMost(S \cup T, k)
<1>1. IsFiniteSet(S) /\ IsFiniteSet(T) /\ Cardinality(S) <= m /\ Cardinality(T) <= n
  BY DEF AtMost
<1>2. Cardinality(S) \in Nat /\ Cardinality(T) \in Nat /\ Cardinality(S \cap T) \in Nat
  BY <1>1, FS_CardinalityType, FS_Intersection
<1>3. IsFiniteSet(S \cup T) /\ Cardinality(S \cup T) = Cardinality(S) + Cardinality(T) - Cardinality(S \cap T)
  BY <1>1, FS_Union
<1> QED BY <1>1, <1>2, <1>3 DEF AtMost

LEMMA AtMostImage ==
  ASSUME NEW S, NEW n \in Nat, AtMost(S, n), NEW f, DOMAIN f = S
  PROVE  AtMost({f[x] : x \in S}, n)
<1> DEFINE T == {f[x] : x \in S}
           g == [x \in S |-> f[x]]
<1>1. g \in Surjection(S, T)
  BY DEF Surjection
<1>2. IsFiniteSet(S) /\ Cardinality(S) <= n /\ Cardinality(S) \in Nat
  BY FS_CardinalityType DEF AtMost
<1> HIDE DEF T, g
<1>3. IsFiniteSet(T) /\ Cardinality(T) <= Cardinality(S) /\ Cardinality(T) \in Nat
  BY <1>1, <1>2, FS_Surjection, FS_CardinalityType
<1>4. AtMost(T, n)
  BY <1>2, <1>3 DEF AtMost
<1> QED BY <1>4 DEF T

LEMMA AtMostInterval == ASSUME NEW n \in Nat PROVE AtMost(1 .. n, n) /\ AtMost(0 .. n - 1, n)
<1>1. IsFiniteSet(1 .. n) /\ Cardinality(1 .. n) = n
  BY FS_Interval
<1>2. IsFiniteSet(0 .. n - 1) /\ Cardinality(0 .. n - 1) = n
  BY FS_Interval
<1> QED BY <1>1, <1>2 DEF AtMost

LEMMA AtMostNamed ==
  ASSUME NEW a, NEW b, NEW c, NEW d
  PROVE  AtMost({a}, 1) /\ AtMost({a, b}, 2) /\ AtMost({a, b, c, d}, 4)
<1>1. \A x : AtMost({x}, 1)
  <2> SUFFICES ASSUME NEW x PROVE AtMost({x}, 1)
    OBVIOUS
  <2>1. IsFiniteSet({x}) /\ Cardinality({x}) = 1
    BY FS_Singleton
  <2> QED BY <2>1 DEF AtMost
<1>2. \A x, y : AtMost({x, y}, 2)
  <2> SUFFICES ASSUME NEW x, NEW y PROVE AtMost({x, y}, 2)
    OBVIOUS
  <2>1. AtMost({x} \cup {y}, 2)
    <3>1. AtMost({x}, 1) /\ AtMost({y}, 1)
      BY <1>1
    <3> QED BY <3>1, AtMostUnion
  <2>2. {x} \cup {y} = {x, y}
    OBVIOUS
  <2> QED BY <2>1, <2>2
<1>3. AtMost({a, b} \cup {c, d}, 4)
  <2>1. AtMost({a, b}, 2) /\ AtMost({c, d}, 2)
    BY <1>2
  <2> QED BY <2>1, AtMostUnion
<1>4. {a, b} \cup {c, d} = {a, b, c, d}
  OBVIOUS
<1>5. AtMost({a, b, c, d}, 4)
  BY <1>3, <1>4
<1>6. AtMost({a}, 1)
  BY <1>1
<1>7. AtMost({a, b}, 2)
  BY <1>2
<1> QED BY <1>5, <1>6, <1>7

LEMMA AtMostProduct ==
  ASSUME NEW S, NEW T, NEW m \in Nat, NEW n \in Nat, AtMost(S, m), AtMost(T, n)
  PROVE  AtMost(S \X T, m * n)
<1>1. IsFiniteSet(S) /\ IsFiniteSet(T) /\ Cardinality(S) <= m /\ Cardinality(T) <= n
  BY DEF AtMost
<1>2. Cardinality(S) \in Nat /\ Cardinality(T) \in Nat
  BY <1>1, FS_CardinalityType
<1>3. IsFiniteSet(S \X T) /\ Cardinality(S \X T) = Cardinality(S) * Cardinality(T)
  BY <1>1, FS_Product
<1>4. \A a, b, c, d \in Nat : a <= c /\ b <= d => a * b <= c * d
  <2> SUFFICES ASSUME NEW a \in Nat, NEW b \in Nat, NEW c \in Nat, NEW d \in Nat, a <= c, b <= d PROVE a * b <= c * d
    OBVIOUS
  <2>1. a * b <= c * b
    OBVIOUS
  <2>2. c * b <= c * d
    OBVIOUS
  <2> QED BY <2>1, <2>2
<1> QED BY <1>1, <1>2, <1>3, <1>4 DEF AtMost

LEMMA AtMostPerByte ==
  ASSUME NEW names, NEW lanes, NEW m \in Nat, NEW n \in Nat, AtMost(names, m), AtMost(lanes, n)
  PROVE  AtMost(PerByte(names, lanes), (m * 4) * n)
<1> DEFINE S == (names \X Bytes) \X lanes
           f == [x \in S |-> <<x[1][1], x[1][2], x[2]>>]
<1>1. AtMost(Bytes, 4)
  BY AtMostInterval, Zenon DEF Bytes, uib
<1>2. AtMost(S, (m * 4) * n)
  <2>1. AtMost(names \X Bytes, m * 4) /\ m * 4 \in Nat
    BY <1>1, AtMostProduct
  <2> QED BY <2>1, AtMostProduct
<1>3. AtMost({f[x] : x \in S}, (m * 4) * n)
  <2> HIDE DEF S
  <2>1. DOMAIN f = S
    OBVIOUS
  <2> HIDE DEF f
  <2> QED BY <1>2, <2>1, AtMostImage
<1>4. PerByte(names, lanes) \subseteq {f[x] : x \in S}
  <2> SUFFICES ASSUME NEW k \in names, NEW b \in Bytes, NEW l \in lanes PROVE <<k, b, l>> \in {f[x] : x \in S}
    BY DEF PerByte
  <2>1. <<<<k, b>>, l>> \in S
    OBVIOUS
  <2>2. f[<<<<k, b>>, l>>] = <<k, b, l>>
    BY <2>1
  <2> QED BY <2>1, <2>2
<1> QED BY <1>3, <1>4, AtMostSubset

LEMMA AtMostMaster ==
  ASSUME NEW names, NEW n \in Nat, AtMost(names, n)
  PROVE  AtMost(Master(names), n)
<1> DEFINE f == [k \in names |-> Reg(k)]
<1>1. DOMAIN f = names /\ Master(names) = {f[k] : k \in names}
  BY DEF Master
<1> HIDE DEF f
<1> QED BY <1>1, AtMostImage

(* 2 + 8 + 116 + 140 + 17 of them, and not one to spare.                     *)
LEMMA SavedFits == AtMost(saveretregs, MAX_NUM_RET_REGS)
<1>1. AtMost(Nibbles, 2) /\ AtMost(Lanes, 9) /\ AtMost({0}, 1)
  <2>1. AtMost({0}, 1)
    BY AtMostNamed
  <2>2. Nibbles = 0 .. 2 - 1 /\ Lanes = 0 .. 9 - 1
    BY DEF Nibbles, Lanes
  <2> QED BY <2>1, <2>2, AtMostInterval
<1>2. AtMost(Master({"PLLCTRL3", "VREFINGLOBAL"}), 2)
  <2>1. AtMost({"PLLCTRL3", "VREFINGLOBAL"}, 2)
    BY AtMostNamed
  <2> QED BY <2>1, AtMostMaster
<1>3. AtMost(PerAnib("ATXDLY"), 8)
  <2> DEFINE f == [a \in 0 .. 8 - 1 |-> <<"ATXDLY", a, 0>>]
  <2>1. DOMAIN f = 0 .. 8 - 1 /\ PerAnib("ATXDLY") = {f[a] : a \in 0 .. 8 - 1}
    BY DEF PerAnib, uib
  <2> HIDE DEF f
  <2>2. AtMost(0 .. 8 - 1, 8)
    BY AtMostInterval
  <2> QED BY <2>1, <2>2, AtMostImage
<1>4. AtMost(RetBytes, 116)
  <2>1. AtMost({"RXPBDLYTG0", "RXPBDLYTG1"}, 2)
    BY AtMostNamed
  <2>2. AtMost({"PPTCTLSTATIC", "TRAININGINCDECDTSMEN", "TSMBYTE0"} \cup DqLnSel, 11)
    <3>1. AtMost({"PPTCTLSTATIC", "TRAININGINCDECDTSMEN"}, 2) /\ AtMost({"TSMBYTE0"}, 1)
          /\ AtMost({"DQ0LNSEL", "DQ1LNSEL", "DQ2LNSEL", "DQ3LNSEL"}, 4)
          /\ AtMost({"DQ4LNSEL", "DQ5LNSEL", "DQ6LNSEL", "DQ7LNSEL"}, 4)
      BY AtMostNamed
    <3>2. AtMost({"PPTCTLSTATIC", "TRAININGINCDECDTSMEN"} \cup {"TSMBYTE0"}, 3)
      BY <3>1, AtMostUnion
    <3>3. AtMost({"DQ0LNSEL", "DQ1LNSEL", "DQ2LNSEL", "DQ3LNSEL"} \cup {"DQ4LNSEL", "DQ5LNSEL", "DQ6LNSEL", "DQ7LNSEL"}, 8)
      BY <3>1, AtMostUnion
    <3>4. /\ {"PPTCTLSTATIC", "TRAININGINCDECDTSMEN"} \cup {"TSMBYTE0"}
             = {"PPTCTLSTATIC", "TRAININGINCDECDTSMEN", "TSMBYTE0"}
          /\ {"DQ0LNSEL", "DQ1LNSEL", "DQ2LNSEL", "DQ3LNSEL"} \cup {"DQ4LNSEL", "DQ5LNSEL", "DQ6LNSEL", "DQ7LNSEL"}
             = DqLnSel
      BY DEF DqLnSel
    <3>5. AtMost({"PPTCTLSTATIC", "TRAININGINCDECDTSMEN", "TSMBYTE0"}, 3) /\ AtMost(DqLnSel, 8)
      BY <3>2, <3>3, <3>4
    <3> HIDE DEF DqLnSel
    <3> QED BY <3>5, AtMostUnion
  <2>3. AtMost(PerByte({"RXPBDLYTG0", "RXPBDLYTG1"}, Lanes), 72)
    BY <1>1, <2>1, AtMostPerByte
  <2>4. AtMost(PerByte({"PPTCTLSTATIC", "TRAININGINCDECDTSMEN", "TSMBYTE0"} \cup DqLnSel, {0}), 44)
    BY <1>1, <2>2, AtMostPerByte
  <2>5. RetBytes = PerByte({"RXPBDLYTG0", "RXPBDLYTG1"}, Lanes)
                   \cup PerByte({"PPTCTLSTATIC", "TRAININGINCDECDTSMEN", "TSMBYTE0"} \cup DqLnSel, {0})
    BY DEF RetBytes
  <2>6. AtMost(PerByte({"RXPBDLYTG0", "RXPBDLYTG1"}, Lanes)
               \cup PerByte({"PPTCTLSTATIC", "TRAININGINCDECDTSMEN", "TSMBYTE0"} \cup DqLnSel, {0}), 116)
    BY <2>3, <2>4, AtMostUnion
  <2> QED BY <2>5, <2>6
<1>5. AtMost(RetDelays, 140)
  <2> DEFINE Latency == {"DFIMRL", "PPTDQSCNTINVTRNTG0", "PPTDQSCNTINVTRNTG1"}
             Edges == {"RXENDLYTG0", "RXENDLYTG1", "TXDQSDLYTG0", "TXDQSDLYTG1", "RXCLKDLYTG0", "RXCLKDLYTG1"}
  <2>1. AtMost({"DFIMRL"}, 1) /\ AtMost({"PPTDQSCNTINVTRNTG0", "PPTDQSCNTINVTRNTG1"}, 2)
        /\ AtMost({"DQDQSRCVCNTRL"}, 1) /\ AtMost({"TXDQDLYTG0", "TXDQDLYTG1"}, 2)
        /\ AtMost({"RXENDLYTG0", "RXENDLYTG1", "TXDQSDLYTG0", "TXDQSDLYTG1"}, 4)
        /\ AtMost({"RXCLKDLYTG0", "RXCLKDLYTG1"}, 2)
    BY AtMostNamed
  <2>2. AtMost({"DFIMRL"} \cup {"PPTDQSCNTINVTRNTG0", "PPTDQSCNTINVTRNTG1"}, 3)
    BY <2>1, AtMostUnion
  <2>3. AtMost({"RXENDLYTG0", "RXENDLYTG1", "TXDQSDLYTG0", "TXDQSDLYTG1"} \cup {"RXCLKDLYTG0", "RXCLKDLYTG1"}, 6)
    BY <2>1, AtMostUnion
  <2>4. /\ {"DFIMRL"} \cup {"PPTDQSCNTINVTRNTG0", "PPTDQSCNTINVTRNTG1"} = Latency
        /\ {"RXENDLYTG0", "RXENDLYTG1", "TXDQSDLYTG0", "TXDQSDLYTG1"} \cup {"RXCLKDLYTG0", "RXCLKDLYTG1"} = Edges
    OBVIOUS
  <2>5. AtMost(Latency, 3) /\ AtMost(Edges, 6)
    BY <2>2, <2>3, <2>4
  <2>6. RetDelays = (PerByte(Latency, {0}) \cup PerByte({"DQDQSRCVCNTRL"}, Nibbles))
                    \cup (PerByte(Edges, Nibbles) \cup PerByte({"TXDQDLYTG0", "TXDQDLYTG1"}, Lanes))
    BY DEF RetDelays
  <2> HIDE DEF Latency, Edges
  <2>7. /\ AtMost(PerByte(Latency, {0}), 12) /\ AtMost(PerByte({"DQDQSRCVCNTRL"}, Nibbles), 8)
        /\ AtMost(PerByte(Edges, Nibbles), 48) /\ AtMost(PerByte({"TXDQDLYTG0", "TXDQDLYTG1"}, Lanes), 72)
    <3>1. AtMost(PerByte(Latency, {0}), (3 * 4) * 1)
      BY <1>1, <2>5, AtMostPerByte
    <3>2. AtMost(PerByte({"DQDQSRCVCNTRL"}, Nibbles), (1 * 4) * 2)
      BY <1>1, <2>1, AtMostPerByte
    <3>3. AtMost(PerByte(Edges, Nibbles), (6 * 4) * 2)
      BY <1>1, <2>5, AtMostPerByte
    <3>4. AtMost(PerByte({"TXDQDLYTG0", "TXDQDLYTG1"}, Lanes), (2 * 4) * 9)
      BY <1>1, <2>1, AtMostPerByte
    <3> QED BY <3>1, <3>2, <3>3, <3>4
  <2>8. AtMost(PerByte(Latency, {0}) \cup PerByte({"DQDQSRCVCNTRL"}, Nibbles), 20)
    BY <2>7, AtMostUnion
  <2>9. AtMost(PerByte(Edges, Nibbles) \cup PerByte({"TXDQDLYTG0", "TXDQDLYTG1"}, Lanes), 120)
    BY <2>7, AtMostUnion
  <2>10. AtMost((PerByte(Latency, {0}) \cup PerByte({"DQDQSRCVCNTRL"}, Nibbles))
                \cup (PerByte(Edges, Nibbles) \cup PerByte({"TXDQDLYTG0", "TXDQDLYTG1"}, Lanes)), 140)
    BY <2>8, <2>9, AtMostUnion
  <2> QED BY <2>6, <2>10
<1>6. AtMost(RetGlobals, 17)
  <2> DEFINE A == {"SEQ0BGPR1", "SEQ0BGPR2", "SEQ0BGPR3", "SEQ0BGPR4"}
             B == {"SEQ0BGPR5", "SEQ0BGPR6", "SEQ0BGPR7", "SEQ0BGPR8"}
             C == {"DLLGAINCTL", "DLLLOCKPARAM", "HWTMRL", "HWTCAMODE"}
             D == {"HWTLPCSENA", "HWTLPCSENB", "ACSMCTRL13", "ACSMCTRL23"}
             flag == {<<"SEQ0BDISABLEFLAG", 6, 0>>}
  <2>1. AtMost(A, 4) /\ AtMost(B, 4) /\ AtMost(C, 4) /\ AtMost(D, 4) /\ AtMost(flag, 1)
    BY AtMostNamed
  <2>2. RetGlobals = Master((A \cup B) \cup (C \cup D)) \cup flag
    BY DEF RetGlobals
  <2> HIDE DEF A, B, C, D, flag
  <2>3. AtMost(A \cup B, 8)
    BY <2>1, AtMostUnion
  <2>4. AtMost(C \cup D, 8)
    BY <2>1, AtMostUnion
  <2>5. AtMost((A \cup B) \cup (C \cup D), 16)
    BY <2>3, <2>4, AtMostUnion
  <2>6. AtMost(Master((A \cup B) \cup (C \cup D)), 16)
    BY <2>5, AtMostMaster
  <2>7. AtMost(Master((A \cup B) \cup (C \cup D)) \cup flag, 17)
    BY <2>1, <2>6, AtMostUnion
  <2> QED BY <2>2, <2>7
<1>7. saveretregs = (Master({"PLLCTRL3", "VREFINGLOBAL"}) \cup PerAnib("ATXDLY"))
                   \cup ((RetBytes \cup RetDelays) \cup RetGlobals)
  BY DEF saveretregs
<1>8. AtMost(Master({"PLLCTRL3", "VREFINGLOBAL"}) \cup PerAnib("ATXDLY"), 10)
  BY <1>2, <1>3, AtMostUnion
<1>9. AtMost(RetBytes \cup RetDelays, 256)
  BY <1>4, <1>5, AtMostUnion
<1>10. AtMost((RetBytes \cup RetDelays) \cup RetGlobals, 273)
  BY <1>6, <1>9, AtMostUnion
<1>11. AtMost((Master({"PLLCTRL3", "VREFINGLOBAL"}) \cup PerAnib("ATXDLY"))
              \cup ((RetBytes \cup RetDelays) \cup RetGlobals), 283)
  BY <1>8, <1>10, AtMostUnion
<1>12. AtMost(saveretregs, 283)
  BY <1>7, <1>11
<1> QED BY <1>12 DEF MAX_NUM_RET_REGS

(* The registers behind the names of the steps.                             *)
LEMMA SavedRegisters == RegistersOf({"saveretregs"}) = saveretregs /\ RegistersOf({}) = {}
<1>1. Registers["saveretregs"] = saveretregs
  BY DEF Registers
<1> HIDE DEF Registers
<1> QED BY <1>1 DEF RegistersOf

LEMMA WrittenRegisters ==
  ASSUME NEW W, {"c_initphyconfig", "custompretrain", "i_loadpieimage"} \subseteq W
  PROVE  c_initphyconfig \cup custompretrain \cup i_loadpieimage(FALSE) \subseteq RegistersOf(W)
<1>1. /\ Registers["c_initphyconfig"] = c_initphyconfig
      /\ Registers["custompretrain"] = custompretrain
      /\ i_loadpieimage(FALSE) \subseteq Registers["i_loadpieimage"]
  <2> DEFINE i == i_loadpieimage(FALSE)
  <2> HIDE DEF i
  <2> SUFFICES i \subseteq Registers["i_loadpieimage"] /\ Registers["c_initphyconfig"] = c_initphyconfig
               /\ Registers["custompretrain"] = custompretrain
    BY DEF i
  <2>1. Registers["i_loadpieimage"] = i \cup Master({"UCCLKHCLKENABLES"})
    BY DEF Registers, i
  <2>2. Registers["c_initphyconfig"] = c_initphyconfig /\ Registers["custompretrain"] = custompretrain
    BY DEF Registers
  <2> QED BY <2>1, <2>2
<1> HIDE DEF Registers
<1> QED BY <1>1 DEF RegistersOf

(* What the training would have found is in the list, register by register. *)
LEMMA InSaved ==
  /\ Master({"PLLCTRL3", "VREFINGLOBAL"}) \subseteq saveretregs
  /\ RetBytes \subseteq saveretregs /\ RetDelays \subseteq saveretregs /\ RetGlobals \subseteq saveretregs
BY DEF saveretregs

LEMMA Covered == NotRedone \ Master({"PPTTRAINSETUP", "PPTTRAINSETUP2"}) \subseteq saveretregs
<1>1. dfimrl \subseteq saveretregs
  <2>1. PerByte({"DFIMRL"}, {0}) \subseteq RetDelays
    BY DEF RetDelays, PerByte
  <2>2. Master({"HWTMRL"}) \subseteq RetGlobals
    BY DEF RetGlobals, Master
  <2> QED BY <2>1, <2>2, InSaved DEF dfimrl
<1>2. txdqsdlytg \cup rxendly \cup txdqdlytg \subseteq saveretregs
  <2>1. \A r, s, lanes : Delays(<<r, s>>, lanes) \subseteq PerByte({r, s}, lanes)
    <3> SUFFICES ASSUME NEW r, NEW s, NEW lanes, NEW g \in Groups, NEW b \in Bytes, NEW l \in lanes
                 PROVE  <<<<r, s>>[g + 1], b, l>> \in PerByte({r, s}, lanes)
      BY DEF Delays
    <3>1. g \in 0 .. 1
      BY DEF Groups
    <3>2. <<r, s>>[g + 1] \in {r, s}
      BY <3>1
    <3> QED BY <3>2 DEF PerByte
  <2>2. txdqsdlytg \cup rxendly
        \subseteq PerByte({"RXENDLYTG0", "RXENDLYTG1", "TXDQSDLYTG0", "TXDQSDLYTG1", "RXCLKDLYTG0", "RXCLKDLYTG1"}, Nibbles)
    <3>1. txdqsdlytg \subseteq PerByte({"TXDQSDLYTG0", "TXDQSDLYTG1"}, Nibbles)
          /\ rxendly
        \subseteq PerByte({"RXENDLYTG0", "RXENDLYTG1"}, Nibbles)
      BY <2>1 DEF txdqsdlytg, rxendly
    <3> QED BY <3>1 DEF PerByte
  <2>3. txdqdlytg \subseteq PerByte({"TXDQDLYTG0", "TXDQDLYTG1"}, Lanes)
    BY <2>1 DEF txdqdlytg
  <2>4. txdqsdlytg \cup rxendly \cup txdqdlytg \subseteq RetDelays
    BY <2>2, <2>3 DEF RetDelays
  <2> QED BY <2>4, InSaved
<1>3. seq0bgpr \cup hwtlpcsen \cup hwtcamode \cup dllgainctl_dlllockparam \cup acsmctrl23 \subseteq saveretregs
  <2>1. seq0bgpr \cup hwtlpcsen \cup hwtcamode \cup dllgainctl_dlllockparam \cup acsmctrl23 \subseteq RetGlobals
    BY DEF seq0bgpr, hwtlpcsen, hwtcamode, dllgainctl_dlllockparam, acsmctrl23, RetGlobals, Master
  <2> QED BY <2>1, InSaved
<1>4. pllforcecal \subseteq saveretregs
  <2>1. Master({"PLLCTRL3"}) \subseteq Master({"PLLCTRL3", "VREFINGLOBAL"}) /\ Master({"SEQ0BGPR6"}) \subseteq RetGlobals
    BY DEF RetGlobals, Master
  <2>2. pllforcecal = Master({"PLLCTRL3"}) \cup Master({"SEQ0BGPR6"})
    BY DEF pllforcecal, Master
  <2> QED BY <2>1, <2>2, InSaved
<1>5. pptdqscntinvtrntg \subseteq saveretregs
  <2>1. ASSUME NEW n PROVE PerByte({<<"PPTDQSCNTINVTRNTG0", "PPTDQSCNTINVTRNTG1">>[r] : r \in {q \in 1 .. 2 : q <= n}}, {0})
                           \subseteq PerByte({"DFIMRL", "PPTDQSCNTINVTRNTG0", "PPTDQSCNTINVTRNTG1"}, {0})
    <3>1. \A r \in 1 .. 2 : <<"PPTDQSCNTINVTRNTG0", "PPTDQSCNTINVTRNTG1">>[r]
                        \in {"PPTDQSCNTINVTRNTG0", "PPTDQSCNTINVTRNTG1"}
      OBVIOUS
    <3>2. {<<"PPTDQSCNTINVTRNTG0", "PPTDQSCNTINVTRNTG1">>[r] : r \in {q \in 1 .. 2 : q <= n}}
          \subseteq {"DFIMRL", "PPTDQSCNTINVTRNTG0", "PPTDQSCNTINVTRNTG1"}
      BY <3>1
    <3> QED BY <3>2 DEF PerByte
  <2>2. pptdqscntinvtrntg \subseteq PerByte({"DFIMRL", "PPTDQSCNTINVTRNTG0", "PPTDQSCNTINVTRNTG1"}, {0})
    BY <2>1 DEF pptdqscntinvtrntg
  <2>3. pptdqscntinvtrntg \subseteq RetDelays
    BY <2>2 DEF RetDelays
  <2> QED BY <2>3, InSaved
<1>6. pptctlstatic \subseteq saveretregs
  <2>1. pptctlstatic \subseteq PerByte({"PPTCTLSTATIC", "TRAININGINCDECDTSMEN", "TSMBYTE0"} \cup DqLnSel, {0})
    BY DEF pptctlstatic, PerByte
  <2>2. pptctlstatic \subseteq RetBytes
    BY <2>1 DEF RetBytes
  <2> QED BY <2>2, InSaved
<1>7. progcsrskiptrain \ phyinlp3 \subseteq saveretregs
  BY <1>1, <1>2, <1>3, <1>4, <1>5, <1>6 DEF progcsrskiptrain
<1>8. i_loadpieimage(FALSE) \ i_loadpieimage(TRUE) \subseteq Master({"PPTTRAINSETUP", "PPTTRAINSETUP2"})
  <2>1. ppttrainsetup \subseteq Master({"PPTTRAINSETUP", "PPTTRAINSETUP2"})
    BY DEF ppttrainsetup
  <2> QED BY <2>1 DEF i_loadpieimage
<1>9. {<<"SEQ0BDISABLEFLAG", 6, 0>>} \subseteq saveretregs
  <2>1. {<<"SEQ0BDISABLEFLAG", 6, 0>>} \subseteq RetGlobals
    BY DEF RetGlobals
  <2> QED BY <2>1, InSaved
<1> QED BY <1>7, <1>8, <1>9 DEF NotRedone

(* The message block names all the lines and ranks there are.               *)
LEMMA BlockComplete == \A mb \in calcmb : Complete(mb)
<1> DEFINE block == ddrphy_phyinit_initstruct
           b1 == ddrphy_phyinit_softsetmb(block, "pstate", 0)
           b2 == ddrphy_phyinit_softsetmb(b1, "dramfreq", 2 * uib.frequency)
           b3 == ddrphy_phyinit_softsetmb(b2, "pllbypassen", uib.pllbypass)
           b4 == IF uib.dfifreqratio = 1 THEN ddrphy_phyinit_softsetmb(b3, "dfifreqratio", 2) ELSE b3
           b5 == ddrphy_phyinit_softsetmb(b4, "bpznresval", 0)
           eq == [ch \in 1 .. 2 |-> 8 * uib.numactive[ch]]
           cs == [ch \in 1 .. 2 |-> CsPresent(uib.numrank[ch])]
<1>1. {"enableddqs", "cspresent"} \subseteq DOMAIN block
  BY DEF ddrphy_phyinit_initstruct
<1>2. \A b, f, v : DOMAIN ddrphy_phyinit_softsetmb(b, f, v) = DOMAIN b
  BY DEF ddrphy_phyinit_softsetmb
<1>3. DOMAIN b5 = DOMAIN block
  <2>1. DOMAIN b1 = DOMAIN block
    BY <1>2
  <2>2. DOMAIN b2 = DOMAIN b1
    BY <1>2
  <2>3. DOMAIN b3 = DOMAIN b2
    BY <1>2
  <2>4. DOMAIN b4 = DOMAIN b3
    BY <1>2
  <2>5. DOMAIN b5 = DOMAIN b4
    BY <1>2
  <2> QED BY <2>1, <2>2, <2>3, <2>4, <2>5
<1> HIDE DEF b1, b2, b3, b4, block
<1>4. \A mb \in calcmb : mb = [b5 EXCEPT !.enableddqs = eq, !.cspresent = cs]
  BY DEF calcmb, b1, b2, b3, b4, block
<1> HIDE DEF b5
<1> SUFFICES ASSUME NEW mb \in calcmb PROVE mb.enableddqs = eq /\ mb.cspresent = cs
  BY DEF Complete
<1> QED BY <1>1, <1>3, <1>4

LEMMA TypeInit == SleepInit => TypeOK
<1> SUFFICES ASSUME SleepInit PROVE TypeOK
  OBVIOUS
<1>1. pc = "idle" /\ ret = "none" /\ size = 0 /\ sr_mode = "INVALID" /\ todo = "none"
  BY DEF SleepInit, Init
<1>2. ctl \in CtlRecord
  BY DEF SleepInit, Init, PowerOn, CtlRecord
<1>3. pm \in PmRecord
  BY DEF SleepInit, Off, PmRecord, Clocks
<1>4. phy \in PhyRecord
  BY DEF SleepInit, Init, PhyReset, PhyRecord
<1>5. mail \in MailRecord
  BY DEF SleepInit, Init, Quiet, MailRecord
<1>6. written = {} /\ tracken = TRUE /\ tracked = {} /\ saved = {} /\ expect = "major" /\ left = 0 /\ got = <<>>
  BY DEF SleepInit, Init
<1>7. script \in Scripts /\ said = 0
  BY DEF SleepInit, Init
<1> QED BY <1>1, <1>2, <1>3, <1>4, <1>5, <1>6, <1>7, ScriptIs DEF TypeOK, Scalars, PhyTypes, MailTypes, Places,
   Changes


-----------------------------------------------------------------------------
(* Four steps, by what they leave to the invariant's parts.                 *)

LEMMA ClocksEnd ==
  ASSUME ddr_sub_system_clk_off
  PROVE  /\ pc = "idle" /\ ret = "ok" /\ pc' = pc /\ ret' = "off" /\ calls' = calls /\ size' = size
         /\ sr_mode' = sr_mode /\ todo' = todo /\ reenable' = reenable
         /\ UNCHANGED <<tracken, tracked, saved, mail, expect, left, got, said, script, wiring>>
         /\ ctl' = PowerOn /\ phy' = PhyReset /\ written' = {} /\ pm' = Off
<1> QED BY DEF ddr_sub_system_clk_off, Use, tracking, reading, firmware

LEMMA Awake ==
  ASSUME SsrAwake, ctl \in CtlRecord
  PROVE  /\ pc = "sr_out" /\ pc' = "idle" /\ sr_mode' = sr_mode /\ todo' = todo /\ reenable' = reenable
         /\ ret' = "ok" \/ ret' = "no_wake"
         /\ ctl'.pwrctl = ctl.pwrctl \ {"SELFREF_SW"}
         /\ ctl'.pctrl = IF ret' = "ok" THEN {"PORT_EN"} ELSE ctl.pctrl
         /\ ctl'.core = ctl.core /\ ctl'.swdone = ctl.swdone /\ ctl'.rfshctl3 = ctl.rfshctl3
         /\ ctl'.dbg1 = ctl.dbg1 /\ ctl'.dfimisc = ctl.dfimisc
<1>1. \/ /\ pc = "sr_out" /\ pc' = "idle" /\ ret' = "ok"
         /\ ctl' = [ctl EXCEPT !.pwrctl = @ \ {"SELFREF_SW"}, !.pctrl = {"PORT_EN"}]
      \/ /\ pc = "sr_out" /\ pc' = "idle" /\ ret' = "no_wake"
         /\ ctl' = [ctl EXCEPT !.pwrctl = @ \ {"SELFREF_SW"}]
  BY DEF SsrAwake, Sleeps
<1>2. sr_mode' = sr_mode /\ todo' = todo /\ reenable' = reenable
  BY DEF SsrAwake, Kept
<1> QED BY <1>1, <1>2 DEF CtlRecord

LEMMA PhyLoaded ==
  ASSUME ddrphy_phyinit_f_loaddmem, phy \in PhyRecord
  PROVE  /\ pc = "dmem" /\ pc' \in {"exec", "panic"} /\ todo' = todo /\ UNCHANGED <<written, tracken, tracked, saved>>
         /\ ret' = ret /\ sr_mode' = sr_mode
         /\ phy'.micro = phy.micro /\ phy'.trained = phy.trained
         /\ phy' = phy \/ phy' = [phy EXCEPT !.mux = 1, !.loaded = @ \cup {"block", "dmem"}]
<1>1. pc = "dmem" /\ pc' \in {"exec", "panic"} /\ todo' = todo /\ UNCHANGED <<written, tracken, tracked, saved>>
      /\ ret' = ret /\ sr_mode' = sr_mode
  BY DEF ddrphy_phyinit_f_loaddmem, Goto, Panic, Stay, control, tracking
<1>2. phy' = phy \/ phy' = [[phy EXCEPT !.mux = 1, !.loaded = @ \cup {"block"}]
                                 EXCEPT !.mux = 1, !.loaded = @ \cup {"dmem"}]
  BY DEF ddrphy_phyinit_f_loaddmem, Loaded
<1>3. phy' = phy \/ phy' = [phy EXCEPT !.mux = 1, !.loaded = @ \cup {"block", "dmem"}]
  BY <1>2 DEF PhyRecord
<1>4. CASE phy' = phy
  BY <1>1, <1>4
<1>5. CASE phy' = [phy EXCEPT !.mux = 1, !.loaded = @ \cup {"block", "dmem"}]
  BY <1>1, <1>5 DEF PhyRecord
<1> QED BY <1>3, <1>4, <1>5

LEMMA Stops ==
  ASSUME stm32mp_ddr_set_qd3_update_conditions, ctl \in CtlRecord
  PROVE  /\ pc = "set_qd3" /\ pc' \in {"update", "panic"} /\ todo' = todo /\ ret' = ret /\ sr_mode' = sr_mode
         /\ ctl'.pctrl = {} /\ ctl'.core = ctl.core /\ ctl'.rfshctl3 = ctl.rfshctl3
         /\ ctl'.pwrctl = ctl.pwrctl /\ ctl'.dfimisc = ctl.dfimisc
         /\ pc' = "update" =>
              /\ ctl'.dbg1 = ctl.dbg1 \cup {"DIS_HIF"} \cup {b \in {"DIS_DQ"} : todo \in Activations}
              /\ ~ctl'.swdone
              /\ reenable' = reenable \cup ({r \in {"axi"} : ctl.pctrl # {}} \cup {r \in {"hif"} : "DIS_HIF" \notin ctl.dbg1})
<1>1. PICK dq : dq = {b \in {"DIS_DQ"} : todo \in Activations}
  OBVIOUS
<1>2. PICK on : on = {r \in {"axi"} : ctl.pctrl # {}} \cup {r \in {"hif"} : "DIS_HIF" \notin ctl.dbg1}
  OBVIOUS
<1>3. /\ pc = "set_qd3" /\ todo' = todo /\ ret' = ret /\ sr_mode' = sr_mode
      /\ \/ /\ pc' = "update" /\ reenable' = reenable \cup on
            /\ ctl' = [ctl EXCEPT !.pctrl = {}, !.dbg1 = @ \cup {"DIS_HIF"} \cup dq, !.swdone = FALSE]
         \/ /\ pc' = "panic"
            /\ \E h : ctl' = [ctl EXCEPT !.pctrl = {}, !.dbg1 = @ \cup dq \cup h]
  BY <1>1, <1>2, Zenon DEF stm32mp_ddr_set_qd3_update_conditions, Goto, Panic, Stay
<1>4. CASE pc' = "update" /\ reenable' = reenable \cup on
           /\ ctl' = [ctl EXCEPT !.pctrl = {}, !.dbg1 = @ \cup {"DIS_HIF"} \cup dq, !.swdone = FALSE]
  <2>1. /\ ctl'.pctrl = {} /\ ctl'.core = ctl.core /\ ctl'.rfshctl3 = ctl.rfshctl3 /\ ctl'.pwrctl = ctl.pwrctl
        /\ ctl'.dfimisc = ctl.dfimisc /\ ctl'.dbg1 = ctl.dbg1 \cup {"DIS_HIF"} \cup dq
    BY <1>4 DEF CtlRecord
  <2>2. ~ctl'.swdone
    BY <1>4 DEF CtlRecord
  <2> QED BY <1>1, <1>2, <1>3, <1>4, <2>1, <2>2, Zenon
<1>5. ASSUME pc' = "panic", NEW h, ctl' = [ctl EXCEPT !.pctrl = {}, !.dbg1 = @ \cup dq \cup h]
      PROVE  /\ ctl'.pctrl = {} /\ ctl'.core = ctl.core /\ ctl'.rfshctl3 = ctl.rfshctl3 /\ ctl'.pwrctl = ctl.pwrctl
             /\ ctl'.dfimisc = ctl.dfimisc
  BY <1>5 DEF CtlRecord
<1> QED BY <1>3, <1>4, <1>5

-----------------------------------------------------------------------------
(* The registers, the flags and the mailbox keep their types.               *)

LEMMA ScalarStep == Scalars /\ ModeInv /\ [SleepNext]_SleepVars => Scalars'
<1> USE DEF Stay, Kept, Set, Untouched, driver, control, registers, tracking, reading, firmware, Goto, Panic, Sleeps,
   Use,
           Scalars, Places, Changes, After
<1> SUFFICES ASSUME Scalars, ModeInv, SleepNext PROVE Scalars'
  BY DEF SleepVars, vars
<1>1. CASE BringUp /\ Call
  BY <1>1 DEF BringUp, Call
<1>2. CASE BringUp /\ Pll2
  BY <1>2 DEF BringUp, Pll2
<1>3. CASE BringUp /\ ddr_reset
  BY <1>3 DEF BringUp, ddr_reset
<1>4. CASE BringUp /\ stm32mp_ddr_set_reg
  BY <1>4 DEF BringUp, stm32mp_ddr_set_reg
<1>5. CASE BringUp /\ disable_refresh
  BY <1>5 DEF BringUp, disable_refresh
<1>6. CASE BringUp /\ stm32mp_ddr_set_qd3_update_conditions
  BY <1>6 DEF BringUp, stm32mp_ddr_set_qd3_update_conditions
<1>7. CASE BringUp /\ set_dfimisc
  BY <1>7 DEF BringUp, set_dfimisc
<1>8. CASE BringUp /\ stm32mp_ddr_unset_qd3_update_conditions
  BY <1>8 DEF BringUp, stm32mp_ddr_unset_qd3_update_conditions
<1>9. CASE BringUp /\ PhyConfigure
  BY <1>9 DEF BringUp, PhyConfigure
<1>10. CASE BringUp /\ ddrphy_phyinit_d_loadimem
  BY <1>10 DEF BringUp, ddrphy_phyinit_d_loadimem
<1>11. CASE BringUp /\ ddrphy_phyinit_f_loaddmem
  BY <1>11 DEF BringUp, ddrphy_phyinit_f_loaddmem
<1>12. CASE BringUp /\ ddrphy_phyinit_g_execfw
  BY <1>12 DEF BringUp, ddrphy_phyinit_g_execfw
<1>13. CASE BringUp /\ Fetch
  BY <1>13 DEF BringUp, Fetch
<1>14. CASE BringUp /\ Take
  <2>1. pc = "ack" /\ pc' \in {"mail", "halt", "panic"}
        /\ UNCHANGED <<ret, size, sr_mode, ctl, todo, phy, written, tracken, tracked, saved, wiring, reenable>>
    BY <1>14, TakeMoves DEF BringUp
  <2> QED BY <2>1
<1>15. CASE BringUp /\ MailTimeout
  BY <1>15 DEF BringUp, MailTimeout
<1>16. CASE BringUp /\ Halt
  BY <1>16 DEF BringUp, Halt
<1>17. CASE BringUp /\ ddrphy_phyinit_i_loadpieimage
  BY <1>17 DEF BringUp, ddrphy_phyinit_i_loadpieimage
<1>18. CASE BringUp /\ ddrphy_phyinit_usercustom_saveretregs
  BY <1>18 DEF BringUp, ddrphy_phyinit_usercustom_saveretregs
<1>19. CASE BringUp /\ restore_refresh
  BY <1>19 DEF BringUp, restore_refresh
<1>20. CASE BringUp /\ stm32mp_ddr_enable_axi_port
  BY <1>20 DEF BringUp, stm32mp_ddr_enable_axi_port
<1>21. CASE BringUp /\ Test
  BY <1>21 DEF BringUp, Test
<1>22. CASE BringUp /\ ddr_set_sr_mode
  BY <1>22 DEF BringUp, ddr_set_sr_mode
<1>23. CASE BringUp /\ FwSend
  BY <1>23 DEF BringUp, FwSend
<1>24. CASE BringUp /\ FwTakeBack
  BY <1>24 DEF BringUp, FwTakeBack
<1>25. CASE ddr_sr_entry
  BY <1>25 DEF ddr_sr_entry, ModeInv, Returned
<1>26. CASE \E standby \in BOOLEAN : SsrPortOff(standby)
  BY <1>26 DEF SsrPortOff
<1>27. CASE disable_phy_ddc
  BY <1>27 DEF disable_phy_ddc
<1>28. CASE disable_dfi_low_power_interface
  BY <1>28 DEF disable_dfi_low_power_interface
<1>29. CASE SsrAsleep
  BY <1>29 DEF SsrAsleep
<1>30. CASE ddr_wait_lp3_mode("lp3_in", "clk_off", TRUE)
  BY <1>30 DEF ddr_wait_lp3_mode
<1>31. CASE SsrClocksOff
  BY <1>31 DEF SsrClocksOff
<1>32. CASE sr_hsr_entry
  BY <1>32 DEF sr_hsr_entry
<1>33. CASE sr_asr_entry
  BY <1>33 DEF sr_asr_entry
<1>34. CASE ddr_sr_exit
  BY <1>34 DEF ddr_sr_exit, ModeInv, Nap
<1>35. CASE SsrClocksOn
  BY <1>35 DEF SsrClocksOn
<1>36. CASE ddr_wait_lp3_mode("lp3_out", "sr_out", FALSE)
  BY <1>36 DEF ddr_wait_lp3_mode
<1>37. CASE SsrAwake
  BY <1>37 DEF SsrAwake
<1>38. CASE sr_hsr_exit
  BY <1>38 DEF sr_hsr_exit
<1>39. CASE sr_asr_exit
  BY <1>39 DEF sr_asr_exit
<1>40. CASE sr_ssr_set
  BY <1>40 DEF sr_ssr_set
<1>41. CASE sr_asr_set
  BY <1>41 DEF sr_asr_set
<1>42. CASE sr_hsr_set
  BY <1>42 DEF sr_hsr_set
<1>43. CASE sr_hsr_set_done
  BY <1>43 DEF sr_hsr_set_done
<1>44. CASE ddr_save_sr_mode
  BY <1>44 DEF ddr_save_sr_mode, ddr_read_sr_mode
<1>45. CASE ddr_sub_system_clk_off
  BY <1>45 DEF ddr_sub_system_clk_off
<1> QED BY <1>1, <1>2, <1>3, <1>4, <1>5, <1>6, <1>7, <1>8, <1>9, <1>10, <1>11, <1>12, <1>13, <1>14, <1>15, <1>16,
   <1>17, <1>18, <1>19, <1>20, <1>21, <1>22, <1>23, <1>24, <1>25, <1>26, <1>27, <1>28, <1>29, <1>30, <1>31, <1>32,
   <1>33, <1>34, <1>35, <1>36, <1>37, <1>38, <1>39, <1>40, <1>41, <1>42, <1>43, <1>44, <1>45 DEF SleepNext, BringUp,
   Next, Driver, Phy, Entry, Exit, Modes

LEMMA CtlTypeStep == ctl \in CtlRecord /\ [SleepNext]_SleepVars => (ctl \in CtlRecord)'
<1> USE DEF Stay, Kept, Set, Untouched, driver, control, registers, tracking, reading, firmware, Goto, Panic, Sleeps,
   Use,
           CtlRecord
<1> SUFFICES ASSUME ctl \in CtlRecord, SleepNext PROVE (ctl \in CtlRecord)'
  BY DEF SleepVars, vars
<1>1. CASE BringUp /\ Call
  BY <1>1 DEF BringUp, Call
<1>2. CASE BringUp /\ Pll2
  BY <1>2 DEF BringUp, Pll2
<1>3. CASE BringUp /\ ddr_reset
  BY <1>3 DEF BringUp, ddr_reset, PowerOn
<1>4. CASE BringUp /\ stm32mp_ddr_set_reg
  <2>0. TRUE \in BOOLEAN /\ FALSE \in BOOLEAN
    OBVIOUS
  <2>1. /\ c_reg.rfshctl3 = {} /\ c_reg.pwrctl = {"SELFREF_SW"} /\ c_reg.dfimisc = {"INIT_COMPLETE_EN"}
        /\ c_reg.pctrl = {} /\ c_reg.dbg1 = {}
    BY DEF c_reg
  <2>2. ctl' = [ctl EXCEPT !.swdone = FALSE]
        \/ ctl' = [ctl EXCEPT !.rfshctl3 = {}, !.pwrctl = {"SELFREF_SW"}, !.dfimisc = {"INIT_COMPLETE_EN"},
                              !.pctrl = {}, !.dbg1 = {}, !.swdone = TRUE]
    BY <1>4, <2>1 DEF BringUp, stm32mp_ddr_set_reg
  <2>3. CASE ctl' = [ctl EXCEPT !.swdone = FALSE]
    BY <2>0, <2>3
  <2>4. CASE ctl' = [ctl EXCEPT !.rfshctl3 = {}, !.pwrctl = {"SELFREF_SW"}, !.dfimisc = {"INIT_COMPLETE_EN"},
                                !.pctrl = {}, !.dbg1 = {}, !.swdone = TRUE]
    BY <2>0, <2>4
  <2> QED BY <2>2, <2>3, <2>4
<1>5. CASE BringUp /\ disable_refresh
  <2> PICK off \in BOOLEAN : off = FALSE
    OBVIOUS
  <2>1. \/ ctl' = [ctl EXCEPT !.core = off, !.rfshctl3 = ctl.rfshctl3 \cup {"DIS_AUTO_REFRESH"}]
        \/ ctl' = [ctl EXCEPT !.core = off, !.rfshctl3 = ctl.rfshctl3 \cup {"DIS_AUTO_REFRESH"},
                              !.pwrctl = ctl.pwrctl \ {"POWERDOWN_EN", "SELFREF_EN"}]
    BY <1>5 DEF BringUp, disable_refresh
  <2>2. CASE ctl' = [ctl EXCEPT !.core = off, !.rfshctl3 = ctl.rfshctl3 \cup {"DIS_AUTO_REFRESH"}]
    BY <2>2
  <2>3. CASE ctl' = [ctl EXCEPT !.core = off, !.rfshctl3 = ctl.rfshctl3 \cup {"DIS_AUTO_REFRESH"},
                                !.pwrctl = ctl.pwrctl \ {"POWERDOWN_EN", "SELFREF_EN"}]
    BY <2>3
  <2> QED BY <2>1, <2>2, <2>3
<1>6. CASE BringUp /\ stm32mp_ddr_set_qd3_update_conditions
  <2>0. TRUE \in BOOLEAN /\ FALSE \in BOOLEAN
    OBVIOUS
  <2> PICK dq \in SUBSET {"DIS_DQ"} : dq = {b \in {"DIS_DQ"} : todo \in Activations}
    OBVIOUS
  <2>1. \/ ctl' = [ctl EXCEPT !.pctrl = {}, !.dbg1 = @ \cup {"DIS_HIF"} \cup dq, !.swdone = FALSE]
        \/ \E h \in SUBSET {"DIS_HIF"} : ctl' = [ctl EXCEPT !.pctrl = {}, !.dbg1 = @ \cup dq \cup h]
    BY <1>6, Zenon DEF BringUp, stm32mp_ddr_set_qd3_update_conditions
  <2>2. CASE ctl' = [ctl EXCEPT !.pctrl = {}, !.dbg1 = @ \cup {"DIS_HIF"} \cup dq, !.swdone = FALSE]
    BY <2>0, <2>2
  <2>3. ASSUME NEW h \in SUBSET {"DIS_HIF"}, ctl' = [ctl EXCEPT !.pctrl = {}, !.dbg1 = @ \cup dq \cup h]
        PROVE  ctl' \in CtlRecord
    BY <2>3
  <2> QED BY <2>1, <2>2, <2>3
<1>7. CASE BringUp /\ set_dfimisc
  BY <1>7 DEF BringUp, set_dfimisc
<1>8. CASE BringUp /\ stm32mp_ddr_unset_qd3_update_conditions
  <2>0. TRUE \in BOOLEAN /\ FALSE \in BOOLEAN
    OBVIOUS
  <2>1. \/ ctl' = [ctl EXCEPT !.swdone = TRUE]
        \/ \E p \in SUBSET {"PORT_EN"}, q \in SUBSET {"DIS_HIF", "DIS_DQ"} :
             ctl' = [ctl EXCEPT !.swdone = TRUE, !.pctrl = p, !.dbg1 = @ \ q]
    <3>1. PICK p \in SUBSET {"PORT_EN"} : p = IF "axi" \in reenable THEN {"PORT_EN"} ELSE ctl.pctrl
      OBVIOUS
    <3>2. PICK q \in SUBSET {"DIS_HIF", "DIS_DQ"} :
            q = {b \in {"DIS_HIF"} : "hif" \in reenable} \cup {b \in {"DIS_DQ"} : todo \in Activations}
      OBVIOUS
    <3> QED BY <1>8, <3>1, <3>2, Zenon DEF BringUp, stm32mp_ddr_unset_qd3_update_conditions
  <2>2. CASE ctl' = [ctl EXCEPT !.swdone = TRUE]
    BY <2>0, <2>2
  <2>3. ASSUME NEW p \in SUBSET {"PORT_EN"}, NEW q \in SUBSET {"DIS_HIF", "DIS_DQ"},
               ctl' = [ctl EXCEPT !.swdone = TRUE, !.pctrl = p, !.dbg1 = @ \ q]
        PROVE  ctl' \in CtlRecord
    BY <2>0, <2>3
  <2> QED BY <2>1, <2>2, <2>3
<1>9. CASE BringUp /\ PhyConfigure
  BY <1>9 DEF BringUp, PhyConfigure
<1>10. CASE BringUp /\ ddrphy_phyinit_d_loadimem
  BY <1>10 DEF BringUp, ddrphy_phyinit_d_loadimem
<1>11. CASE BringUp /\ ddrphy_phyinit_f_loaddmem
  BY <1>11 DEF BringUp, ddrphy_phyinit_f_loaddmem
<1>12. CASE BringUp /\ ddrphy_phyinit_g_execfw
  BY <1>12 DEF BringUp, ddrphy_phyinit_g_execfw
<1>13. CASE BringUp /\ Fetch
  BY <1>13 DEF BringUp, Fetch
<1>14. CASE BringUp /\ Take
  BY <1>14 DEF BringUp, Take
<1>15. CASE BringUp /\ MailTimeout
  BY <1>15 DEF BringUp, MailTimeout
<1>16. CASE BringUp /\ Halt
  BY <1>16 DEF BringUp, Halt
<1>17. CASE BringUp /\ ddrphy_phyinit_i_loadpieimage
  BY <1>17 DEF BringUp, ddrphy_phyinit_i_loadpieimage
<1>18. CASE BringUp /\ ddrphy_phyinit_usercustom_saveretregs
  BY <1>18 DEF BringUp, ddrphy_phyinit_usercustom_saveretregs
<1>19. CASE BringUp /\ restore_refresh
  <2>1. c_reg.rfshctl3 = {} /\ c_reg.pwrctl = {"SELFREF_SW"}
    BY DEF c_reg
  <2>2. \/ ctl' = [ctl EXCEPT !.rfshctl3 = ctl.rfshctl3 \ {"DIS_AUTO_REFRESH"}]
        \/ ctl' = [ctl EXCEPT !.rfshctl3 = ctl.rfshctl3 \ {"DIS_AUTO_REFRESH"},
                              !.pwrctl = ctl.pwrctl \ {"SELFREF_SW"}]
    BY <1>19, <2>1 DEF BringUp, restore_refresh
  <2>3. CASE ctl' = [ctl EXCEPT !.rfshctl3 = ctl.rfshctl3 \ {"DIS_AUTO_REFRESH"}]
    BY <2>3
  <2>4. CASE ctl' = [ctl EXCEPT !.rfshctl3 = ctl.rfshctl3 \ {"DIS_AUTO_REFRESH"},
                                !.pwrctl = ctl.pwrctl \ {"SELFREF_SW"}]
    BY <2>4
  <2> QED BY <2>2, <2>3, <2>4
<1>20. CASE BringUp /\ stm32mp_ddr_enable_axi_port
  BY <1>20 DEF BringUp, stm32mp_ddr_enable_axi_port
<1>21. CASE BringUp /\ Test
  BY <1>21 DEF BringUp, Test
<1>22. CASE BringUp /\ ddr_set_sr_mode
  BY <1>22 DEF BringUp, ddr_set_sr_mode
<1>23. CASE BringUp /\ FwSend
  BY <1>23 DEF BringUp, FwSend
<1>24. CASE BringUp /\ FwTakeBack
  BY <1>24 DEF BringUp, FwTakeBack
<1>25. CASE ddr_sr_entry
  BY <1>25 DEF ddr_sr_entry
<1>26. CASE \E standby \in BOOLEAN : SsrPortOff(standby)
  BY <1>26 DEF SsrPortOff
<1>27. CASE disable_phy_ddc
  BY <1>27 DEF disable_phy_ddc
<1>28. CASE disable_dfi_low_power_interface
  BY <1>28 DEF disable_dfi_low_power_interface
<1>29. CASE SsrAsleep
  BY <1>29 DEF SsrAsleep
<1>30. CASE ddr_wait_lp3_mode("lp3_in", "clk_off", TRUE)
  BY <1>30 DEF ddr_wait_lp3_mode
<1>31. CASE SsrClocksOff
  BY <1>31 DEF SsrClocksOff
<1>32. CASE sr_hsr_entry
  BY <1>32 DEF sr_hsr_entry
<1>33. CASE sr_asr_entry
  BY <1>33 DEF sr_asr_entry
<1>34. CASE ddr_sr_exit
  BY <1>34 DEF ddr_sr_exit
<1>35. CASE SsrClocksOn
  BY <1>35 DEF SsrClocksOn
<1>36. CASE ddr_wait_lp3_mode("lp3_out", "sr_out", FALSE)
  BY <1>36 DEF ddr_wait_lp3_mode
<1>37. CASE SsrAwake
  <2>1. \/ ctl' = [ctl EXCEPT !.pwrctl = @ \ {"SELFREF_SW"}, !.pctrl = {"PORT_EN"}]
        \/ ctl' = [ctl EXCEPT !.pwrctl = @ \ {"SELFREF_SW"}]
    BY <1>37 DEF SsrAwake
  <2>2. CASE ctl' = [ctl EXCEPT !.pwrctl = @ \ {"SELFREF_SW"}, !.pctrl = {"PORT_EN"}]
    BY <2>2
  <2>3. CASE ctl' = [ctl EXCEPT !.pwrctl = @ \ {"SELFREF_SW"}]
    BY <2>3
  <2> QED BY <2>1, <2>2, <2>3
<1>38. CASE sr_hsr_exit
  BY <1>38 DEF sr_hsr_exit
<1>39. CASE sr_asr_exit
  BY <1>39 DEF sr_asr_exit
<1>40. CASE sr_ssr_set
  BY <1>40 DEF sr_ssr_set
<1>41. CASE sr_asr_set
  BY <1>41 DEF sr_asr_set
<1>42. CASE sr_hsr_set
  BY <1>42 DEF sr_hsr_set
<1>43. CASE sr_hsr_set_done
  <2>0. TRUE \in BOOLEAN /\ FALSE \in BOOLEAN
    OBVIOUS
  <2>1. ctl' = [ctl EXCEPT !.pwrctl = @ \ {"SELFREF_SW"}] \/ ctl' = [ctl EXCEPT !.swdone = FALSE]
    BY <1>43 DEF sr_hsr_set_done
  <2>2. CASE ctl' = [ctl EXCEPT !.pwrctl = @ \ {"SELFREF_SW"}]
    BY <2>2
  <2>3. CASE ctl' = [ctl EXCEPT !.swdone = FALSE]
    BY <2>0, <2>3
  <2> QED BY <2>1, <2>2, <2>3
<1>44. CASE ddr_save_sr_mode
  BY <1>44 DEF ddr_save_sr_mode
<1>45. CASE ddr_sub_system_clk_off
  BY <1>45 DEF ddr_sub_system_clk_off, PowerOn
<1> QED BY <1>1, <1>2, <1>3, <1>4, <1>5, <1>6, <1>7, <1>8, <1>9, <1>10, <1>11, <1>12, <1>13, <1>14, <1>15, <1>16,
   <1>17, <1>18, <1>19, <1>20, <1>21, <1>22, <1>23, <1>24, <1>25, <1>26, <1>27, <1>28, <1>29, <1>30, <1>31, <1>32,
   <1>33, <1>34, <1>35, <1>36, <1>37, <1>38, <1>39, <1>40, <1>41, <1>42, <1>43, <1>44, <1>45 DEF SleepNext, BringUp,
   Next, Driver, Phy, Entry, Exit, Modes

LEMMA PmTypeStep == pm \in PmRecord /\ [SleepNext]_SleepVars => (pm \in PmRecord)'
<1> USE DEF Stay, Kept, Set, Untouched, driver, control, registers, tracking, reading, firmware, Goto, Panic, Sleeps,
   Use,
           PmRecord, Clocks
<1> SUFFICES ASSUME pm \in PmRecord, SleepNext PROVE (pm \in PmRecord)'
  BY DEF SleepVars, vars
<1>1. CASE BringUp /\ Call
  BY <1>1 DEF BringUp, Call
<1>2. CASE BringUp /\ Pll2
  BY <1>2 DEF BringUp, Pll2
<1>3. CASE BringUp /\ ddr_reset
  BY <1>3 DEF BringUp, ddr_reset
<1>4. CASE BringUp /\ stm32mp_ddr_set_reg
  BY <1>4 DEF BringUp, stm32mp_ddr_set_reg
<1>5. CASE BringUp /\ disable_refresh
  BY <1>5 DEF BringUp, disable_refresh
<1>6. CASE BringUp /\ stm32mp_ddr_set_qd3_update_conditions
  BY <1>6 DEF BringUp, stm32mp_ddr_set_qd3_update_conditions
<1>7. CASE BringUp /\ set_dfimisc
  BY <1>7 DEF BringUp, set_dfimisc
<1>8. CASE BringUp /\ stm32mp_ddr_unset_qd3_update_conditions
  BY <1>8 DEF BringUp, stm32mp_ddr_unset_qd3_update_conditions
<1>9. CASE BringUp /\ PhyConfigure
  BY <1>9 DEF BringUp, PhyConfigure
<1>10. CASE BringUp /\ ddrphy_phyinit_d_loadimem
  BY <1>10 DEF BringUp, ddrphy_phyinit_d_loadimem
<1>11. CASE BringUp /\ ddrphy_phyinit_f_loaddmem
  BY <1>11 DEF BringUp, ddrphy_phyinit_f_loaddmem
<1>12. CASE BringUp /\ ddrphy_phyinit_g_execfw
  BY <1>12 DEF BringUp, ddrphy_phyinit_g_execfw
<1>13. CASE BringUp /\ Fetch
  BY <1>13 DEF BringUp, Fetch
<1>14. CASE BringUp /\ Take
  BY <1>14 DEF BringUp, Take
<1>15. CASE BringUp /\ MailTimeout
  BY <1>15 DEF BringUp, MailTimeout
<1>16. CASE BringUp /\ Halt
  BY <1>16 DEF BringUp, Halt
<1>17. CASE BringUp /\ ddrphy_phyinit_i_loadpieimage
  BY <1>17 DEF BringUp, ddrphy_phyinit_i_loadpieimage
<1>18. CASE BringUp /\ ddrphy_phyinit_usercustom_saveretregs
  BY <1>18 DEF BringUp, ddrphy_phyinit_usercustom_saveretregs
<1>19. CASE BringUp /\ restore_refresh
  BY <1>19 DEF BringUp, restore_refresh
<1>20. CASE BringUp /\ stm32mp_ddr_enable_axi_port
  BY <1>20 DEF BringUp, stm32mp_ddr_enable_axi_port
<1>21. CASE BringUp /\ Test
  BY <1>21 DEF BringUp, Test
<1>22. CASE BringUp /\ ddr_set_sr_mode
  BY <1>22 DEF BringUp, ddr_set_sr_mode
<1>23. CASE BringUp /\ FwSend
  BY <1>23 DEF BringUp, FwSend
<1>24. CASE BringUp /\ FwTakeBack
  BY <1>24 DEF BringUp, FwTakeBack
<1>25. CASE ddr_sr_entry
  BY <1>25 DEF ddr_sr_entry
<1>26. CASE \E standby \in BOOLEAN : SsrPortOff(standby)
  BY <1>26 DEF SsrPortOff
<1>27. CASE disable_phy_ddc
  BY <1>27 DEF disable_phy_ddc
<1>28. CASE disable_dfi_low_power_interface
  BY <1>28 DEF disable_dfi_low_power_interface
<1>29. CASE SsrAsleep
  BY <1>29 DEF SsrAsleep
<1>30. CASE ddr_wait_lp3_mode("lp3_in", "clk_off", TRUE)
  BY <1>30 DEF ddr_wait_lp3_mode
<1>31. CASE SsrClocksOff
  BY <1>31 DEF SsrClocksOff
<1>32. CASE sr_hsr_entry
  BY <1>32 DEF sr_hsr_entry
<1>33. CASE sr_asr_entry
  BY <1>33 DEF sr_asr_entry
<1>34. CASE ddr_sr_exit
  BY <1>34 DEF ddr_sr_exit
<1>35. CASE SsrClocksOn
  BY <1>35 DEF SsrClocksOn
<1>36. CASE ddr_wait_lp3_mode("lp3_out", "sr_out", FALSE)
  BY <1>36 DEF ddr_wait_lp3_mode
<1>37. CASE SsrAwake
  BY <1>37 DEF SsrAwake
<1>38. CASE sr_hsr_exit
  BY <1>38 DEF sr_hsr_exit
<1>39. CASE sr_asr_exit
  BY <1>39 DEF sr_asr_exit
<1>40. CASE sr_ssr_set
  BY <1>40 DEF sr_ssr_set
<1>41. CASE sr_asr_set
  BY <1>41 DEF sr_asr_set
<1>42. CASE sr_hsr_set
  BY <1>42 DEF sr_hsr_set
<1>43. CASE sr_hsr_set_done
  BY <1>43 DEF sr_hsr_set_done
<1>44. CASE ddr_save_sr_mode
  BY <1>44 DEF ddr_save_sr_mode
<1>45. CASE ddr_sub_system_clk_off
  BY <1>45 DEF ddr_sub_system_clk_off, Off
<1> QED BY <1>1, <1>2, <1>3, <1>4, <1>5, <1>6, <1>7, <1>8, <1>9, <1>10, <1>11, <1>12, <1>13, <1>14, <1>15, <1>16,
   <1>17, <1>18, <1>19, <1>20, <1>21, <1>22, <1>23, <1>24, <1>25, <1>26, <1>27, <1>28, <1>29, <1>30, <1>31, <1>32,
   <1>33, <1>34, <1>35, <1>36, <1>37, <1>38, <1>39, <1>40, <1>41, <1>42, <1>43, <1>44, <1>45 DEF SleepNext, BringUp,
   Next, Driver, Phy, Entry, Exit, Modes

LEMMA PhyTypeStep == PhyTypes /\ [SleepNext]_SleepVars => PhyTypes'
<1> USE DEF Stay, Kept, Set, Untouched, driver, control, registers, tracking, reading, firmware, Goto, Panic, Sleeps,
   Use,
           PhyTypes, PhyRecord, Steps, ListSteps
<1> SUFFICES ASSUME PhyTypes, SleepNext PROVE PhyTypes'
  BY DEF SleepVars, vars
<1>1. CASE BringUp /\ Call
  BY <1>1 DEF BringUp, Call
<1>2. CASE BringUp /\ Pll2
  BY <1>2 DEF BringUp, Pll2
<1>3. CASE BringUp /\ ddr_reset
  BY <1>3 DEF BringUp, ddr_reset, PhyReset
<1>4. CASE BringUp /\ stm32mp_ddr_set_reg
  BY <1>4 DEF BringUp, stm32mp_ddr_set_reg
<1>5. CASE BringUp /\ disable_refresh
  BY <1>5 DEF BringUp, disable_refresh
<1>6. CASE BringUp /\ stm32mp_ddr_set_qd3_update_conditions
  BY <1>6 DEF BringUp, stm32mp_ddr_set_qd3_update_conditions
<1>7. CASE BringUp /\ set_dfimisc
  BY <1>7 DEF BringUp, set_dfimisc
<1>8. CASE BringUp /\ stm32mp_ddr_unset_qd3_update_conditions
  BY <1>8 DEF BringUp, stm32mp_ddr_unset_qd3_update_conditions
<1>9. CASE BringUp /\ PhyConfigure
  BY <1>9 DEF BringUp, PhyConfigure, Put
<1>10. CASE BringUp /\ ddrphy_phyinit_d_loadimem
  BY <1>10 DEF BringUp, ddrphy_phyinit_d_loadimem, Put, Loaded
<1>11. CASE BringUp /\ ddrphy_phyinit_f_loaddmem
  <2>1. UNCHANGED <<written, tracken, tracked, saved>> /\ (phy' = phy \/ phy' = [phy EXCEPT !.mux = 1, !.loaded = @ \cup {"block", "dmem"}])
    BY <1>11, PhyLoaded DEF BringUp
  <2>2. CASE phy' = phy
    BY <2>1, <2>2
  <2>3. CASE phy' = [phy EXCEPT !.mux = 1, !.loaded = @ \cup {"block", "dmem"}]
    BY <2>1, <2>3
  <2> QED BY <2>1, <2>2, <2>3
<1>12. CASE BringUp /\ ddrphy_phyinit_g_execfw
  BY <1>12 DEF BringUp, ddrphy_phyinit_g_execfw
<1>13. CASE BringUp /\ Fetch
  BY <1>13 DEF BringUp, Fetch
<1>14. CASE BringUp /\ Take
  BY <1>14 DEF BringUp, Take
<1>15. CASE BringUp /\ MailTimeout
  BY <1>15 DEF BringUp, MailTimeout
<1>16. CASE BringUp /\ Halt
  BY <1>16 DEF BringUp, Halt
<1>17. CASE BringUp /\ ddrphy_phyinit_i_loadpieimage
  BY <1>17 DEF BringUp, ddrphy_phyinit_i_loadpieimage
<1>18. CASE BringUp /\ ddrphy_phyinit_usercustom_saveretregs
  BY <1>18 DEF BringUp, ddrphy_phyinit_usercustom_saveretregs
<1>19. CASE BringUp /\ restore_refresh
  BY <1>19 DEF BringUp, restore_refresh
<1>20. CASE BringUp /\ stm32mp_ddr_enable_axi_port
  BY <1>20 DEF BringUp, stm32mp_ddr_enable_axi_port
<1>21. CASE BringUp /\ Test
  BY <1>21 DEF BringUp, Test
<1>22. CASE BringUp /\ ddr_set_sr_mode
  BY <1>22 DEF BringUp, ddr_set_sr_mode
<1>23. CASE BringUp /\ FwSend
  BY <1>23 DEF BringUp, FwSend
<1>24. CASE BringUp /\ FwTakeBack
  BY <1>24 DEF BringUp, FwTakeBack
<1>25. CASE ddr_sr_entry
  BY <1>25 DEF ddr_sr_entry
<1>26. CASE \E standby \in BOOLEAN : SsrPortOff(standby)
  BY <1>26 DEF SsrPortOff
<1>27. CASE disable_phy_ddc
  BY <1>27 DEF disable_phy_ddc
<1>28. CASE disable_dfi_low_power_interface
  BY <1>28 DEF disable_dfi_low_power_interface
<1>29. CASE SsrAsleep
  BY <1>29 DEF SsrAsleep
<1>30. CASE ddr_wait_lp3_mode("lp3_in", "clk_off", TRUE)
  BY <1>30 DEF ddr_wait_lp3_mode
<1>31. CASE SsrClocksOff
  BY <1>31 DEF SsrClocksOff
<1>32. CASE sr_hsr_entry
  BY <1>32 DEF sr_hsr_entry
<1>33. CASE sr_asr_entry
  BY <1>33 DEF sr_asr_entry
<1>34. CASE ddr_sr_exit
  BY <1>34 DEF ddr_sr_exit
<1>35. CASE SsrClocksOn
  BY <1>35 DEF SsrClocksOn
<1>36. CASE ddr_wait_lp3_mode("lp3_out", "sr_out", FALSE)
  BY <1>36 DEF ddr_wait_lp3_mode
<1>37. CASE SsrAwake
  BY <1>37 DEF SsrAwake
<1>38. CASE sr_hsr_exit
  BY <1>38 DEF sr_hsr_exit
<1>39. CASE sr_asr_exit
  BY <1>39 DEF sr_asr_exit
<1>40. CASE sr_ssr_set
  BY <1>40 DEF sr_ssr_set
<1>41. CASE sr_asr_set
  BY <1>41 DEF sr_asr_set
<1>42. CASE sr_hsr_set
  BY <1>42 DEF sr_hsr_set
<1>43. CASE sr_hsr_set_done
  BY <1>43 DEF sr_hsr_set_done
<1>44. CASE ddr_save_sr_mode
  BY <1>44 DEF ddr_save_sr_mode
<1>45. CASE ddr_sub_system_clk_off
  BY <1>45 DEF ddr_sub_system_clk_off, PhyReset
<1> QED BY <1>1, <1>2, <1>3, <1>4, <1>5, <1>6, <1>7, <1>8, <1>9, <1>10, <1>11, <1>12, <1>13, <1>14, <1>15, <1>16,
   <1>17, <1>18, <1>19, <1>20, <1>21, <1>22, <1>23, <1>24, <1>25, <1>26, <1>27, <1>28, <1>29, <1>30, <1>31, <1>32,
   <1>33, <1>34, <1>35, <1>36, <1>37, <1>38, <1>39, <1>40, <1>41, <1>42, <1>43, <1>44, <1>45 DEF SleepNext, BringUp,
   Next, Driver, Phy, Entry, Exit, Modes

LEMMA MailTypeStep == MailTypes /\ ReadInv /\ MailInv /\ [SleepNext]_SleepVars => MailTypes'
<1> USE DEF Stay, Kept, Set, Untouched, driver, control, registers, tracking, reading, firmware, Goto, Panic, Sleeps,
   Use,
           MailTypes, MailRecord
<1> SUFFICES ASSUME MailTypes, ReadInv, MailInv, SleepNext PROVE MailTypes'
  BY DEF SleepVars, vars
<1>1. CASE BringUp /\ Call
  BY <1>1 DEF BringUp, Call
<1>2. CASE BringUp /\ Pll2
  BY <1>2 DEF BringUp, Pll2
<1>3. CASE BringUp /\ ddr_reset
  BY <1>3, ScriptIs DEF BringUp, ddr_reset, Quiet
<1>4. CASE BringUp /\ stm32mp_ddr_set_reg
  BY <1>4 DEF BringUp, stm32mp_ddr_set_reg
<1>5. CASE BringUp /\ disable_refresh
  BY <1>5 DEF BringUp, disable_refresh
<1>6. CASE BringUp /\ stm32mp_ddr_set_qd3_update_conditions
  BY <1>6 DEF BringUp, stm32mp_ddr_set_qd3_update_conditions
<1>7. CASE BringUp /\ set_dfimisc
  BY <1>7 DEF BringUp, set_dfimisc
<1>8. CASE BringUp /\ stm32mp_ddr_unset_qd3_update_conditions
  BY <1>8 DEF BringUp, stm32mp_ddr_unset_qd3_update_conditions
<1>9. CASE BringUp /\ PhyConfigure
  BY <1>9 DEF BringUp, PhyConfigure
<1>10. CASE BringUp /\ ddrphy_phyinit_d_loadimem
  BY <1>10 DEF BringUp, ddrphy_phyinit_d_loadimem
<1>11. CASE BringUp /\ ddrphy_phyinit_f_loaddmem
  BY <1>11 DEF BringUp, ddrphy_phyinit_f_loaddmem
<1>12. CASE BringUp /\ ddrphy_phyinit_g_execfw
  BY <1>12 DEF BringUp, ddrphy_phyinit_g_execfw
<1>13. CASE BringUp /\ Fetch
  BY <1>13 DEF BringUp, Fetch
<1>14. CASE BringUp /\ Take
  <2>1. got # <<>> /\ pc = "ack" /\ UNCHANGED <<got, script, said>> /\ mail' = [mail EXCEPT !.prot = 1]
    BY <1>14 DEF BringUp, Take, ack_message_receipt, MailInv
  <2>2. Low16(got[Len(got)]) \in Nat
    BY <2>1 DEF Low16
  <2>3. expect = "word" => left \in Nat \ {0}
    BY <2>1 DEF ReadInv, Aligned
  <2>4. expect' \in {"major", "length", "word"} /\ left' \in {left, left - 1, Low16(got[Len(got)])}
        /\ (left' = left - 1 => expect = "word" \/ left' = left \/ left' = Low16(got[Len(got)]))
    BY <1>14 DEF BringUp, Take, Streamed
  <2> QED BY <2>1, <2>2, <2>3, <2>4
<1>15. CASE BringUp /\ MailTimeout
  BY <1>15 DEF BringUp, MailTimeout
<1>16. CASE BringUp /\ Halt
  BY <1>16 DEF BringUp, Halt
<1>17. CASE BringUp /\ ddrphy_phyinit_i_loadpieimage
  BY <1>17 DEF BringUp, ddrphy_phyinit_i_loadpieimage
<1>18. CASE BringUp /\ ddrphy_phyinit_usercustom_saveretregs
  BY <1>18 DEF BringUp, ddrphy_phyinit_usercustom_saveretregs
<1>19. CASE BringUp /\ restore_refresh
  BY <1>19 DEF BringUp, restore_refresh
<1>20. CASE BringUp /\ stm32mp_ddr_enable_axi_port
  BY <1>20 DEF BringUp, stm32mp_ddr_enable_axi_port
<1>21. CASE BringUp /\ Test
  BY <1>21 DEF BringUp, Test
<1>22. CASE BringUp /\ ddr_set_sr_mode
  BY <1>22 DEF BringUp, ddr_set_sr_mode
<1>23. CASE BringUp /\ FwSend
  <2>1. said + 1 \in 0 .. Len(script) /\ script[said + 1] \in Nat
    BY <1>23, ScriptIs DEF BringUp, FwSend
  <2>2. /\ mail' = [mail EXCEPT !.shadow = 0, !.word = script[said + 1]] /\ said' = said + 1
        /\ UNCHANGED <<expect, left, got, script>>
    BY <1>23 DEF BringUp, FwSend
  <2> QED BY <2>1, <2>2
<1>24. CASE BringUp /\ FwTakeBack
  BY <1>24 DEF BringUp, FwTakeBack
<1>25. CASE ddr_sr_entry
  BY <1>25 DEF ddr_sr_entry
<1>26. CASE \E standby \in BOOLEAN : SsrPortOff(standby)
  BY <1>26 DEF SsrPortOff
<1>27. CASE disable_phy_ddc
  BY <1>27 DEF disable_phy_ddc
<1>28. CASE disable_dfi_low_power_interface
  BY <1>28 DEF disable_dfi_low_power_interface
<1>29. CASE SsrAsleep
  BY <1>29 DEF SsrAsleep
<1>30. CASE ddr_wait_lp3_mode("lp3_in", "clk_off", TRUE)
  BY <1>30 DEF ddr_wait_lp3_mode
<1>31. CASE SsrClocksOff
  BY <1>31 DEF SsrClocksOff
<1>32. CASE sr_hsr_entry
  BY <1>32 DEF sr_hsr_entry
<1>33. CASE sr_asr_entry
  BY <1>33 DEF sr_asr_entry
<1>34. CASE ddr_sr_exit
  BY <1>34 DEF ddr_sr_exit
<1>35. CASE SsrClocksOn
  BY <1>35 DEF SsrClocksOn
<1>36. CASE ddr_wait_lp3_mode("lp3_out", "sr_out", FALSE)
  BY <1>36 DEF ddr_wait_lp3_mode
<1>37. CASE SsrAwake
  BY <1>37 DEF SsrAwake
<1>38. CASE sr_hsr_exit
  BY <1>38 DEF sr_hsr_exit
<1>39. CASE sr_asr_exit
  BY <1>39 DEF sr_asr_exit
<1>40. CASE sr_ssr_set
  BY <1>40 DEF sr_ssr_set
<1>41. CASE sr_asr_set
  BY <1>41 DEF sr_asr_set
<1>42. CASE sr_hsr_set
  BY <1>42 DEF sr_hsr_set
<1>43. CASE sr_hsr_set_done
  BY <1>43 DEF sr_hsr_set_done
<1>44. CASE ddr_save_sr_mode
  BY <1>44 DEF ddr_save_sr_mode
<1>45. CASE ddr_sub_system_clk_off
  BY <1>45 DEF ddr_sub_system_clk_off, Quiet
<1> QED BY <1>1, <1>2, <1>3, <1>4, <1>5, <1>6, <1>7, <1>8, <1>9, <1>10, <1>11, <1>12, <1>13, <1>14, <1>15, <1>16,
   <1>17, <1>18, <1>19, <1>20, <1>21, <1>22, <1>23, <1>24, <1>25, <1>26, <1>27, <1>28, <1>29, <1>30, <1>31, <1>32,
   <1>33, <1>34, <1>35, <1>36, <1>37, <1>38, <1>39, <1>40, <1>41, <1>42, <1>43, <1>44, <1>45 DEF SleepNext, BringUp,
   Next, Driver, Phy, Entry, Exit, Modes

-----------------------------------------------------------------------------
(* The mode, and the registers of the controller.                           *)

LEMMA ModeStep == Scalars /\ ModeInv /\ PowerInv /\ [SleepNext]_SleepVars => ModeInv'
<1> USE DEF Stay, Kept, Set, Untouched, driver, control, registers, tracking, reading, firmware, Goto, Panic, Sleeps,
   Use,
           Scalars, ModeInv, Places, Changes, After, Change, Returned, Nap, Napping, Falling, Rising
<1> SUFFICES ASSUME Scalars, ModeInv, PowerInv, SleepNext PROVE ModeInv'
  BY DEF SleepVars, vars
<1>1. CASE BringUp /\ Call
  BY <1>1 DEF BringUp, Call
<1>2. CASE BringUp /\ Pll2
  BY <1>2 DEF BringUp, Pll2
<1>3. CASE BringUp /\ ddr_reset
  BY <1>3 DEF BringUp, ddr_reset
<1>4. CASE BringUp /\ stm32mp_ddr_set_reg
  BY <1>4 DEF BringUp, stm32mp_ddr_set_reg
<1>5. CASE BringUp /\ disable_refresh
  BY <1>5 DEF BringUp, disable_refresh
<1>6. CASE BringUp /\ stm32mp_ddr_set_qd3_update_conditions
  BY <1>6 DEF BringUp, stm32mp_ddr_set_qd3_update_conditions
<1>7. CASE BringUp /\ set_dfimisc
  BY <1>7 DEF BringUp, set_dfimisc
<1>8. CASE BringUp /\ stm32mp_ddr_unset_qd3_update_conditions
  BY <1>8 DEF BringUp, stm32mp_ddr_unset_qd3_update_conditions
<1>9. CASE BringUp /\ PhyConfigure
  BY <1>9 DEF BringUp, PhyConfigure
<1>10. CASE BringUp /\ ddrphy_phyinit_d_loadimem
  BY <1>10 DEF BringUp, ddrphy_phyinit_d_loadimem
<1>11. CASE BringUp /\ ddrphy_phyinit_f_loaddmem
  BY <1>11 DEF BringUp, ddrphy_phyinit_f_loaddmem
<1>12. CASE BringUp /\ ddrphy_phyinit_g_execfw
  BY <1>12 DEF BringUp, ddrphy_phyinit_g_execfw
<1>13. CASE BringUp /\ Fetch
  BY <1>13 DEF BringUp, Fetch
<1>14. CASE BringUp /\ Take
  <2>1. pc = "ack" /\ pc' \in {"mail", "halt", "panic"}
        /\ UNCHANGED <<ret, size, sr_mode, ctl, todo, phy, written, tracken, tracked, saved, wiring, reenable>>
    BY <1>14, TakeMoves DEF BringUp
  <2> QED BY <2>1
<1>15. CASE BringUp /\ MailTimeout
  BY <1>15 DEF BringUp, MailTimeout
<1>16. CASE BringUp /\ Halt
  BY <1>16 DEF BringUp, Halt
<1>17. CASE BringUp /\ ddrphy_phyinit_i_loadpieimage
  BY <1>17 DEF BringUp, ddrphy_phyinit_i_loadpieimage
<1>18. CASE BringUp /\ ddrphy_phyinit_usercustom_saveretregs
  BY <1>18 DEF BringUp, ddrphy_phyinit_usercustom_saveretregs
<1>19. CASE BringUp /\ restore_refresh
  BY <1>19 DEF BringUp, restore_refresh
<1>20. CASE BringUp /\ stm32mp_ddr_enable_axi_port
  BY <1>20 DEF BringUp, stm32mp_ddr_enable_axi_port
<1>21. CASE BringUp /\ Test
  BY <1>21 DEF BringUp, Test
<1>22. CASE BringUp /\ ddr_set_sr_mode
  BY <1>22 DEF BringUp, ddr_set_sr_mode
<1>23. CASE BringUp /\ FwSend
  BY <1>23 DEF BringUp, FwSend
<1>24. CASE BringUp /\ FwTakeBack
  BY <1>24 DEF BringUp, FwTakeBack
<1>25. CASE ddr_sr_entry
  BY <1>25 DEF ddr_sr_entry
<1>26. CASE \E standby \in BOOLEAN : SsrPortOff(standby)
  BY <1>26 DEF SsrPortOff
<1>27. CASE disable_phy_ddc
  BY <1>27 DEF disable_phy_ddc
<1>28. CASE disable_dfi_low_power_interface
  BY <1>28 DEF disable_dfi_low_power_interface
<1>29. CASE SsrAsleep
  BY <1>29 DEF SsrAsleep
<1>30. CASE ddr_wait_lp3_mode("lp3_in", "clk_off", TRUE)
  BY <1>30 DEF ddr_wait_lp3_mode
<1>31. CASE SsrClocksOff
  BY <1>31 DEF SsrClocksOff
<1>32. CASE sr_hsr_entry
  BY <1>32 DEF sr_hsr_entry
<1>33. CASE sr_asr_entry
  BY <1>33 DEF sr_asr_entry
<1>34. CASE ddr_sr_exit
  BY <1>34 DEF ddr_sr_exit
<1>35. CASE SsrClocksOn
  BY <1>35 DEF SsrClocksOn
<1>36. CASE ddr_wait_lp3_mode("lp3_out", "sr_out", FALSE)
  BY <1>36 DEF ddr_wait_lp3_mode
<1>37. CASE SsrAwake
  BY <1>37 DEF SsrAwake
<1>38. CASE sr_hsr_exit
  BY <1>38 DEF sr_hsr_exit
<1>39. CASE sr_asr_exit
  BY <1>39 DEF sr_asr_exit
<1>40. CASE sr_ssr_set
  BY <1>40 DEF sr_ssr_set
<1>41. CASE sr_asr_set
  BY <1>41 DEF sr_asr_set
<1>42. CASE sr_hsr_set
  BY <1>42 DEF sr_hsr_set
<1>43. CASE sr_hsr_set_done
  BY <1>43 DEF sr_hsr_set_done
<1>44. CASE ddr_save_sr_mode
  BY <1>44 DEF ddr_save_sr_mode, ddr_read_sr_mode, LowPower, PowerInv, Working
<1>45. CASE ddr_sub_system_clk_off
  BY <1>45, ClocksEnd, SMTT(30)
<1> QED BY <1>1, <1>2, <1>3, <1>4, <1>5, <1>6, <1>7, <1>8, <1>9, <1>10, <1>11, <1>12, <1>13, <1>14, <1>15, <1>16,
   <1>17, <1>18, <1>19, <1>20, <1>21, <1>22, <1>23, <1>24, <1>25, <1>26, <1>27, <1>28, <1>29, <1>30, <1>31, <1>32,
   <1>33, <1>34, <1>35, <1>36, <1>37, <1>38, <1>39, <1>40, <1>41, <1>42, <1>43, <1>44, <1>45 DEF SleepNext, BringUp,
   Next, Driver, Phy, Entry, Exit, Modes

LEMMA CtlStep == Scalars /\ ctl \in CtlRecord /\ ModeInv /\ CtlInv /\ [SleepNext]_SleepVars => CtlInv'
<1> USE DEF Stay, Kept, Set, Untouched, driver, control, registers, tracking, reading, firmware, Goto, Panic, Sleeps,
   Use,
           Scalars, CtlRecord, ModeInv, CtlInv, Activations, Places, Changes, After, Reset, Load, Talk, Train,
              Holding, Resuming, Working, Falling, Rising, SoftNap, Soft, Running, Change, InChange, Returned, Nap,
              Napping
<1> SUFFICES ASSUME Scalars, ctl \in CtlRecord, ModeInv, CtlInv, SleepNext PROVE CtlInv'
  BY DEF SleepVars, vars
<1>1. CASE BringUp /\ Call
  BY <1>1 DEF BringUp, Call
<1>2. CASE BringUp /\ Pll2
  BY <1>2 DEF BringUp, Pll2
<1>3. CASE BringUp /\ ddr_reset
  BY <1>3 DEF BringUp, ddr_reset, PowerOn
<1>4. CASE BringUp /\ stm32mp_ddr_set_reg
  <2>1. /\ c_reg.rfshctl3 = {} /\ c_reg.dfimisc = {"INIT_COMPLETE_EN"} /\ c_reg.pctrl = {} /\ c_reg.dbg1 = {}
        /\ c_reg.pwrctl = {"SELFREF_SW"}
    BY DEF c_reg
  <2>2. /\ pc = "set_reg" /\ pc' \in {"release", "panic"} /\ ctl'.core = ctl.core /\ reenable' = reenable
        /\ todo' = todo /\ ret' = ret /\ sr_mode' = sr_mode
    BY <1>4 DEF BringUp, stm32mp_ddr_set_reg
  <2>3. pc' = "release" => ctl' = [ctl EXCEPT !.rfshctl3 = {}, !.pwrctl = {"SELFREF_SW"}, !.dfimisc = {"INIT_COMPLETE_EN"},
                                             !.pctrl = {}, !.dbg1 = {}, !.swdone = TRUE]
    BY <1>4, <2>1, <2>2, Zenon DEF BringUp, stm32mp_ddr_set_reg
  <2>4. ASSUME pc' = "release"
        PROVE  /\ ctl'.rfshctl3 = {} /\ ctl'.pwrctl = {"SELFREF_SW"} /\ ctl'.dfimisc = {"INIT_COMPLETE_EN"}
               /\ ctl'.pctrl = {} /\ ctl'.dbg1 = {} /\ ctl'.swdone
    <3>1. ctl' = [ctl EXCEPT !.rfshctl3 = {}, !.pwrctl = {"SELFREF_SW"}, !.dfimisc = {"INIT_COMPLETE_EN"},
                             !.pctrl = {}, !.dbg1 = {}, !.swdone = TRUE]
      BY <2>3, <2>4
    <3>2. ctl'.swdone = TRUE
      BY <3>1, Zenon
    <3> QED BY <3>1, <3>2
  <2> QED BY <2>2, <2>4
<1>5. CASE BringUp /\ disable_refresh
  BY <1>5 DEF BringUp, disable_refresh
<1>6. CASE BringUp /\ stm32mp_ddr_set_qd3_update_conditions
  BY <1>6, Stops DEF BringUp
<1>7. CASE BringUp /\ set_dfimisc
  BY <1>7 DEF BringUp, set_dfimisc
<1>8. CASE BringUp /\ stm32mp_ddr_unset_qd3_update_conditions
  <2>1. /\ pc = "unset_qd3" /\ todo \in Changes /\ todo' = todo /\ ret' = ret /\ sr_mode' = sr_mode
        /\ pc' = "panic" \/ pc' = After[todo]
    BY <1>8 DEF BringUp, stm32mp_ddr_unset_qd3_update_conditions
  <2>2. \/ pc' = "panic"
        \/ todo = "hold" /\ pc' = "phy_c"
        \/ todo = "activate" /\ pc' = "restore"
        \/ todo = "resume" /\ pc' = "axi"
        \/ todo = "sleep" /\ pc' = "lp3_in"
        \/ todo = "wake" /\ pc' = "lp3_out"
    BY <2>1

  <2>3. pc' # "panic" => /\ ctl'.pctrl = IF "axi" \in reenable THEN {"PORT_EN"} ELSE ctl.pctrl
                         /\ ctl'.dbg1 = ctl.dbg1 \ ({b \in {"DIS_HIF"} : "hif" \in reenable}
                                                  \cup {b \in {"DIS_DQ"} : todo \in Activations})
                         /\ ctl'.core = ctl.core /\ ctl'.swdone /\ ctl'.rfshctl3 = ctl.rfshctl3 /\ reenable' = {}
    BY <1>8, <2>1 DEF BringUp, stm32mp_ddr_unset_qd3_update_conditions
  <2>4. reenable = {"hif"} /\ Running /\ ~Working
    BY <2>1
  <2>5. pc' # "panic" => /\ ctl'.pctrl = {} /\ ctl'.dbg1 = {} /\ ~ctl'.core /\ ctl'.swdone
                         /\ ctl'.rfshctl3 = (IF Holding THEN {"DIS_AUTO_REFRESH"} ELSE {}) /\ reenable' = {}
    BY <2>1, <2>3, <2>4
  <2> QED BY <2>1, <2>2, <2>5
<1>9. CASE BringUp /\ PhyConfigure
  BY <1>9 DEF BringUp, PhyConfigure
<1>10. CASE BringUp /\ ddrphy_phyinit_d_loadimem
  BY <1>10 DEF BringUp, ddrphy_phyinit_d_loadimem
<1>11. CASE BringUp /\ ddrphy_phyinit_f_loaddmem
  BY <1>11 DEF BringUp, ddrphy_phyinit_f_loaddmem
<1>12. CASE BringUp /\ ddrphy_phyinit_g_execfw
  BY <1>12 DEF BringUp, ddrphy_phyinit_g_execfw
<1>13. CASE BringUp /\ Fetch
  BY <1>13 DEF BringUp, Fetch
<1>14. CASE BringUp /\ Take
  <2>1. pc = "ack" /\ pc' \in {"mail", "halt", "panic"}
        /\ UNCHANGED <<ret, size, sr_mode, ctl, todo, phy, written, tracken, tracked, saved, wiring, reenable>>
    BY <1>14, TakeMoves DEF BringUp
  <2> QED BY <2>1
<1>15. CASE BringUp /\ MailTimeout
  BY <1>15 DEF BringUp, MailTimeout
<1>16. CASE BringUp /\ Halt
  BY <1>16 DEF BringUp, Halt
<1>17. CASE BringUp /\ ddrphy_phyinit_i_loadpieimage
  BY <1>17 DEF BringUp, ddrphy_phyinit_i_loadpieimage
<1>18. CASE BringUp /\ ddrphy_phyinit_usercustom_saveretregs
  BY <1>18 DEF BringUp, ddrphy_phyinit_usercustom_saveretregs
<1>19. CASE BringUp /\ restore_refresh
  BY <1>19 DEF BringUp, restore_refresh, c_reg
<1>20. CASE BringUp /\ stm32mp_ddr_enable_axi_port
  BY <1>20 DEF BringUp, stm32mp_ddr_enable_axi_port
<1>21. CASE BringUp /\ Test
  BY <1>21 DEF BringUp, Test
<1>22. CASE BringUp /\ ddr_set_sr_mode
  BY <1>22 DEF BringUp, ddr_set_sr_mode
<1>23. CASE BringUp /\ FwSend
  BY <1>23 DEF BringUp, FwSend
<1>24. CASE BringUp /\ FwTakeBack
  BY <1>24 DEF BringUp, FwTakeBack
<1>25. CASE ddr_sr_entry
  BY <1>25 DEF ddr_sr_entry
<1>26. CASE \E standby \in BOOLEAN : SsrPortOff(standby)
  BY <1>26 DEF SsrPortOff
<1>27. CASE disable_phy_ddc
  BY <1>27 DEF disable_phy_ddc
<1>28. CASE disable_dfi_low_power_interface
  BY <1>28 DEF disable_dfi_low_power_interface
<1>29. CASE SsrAsleep
  BY <1>29 DEF SsrAsleep
<1>30. CASE ddr_wait_lp3_mode("lp3_in", "clk_off", TRUE)
  BY <1>30 DEF ddr_wait_lp3_mode
<1>31. CASE SsrClocksOff
  BY <1>31 DEF SsrClocksOff
<1>32. CASE sr_hsr_entry
  BY <1>32 DEF sr_hsr_entry
<1>33. CASE sr_asr_entry
  BY <1>33 DEF sr_asr_entry
<1>34. CASE ddr_sr_exit
  BY <1>34 DEF ddr_sr_exit
<1>35. CASE SsrClocksOn
  BY <1>35 DEF SsrClocksOn
<1>36. CASE ddr_wait_lp3_mode("lp3_out", "sr_out", FALSE)
  BY <1>36 DEF ddr_wait_lp3_mode
<1>37. CASE SsrAwake
  BY <1>37, Awake
<1>38. CASE sr_hsr_exit
  BY <1>38 DEF sr_hsr_exit
<1>39. CASE sr_asr_exit
  BY <1>39 DEF sr_asr_exit
<1>40. CASE sr_ssr_set
  BY <1>40 DEF sr_ssr_set
<1>41. CASE sr_asr_set
  BY <1>41 DEF sr_asr_set
<1>42. CASE sr_hsr_set
  BY <1>42 DEF sr_hsr_set
<1>43. CASE sr_hsr_set_done
  BY <1>43 DEF sr_hsr_set_done
<1>44. CASE ddr_save_sr_mode
  BY <1>44 DEF ddr_save_sr_mode, ddr_read_sr_mode, LowPower
<1>45. CASE ddr_sub_system_clk_off
  BY <1>45 DEF ddr_sub_system_clk_off, PowerOn
<1> QED BY <1>1, <1>2, <1>3, <1>4, <1>5, <1>6, <1>7, <1>8, <1>9, <1>10, <1>11, <1>12, <1>13, <1>14, <1>15, <1>16,
   <1>17, <1>18, <1>19, <1>20, <1>21, <1>22, <1>23, <1>24, <1>25, <1>26, <1>27, <1>28, <1>29, <1>30, <1>31, <1>32,
   <1>33, <1>34, <1>35, <1>36, <1>37, <1>38, <1>39, <1>40, <1>41, <1>42, <1>43, <1>44, <1>45 DEF SleepNext, BringUp,
   Next, Driver, Phy, Entry, Exit, Modes

LEMMA PowerStep == Scalars /\ ctl \in CtlRecord /\ ModeInv /\ PowerInv /\ [SleepNext]_SleepVars => PowerInv'
<1> USE DEF Stay, Kept, Set, Untouched, driver, control, registers, tracking, reading, firmware, Goto, Panic, Sleeps,
   Use,
           Scalars, CtlRecord, ModeInv, PowerInv, Activations, Places, Changes, After, Reset, Load, Talk, Train,
              Holding, Resuming, Working, Falling, Rising, SoftNap, Soft, Running, Change, InChange, Returned, Nap,
              Napping
<1> SUFFICES ASSUME Scalars, ctl \in CtlRecord, ModeInv, PowerInv, SleepNext PROVE PowerInv'
  BY DEF SleepVars, vars
<1>1. CASE BringUp /\ Call
  BY <1>1 DEF BringUp, Call
<1>2. CASE BringUp /\ Pll2
  BY <1>2 DEF BringUp, Pll2
<1>3. CASE BringUp /\ ddr_reset
  BY <1>3 DEF BringUp, ddr_reset, PowerOn
<1>4. CASE BringUp /\ stm32mp_ddr_set_reg
  BY <1>4 DEF BringUp, stm32mp_ddr_set_reg, c_reg
<1>5. CASE BringUp /\ disable_refresh
  <2>1. CASE pc' = "panic"
    <3>1. /\ ret' = ret /\ sr_mode' = sr_mode /\ todo' = todo
          /\ ctl'.pwrctl = ctl.pwrctl /\ ctl'.dfimisc = ctl.dfimisc
      BY <1>5, <2>1 DEF BringUp, disable_refresh
    <3> QED BY <2>1, <3>1
  <2>2. CASE pc' # "panic"
    <3>1. /\ pc = "release" /\ pc' = "set_qd3" /\ todo' = "hold" /\ ret' = ret /\ sr_mode' = sr_mode
          /\ ctl'.pwrctl = ctl.pwrctl \ {"POWERDOWN_EN", "SELFREF_EN"} /\ ctl'.dfimisc = ctl.dfimisc
      BY <1>5, <2>2 DEF BringUp, disable_refresh
    <3> QED BY <3>1
  <2> QED BY <2>1, <2>2
<1>6. CASE BringUp /\ stm32mp_ddr_set_qd3_update_conditions
  BY <1>6, Stops DEF BringUp
<1>7. CASE BringUp /\ set_dfimisc
  BY <1>7 DEF BringUp, set_dfimisc
<1>8. CASE BringUp /\ stm32mp_ddr_unset_qd3_update_conditions
  <2>1. /\ pc = "unset_qd3" /\ todo \in Changes /\ todo' = todo /\ ret' = ret /\ sr_mode' = sr_mode
        /\ pc' = "panic" \/ pc' = After[todo]
    BY <1>8 DEF BringUp, stm32mp_ddr_unset_qd3_update_conditions
  <2>2. \/ pc' = "panic"
        \/ todo = "hold" /\ pc' = "phy_c"
        \/ todo = "activate" /\ pc' = "restore"
        \/ todo = "resume" /\ pc' = "axi"
        \/ todo = "sleep" /\ pc' = "lp3_in"
        \/ todo = "wake" /\ pc' = "lp3_out"
    BY <2>1

  <2>3. ctl'.pwrctl = ctl.pwrctl
    BY <1>8 DEF BringUp, stm32mp_ddr_unset_qd3_update_conditions
  <2> QED BY <2>1, <2>2, <2>3
<1>9. CASE BringUp /\ PhyConfigure
  BY <1>9 DEF BringUp, PhyConfigure
<1>10. CASE BringUp /\ ddrphy_phyinit_d_loadimem
  BY <1>10 DEF BringUp, ddrphy_phyinit_d_loadimem
<1>11. CASE BringUp /\ ddrphy_phyinit_f_loaddmem
  BY <1>11 DEF BringUp, ddrphy_phyinit_f_loaddmem
<1>12. CASE BringUp /\ ddrphy_phyinit_g_execfw
  BY <1>12 DEF BringUp, ddrphy_phyinit_g_execfw
<1>13. CASE BringUp /\ Fetch
  BY <1>13 DEF BringUp, Fetch
<1>14. CASE BringUp /\ Take
  <2>1. pc = "ack" /\ pc' \in {"mail", "halt", "panic"}
        /\ UNCHANGED <<ret, size, sr_mode, ctl, todo, phy, written, tracken, tracked, saved, wiring, reenable>>
    BY <1>14, TakeMoves DEF BringUp
  <2> QED BY <2>1
<1>15. CASE BringUp /\ MailTimeout
  BY <1>15 DEF BringUp, MailTimeout
<1>16. CASE BringUp /\ Halt
  BY <1>16 DEF BringUp, Halt
<1>17. CASE BringUp /\ ddrphy_phyinit_i_loadpieimage
  BY <1>17 DEF BringUp, ddrphy_phyinit_i_loadpieimage
<1>18. CASE BringUp /\ ddrphy_phyinit_usercustom_saveretregs
  BY <1>18 DEF BringUp, ddrphy_phyinit_usercustom_saveretregs
<1>19. CASE BringUp /\ restore_refresh
  BY <1>19 DEF BringUp, restore_refresh, c_reg
<1>20. CASE BringUp /\ stm32mp_ddr_enable_axi_port
  BY <1>20 DEF BringUp, stm32mp_ddr_enable_axi_port
<1>21. CASE BringUp /\ Test
  BY <1>21 DEF BringUp, Test
<1>22. CASE BringUp /\ ddr_set_sr_mode
  BY <1>22 DEF BringUp, ddr_set_sr_mode
<1>23. CASE BringUp /\ FwSend
  BY <1>23 DEF BringUp, FwSend
<1>24. CASE BringUp /\ FwTakeBack
  BY <1>24 DEF BringUp, FwTakeBack
<1>25. CASE ddr_sr_entry
  BY <1>25 DEF ddr_sr_entry
<1>26. CASE \E standby \in BOOLEAN : SsrPortOff(standby)
  BY <1>26 DEF SsrPortOff
<1>27. CASE disable_phy_ddc
  BY <1>27 DEF disable_phy_ddc
<1>28. CASE disable_dfi_low_power_interface
  BY <1>28 DEF disable_dfi_low_power_interface
<1>29. CASE SsrAsleep
  BY <1>29 DEF SsrAsleep
<1>30. CASE ddr_wait_lp3_mode("lp3_in", "clk_off", TRUE)
  BY <1>30 DEF ddr_wait_lp3_mode
<1>31. CASE SsrClocksOff
  BY <1>31 DEF SsrClocksOff
<1>32. CASE sr_hsr_entry
  BY <1>32 DEF sr_hsr_entry
<1>33. CASE sr_asr_entry
  BY <1>33 DEF sr_asr_entry
<1>34. CASE ddr_sr_exit
  BY <1>34 DEF ddr_sr_exit
<1>35. CASE SsrClocksOn
  BY <1>35 DEF SsrClocksOn
<1>36. CASE ddr_wait_lp3_mode("lp3_out", "sr_out", FALSE)
  BY <1>36 DEF ddr_wait_lp3_mode
<1>37. CASE SsrAwake
  BY <1>37, Awake
<1>38. CASE sr_hsr_exit
  BY <1>38 DEF sr_hsr_exit
<1>39. CASE sr_asr_exit
  BY <1>39 DEF sr_asr_exit
<1>40. CASE sr_ssr_set
  BY <1>40 DEF sr_ssr_set
<1>41. CASE sr_asr_set
  BY <1>41 DEF sr_asr_set
<1>42. CASE sr_hsr_set
  BY <1>42 DEF sr_hsr_set
<1>43. CASE sr_hsr_set_done
  BY <1>43 DEF sr_hsr_set_done
<1>44. CASE ddr_save_sr_mode
  BY <1>44 DEF ddr_save_sr_mode, ddr_read_sr_mode, LowPower
<1>45. CASE ddr_sub_system_clk_off
  BY <1>45, ClocksEnd, SMTT(30) DEF PowerOn
<1> QED BY <1>1, <1>2, <1>3, <1>4, <1>5, <1>6, <1>7, <1>8, <1>9, <1>10, <1>11, <1>12, <1>13, <1>14, <1>15, <1>16,
   <1>17, <1>18, <1>19, <1>20, <1>21, <1>22, <1>23, <1>24, <1>25, <1>26, <1>27, <1>28, <1>29, <1>30, <1>31, <1>32,
   <1>33, <1>34, <1>35, <1>36, <1>37, <1>38, <1>39, <1>40, <1>41, <1>42, <1>43, <1>44, <1>45 DEF SleepNext, BringUp,
   Next, Driver, Phy, Entry, Exit, Modes

LEMMA DfiStep == Scalars /\ ctl \in CtlRecord /\ ModeInv /\ DfiInv /\ [SleepNext]_SleepVars => DfiInv'
<1> USE DEF Stay, Kept, Set, Untouched, driver, control, registers, tracking, reading, firmware, Goto, Panic, Sleeps,
   Use,
           Scalars, CtlRecord, ModeInv, DfiInv, Activations, Places, Changes, After, Reset, Load, Talk, Train,
              Holding, Resuming, Working, Falling, Rising, SoftNap, Soft, Running, Change, InChange, Returned, Nap,
              Napping
<1> SUFFICES ASSUME Scalars, ctl \in CtlRecord, ModeInv, DfiInv, SleepNext PROVE DfiInv'
  BY DEF SleepVars, vars
<1>1. CASE BringUp /\ Call
  BY <1>1 DEF BringUp, Call
<1>2. CASE BringUp /\ Pll2
  BY <1>2 DEF BringUp, Pll2
<1>3. CASE BringUp /\ ddr_reset
  BY <1>3 DEF BringUp, ddr_reset, PowerOn
<1>4. CASE BringUp /\ stm32mp_ddr_set_reg
  BY <1>4 DEF BringUp, stm32mp_ddr_set_reg, c_reg
<1>5. CASE BringUp /\ disable_refresh
  <2>1. CASE pc' = "panic"
    <3>1. /\ ret' = ret /\ sr_mode' = sr_mode /\ todo' = todo
          /\ ctl'.pwrctl = ctl.pwrctl /\ ctl'.dfimisc = ctl.dfimisc
      BY <1>5, <2>1 DEF BringUp, disable_refresh
    <3> QED BY <2>1, <3>1
  <2>2. CASE pc' # "panic"
    <3>1. /\ pc = "release" /\ pc' = "set_qd3" /\ todo' = "hold" /\ ret' = ret /\ sr_mode' = sr_mode
          /\ ctl'.pwrctl = ctl.pwrctl \ {"POWERDOWN_EN", "SELFREF_EN"} /\ ctl'.dfimisc = ctl.dfimisc
      BY <1>5, <2>2 DEF BringUp, disable_refresh
    <3> QED BY <3>1
  <2> QED BY <2>1, <2>2
<1>6. CASE BringUp /\ stm32mp_ddr_set_qd3_update_conditions
  BY <1>6, Stops DEF BringUp
<1>7. CASE BringUp /\ set_dfimisc
  BY <1>7 DEF BringUp, set_dfimisc
<1>8. CASE BringUp /\ stm32mp_ddr_unset_qd3_update_conditions
  <2>1. /\ pc = "unset_qd3" /\ todo \in Changes /\ todo' = todo /\ ret' = ret /\ sr_mode' = sr_mode
        /\ pc' = "panic" \/ pc' = After[todo]
    BY <1>8 DEF BringUp, stm32mp_ddr_unset_qd3_update_conditions
  <2>2. \/ pc' = "panic"
        \/ todo = "hold" /\ pc' = "phy_c"
        \/ todo = "activate" /\ pc' = "restore"
        \/ todo = "resume" /\ pc' = "axi"
        \/ todo = "sleep" /\ pc' = "lp3_in"
        \/ todo = "wake" /\ pc' = "lp3_out"
    BY <2>1

  <2>3. ctl'.dfimisc = ctl.dfimisc
    BY <1>8 DEF BringUp, stm32mp_ddr_unset_qd3_update_conditions
  <2> QED BY <2>1, <2>2, <2>3
<1>9. CASE BringUp /\ PhyConfigure
  BY <1>9 DEF BringUp, PhyConfigure
<1>10. CASE BringUp /\ ddrphy_phyinit_d_loadimem
  BY <1>10 DEF BringUp, ddrphy_phyinit_d_loadimem
<1>11. CASE BringUp /\ ddrphy_phyinit_f_loaddmem
  BY <1>11 DEF BringUp, ddrphy_phyinit_f_loaddmem
<1>12. CASE BringUp /\ ddrphy_phyinit_g_execfw
  BY <1>12 DEF BringUp, ddrphy_phyinit_g_execfw
<1>13. CASE BringUp /\ Fetch
  BY <1>13 DEF BringUp, Fetch
<1>14. CASE BringUp /\ Take
  <2>1. pc = "ack" /\ pc' \in {"mail", "halt", "panic"}
        /\ UNCHANGED <<ret, size, sr_mode, ctl, todo, phy, written, tracken, tracked, saved, wiring, reenable>>
    BY <1>14, TakeMoves DEF BringUp
  <2> QED BY <2>1
<1>15. CASE BringUp /\ MailTimeout
  BY <1>15 DEF BringUp, MailTimeout
<1>16. CASE BringUp /\ Halt
  BY <1>16 DEF BringUp, Halt
<1>17. CASE BringUp /\ ddrphy_phyinit_i_loadpieimage
  BY <1>17 DEF BringUp, ddrphy_phyinit_i_loadpieimage
<1>18. CASE BringUp /\ ddrphy_phyinit_usercustom_saveretregs
  BY <1>18 DEF BringUp, ddrphy_phyinit_usercustom_saveretregs
<1>19. CASE BringUp /\ restore_refresh
  BY <1>19 DEF BringUp, restore_refresh, c_reg
<1>20. CASE BringUp /\ stm32mp_ddr_enable_axi_port
  BY <1>20 DEF BringUp, stm32mp_ddr_enable_axi_port
<1>21. CASE BringUp /\ Test
  BY <1>21 DEF BringUp, Test
<1>22. CASE BringUp /\ ddr_set_sr_mode
  BY <1>22 DEF BringUp, ddr_set_sr_mode
<1>23. CASE BringUp /\ FwSend
  BY <1>23 DEF BringUp, FwSend
<1>24. CASE BringUp /\ FwTakeBack
  BY <1>24 DEF BringUp, FwTakeBack
<1>25. CASE ddr_sr_entry
  BY <1>25 DEF ddr_sr_entry
<1>26. CASE \E standby \in BOOLEAN : SsrPortOff(standby)
  BY <1>26 DEF SsrPortOff
<1>27. CASE disable_phy_ddc
  BY <1>27 DEF disable_phy_ddc
<1>28. CASE disable_dfi_low_power_interface
  BY <1>28 DEF disable_dfi_low_power_interface
<1>29. CASE SsrAsleep
  BY <1>29 DEF SsrAsleep
<1>30. CASE ddr_wait_lp3_mode("lp3_in", "clk_off", TRUE)
  BY <1>30 DEF ddr_wait_lp3_mode
<1>31. CASE SsrClocksOff
  BY <1>31 DEF SsrClocksOff
<1>32. CASE sr_hsr_entry
  BY <1>32 DEF sr_hsr_entry
<1>33. CASE sr_asr_entry
  BY <1>33 DEF sr_asr_entry
<1>34. CASE ddr_sr_exit
  BY <1>34 DEF ddr_sr_exit
<1>35. CASE SsrClocksOn
  BY <1>35 DEF SsrClocksOn
<1>36. CASE ddr_wait_lp3_mode("lp3_out", "sr_out", FALSE)
  BY <1>36 DEF ddr_wait_lp3_mode
<1>37. CASE SsrAwake
  BY <1>37 DEF SsrAwake
<1>38. CASE sr_hsr_exit
  BY <1>38 DEF sr_hsr_exit
<1>39. CASE sr_asr_exit
  BY <1>39 DEF sr_asr_exit
<1>40. CASE sr_ssr_set
  BY <1>40 DEF sr_ssr_set
<1>41. CASE sr_asr_set
  BY <1>41 DEF sr_asr_set
<1>42. CASE sr_hsr_set
  BY <1>42 DEF sr_hsr_set
<1>43. CASE sr_hsr_set_done
  BY <1>43 DEF sr_hsr_set_done
<1>44. CASE ddr_save_sr_mode
  BY <1>44 DEF ddr_save_sr_mode, ddr_read_sr_mode, LowPower
<1>45. CASE ddr_sub_system_clk_off
  BY <1>45, ClocksEnd, SMTT(30) DEF PowerOn
<1> QED BY <1>1, <1>2, <1>3, <1>4, <1>5, <1>6, <1>7, <1>8, <1>9, <1>10, <1>11, <1>12, <1>13, <1>14, <1>15, <1>16,
   <1>17, <1>18, <1>19, <1>20, <1>21, <1>22, <1>23, <1>24, <1>25, <1>26, <1>27, <1>28, <1>29, <1>30, <1>31, <1>32,
   <1>33, <1>34, <1>35, <1>36, <1>37, <1>38, <1>39, <1>40, <1>41, <1>42, <1>43, <1>44, <1>45 DEF SleepNext, BringUp,
   Next, Driver, Phy, Entry, Exit, Modes

-----------------------------------------------------------------------------
(* The power of the memory, and the PHY.                                    *)

LEMMA PmStep == Scalars /\ pm \in PmRecord /\ ModeInv /\ PmInv /\ [SleepNext]_SleepVars => PmInv'
<1> USE DEF Stay, Kept, Set, Untouched, driver, control, registers, tracking, reading, firmware, Goto, Panic, Sleeps,
   Use,
           Scalars, PmRecord, ModeInv, PmInv, Activations, Places, Changes, After, Clocks, Reset, Load, Talk, Train,
              Holding, Resuming, Working, Falling, Rising, SoftNap, Soft, Running, Change, InChange, Returned, Nap,
              Napping
<1> SUFFICES ASSUME Scalars, pm \in PmRecord, ModeInv, PmInv, SleepNext PROVE PmInv'
  BY DEF SleepVars, vars
<1>1. CASE BringUp /\ Call
  BY <1>1 DEF BringUp, Call
<1>2. CASE BringUp /\ Pll2
  BY <1>2 DEF BringUp, Pll2
<1>3. CASE BringUp /\ ddr_reset
  <2>1. /\ pc = "reset" /\ pc' = "set_reg" /\ ret' = ret /\ sr_mode' = sr_mode /\ todo' = todo
    BY <1>3 DEF BringUp, ddr_reset
  <2>2. pm' = [pm EXCEPT !.hwlp = FALSE, !.auto = FALSE, !.lp3 = FALSE, !.ddc = TRUE]
    BY <1>3, <2>1 DEF BringUp
  <2>3. ~pm'.lp3 /\ pm'.ddc /\ pm'.clk = pm.clk /\ pm'.dlp = pm.dlp
    BY <2>2
  <2> QED BY <2>1, <2>3
<1>4. CASE BringUp /\ stm32mp_ddr_set_reg
  BY <1>4 DEF BringUp, stm32mp_ddr_set_reg
<1>5. CASE BringUp /\ disable_refresh
  BY <1>5 DEF BringUp, disable_refresh
<1>6. CASE BringUp /\ stm32mp_ddr_set_qd3_update_conditions
  BY <1>6 DEF BringUp, stm32mp_ddr_set_qd3_update_conditions
<1>7. CASE BringUp /\ set_dfimisc
  BY <1>7 DEF BringUp, set_dfimisc
<1>8. CASE BringUp /\ stm32mp_ddr_unset_qd3_update_conditions
  BY <1>8 DEF BringUp, stm32mp_ddr_unset_qd3_update_conditions
<1>9. CASE BringUp /\ PhyConfigure
  BY <1>9 DEF BringUp, PhyConfigure
<1>10. CASE BringUp /\ ddrphy_phyinit_d_loadimem
  BY <1>10 DEF BringUp, ddrphy_phyinit_d_loadimem
<1>11. CASE BringUp /\ ddrphy_phyinit_f_loaddmem
  BY <1>11 DEF BringUp, ddrphy_phyinit_f_loaddmem
<1>12. CASE BringUp /\ ddrphy_phyinit_g_execfw
  BY <1>12 DEF BringUp, ddrphy_phyinit_g_execfw
<1>13. CASE BringUp /\ Fetch
  BY <1>13 DEF BringUp, Fetch
<1>14. CASE BringUp /\ Take
  BY <1>14 DEF BringUp, Take
<1>15. CASE BringUp /\ MailTimeout
  BY <1>15 DEF BringUp, MailTimeout
<1>16. CASE BringUp /\ Halt
  BY <1>16 DEF BringUp, Halt
<1>17. CASE BringUp /\ ddrphy_phyinit_i_loadpieimage
  BY <1>17 DEF BringUp, ddrphy_phyinit_i_loadpieimage
<1>18. CASE BringUp /\ ddrphy_phyinit_usercustom_saveretregs
  BY <1>18 DEF BringUp, ddrphy_phyinit_usercustom_saveretregs
<1>19. CASE BringUp /\ restore_refresh
  BY <1>19 DEF BringUp, restore_refresh
<1>20. CASE BringUp /\ stm32mp_ddr_enable_axi_port
  BY <1>20 DEF BringUp, stm32mp_ddr_enable_axi_port
<1>21. CASE BringUp /\ Test
  BY <1>21 DEF BringUp, Test
<1>22. CASE BringUp /\ ddr_set_sr_mode
  BY <1>22 DEF BringUp, ddr_set_sr_mode
<1>23. CASE BringUp /\ FwSend
  BY <1>23 DEF BringUp, FwSend
<1>24. CASE BringUp /\ FwTakeBack
  BY <1>24 DEF BringUp, FwTakeBack
<1>25. CASE ddr_sr_entry
  BY <1>25 DEF ddr_sr_entry
<1>26. CASE \E standby \in BOOLEAN : SsrPortOff(standby)
  BY <1>26 DEF SsrPortOff
<1>27. CASE disable_phy_ddc
  BY <1>27 DEF disable_phy_ddc
<1>28. CASE disable_dfi_low_power_interface
  BY <1>28 DEF disable_dfi_low_power_interface
<1>29. CASE SsrAsleep
  BY <1>29 DEF SsrAsleep
<1>30. CASE ddr_wait_lp3_mode("lp3_in", "clk_off", TRUE)
  BY <1>30 DEF ddr_wait_lp3_mode
<1>31. CASE SsrClocksOff
  BY <1>31 DEF SsrClocksOff
<1>32. CASE sr_hsr_entry
  BY <1>32 DEF sr_hsr_entry
<1>33. CASE sr_asr_entry
  BY <1>33 DEF sr_asr_entry
<1>34. CASE ddr_sr_exit
  <2>1. /\ pc = "idle" /\ Napping /\ ret' = "none" /\ sr_mode' = sr_mode /\ pm' = pm /\ ~pm.retained /\ pm.ddc
    BY <1>34 DEF ddr_sr_exit
  <2>2. \/ sr_mode = "SSR" /\ pc' = "clk_on"
        \/ sr_mode = "HSR" /\ pc' = "hsr_out"
        \/ sr_mode = "ASR" /\ pc' = "asr_out"
    BY <1>34, <2>1 DEF ddr_sr_exit
  <2> QED BY <2>1, <2>2
<1>35. CASE SsrClocksOn
  BY <1>35 DEF SsrClocksOn
<1>36. CASE ddr_wait_lp3_mode("lp3_out", "sr_out", FALSE)
  BY <1>36 DEF ddr_wait_lp3_mode
<1>37. CASE SsrAwake
  BY <1>37 DEF SsrAwake
<1>38. CASE sr_hsr_exit
  BY <1>38 DEF sr_hsr_exit
<1>39. CASE sr_asr_exit
  BY <1>39 DEF sr_asr_exit
<1>40. CASE sr_ssr_set
  BY <1>40 DEF sr_ssr_set
<1>41. CASE sr_asr_set
  BY <1>41 DEF sr_asr_set
<1>42. CASE sr_hsr_set
  BY <1>42 DEF sr_hsr_set
<1>43. CASE sr_hsr_set_done
  BY <1>43 DEF sr_hsr_set_done
<1>44. CASE ddr_save_sr_mode
  BY <1>44 DEF ddr_save_sr_mode, ddr_read_sr_mode, LowPower
<1>45. CASE ddr_sub_system_clk_off
  BY <1>45, ClocksEnd, SMTT(30) DEF Off
<1> QED BY <1>1, <1>2, <1>3, <1>4, <1>5, <1>6, <1>7, <1>8, <1>9, <1>10, <1>11, <1>12, <1>13, <1>14, <1>15, <1>16,
   <1>17, <1>18, <1>19, <1>20, <1>21, <1>22, <1>23, <1>24, <1>25, <1>26, <1>27, <1>28, <1>29, <1>30, <1>31, <1>32,
   <1>33, <1>34, <1>35, <1>36, <1>37, <1>38, <1>39, <1>40, <1>41, <1>42, <1>43, <1>44, <1>45, Zenon DEF SleepNext, BringUp,
   Next, Driver, Phy, Entry, Exit, Modes

LEMMA PhyStep == Scalars /\ PhyTypes /\ ModeInv /\ PhyInv /\ [SleepNext]_SleepVars => PhyInv'
<1> USE DEF Stay, Kept, Set, Untouched, driver, control, registers, tracking, reading, firmware, Goto, Panic, Sleeps,
   Use,
           Scalars, PhyTypes, PhyRecord, ModeInv, PhyInv, Steps, ListSteps, Activations, Places, Changes, After,
              Reset, Load, Talk, Train, Holding, Resuming, Working, Falling, Rising, SoftNap, Soft, Running, Change,
              InChange, Returned, Nap, Napping, Trained, Up, AfterTraining
<1> SUFFICES ASSUME Scalars, PhyTypes, ModeInv, PhyInv, [SleepNext]_SleepVars PROVE PhyInv'
  OBVIOUS
<1>0. CASE UNCHANGED SleepVars
  <2>1. UNCHANGED <<pc, todo, ret, sr_mode, phy, written, tracken, saved>>
    BY <1>0 DEF SleepVars, vars
  <2> QED BY <2>1
<1>1. CASE BringUp /\ Call
  BY <1>1 DEF BringUp, Call
<1>2. CASE BringUp /\ Pll2
  BY <1>2 DEF BringUp, Pll2
<1>3. CASE BringUp /\ ddr_reset
  BY <1>3 DEF BringUp, ddr_reset, PhyReset
<1>4. CASE BringUp /\ stm32mp_ddr_set_reg
  BY <1>4 DEF BringUp, stm32mp_ddr_set_reg
<1>5. CASE BringUp /\ disable_refresh
  BY <1>5 DEF BringUp, disable_refresh
<1>6. CASE BringUp /\ stm32mp_ddr_set_qd3_update_conditions
  BY <1>6 DEF BringUp, stm32mp_ddr_set_qd3_update_conditions
<1>7. CASE BringUp /\ set_dfimisc
  BY <1>7 DEF BringUp, set_dfimisc
<1>8. CASE BringUp /\ stm32mp_ddr_unset_qd3_update_conditions
  BY <1>8 DEF BringUp, stm32mp_ddr_unset_qd3_update_conditions
<1>9. CASE BringUp /\ PhyConfigure
  BY <1>9 DEF BringUp, PhyConfigure, Put
<1>10. CASE BringUp /\ ddrphy_phyinit_d_loadimem
  BY <1>10 DEF BringUp, ddrphy_phyinit_d_loadimem, Put, Loaded
<1>11. CASE BringUp /\ ddrphy_phyinit_f_loaddmem
  BY <1>11, PhyLoaded DEF BringUp
<1>12. CASE BringUp /\ ddrphy_phyinit_g_execfw
  BY <1>12 DEF BringUp, ddrphy_phyinit_g_execfw
<1>13. CASE BringUp /\ Fetch
  BY <1>13 DEF BringUp, Fetch
<1>14. CASE BringUp /\ Take
  <2>1. pc = "ack" /\ pc' \in {"mail", "halt", "panic"}
        /\ UNCHANGED <<ret, size, sr_mode, ctl, todo, phy, written, tracken, tracked, saved, wiring, reenable>>
    BY <1>14, TakeMoves DEF BringUp
  <2> QED BY <2>1
<1>15. CASE BringUp /\ MailTimeout
  BY <1>15 DEF BringUp, MailTimeout
<1>16. CASE BringUp /\ Halt
  BY <1>16 DEF BringUp, Halt
<1>17. CASE BringUp /\ ddrphy_phyinit_i_loadpieimage
  BY <1>17 DEF BringUp, ddrphy_phyinit_i_loadpieimage
<1>18. CASE BringUp /\ ddrphy_phyinit_usercustom_saveretregs
  <2>1. pc = "save" /\ tracken /\ tracked \cup {"saveretregs"} = {"saveretregs"}
    BY <1>18 DEF BringUp, ddrphy_phyinit_usercustom_saveretregs
  <2>2. Cardinality(RegistersOf({"saveretregs"})) <= MAX_NUM_RET_REGS + 1
    <3>1. IsFiniteSet(saveretregs) /\ Cardinality(saveretregs) <= MAX_NUM_RET_REGS
      BY SavedFits DEF AtMost
    <3> QED BY <3>1, SavedRegisters, FS_CardinalityType DEF MAX_NUM_RET_REGS
  <2>3. /\ pc' = "set_qd3" /\ todo' = "activate" /\ saved' = {"saveretregs"} /\ ret' = ret /\ sr_mode' = sr_mode
        /\ phy' = [phy EXCEPT !.mux = 1] /\ written' = written /\ tracken' = tracken
    BY <1>18, <2>1, <2>2 DEF BringUp, ddrphy_phyinit_usercustom_saveretregs
  <2> QED BY <2>1, <2>3
<1>19. CASE BringUp /\ restore_refresh
  BY <1>19 DEF BringUp, restore_refresh
<1>20. CASE BringUp /\ stm32mp_ddr_enable_axi_port
  BY <1>20 DEF BringUp, stm32mp_ddr_enable_axi_port
<1>21. CASE BringUp /\ Test
  BY <1>21 DEF BringUp, Test
<1>22. CASE BringUp /\ ddr_set_sr_mode
  BY <1>22 DEF BringUp, ddr_set_sr_mode
<1>23. CASE BringUp /\ FwSend
  BY <1>23 DEF BringUp, FwSend
<1>24. CASE BringUp /\ FwTakeBack
  BY <1>24 DEF BringUp, FwTakeBack
<1>25. CASE ddr_sr_entry
  BY <1>25 DEF ddr_sr_entry
<1>26. CASE \E standby \in BOOLEAN : SsrPortOff(standby)
  BY <1>26 DEF SsrPortOff
<1>27. CASE disable_phy_ddc
  BY <1>27 DEF disable_phy_ddc
<1>28. CASE disable_dfi_low_power_interface
  BY <1>28 DEF disable_dfi_low_power_interface
<1>29. CASE SsrAsleep
  BY <1>29 DEF SsrAsleep
<1>30. CASE ddr_wait_lp3_mode("lp3_in", "clk_off", TRUE)
  BY <1>30 DEF ddr_wait_lp3_mode
<1>31. CASE SsrClocksOff
  BY <1>31 DEF SsrClocksOff
<1>32. CASE sr_hsr_entry
  BY <1>32 DEF sr_hsr_entry
<1>33. CASE sr_asr_entry
  BY <1>33 DEF sr_asr_entry
<1>34. CASE ddr_sr_exit
  BY <1>34 DEF ddr_sr_exit
<1>35. CASE SsrClocksOn
  BY <1>35 DEF SsrClocksOn
<1>36. CASE ddr_wait_lp3_mode("lp3_out", "sr_out", FALSE)
  BY <1>36 DEF ddr_wait_lp3_mode
<1>37. CASE SsrAwake
  BY <1>37 DEF SsrAwake
<1>38. CASE sr_hsr_exit
  BY <1>38 DEF sr_hsr_exit
<1>39. CASE sr_asr_exit
  BY <1>39 DEF sr_asr_exit
<1>40. CASE sr_ssr_set
  BY <1>40 DEF sr_ssr_set
<1>41. CASE sr_asr_set
  BY <1>41 DEF sr_asr_set
<1>42. CASE sr_hsr_set
  BY <1>42 DEF sr_hsr_set
<1>43. CASE sr_hsr_set_done
  BY <1>43 DEF sr_hsr_set_done
<1>44. CASE ddr_save_sr_mode
  BY <1>44 DEF ddr_save_sr_mode
<1>45. CASE ddr_sub_system_clk_off
  BY <1>45, ClocksEnd, SMTT(30) DEF PhyReset
<1> QED BY <1>0, <1>1, <1>2, <1>3, <1>4, <1>5, <1>6, <1>7, <1>8, <1>9, <1>10, <1>11, <1>12, <1>13, <1>14, <1>15,
   <1>16, <1>17, <1>18, <1>19, <1>20, <1>21, <1>22, <1>23, <1>24, <1>25, <1>26, <1>27, <1>28, <1>29, <1>30, <1>31,
   <1>32, <1>33, <1>34, <1>35, <1>36, <1>37, <1>38, <1>39, <1>40, <1>41, <1>42, <1>43, <1>44, <1>45, Zenon DEF SleepNext,
   BringUp, Next, Driver, Phy, Entry, Exit, Modes

-----------------------------------------------------------------------------
(* The mailbox.                                                             *)

LEMMA MailStep ==
  Scalars /\ PhyTypes /\ MailTypes /\ ModeInv /\ PhyInv /\ MailInv /\ ReadInv /\ [SleepNext]_SleepVars => MailInv'
<1> USE DEF Stay, Kept, Set, Untouched, driver, control, registers, tracking, reading, firmware, Goto, Panic, Sleeps,
   Use,
           Scalars, MailTypes, MailRecord, MailInv, Activations, Places, Changes, After, Reset, Load, Talk, Train,
              Holding, Resuming, Working, Falling, Rising, SoftNap, Soft, Running, Change, InChange, Returned, Nap,
              Napping, Trained, Up, AfterTraining
<1> SUFFICES ASSUME Scalars, PhyTypes, MailTypes, ModeInv, PhyInv, MailInv, ReadInv, [SleepNext]_SleepVars PROVE MailInv'
  OBVIOUS
<1>0. CASE UNCHANGED SleepVars
  <2>1. UNCHANGED <<pc, todo, ret, sr_mode, phy, mail, got, script, said>>
    BY <1>0 DEF SleepVars, vars
  <2> QED BY <2>1
<1>1. CASE BringUp /\ Call
  BY <1>1 DEF BringUp, Call
<1>2. CASE BringUp /\ Pll2
  BY <1>2 DEF BringUp, Pll2
<1>3. CASE BringUp /\ ddr_reset
  <2>1. /\ pc = "reset" /\ pc' = "set_reg" /\ got' = <<>> /\ said' = 0 /\ script' = script
        /\ mail' = [prot |-> 1, shadow |-> 1, word |-> 0]
    BY <1>3 DEF BringUp, ddr_reset, Quiet
  <2>2. Len(<<>>) = 0 /\ 0 <= 0 /\ \A i \in 1 .. 0 : FALSE
    OBVIOUS
  <2>3. MailInv' 
    BY <2>1, <2>2
  <2> QED BY <2>3
<1>4. CASE BringUp /\ stm32mp_ddr_set_reg
  BY <1>4 DEF BringUp, stm32mp_ddr_set_reg
<1>5. CASE BringUp /\ disable_refresh
  BY <1>5 DEF BringUp, disable_refresh
<1>6. CASE BringUp /\ stm32mp_ddr_set_qd3_update_conditions
  BY <1>6 DEF BringUp, stm32mp_ddr_set_qd3_update_conditions
<1>7. CASE BringUp /\ set_dfimisc
  BY <1>7 DEF BringUp, set_dfimisc
<1>8. CASE BringUp /\ stm32mp_ddr_unset_qd3_update_conditions
  BY <1>8 DEF BringUp, stm32mp_ddr_unset_qd3_update_conditions
<1>9. CASE BringUp /\ PhyConfigure
  BY <1>9 DEF BringUp, PhyConfigure, Put
<1>10. CASE BringUp /\ ddrphy_phyinit_d_loadimem
  BY <1>10 DEF BringUp, ddrphy_phyinit_d_loadimem, Put, Loaded
<1>11. CASE BringUp /\ ddrphy_phyinit_f_loaddmem
  BY <1>11 DEF BringUp, ddrphy_phyinit_f_loaddmem, Loaded
<1>12. CASE BringUp /\ ddrphy_phyinit_g_execfw
  <2>1. /\ pc = "exec" /\ pc' = "mail" /\ UNCHANGED <<got, said, script, mail, todo, ret, sr_mode>>
    BY <1>12 DEF BringUp, ddrphy_phyinit_g_execfw
  <2>2. said = 0 /\ Len(got) = 0 /\ mail.prot = 1 /\ mail.shadow = 1 /\ said # Len(script)
    BY <2>1, ScriptIs
  <2>3. ~AfterTraining'
    BY <2>1
  <2> QED BY <2>1, <2>2, <2>3
<1>13. CASE BringUp /\ Fetch
  <2>1. /\ pc = "mail" /\ pc' = "ack" /\ mail.shadow = 0 /\ got' = Append(got, mail.word)
        /\ mail' = [mail EXCEPT !.prot = 0] /\ UNCHANGED <<said, script, phy, todo, ret, sr_mode>>
    BY <1>13 DEF BringUp, Fetch
  <2>2. said = Len(got) + 1 /\ mail.word = script[said]
    BY <2>1
  <2>3. Len(got') = Len(got) + 1 /\ \A i \in 1 .. Len(got') : got'[i] = script[i]
    BY <2>1, <2>2
  <2>4. ~AfterTraining'
    BY <2>1
  <2> QED BY <2>1, <2>2, <2>3, <2>4
<1>14. CASE BringUp /\ Take
  <2>1. /\ pc = "ack" /\ mail' = [mail EXCEPT !.prot = 1] /\ pc' \in {"mail", "halt", "panic"} /\ mail.shadow = 1
        /\ UNCHANGED <<got, said, script, phy, todo, ret, sr_mode>>
    BY <1>14 DEF BringUp, Take, ack_message_receipt
  <2>2. Len(got) = said /\ said > 0 /\ got[Len(got)] = script[said] /\ script[said] \in Nat
    BY <2>1, ScriptIs
  <2>3. ASSUME pc' = "halt"
        PROVE  Len(got) = Len(script) /\ phy.trained
    <3>1. expect \notin {"length", "word"} /\ Low16(script[said]) = FW_MAJ_MSG_TRAINING_SUCCESS
      <4>1. expect = "major"
        BY <1>14, <2>3 DEF BringUp, Take
      <4>2. Low16(got[Len(got)]) = FW_MAJ_MSG_TRAINING_SUCCESS
        BY <1>14, <2>3, <4>1 DEF BringUp, Take
      <4> QED BY <2>2, <4>1, <4>2
    <3>2. PICK M \in SUBSET DOMAIN script : Messages(script, M) /\ Aligned(M, Len(got) - 1)
      BY <2>1 DEF ReadInv
    <3>3. said \in M
      BY <2>2, <3>1, <3>2 DEF Aligned
    <3>4. said = Len(script)
      BY <3>1, <3>2, <3>3 DEF Messages, Verdicts
    <3>5. script[said] = FW_MAJ_MSG_TRAINING_SUCCESS
      BY <3>1, <3>4, ScriptIs DEF Verdicts, Low16, FW_MAJ_MSG_TRAINING_SUCCESS, FW_MAJ_MSG_TRAINING_FAILED
    <3> QED BY <2>1, <2>2, <3>4, <3>5
  <2>4. ~AfterTraining'
    BY <2>1
  <2> QED BY <2>1, <2>2, <2>3, <2>4
<1>15. CASE BringUp /\ MailTimeout
  BY <1>15 DEF BringUp, MailTimeout
<1>16. CASE BringUp /\ Halt
  BY <1>16 DEF BringUp, Halt
<1>17. CASE BringUp /\ ddrphy_phyinit_i_loadpieimage
  BY <1>17 DEF BringUp, ddrphy_phyinit_i_loadpieimage
<1>18. CASE BringUp /\ ddrphy_phyinit_usercustom_saveretregs
  BY <1>18 DEF BringUp, ddrphy_phyinit_usercustom_saveretregs
<1>19. CASE BringUp /\ restore_refresh
  BY <1>19 DEF BringUp, restore_refresh
<1>20. CASE BringUp /\ stm32mp_ddr_enable_axi_port
  BY <1>20 DEF BringUp, stm32mp_ddr_enable_axi_port
<1>21. CASE BringUp /\ Test
  BY <1>21 DEF BringUp, Test
<1>22. CASE BringUp /\ ddr_set_sr_mode
  BY <1>22 DEF BringUp, ddr_set_sr_mode
<1>23. CASE BringUp /\ FwSend
  <2>1. /\ phy.micro = "runs" /\ mail.prot = 1 /\ mail.shadow = 1 /\ said < Len(script) /\ said' = said + 1
        /\ mail' = [mail EXCEPT !.shadow = 0, !.word = script[said + 1]]
        /\ UNCHANGED <<pc, got, script, todo, ret, sr_mode>>
    BY <1>23 DEF BringUp, FwSend, Runs
  <2>2. ~AfterTraining /\ ~Reset /\ ~Change("hold") /\ pc \notin Load
    BY <2>1 DEF PhyInv
  <2>3. pc # "ack" /\ pc # "halt"
    BY <2>1
  <2>4. phy'.trained <=> (said' = Len(script) /\ script[said'] = FW_MAJ_MSG_TRAINING_SUCCESS)
    BY <1>23, BlockComplete, Zenon DEF BringUp, FwSend, TrainedNow, PhyTypes, PhyRecord
  <2> QED BY <2>1, <2>2, <2>3, <2>4
<1>24. CASE BringUp /\ FwTakeBack
  BY <1>24 DEF BringUp, FwTakeBack
<1>25. CASE ddr_sr_entry
  <2>1. /\ pc = "idle" /\ ret = "ok" /\ ret' = "none" /\ sr_mode' = sr_mode /\ UNCHANGED <<got, said, script, mail, todo, phy>>
    BY <1>25 DEF ddr_sr_entry
  <2>2. \/ sr_mode = "SSR" /\ pc' = "port_off"
        \/ sr_mode = "HSR" /\ pc' = "hsr_in"
        \/ sr_mode = "ASR" /\ pc' = "asr_in"
    BY <1>25, <2>1 DEF ddr_sr_entry, ModeInv
  <2> QED BY <2>1, <2>2
<1>26. CASE \E standby \in BOOLEAN : SsrPortOff(standby)
  BY <1>26 DEF SsrPortOff
<1>27. CASE disable_phy_ddc
  BY <1>27 DEF disable_phy_ddc
<1>28. CASE disable_dfi_low_power_interface
  BY <1>28 DEF disable_dfi_low_power_interface
<1>29. CASE SsrAsleep
  BY <1>29 DEF SsrAsleep
<1>30. CASE ddr_wait_lp3_mode("lp3_in", "clk_off", TRUE)
  BY <1>30 DEF ddr_wait_lp3_mode
<1>31. CASE SsrClocksOff
  BY <1>31 DEF SsrClocksOff
<1>32. CASE sr_hsr_entry
  BY <1>32 DEF sr_hsr_entry
<1>33. CASE sr_asr_entry
  BY <1>33 DEF sr_asr_entry
<1>34. CASE ddr_sr_exit
  <2>1. /\ pc = "idle" /\ Napping /\ ret' = "none" /\ sr_mode' = sr_mode /\ UNCHANGED <<got, said, script, mail, todo, phy>>
    BY <1>34 DEF ddr_sr_exit
  <2>2. \/ sr_mode = "SSR" /\ pc' = "clk_on"
        \/ sr_mode = "HSR" /\ pc' = "hsr_out"
        \/ sr_mode = "ASR" /\ pc' = "asr_out"
    BY <1>34, <2>1 DEF ddr_sr_exit, ModeInv
  <2> QED BY <2>1, <2>2
<1>35. CASE SsrClocksOn
  BY <1>35 DEF SsrClocksOn
<1>36. CASE ddr_wait_lp3_mode("lp3_out", "sr_out", FALSE)
  BY <1>36 DEF ddr_wait_lp3_mode
<1>37. CASE SsrAwake
  BY <1>37 DEF SsrAwake
<1>38. CASE sr_hsr_exit
  BY <1>38 DEF sr_hsr_exit
<1>39. CASE sr_asr_exit
  BY <1>39 DEF sr_asr_exit
<1>40. CASE sr_ssr_set
  BY <1>40 DEF sr_ssr_set
<1>41. CASE sr_asr_set
  BY <1>41 DEF sr_asr_set
<1>42. CASE sr_hsr_set
  BY <1>42 DEF sr_hsr_set
<1>43. CASE sr_hsr_set_done
  BY <1>43 DEF sr_hsr_set_done
<1>44. CASE ddr_save_sr_mode
  BY <1>44 DEF ddr_save_sr_mode
<1>45. CASE ddr_sub_system_clk_off
  BY <1>45, ClocksEnd
<1> QED BY <1>0, <1>1, <1>2, <1>3, <1>4, <1>5, <1>6, <1>7, <1>8, <1>9, <1>10, <1>11, <1>12, <1>13, <1>14, <1>15,
   <1>16, <1>17, <1>18, <1>19, <1>20, <1>21, <1>22, <1>23, <1>24, <1>25, <1>26, <1>27, <1>28, <1>29, <1>30, <1>31,
   <1>32, <1>33, <1>34, <1>35, <1>36, <1>37, <1>38, <1>39, <1>40, <1>41, <1>42, <1>43, <1>44, <1>45 DEF SleepNext,
   BringUp, Next, Driver, Phy, Entry, Exit, Modes

LEMMA ReadStep == Scalars /\ MailTypes /\ ModeInv /\ MailInv /\ ReadInv /\ [SleepNext]_SleepVars => ReadInv'
<1> USE DEF Stay, Kept, Set, Untouched, driver, control, registers, tracking, reading, firmware, Goto, Panic, Sleeps,
   Use,
           Scalars, MailTypes, Activations, Places, Changes, After
<1> SUFFICES ASSUME Scalars, MailTypes, ModeInv, MailInv, ReadInv, [SleepNext]_SleepVars PROVE ReadInv'
  OBVIOUS
<1>m. PICK M \in SUBSET DOMAIN script :
        /\ Messages(script, M)
        /\ pc = "mail" => Aligned(M, Len(got))
        /\ pc = "ack" => Aligned(M, Len(got) - 1)
  BY DEF ReadInv
<1> SUFFICES /\ script' = script
             /\ pc' = "mail" => Aligned(M, Len(got))'
             /\ pc' = "ack" => Aligned(M, Len(got) - 1)'
  BY <1>m DEF ReadInv
<1>0. CASE UNCHANGED SleepVars
  <2>1. UNCHANGED <<pc, got, expect, left, script>>
    BY <1>0 DEF SleepVars, vars
  <2> QED BY <1>m, <2>1 DEF Aligned
<1>1. CASE BringUp /\ Call
  BY <1>1 DEF BringUp, Call
<1>2. CASE BringUp /\ Pll2
  BY <1>2 DEF BringUp, Pll2
<1>3. CASE BringUp /\ ddr_reset
  BY <1>3 DEF BringUp, ddr_reset
<1>4. CASE BringUp /\ stm32mp_ddr_set_reg
  BY <1>4 DEF BringUp, stm32mp_ddr_set_reg
<1>5. CASE BringUp /\ disable_refresh
  BY <1>5 DEF BringUp, disable_refresh
<1>6. CASE BringUp /\ stm32mp_ddr_set_qd3_update_conditions
  BY <1>6 DEF BringUp, stm32mp_ddr_set_qd3_update_conditions
<1>7. CASE BringUp /\ set_dfimisc
  BY <1>7 DEF BringUp, set_dfimisc
<1>8. CASE BringUp /\ stm32mp_ddr_unset_qd3_update_conditions
  BY <1>8 DEF BringUp, stm32mp_ddr_unset_qd3_update_conditions
<1>9. CASE BringUp /\ PhyConfigure
  BY <1>9 DEF BringUp, PhyConfigure
<1>10. CASE BringUp /\ ddrphy_phyinit_d_loadimem
  BY <1>10 DEF BringUp, ddrphy_phyinit_d_loadimem
<1>11. CASE BringUp /\ ddrphy_phyinit_f_loaddmem
  BY <1>11 DEF BringUp, ddrphy_phyinit_f_loaddmem
<1>12. CASE BringUp /\ ddrphy_phyinit_g_execfw
  <2>1. pc = "exec" /\ pc' = "mail" /\ UNCHANGED <<got, script>> /\ expect' = "major"
    BY <1>12 DEF BringUp, ddrphy_phyinit_g_execfw
  <2>2. Len(got) = 0
    BY <2>1 DEF MailInv, Load
  <2>3. 0 + 1 \in M
    BY <1>m DEF Messages
  <2> QED BY <2>1, <2>2, <2>3 DEF Aligned
<1>13. CASE BringUp /\ Fetch
  <2>1. /\ pc = "mail" /\ pc' = "ack" /\ got' = Append(got, mail.word) /\ UNCHANGED <<expect, left, script>>
        /\ mail.shadow = 0
    BY <1>13 DEF BringUp, Fetch
  <2>2. mail.word \in Nat
    BY DEF MailRecord
  <2>3. Len(got') - 1 = Len(got)
    BY <2>1, <2>2
  <2> QED BY <1>m, <2>1, <2>3 DEF Aligned
<1>14. CASE BringUp /\ Take
  <2> DEFINE n == Len(got)
             w == script[n]
  <2>1. pc = "ack" /\ UNCHANGED <<got, script>> /\ pc' # "ack"
    BY <1>14 DEF BringUp, Take, ack_message_receipt
  <2>2. n \in 1 .. Len(script) /\ n \in Nat /\ got[n] = w /\ script \in Seq(Nat) /\ w \in Nat /\ Low16(w) \in Nat
    <3>1. n = said /\ said > 0 /\ got[n] = w
      BY <2>1 DEF MailInv
    <3> QED BY <3>1, ScriptIs DEF Low16
  <2>3. Aligned(M, n - 1)
    BY <1>m, <2>1
  <2> SUFFICES ASSUME pc' = "mail" PROVE Aligned(M, Len(got))'
    BY <2>1
  <2>4. CASE expect = "length"
    <3>1. left' = Low16(w) /\ expect' = IF Low16(w) = 0 THEN "major" ELSE "word"
      BY <1>14, <2>2, <2>4 DEF BringUp, Take, Streamed
    <3>2. n - 1 \in M /\ Low16(script[n - 1]) = FW_MAJ_MSG_START_STREAMING
      BY <2>3, <2>4 DEF Aligned
    <3>3. n - 1 # Len(script)
      BY <2>2
    <3>4. (n - 1) + 2 + Low16(script[(n - 1) + 1]) \in M
      BY <1>m, <3>2, <3>3 DEF Messages
    <3>5. n + 1 + Low16(w) \in M
      BY <2>2, <3>4
    <3> QED BY <2>1, <2>2, <3>1, <3>5 DEF Aligned
  <2>5. CASE expect = "word"
    <3>1. left' = left - 1 /\ expect' = IF left - 1 = 0 THEN "major" ELSE "word"
      BY <1>14, <2>5 DEF BringUp, Take
    <3>2. left > 0 /\ (n - 1) + 1 + left \in M
      BY <2>3, <2>5 DEF Aligned
    <3>3. n + left \in M /\ n + 1 + (left - 1) = n + left
      BY <2>2, <3>2
    <3> QED BY <2>1, <2>2, <3>1, <3>2, <3>3 DEF Aligned
  <2>6. CASE expect = "major"
    <3>1. (n - 1) + 1 \in M
      BY <2>3, <2>6 DEF Aligned
    <3>2. n \in M
      BY <2>2, <3>1
    <3>3. CASE Low16(w) = FW_MAJ_MSG_START_STREAMING
      <4>1. expect' = "length"
        BY <1>14, <2>2, <2>6, <3>3 DEF BringUp, Take
      <4> QED BY <2>1, <3>2, <3>3, <4>1 DEF Aligned
    <3>4. CASE Low16(w) # FW_MAJ_MSG_START_STREAMING
      <4>1. expect' = "major" /\ Low16(w) \notin Verdicts
        BY <1>14, <2>2, <2>6, <3>4 DEF BringUp, Take, Verdicts
      <4>2. n # Len(script)
        BY <1>m, <3>2, <4>1 DEF Messages
      <4>3. n + 1 \in M
        BY <1>m, <3>2, <3>4, <4>2 DEF Messages
      <4> QED BY <2>1, <4>1, <4>3 DEF Aligned
    <3> QED BY <3>3, <3>4
  <2> QED BY <2>4, <2>5, <2>6
<1>15. CASE BringUp /\ MailTimeout
  BY <1>15 DEF BringUp, MailTimeout
<1>16. CASE BringUp /\ Halt
  BY <1>16 DEF BringUp, Halt
<1>17. CASE BringUp /\ ddrphy_phyinit_i_loadpieimage
  BY <1>17 DEF BringUp, ddrphy_phyinit_i_loadpieimage
<1>18. CASE BringUp /\ ddrphy_phyinit_usercustom_saveretregs
  BY <1>18 DEF BringUp, ddrphy_phyinit_usercustom_saveretregs
<1>19. CASE BringUp /\ restore_refresh
  BY <1>19 DEF BringUp, restore_refresh
<1>20. CASE BringUp /\ stm32mp_ddr_enable_axi_port
  BY <1>20 DEF BringUp, stm32mp_ddr_enable_axi_port
<1>21. CASE BringUp /\ Test
  BY <1>21 DEF BringUp, Test
<1>22. CASE BringUp /\ ddr_set_sr_mode
  BY <1>22 DEF BringUp, ddr_set_sr_mode
<1>23. CASE BringUp /\ FwSend
  <2>1. UNCHANGED <<pc, got, expect, left, script>>
    BY <1>23 DEF BringUp, FwSend
  <2> QED BY <1>m, <2>1 DEF Aligned
<1>24. CASE BringUp /\ FwTakeBack
  <2>1. UNCHANGED <<pc, got, expect, left, script>>
    BY <1>24 DEF BringUp, FwTakeBack
  <2> QED BY <1>m, <2>1 DEF Aligned
<1>25. CASE ddr_sr_entry
  <2>1. pc = "idle" /\ script' = script
    BY <1>25 DEF ddr_sr_entry
  <2>2. pc' \in {"port_off", "hsr_in", "asr_in"}
    BY <1>25 DEF ddr_sr_entry, ModeInv, Returned, Nap
  <2> QED BY <2>1, <2>2
<1>26. CASE \E standby \in BOOLEAN : SsrPortOff(standby)
  BY <1>26 DEF SsrPortOff
<1>27. CASE disable_phy_ddc
  BY <1>27 DEF disable_phy_ddc
<1>28. CASE disable_dfi_low_power_interface
  BY <1>28 DEF disable_dfi_low_power_interface
<1>29. CASE SsrAsleep
  BY <1>29 DEF SsrAsleep
<1>30. CASE ddr_wait_lp3_mode("lp3_in", "clk_off", TRUE)
  BY <1>30 DEF ddr_wait_lp3_mode
<1>31. CASE SsrClocksOff
  BY <1>31 DEF SsrClocksOff
<1>32. CASE sr_hsr_entry
  BY <1>32 DEF sr_hsr_entry
<1>33. CASE sr_asr_entry
  BY <1>33 DEF sr_asr_entry
<1>34. CASE ddr_sr_exit
  <2>1. pc = "idle" /\ script' = script
    BY <1>34 DEF ddr_sr_exit
  <2>2. pc' \in {"clk_on", "hsr_out", "asr_out"}
    BY <1>34 DEF ddr_sr_exit, ModeInv, Returned, Nap
  <2> QED BY <2>1, <2>2
<1>35. CASE SsrClocksOn
  BY <1>35 DEF SsrClocksOn
<1>36. CASE ddr_wait_lp3_mode("lp3_out", "sr_out", FALSE)
  BY <1>36 DEF ddr_wait_lp3_mode
<1>37. CASE SsrAwake
  BY <1>37 DEF SsrAwake
<1>38. CASE sr_hsr_exit
  BY <1>38 DEF sr_hsr_exit
<1>39. CASE sr_asr_exit
  BY <1>39 DEF sr_asr_exit
<1>40. CASE sr_ssr_set
  BY <1>40 DEF sr_ssr_set
<1>41. CASE sr_asr_set
  BY <1>41 DEF sr_asr_set
<1>42. CASE sr_hsr_set
  BY <1>42 DEF sr_hsr_set
<1>43. CASE sr_hsr_set_done
  BY <1>43 DEF sr_hsr_set_done
<1>44. CASE ddr_save_sr_mode
  BY <1>44 DEF ddr_save_sr_mode
<1>45. CASE ddr_sub_system_clk_off
  BY <1>45, ClocksEnd
<1> QED BY <1>0, <1>1, <1>2, <1>3, <1>4, <1>5, <1>6, <1>7, <1>8, <1>9, <1>10, <1>11, <1>12, <1>13, <1>14, <1>15,
   <1>16, <1>17, <1>18, <1>19, <1>20, <1>21, <1>22, <1>23, <1>24, <1>25, <1>26, <1>27, <1>28, <1>29, <1>30, <1>31,
   <1>32, <1>33, <1>34, <1>35, <1>36, <1>37, <1>38, <1>39, <1>40, <1>41, <1>42, <1>43, <1>44, <1>45 DEF SleepNext,
   BringUp, Next, Driver, Phy, Entry, Exit, Modes

-----------------------------------------------------------------------------
(* The tests, and what changes only at rest.                                *)

LEMMA TestStep == Scalars /\ ModeInv /\ TestInv /\ [SleepNext]_SleepVars => TestInv'
<1> USE DEF Stay, Kept, Set, Untouched, driver, control, registers, tracking, reading, firmware, Goto, Panic, Sleeps,
   Use,
           Scalars, TestInv, ModeInv, Activations, Places, Changes, After, Reset, Load, Talk, Train, Holding,
              Resuming, Working, Falling, Rising, SoftNap, Soft, Running, Change, InChange, Returned, Nap, Napping,
              Trained, Up, AfterTraining
<1> SUFFICES ASSUME Scalars, ModeInv, TestInv, SleepNext PROVE TestInv'
  BY DEF SleepVars, vars
<1>1. CASE BringUp /\ Call
  BY <1>1 DEF BringUp, Call
<1>2. CASE BringUp /\ Pll2
  BY <1>2 DEF BringUp, Pll2
<1>3. CASE BringUp /\ ddr_reset
  BY <1>3 DEF BringUp, ddr_reset
<1>4. CASE BringUp /\ stm32mp_ddr_set_reg
  BY <1>4 DEF BringUp, stm32mp_ddr_set_reg
<1>5. CASE BringUp /\ disable_refresh
  BY <1>5 DEF BringUp, disable_refresh
<1>6. CASE BringUp /\ stm32mp_ddr_set_qd3_update_conditions
  BY <1>6 DEF BringUp, stm32mp_ddr_set_qd3_update_conditions
<1>7. CASE BringUp /\ set_dfimisc
  BY <1>7 DEF BringUp, set_dfimisc
<1>8. CASE BringUp /\ stm32mp_ddr_unset_qd3_update_conditions
  BY <1>8 DEF BringUp, stm32mp_ddr_unset_qd3_update_conditions
<1>9. CASE BringUp /\ PhyConfigure
  BY <1>9 DEF BringUp, PhyConfigure
<1>10. CASE BringUp /\ ddrphy_phyinit_d_loadimem
  BY <1>10 DEF BringUp, ddrphy_phyinit_d_loadimem
<1>11. CASE BringUp /\ ddrphy_phyinit_f_loaddmem
  BY <1>11 DEF BringUp, ddrphy_phyinit_f_loaddmem
<1>12. CASE BringUp /\ ddrphy_phyinit_g_execfw
  BY <1>12 DEF BringUp, ddrphy_phyinit_g_execfw
<1>13. CASE BringUp /\ Fetch
  BY <1>13 DEF BringUp, Fetch
<1>14. CASE BringUp /\ Take
  <2>1. pc = "ack" /\ pc' \in {"mail", "halt", "panic"}
        /\ UNCHANGED <<ret, size, sr_mode, ctl, todo, phy, written, tracken, tracked, saved, wiring, reenable>>
    BY <1>14, TakeMoves DEF BringUp
  <2> QED BY <2>1
<1>15. CASE BringUp /\ MailTimeout
  BY <1>15 DEF BringUp, MailTimeout
<1>16. CASE BringUp /\ Halt
  BY <1>16 DEF BringUp, Halt
<1>17. CASE BringUp /\ ddrphy_phyinit_i_loadpieimage
  BY <1>17 DEF BringUp, ddrphy_phyinit_i_loadpieimage
<1>18. CASE BringUp /\ ddrphy_phyinit_usercustom_saveretregs
  BY <1>18 DEF BringUp, ddrphy_phyinit_usercustom_saveretregs
<1>19. CASE BringUp /\ restore_refresh
  BY <1>19 DEF BringUp, restore_refresh
<1>20. CASE BringUp /\ stm32mp_ddr_enable_axi_port
  BY <1>20 DEF BringUp, stm32mp_ddr_enable_axi_port
<1>21. CASE BringUp /\ Test
  BY <1>21 DEF BringUp, Test
<1>22. CASE BringUp /\ ddr_set_sr_mode
  BY <1>22 DEF BringUp, ddr_set_sr_mode
<1>23. CASE BringUp /\ FwSend
  BY <1>23 DEF BringUp, FwSend
<1>24. CASE BringUp /\ FwTakeBack
  BY <1>24 DEF BringUp, FwTakeBack
<1>25. CASE ddr_sr_entry
  BY <1>25 DEF ddr_sr_entry
<1>26. CASE \E standby \in BOOLEAN : SsrPortOff(standby)
  BY <1>26 DEF SsrPortOff
<1>27. CASE disable_phy_ddc
  BY <1>27 DEF disable_phy_ddc
<1>28. CASE disable_dfi_low_power_interface
  BY <1>28 DEF disable_dfi_low_power_interface
<1>29. CASE SsrAsleep
  BY <1>29 DEF SsrAsleep
<1>30. CASE ddr_wait_lp3_mode("lp3_in", "clk_off", TRUE)
  BY <1>30 DEF ddr_wait_lp3_mode
<1>31. CASE SsrClocksOff
  BY <1>31 DEF SsrClocksOff
<1>32. CASE sr_hsr_entry
  BY <1>32 DEF sr_hsr_entry
<1>33. CASE sr_asr_entry
  BY <1>33 DEF sr_asr_entry
<1>34. CASE ddr_sr_exit
  BY <1>34 DEF ddr_sr_exit
<1>35. CASE SsrClocksOn
  BY <1>35 DEF SsrClocksOn
<1>36. CASE ddr_wait_lp3_mode("lp3_out", "sr_out", FALSE)
  BY <1>36 DEF ddr_wait_lp3_mode
<1>37. CASE SsrAwake
  BY <1>37 DEF SsrAwake
<1>38. CASE sr_hsr_exit
  BY <1>38 DEF sr_hsr_exit
<1>39. CASE sr_asr_exit
  BY <1>39 DEF sr_asr_exit
<1>40. CASE sr_ssr_set
  BY <1>40 DEF sr_ssr_set
<1>41. CASE sr_asr_set
  BY <1>41 DEF sr_asr_set
<1>42. CASE sr_hsr_set
  BY <1>42 DEF sr_hsr_set
<1>43. CASE sr_hsr_set_done
  BY <1>43 DEF sr_hsr_set_done
<1>44. CASE ddr_save_sr_mode
  BY <1>44 DEF ddr_save_sr_mode
<1>45. CASE ddr_sub_system_clk_off
  BY <1>45 DEF ddr_sub_system_clk_off
<1> QED BY <1>1, <1>2, <1>3, <1>4, <1>5, <1>6, <1>7, <1>8, <1>9, <1>10, <1>11, <1>12, <1>13, <1>14, <1>15, <1>16,
   <1>17, <1>18, <1>19, <1>20, <1>21, <1>22, <1>23, <1>24, <1>25, <1>26, <1>27, <1>28, <1>29, <1>30, <1>31, <1>32,
   <1>33, <1>34, <1>35, <1>36, <1>37, <1>38, <1>39, <1>40, <1>41, <1>42, <1>43, <1>44, <1>45 DEF SleepNext, BringUp,
   Next, Driver, Phy, Entry, Exit, Modes

LEMMA QuietStep == Scalars /\ ctl \in CtlRecord /\ CtlInv /\ PhyInv /\ [SleepNext]_SleepVars => ChangedAtRest
<1> USE DEF Stay, Kept, Set, Untouched, driver, control, registers, tracking, reading, firmware, Goto, Panic, Sleeps,
   Use,
           ChangedAtRest
<1> SUFFICES ASSUME Scalars, ctl \in CtlRecord, CtlInv, PhyInv, SleepNext PROVE ChangedAtRest
  BY DEF SleepVars, vars
<1>1. CASE BringUp /\ Call
  BY <1>1 DEF BringUp, Call
<1>2. CASE BringUp /\ Pll2
  BY <1>2 DEF BringUp, Pll2
<1>3. CASE BringUp /\ ddr_reset
  <2>1. ctl'.core /\ written' = {} /\ saved' = saved
    BY <1>3 DEF BringUp, ddr_reset, PowerOn
  <2> QED BY <2>1
<1>4. CASE BringUp /\ stm32mp_ddr_set_reg
  <2>1. ctl.core /\ UNCHANGED <<written, saved>>
    BY <1>4 DEF BringUp, stm32mp_ddr_set_reg, CtlInv, Reset
  <2>2. ctl'.core = ctl.core
    BY <1>4 DEF BringUp, stm32mp_ddr_set_reg, CtlRecord
  <2> QED BY <2>1, <2>2
<1>5. CASE BringUp /\ disable_refresh
  <2>1. ctl'.dfimisc = ctl.dfimisc /\ UNCHANGED <<written, saved>>
    BY <1>5 DEF BringUp, disable_refresh, CtlRecord
  <2> QED BY <2>1
<1>6. CASE BringUp /\ stm32mp_ddr_set_qd3_update_conditions
  BY <1>6 DEF BringUp, stm32mp_ddr_set_qd3_update_conditions, CtlRecord
<1>7. CASE BringUp /\ set_dfimisc
  <2>1. pc = "update" /\ todo \in Changes /\ UNCHANGED <<written, saved>>
    BY <1>7 DEF BringUp, set_dfimisc, Scalars
  <2>2. Running /\ InChange
    BY <2>1 DEF Running, InChange, Holding, Resuming, Falling, Rising, Change, Changes
  <2>3. ~Working
    BY <2>1 DEF Working, Returned, Nap
  <2>4. ~ctl.swdone /\ ctl.pctrl = {} /\ "DIS_HIF" \in ctl.dbg1 /\ (todo \in Activations => "DIS_DQ" \in ctl.dbg1)
    BY <2>2, <2>3 DEF CtlInv
  <2>5. todo \notin Activations => todo \in {"hold", "resume"}
    BY <2>1 DEF Changes, Activations
  <2>6. todo \in {"hold", "resume"} => ("FREQUENCY" \in ctl'.dfimisc <=> "FREQUENCY" \in ctl.dfimisc)
    BY <1>7 DEF BringUp, set_dfimisc, CtlRecord, Activations
  <2> QED BY <2>1, <2>4, <2>5, <2>6
<1>8. CASE BringUp /\ stm32mp_ddr_unset_qd3_update_conditions
  BY <1>8 DEF BringUp, stm32mp_ddr_unset_qd3_update_conditions, CtlRecord
<1>9. CASE BringUp /\ PhyConfigure
  <2>1. pc = "phy_c" /\ ctl' = ctl
    BY <1>9 DEF BringUp, PhyConfigure
  <2>2. phy.micro # "runs"
    BY <2>1 DEF PhyInv, Load, Train, AfterTraining, Trained
  <2> QED BY <2>1, <2>2
<1>10. CASE BringUp /\ ddrphy_phyinit_d_loadimem
  <2>1. pc = "imem" /\ ctl' = ctl
    BY <1>10 DEF BringUp, ddrphy_phyinit_d_loadimem
  <2>2. phy.micro # "runs"
    BY <2>1 DEF PhyInv, Load, Train, AfterTraining, Trained
  <2> QED BY <2>1, <2>2
<1>11. CASE BringUp /\ ddrphy_phyinit_f_loaddmem
  BY <1>11 DEF BringUp, ddrphy_phyinit_f_loaddmem
<1>12. CASE BringUp /\ ddrphy_phyinit_g_execfw
  BY <1>12 DEF BringUp, ddrphy_phyinit_g_execfw
<1>13. CASE BringUp /\ Fetch
  BY <1>13 DEF BringUp, Fetch
<1>14. CASE BringUp /\ Take
  <2>1. pc = "ack" /\ pc' \in {"mail", "halt", "panic"}
        /\ UNCHANGED <<ret, size, sr_mode, ctl, todo, phy, written, tracken, tracked, saved, wiring, reenable>>
    BY <1>14, TakeMoves DEF BringUp
  <2> QED BY <2>1
<1>15. CASE BringUp /\ MailTimeout
  BY <1>15 DEF BringUp, MailTimeout
<1>16. CASE BringUp /\ Halt
  BY <1>16 DEF BringUp, Halt
<1>17. CASE BringUp /\ ddrphy_phyinit_i_loadpieimage
  <2>1. pc = "pie" /\ ctl' = ctl
    BY <1>17 DEF BringUp, ddrphy_phyinit_i_loadpieimage
  <2>2. phy.micro # "runs"
    BY <2>1 DEF PhyInv, Load, Train, AfterTraining, Trained
  <2> QED BY <2>1, <2>2
<1>18. CASE BringUp /\ ddrphy_phyinit_usercustom_saveretregs
  <2>1. pc = "save" /\ ctl' = ctl
    BY <1>18 DEF BringUp, ddrphy_phyinit_usercustom_saveretregs
  <2>2. phy.micro # "runs"
    BY <2>1 DEF PhyInv, Load, Train, AfterTraining, Trained
  <2> QED BY <2>1, <2>2
<1>19. CASE BringUp /\ restore_refresh
  <2>1. ctl'.dfimisc = ctl.dfimisc /\ UNCHANGED <<written, saved>>
    BY <1>19 DEF BringUp, restore_refresh, CtlRecord
  <2> QED BY <2>1
<1>20. CASE BringUp /\ stm32mp_ddr_enable_axi_port
  BY <1>20 DEF BringUp, stm32mp_ddr_enable_axi_port
<1>21. CASE BringUp /\ Test
  BY <1>21 DEF BringUp, Test
<1>22. CASE BringUp /\ ddr_set_sr_mode
  BY <1>22 DEF BringUp, ddr_set_sr_mode
<1>23. CASE BringUp /\ FwSend
  BY <1>23 DEF BringUp, FwSend
<1>24. CASE BringUp /\ FwTakeBack
  BY <1>24 DEF BringUp, FwTakeBack
<1>25. CASE ddr_sr_entry
  BY <1>25 DEF ddr_sr_entry
<1>26. CASE \E standby \in BOOLEAN : SsrPortOff(standby)
  BY <1>26 DEF SsrPortOff
<1>27. CASE disable_phy_ddc
  BY <1>27 DEF disable_phy_ddc
<1>28. CASE disable_dfi_low_power_interface
  BY <1>28 DEF disable_dfi_low_power_interface, CtlRecord
<1>29. CASE SsrAsleep
  BY <1>29 DEF SsrAsleep
<1>30. CASE ddr_wait_lp3_mode("lp3_in", "clk_off", TRUE)
  BY <1>30 DEF ddr_wait_lp3_mode
<1>31. CASE SsrClocksOff
  BY <1>31 DEF SsrClocksOff
<1>32. CASE sr_hsr_entry
  BY <1>32 DEF sr_hsr_entry
<1>33. CASE sr_asr_entry
  BY <1>33 DEF sr_asr_entry
<1>34. CASE ddr_sr_exit
  BY <1>34 DEF ddr_sr_exit
<1>35. CASE SsrClocksOn
  BY <1>35 DEF SsrClocksOn
<1>36. CASE ddr_wait_lp3_mode("lp3_out", "sr_out", FALSE)
  BY <1>36 DEF ddr_wait_lp3_mode
<1>37. CASE SsrAwake
  BY <1>37 DEF SsrAwake, CtlRecord
<1>38. CASE sr_hsr_exit
  BY <1>38 DEF sr_hsr_exit
<1>39. CASE sr_asr_exit
  BY <1>39 DEF sr_asr_exit
<1>40. CASE sr_ssr_set
  BY <1>40 DEF sr_ssr_set
<1>41. CASE sr_asr_set
  BY <1>41 DEF sr_asr_set
<1>42. CASE sr_hsr_set
  BY <1>42 DEF sr_hsr_set
<1>43. CASE sr_hsr_set_done
  BY <1>43 DEF sr_hsr_set_done, CtlRecord
<1>44. CASE ddr_save_sr_mode
  BY <1>44 DEF ddr_save_sr_mode
<1>45. CASE ddr_sub_system_clk_off
  <2>1. ctl'.core /\ written' = {} /\ saved' = saved
    BY <1>45 DEF ddr_sub_system_clk_off, PowerOn
  <2> QED BY <2>1
<1> QED BY <1>1, <1>2, <1>3, <1>4, <1>5, <1>6, <1>7, <1>8, <1>9, <1>10, <1>11, <1>12, <1>13, <1>14, <1>15, <1>16,
   <1>17, <1>18, <1>19, <1>20, <1>21, <1>22, <1>23, <1>24, <1>25, <1>26, <1>27, <1>28, <1>29, <1>30, <1>31, <1>32,
   <1>33, <1>34, <1>35, <1>36, <1>37, <1>38, <1>39, <1>40, <1>41, <1>42, <1>43, <1>44, <1>45 DEF SleepNext, BringUp,
   Next, Driver, Phy, Entry, Exit, Modes

-----------------------------------------------------------------------------
(* The invariant is inductive.                                              *)

LEMMA SameControl ==
  ASSUME NEW r \in CtlRecord, NEW q \in CtlRecord,
         r.core = q.core, r.swdone = q.swdone, r.rfshctl3 = q.rfshctl3, r.pwrctl = q.pwrctl, r.dfimisc = q.dfimisc,
         r.pctrl = q.pctrl, r.dbg1 = q.dbg1
  PROVE  r = q
BY DEF CtlRecord

LEMMA InductiveInit == SleepInit => IInv
<1> SUFFICES ASSUME SleepInit PROVE IInv
  OBVIOUS
<1>1. TypeOK
  BY TypeInit
<1>2. /\ pc = "idle" /\ ret = "none" /\ sr_mode = "INVALID" /\ reenable = {} /\ written = {} /\ got = <<>> /\ said = 0
      /\ ~pm.dlp
  BY DEF SleepInit, Init, Off
<1>3. ~Reset /\ ~Running /\ ~Trained /\ ~Up /\ ~InChange /\ (\A t : ~Change(t)) /\ ~Nap /\ (\A r : r # "none" => ~Returned(r))
      /\ ~Working /\ ~Holding /\ ~Resuming /\ ~Falling /\ ~Rising /\ ~AfterTraining /\ pc \notin Load \cup Talk \cup Train
  BY <1>2 DEF Reset, Running, Trained, Up, InChange, Change, Nap, Napping, Returned, Working, Holding, Resuming,
     Falling,
              Rising, Soft, SoftNap, AfterTraining, Load, Talk, Train
<1>4. ModeInv
  BY <1>2, <1>3 DEF ModeInv
<1>5. CtlInv
  BY <1>2, <1>3 DEF CtlInv
<1>6. PowerInv
  BY <1>2, <1>3 DEF PowerInv, SoftNap
<1>7. DfiInv
  BY <1>2, <1>3 DEF DfiInv, SoftNap
<1>8. PmInv
  BY <1>2, <1>3 DEF PmInv, SoftNap
<1>9. PhyInv
  BY <1>2, <1>3 DEF PhyInv
<1>10. MailInv
  <2>1. Len(got) = 0
    BY <1>2
  <2> QED BY <1>2, <1>3, <2>1 DEF MailInv, Talk
<1>11. ReadInv
  <2>1. PICK M \in SUBSET DOMAIN script : Messages(script, M)
    BY <1>1, ScriptIs DEF TypeOK, MailTypes
  <2> QED BY <1>2, <2>1 DEF ReadInv
<1>12. TestInv
  BY <1>2, <1>3 DEF TestInv
<1> QED BY <1>1, <1>4, <1>5, <1>6, <1>7, <1>8, <1>9, <1>10, <1>11, <1>12 DEF IInv

LEMMA InductiveStep == IInv /\ [SleepNext]_SleepVars => IInv'
<1> SUFFICES ASSUME IInv, [SleepNext]_SleepVars PROVE IInv'
  OBVIOUS
<1> USE DEF IInv, TypeOK
<1>1. TypeOK'
  BY ScalarStep, CtlTypeStep, PmTypeStep, PhyTypeStep, MailTypeStep
<1>2. ModeInv'
  BY ModeStep
<1>3. CtlInv'
  BY CtlStep
<1>4. PowerInv'
  BY PowerStep
<1>5. DfiInv'
  BY DfiStep
<1>6. PmInv'
  BY PmStep
<1>7. PhyInv'
  BY PhyStep
<1>8. MailInv'
  BY MailStep
<1>9. ReadInv'
  BY ReadStep
<1>10. TestInv'
  BY TestStep
<1> QED BY <1>1, <1>2, <1>3, <1>4, <1>5, <1>6, <1>7, <1>8, <1>9, <1>10

LEMMA Inductive == SleepSpec => []IInv
<1> QED BY InductiveInit, InductiveStep, PTL DEF SleepSpec

-----------------------------------------------------------------------------
\* The registers, the flags and the mailbox have their types in every state,
\* whatever the firmware says (stm32mp_ddr.c, stm32mp2_ddr_helpers.c).
THEOREM TypeCorrect == SleepSpec => []TypeOK
<1>1. IInv => TypeOK
  BY DEF IInv
<1> QED BY <1>1, Inductive, PTL

\* The driver reads every word of the firmware once and in order, takes each
\* for what it is, and leaves the loop with the last (waitfwdone.c): for
\* every script of messages, of any length.
THEOREM MailInOrderHolds == SleepSpec => []MailInOrder
<1>1. IInv => MailInOrder
  <2> SUFFICES ASSUME IInv PROVE MailInOrder
    OBVIOUS
  <2>1. /\ Len(got) <= said /\ said \in 0 .. Len(script) /\ got \in Seq(Nat) /\ script \in Seq(Nat)
        /\ \A i \in 1 .. Len(got) : got[i] = script[i]
        /\ pc = "halt" => Len(got) = Len(script)
    BY ScriptIs DEF IInv, TypeOK, MailTypes, MailInv
  <2>2. got = SubSeq(script, 1, Len(got))
    <3> DEFINE t == SubSeq(script, 1, Len(got))
    <3>1. Len(got) \in Nat /\ Len(got) <= Len(script) /\ Len(script) \in Nat
      BY <2>1
    <3>2. \A i \in 1 .. Len(got) : script[i] \in Nat
      BY <2>1, <3>1
    <3>3. t \in Seq(Nat) /\ Len(t) = Len(got) /\ \A i \in 1 .. Len(got) : t[i] = script[i]
      BY <2>1, <3>1, <3>2
    <3> HIDE DEF t
    <3>4. \A i \in 1 .. Len(got) : got[i] = t[i]
      BY <2>1, <3>3
    <3>5. got = t
      BY <2>1, <3>3, <3>4, SeqEqual
    <3> QED BY <3>5 DEF t
  <2>3. pc = "halt" => got = script
    BY <2>1, SeqEqual
  <2> QED BY <2>1, <2>2, <2>3 DEF MailInOrder
<1> QED BY <1>1, Inductive, PTL

\* The registers that are saved cover all that a warm start does not do
\* again but the two of the periodic training, and there is room for them
\* (saveretregs.c), however often ddr_init() ran.
THEOREM WarmStartCoveredHolds == SleepSpec => []WarmStartCovered
<1>1. IInv => WarmStartCovered
  <2> SUFFICES ASSUME IInv, "i_loadpieimage" \in written, pc # "save"
               PROVE  /\ NotRedone \ Master({"PPTTRAINSETUP", "PPTTRAINSETUP2"}) \subseteq RegistersOf(saved)
                      /\ Cardinality(RegistersOf(saved)) <= MAX_NUM_RET_REGS
    BY DEF WarmStartCovered
  <2>1. RegistersOf(saved) = saveretregs
    BY SavedRegisters DEF IInv, PhyInv
  <2> QED BY <2>1, Covered, SavedFits DEF AtMost
<1> QED BY <1>1, Inductive, PTL

\* dfimisc changes in reset or with the controller at rest, and the PHY's
\* registers while its processor does not run (stm32mp_ddr.c, g_execfw.c).
THEOREM QuiescentHolds == SleepSpec => Quiescent
<1>1. IInv /\ [SleepNext]_SleepVars => [ChangedAtRest]_vars
  BY QuietStep DEF IInv, TypeOK
<1>2. SleepSpec => [][ChangedAtRest]_vars
  BY <1>1, Inductive, PTL DEF SleepSpec
<1> QED BY <1>2 DEF Quiescent, ChangedAtRest

\* The three tests find every bad line.  A fold over what a test writes and
\* reads: the run `ddr` evaluates it for the lines it has.
TestsFind == \A w \in Wirings : Tested(w) => w = Faultless

\* ddr_init() returns 0 only for a memory that was trained, is refreshed,
\* awake and in use; and a memory that was put to sleep by software
\* refreshes itself, with nothing left that could reach it
\* (stm32mp_ddr.c, stm32mp2_ddr_helpers.c), if the tests find what they are for.
THEOREM UpOrAsleepHolds == ASSUME TestsFind PROVE SleepSpec => []UpOrAsleep
<1>1. IInv => UpOrAsleep
  <2> SUFFICES ASSUME IInv PROVE UpOrAsleep
    OBVIOUS
  <2>1. ASSUME pc = "idle", ret = "ok"
        PROVE  Working /\ Up /\ Running /\ ~Holding /\ ~InChange /\ ~Change("sleep") /\ ~Falling /\ ~Rising /\ AfterTraining
               /\ ~Nap /\ Returned("ok") /\ (\A r : r # "ok" => ~SoftNap(r))
    BY <2>1 DEF Working, Up, Running, Holding, InChange, Change, Falling, Rising, AfterTraining, Nap, Napping,
       Returned,
                SoftNap, Load, Talk, Train
  <2>2. ASSUME pc = "idle", ret = "ok"
        PROVE  /\ phy.trained /\ phy.micro # "runs" /\ sr_mode # "INVALID" /\ size # 0
               /\ c_initphyconfig \cup custompretrain \cup i_loadpieimage(FALSE) \subseteq RegistersOf(written)
    <3>1. phy.micro = "stalled" /\ {"c_initphyconfig", "custompretrain", "i_loadpieimage"} \subseteq written
      BY <2>1, <2>2 DEF IInv, PhyInv
    <3>2. phy.trained
      BY <2>1, <2>2 DEF IInv, MailInv
    <3>3. sr_mode # "INVALID"
      BY <2>1, <2>2 DEF IInv, ModeInv
    <3>4. size = 1
      BY <2>1, <2>2 DEF IInv, TestInv
    <3>5. c_initphyconfig \cup custompretrain \cup i_loadpieimage(FALSE) \subseteq RegistersOf(written)
      BY <3>1, WrittenRegisters
    <3>6. phy.micro # "runs" /\ size # 0
      BY <3>1, <3>4
    <3> QED BY <3>2, <3>3, <3>5, <3>6
  <2>3. ASSUME pc = "idle", ret = "ok" PROVE wiring = Faultless
    BY <2>1, <2>3, TestsFind DEF IInv, TestInv, Passing, TestsFind
  <2>4. ASSUME pc = "idle", ret = "ok" PROVE ctl = [PowerOn EXCEPT !.core = FALSE, !.pctrl = {"PORT_EN"}]
    <3>1. /\ ctl.rfshctl3 = {} /\ ctl.pctrl = {"PORT_EN"} /\ ctl.dbg1 = {} /\ ~ctl.core /\ ctl.swdone
      BY <2>1, <2>4 DEF IInv, CtlInv
    <3>2. ctl.pwrctl = {} /\ ctl.dfimisc = {"INIT_COMPLETE_EN"}
      BY <2>1, <2>4 DEF IInv, PowerInv, DfiInv
    <3>3. ctl.core = FALSE /\ ctl.swdone = TRUE /\ ctl \in CtlRecord
      BY <3>1 DEF IInv, TypeOK, CtlRecord
    <3>4. PICK e : e = [PowerOn EXCEPT !.core = FALSE, !.pctrl = {"PORT_EN"}]
      OBVIOUS
    <3>5. e \in CtlRecord
      <4>1. PowerOn \in CtlRecord /\ FALSE \in BOOLEAN
        BY DEF PowerOn, CtlRecord
      <4> QED BY <3>4, <4>1 DEF CtlRecord
    <3>6. ~e.core /\ e.swdone /\ e.rfshctl3 = {} /\ e.pwrctl = {} /\ e.dfimisc = {"INIT_COMPLETE_EN"}
          /\ e.pctrl = {"PORT_EN"} /\ e.dbg1 = {}
      BY <3>4 DEF PowerOn
    <3>7. e.core = ctl.core /\ e.swdone = ctl.swdone
      BY <3>1, <3>3, <3>5, <3>6 DEF CtlRecord
    <3>8. /\ e.rfshctl3 = ctl.rfshctl3 /\ e.pwrctl = ctl.pwrctl /\ e.dfimisc = ctl.dfimisc
          /\ e.pctrl = ctl.pctrl /\ e.dbg1 = ctl.dbg1
      BY <3>1, <3>2, <3>6
    <3>9. e = ctl
      BY <3>3, <3>5, <3>7, <3>8, SameControl
    <3> QED BY <3>4, <3>9
  <2>5. ASSUME pc = "idle", ret = "ok" PROVE InUse
    <3>1. Running /\ Working /\ ~Nap /\ ~SoftNap("asleep") /\ ~SoftNap("no_sleep") /\ ~Falling /\ ~Change("wake")
      BY <2>1, <2>5 DEF Rising
    <3>2. pm.clk = Clocks /\ ~pm.dlp
      BY <2>5, <3>1 DEF IInv, PmInv
    <3>3. ~pm.retained /\ ~pm.lp3 /\ pm.ddc /\ pm.lp_en
      BY <2>5, <3>1 DEF IInv, PmInv
    <3> QED BY <3>2, <3>3 DEF InUse
  <2>6. ASSUME pc = "idle", ret = "asleep", sr_mode = "SSR"
        PROVE  /\ ctl.pctrl = {} /\ "SELFREF_SW" \in ctl.pwrctl /\ ctl.dfimisc = {"FREQUENCY"}
               /\ pm.lp3 /\ ~pm.lp_en /\ (pm.retained <=> ~pm.ddc)
    <3>1. SoftNap("asleep") /\ Running /\ ~Working
      BY <2>6 DEF SoftNap, Returned, Running, Soft, Working, Nap
    <3>2. ctl.pctrl = {} /\ ctl.pwrctl = {"SELFREF_SW"} /\ ctl.dfimisc = {"FREQUENCY"}
      BY <3>1 DEF IInv, CtlInv, PowerInv, DfiInv
    <3>3. pm.lp3 /\ ~pm.lp_en /\ (pm.retained <=> ~pm.ddc)
      BY <3>1 DEF IInv, PmInv
    <3> QED BY <3>2, <3>3
  <2> QED BY <2>2, <2>3, <2>4, <2>5, <2>6 DEF UpOrAsleep, MissionReady
<1> QED BY <1>1, Inductive, PTL

=============================================================================
