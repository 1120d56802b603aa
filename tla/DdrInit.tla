------------------------------ MODULE DdrInit ------------------------------
(***************************************************************************)
(* ddr_init(): from the clock of the memory to a memory that was tested,    *)
(* with the training firmware that runs on the PHY's own processor and      *)
(* talks through a mailbox of one word, and the memory's lines, of which    *)
(* some may be bad.  Registers are the sets of their bits that the code     *)
(* sets or clears; the registers of the PHY are those of PhyRegs.           *)
(* Every wait for the hardware may time out.                                *)
(***************************************************************************)
EXTENDS PhyRegs, MemTest

CONSTANTS
  Scripts,   \* what the firmware may say: words of 32 bits, the verdict last
  MaxCalls   \* bound: calls of ddr_init()

FW_MAJ_MSG_TRAINING_SUCCESS == 7
FW_MAJ_MSG_START_STREAMING == 8
FW_MAJ_MSG_TRAINING_FAILED == 255
Verdicts == {FW_MAJ_MSG_TRAINING_SUCCESS, FW_MAJ_MSG_TRAINING_FAILED}
Low16(v) == v % 65536

(* A script is a row of messages, which begin at the places M.  A message is *)
(* one word, or the start of a stream: then the low half of the next word    *)
(* says how many follow.  The verdict is the last message and no other.      *)
Messages(s, M) ==
  /\ 1 \in M
  /\ \A i \in M :
       /\ Low16(s[i]) \in Verdicts <=> i = Len(s)
       /\ i # Len(s) => (IF Low16(s[i]) = FW_MAJ_MSG_START_STREAMING THEN i + 2 + Low16(s[i + 1]) ELSE i + 1) \in M

ASSUME DdrAssumption ==
  /\ \A s \in Scripts : s \in Seq(Nat) /\ s # <<>> /\ s[Len(s)] \in Verdicts
                       /\ \E M \in SUBSET DOMAIN s : Messages(s, M)
  /\ MaxCalls \in Nat \ {0}

VARIABLES
  pc,         \* what ddr_init() does next
  calls,      \* how often it was called
  ret,        \* what it returned last
  size,       \* ddr_priv.info.size: 0 or all of it
  sr_mode,    \* saved_ddr_sr_mode
  reenable,   \* axi_port_reenable_request, host_interface_reenable_request
  ctl,        \* the registers of the controller; core is its core reset
  todo,       \* the change of dfimisc that is under way
  phy,        \* MicroContMuxSel, the processor, and what was loaded for it
  written,    \* the steps whose registers the PHY took since its reset
  tracken, tracked, saved,  \* the lists of registers for a warm start
  mail,       \* the mailbox: DctWriteProt, UctWriteProtShadow and the word
  expect, left, got,        \* what the driver takes the next word for, and all it read
  script, said,             \* what the firmware says, and how much it said
  wiring      \* the faults of the lines, once it matters

driver == <<pc, calls, ret, size, sr_mode>>
control == <<reenable, ctl, todo>>
registers == <<phy, written>>
tracking == <<tracken, tracked, saved>>
reading == <<expect, left, got>>
firmware == <<script, said>>
vars == <<driver, control, registers, tracking, mail, reading, firmware, wiring>>

Unknown == [known |-> FALSE]
(* Either the data lines are bad or the address lines.                       *)
Wirings == {[known |-> TRUE, data |-> d, address |-> Sound] : d \in Faults(DataBits)}
           \cup {[known |-> TRUE, data |-> Sound, address |-> a] : a \in Faults(Lines)}
Faultless == [known |-> TRUE, data |-> Sound, address |-> Sound]

(* The configuration of the board: no refresh is disabled and no low power   *)
(* mode is on; stm32mp2_ddr_init() adds SELFREF_SW for LPDDR4.               *)
c_reg == [rfshctl3 |-> {}, pwrctl |-> {"SELFREF_SW"}, dfimisc |-> {"INIT_COMPLETE_EN"}, pctrl |-> {}, dbg1 |-> {}]

PowerOn ==
  [core |-> TRUE, swdone |-> TRUE, rfshctl3 |-> {}, pwrctl |-> {}, dfimisc |-> {"INIT_COMPLETE_EN"}, pctrl |-> {}, dbg1 |-> {}]
PhyReset == [mux |-> 0, micro |-> "reset", loaded |-> {}, trained |-> FALSE]
Quiet == [prot |-> 1, shadow |-> 1, word |-> 0]

Init ==
  /\ pc = "idle" /\ calls = 0 /\ ret = "none" /\ size = 0 /\ sr_mode = "INVALID"
  /\ reenable = {} /\ ctl = PowerOn /\ todo = "none"
  /\ phy = PhyReset /\ written = {} /\ tracken = TRUE /\ tracked = {} /\ saved = {}
  /\ mail = Quiet /\ expect = "major" /\ left = 0 /\ got = <<>>
  /\ script \in Scripts /\ said = 0 /\ wiring = Unknown

Goto(here, there) == pc = here /\ pc' = there
Panic(here) == Goto(here, "panic")
Stay == <<calls, ret, size, sr_mode>>

-----------------------------------------------------------------------------
(* The call, from `ddr`, load_sd or boot: first PLL2.                        *)
Call ==
  /\ Goto("idle", "pll2") /\ calls < MaxCalls
  /\ calls' = calls + 1 /\ ret' = "none"
  /\ UNCHANGED <<size, sr_mode, control, registers, tracking, mail, reading, firmware, wiring>>

Pll2 ==
  /\ \/ Goto("pll2", "reset") /\ size' = 0 /\ UNCHANGED ret
     \/ Goto("pll2", "idle") /\ ret' = "failed" /\ UNCHANGED size
  /\ UNCHANGED <<calls, sr_mode, control, registers, tracking, mail, reading, firmware, wiring>>

(* ddr_reset() and ddr_sysconf_configuration(): the controller, the PHY and  *)
(* their registers start over, and the controller's core stays in reset.     *)
ddr_reset ==
  /\ Goto("reset", "set_reg")
  /\ ctl' = PowerOn /\ phy' = PhyReset /\ written' = {}
  /\ mail' = Quiet /\ said' = 0 /\ got' = <<>>
  /\ UNCHANGED <<Stay, reenable, todo, tracking, expect, left, script, wiring>>

(* The four groups of registers.  Some, dfimisc among them, are written with *)
(* SW_DONE cleared, and each of those waits for its acknowledgement.         *)
stm32mp_ddr_set_reg ==
  /\ \/ /\ Goto("set_reg", "release")
        /\ ctl' = [ctl EXCEPT !.rfshctl3 = c_reg.rfshctl3, !.pwrctl = c_reg.pwrctl, !.dfimisc = c_reg.dfimisc,
                              !.pctrl = c_reg.pctrl, !.dbg1 = c_reg.dbg1, !.swdone = TRUE]
     \/ Panic("set_reg") /\ ctl' = [ctl EXCEPT !.swdone = FALSE]
  /\ UNCHANGED <<Stay, reenable, todo, registers, tracking, mail, reading, firmware, wiring>>

(* Out of retention and of reset, then the head of disable_refresh(): the    *)
(* controller acknowledges the end of refresh before anything else changes.  *)
disable_refresh ==
  /\ \/ /\ Goto("release", "set_qd3") /\ todo' = "hold"
        /\ ctl' = [ctl EXCEPT !.core = FALSE, !.rfshctl3 = @ \cup {"DIS_AUTO_REFRESH"},
                              !.pwrctl = @ \ {"POWERDOWN_EN", "SELFREF_EN"}]
     \/ /\ Panic("release") /\ UNCHANGED todo
        /\ ctl' = [ctl EXCEPT !.core = FALSE, !.rfshctl3 = @ \cup {"DIS_AUTO_REFRESH"}]
  /\ UNCHANGED <<Stay, reenable, registers, tracking, mail, reading, firmware, wiring>>

-----------------------------------------------------------------------------
(* A change of dfimisc, with the controller at rest around it.               *)

(* What the change is for: the three calls of ddr_activate_controller().     *)
Activations == {"activate", "sleep", "wake"}

(* set_qd1_qd3_update_conditions() when the controller is activated: its     *)
(* queues are off first.  Then the ports and the host interface, as far as   *)
(* they are on, and a panic when one does not run dry.                       *)
stm32mp_ddr_set_qd3_update_conditions ==
  LET dq == {b \in {"DIS_DQ"} : todo \in Activations}
      on == {r \in {"axi"} : ctl.pctrl # {}} \cup {r \in {"hif"} : "DIS_HIF" \notin ctl.dbg1}
  IN  /\ \/ /\ Goto("set_qd3", "update")
            /\ ctl' = [ctl EXCEPT !.pctrl = {}, !.dbg1 = @ \cup {"DIS_HIF"} \cup dq, !.swdone = FALSE]
            /\ reenable' = reenable \cup on
         \/ \E stuck \in on :
              /\ Panic("set_qd3")
              /\ ctl' = [ctl EXCEPT !.pctrl = {}, !.dbg1 = @ \cup dq \cup {b \in {"DIS_HIF"} : stuck = "hif"}]
              /\ reenable' = reenable \cup (on \ (IF stuck = "axi" THEN on ELSE {"hif"}))
      /\ UNCHANGED <<Stay, todo, registers, tracking, mail, reading, firmware, wiring>>

(* set_dfi_init_complete_en(), or ddr_activate_controller(), which starts    *)
(* the PHY at the frequency of a memory that works or sleeps and waits for it.                                                *)
set_dfimisc ==
  /\ \/ /\ Goto("update", "unset_qd3")
        /\ ctl' = [ctl EXCEPT !.dfimisc =
             CASE todo = "hold" -> @ \ {"INIT_COMPLETE_EN"}
               [] todo = "resume" -> @ \cup {"INIT_COMPLETE_EN"}
               [] todo = "sleep" -> (@ \cup {"FREQUENCY"}) \ {"INIT_COMPLETE_EN"}
               [] OTHER -> (@ \ {"FREQUENCY"}) \cup {"INIT_COMPLETE_EN"}]
     \/ todo \in Activations /\ Panic("update") /\ UNCHANGED ctl
  /\ UNCHANGED <<Stay, reenable, todo, registers, tracking, mail, reading, firmware, wiring>>

After == [hold |-> "phy_c", activate |-> "restore", resume |-> "axi", sleep |-> "lp3_in", wake |-> "lp3_out"]

(* What was on before is on again.                                           *)
stm32mp_ddr_unset_qd3_update_conditions ==
  /\ \/ /\ Goto("unset_qd3", After[todo])
        /\ ctl' = [ctl EXCEPT !.swdone = TRUE,
                              !.pctrl = IF "axi" \in reenable THEN {"PORT_EN"} ELSE @,
                              !.dbg1 = @ \ ({b \in {"DIS_HIF"} : "hif" \in reenable}
                                            \cup {b \in {"DIS_DQ"} : todo \in Activations})]
        /\ reenable' = {}
     \/ Panic("unset_qd3") /\ ctl' = [ctl EXCEPT !.swdone = TRUE] /\ UNCHANGED reenable
  /\ UNCHANGED <<Stay, todo, registers, tracking, mail, reading, firmware, wiring>>

-----------------------------------------------------------------------------
(* The PHY.  Its registers take what is written while MicroContMuxSel gives  *)
(* them to the bus, and the firmware has them while it is 1.                 *)

Registers ==
  [c_initphyconfig |-> c_initphyconfig, custompretrain |-> custompretrain, d_loadimem |-> Master({"MEMRESETL"}),
   i_loadpieimage |-> i_loadpieimage(FALSE) \cup Master({"UCCLKHCLKENABLES"}), saveretregs |-> saveretregs]
RegistersOf(steps) == UNION {Registers[s] : s \in steps}
Put(steps) == IF phy.mux = 0 THEN written \cup steps ELSE written

(* Steps C and the board's routing, with the message block worked out first; *)
(* what follows is not tracked.                                              *)
PhyConfigure ==
  /\ IF calcmb # {} /\ ImpedancesFit
       THEN /\ Goto("phy_c", "imem")
            /\ written' = Put({"c_initphyconfig", "custompretrain"}) /\ tracken' = FALSE
       ELSE Panic("phy_c") /\ UNCHANGED <<written, tracken>>
  /\ UNCHANGED <<Stay, control, phy, tracked, saved, mail, reading, firmware, wiring>>

(* ddrphy_phyinit_writeoutmem(), _writeoutmsgblk(): a part of the memory of  *)
(* the processor is written from the bus, which gives it back.               *)
Loaded(p, part) == [p EXCEPT !.mux = 1, !.loaded = @ \cup {part}]

ddrphy_phyinit_d_loadimem ==
  /\ Goto("imem", "dmem")
  /\ written' = Put({"d_loadimem"})
  /\ phy' = Loaded(phy, "imem")
  /\ UNCHANGED <<Stay, control, tracking, mail, reading, firmware, wiring>>

ddrphy_phyinit_f_loaddmem ==
  /\ IF \A mb \in calcmb : DqsFit(mb)
       THEN Goto("dmem", "exec") /\ phy' = Loaded(Loaded(phy, "block"), "dmem")
       ELSE Panic("dmem") /\ UNCHANGED phy
  /\ UNCHANGED <<Stay, control, written, tracking, mail, reading, firmware, wiring>>

ddrphy_phyinit_g_execfw ==
  /\ Goto("exec", "mail")
  /\ phy' = [phy EXCEPT !.mux = 1, !.micro = "runs"]
  /\ expect' = "major" /\ left' = 0
  /\ UNCHANGED <<Stay, control, written, tracking, mail, got, firmware, wiring>>

\* Wrong variant: does not wait until the firmware has seen it.
ack_message_receipt_no_wait == pc = "ack"

(* ack_message_receipt(): the firmware has seen that its word was taken.     *)
ack_message_receipt == pc = "ack" /\ mail.shadow = 1

(* The firmware has a word for the driver: it is read and given back.        *)
Fetch ==
  /\ mail.shadow = 0 /\ Goto("mail", "ack")
  /\ got' = Append(got, mail.word) /\ mail' = [mail EXCEPT !.prot = 0]
  /\ UNCHANGED <<Stay, control, registers, tracking, expect, left, firmware, wiring>>

(* How many words follow the first of a stream.                              *)
Streamed(w) == Low16(w)

(* get_major_message(), get_streaming_message(): a word is a major message,  *)
(* the length of a stream or a word of it.  The verdict ends the loop.       *)
Take ==
  LET w == got[Len(got)]
      major == Low16(w)
      Next1(n) == left' = n /\ expect' = IF n = 0 THEN "major" ELSE "word"
  IN  /\ ack_message_receipt
      /\ mail' = [mail EXCEPT !.prot = 1]
      /\ \/ expect = "length" /\ Goto("ack", "mail") /\ Next1(Streamed(w))
         \/ expect = "word" /\ Goto("ack", "mail") /\ Next1(left - 1)
         \/ /\ expect = "major"
            /\ CASE major = FW_MAJ_MSG_START_STREAMING -> Goto("ack", "mail") /\ expect' = "length" /\ UNCHANGED left
                 [] major = FW_MAJ_MSG_TRAINING_SUCCESS -> Goto("ack", "halt") /\ UNCHANGED <<expect, left>>
                 [] major = FW_MAJ_MSG_TRAINING_FAILED -> Panic("ack") /\ UNCHANGED <<expect, left>>
                 [] OTHER -> Goto("ack", "mail") /\ UNCHANGED <<expect, left>>
      /\ UNCHANGED <<Stay, control, registers, tracking, got, firmware, wiring>>

\* Wrong variant: waits for the next word for ever.
MailTimeout_ack_only ==
  /\ Panic("ack")
  /\ UNCHANGED <<Stay, control, registers, tracking, mail, reading, firmware, wiring>>

(* wait_uctwriteprotshadow() gives up after a second.                        *)
MailTimeout ==
  /\ Panic("mail") \/ Panic("ack")
  /\ UNCHANGED <<Stay, control, registers, tracking, mail, reading, firmware, wiring>>

\* Wrong variant: leaves the processor running.
Halt_not ==
  /\ Goto("halt", "pie")
  /\ tracken' = TRUE
  /\ UNCHANGED <<Stay, control, registers, tracked, saved, mail, reading, firmware, wiring>>

(* The processor is stopped, and registers are tracked again.                *)
Halt ==
  /\ Goto("halt", "pie")
  /\ phy' = [phy EXCEPT !.micro = "stalled"] /\ tracken' = TRUE
  /\ UNCHANGED <<Stay, control, written, tracked, saved, mail, reading, firmware, wiring>>

ddrphy_phyinit_i_loadpieimage ==
  /\ Goto("pie", "save")
  /\ written' = written \cup {"i_loadpieimage"}
  /\ phy' = [phy EXCEPT !.mux = 1]
  /\ UNCHANGED <<Stay, control, tracking, mail, reading, firmware, wiring>>

(* ddrphy_phyinit_trackreg() for each register of the list; an error once    *)
(* there are more than one too many.  Then their values are read.            *)
ddrphy_phyinit_usercustom_saveretregs ==
  LET all == IF tracken THEN tracked \cup {"saveretregs"} ELSE tracked
  IN  /\ IF Cardinality(RegistersOf(all)) <= MAX_NUM_RET_REGS + 1
            THEN Goto("save", "set_qd3") /\ tracked' = all /\ saved' = all /\ todo' = "activate"
            ELSE Panic("save") /\ UNCHANGED <<tracked, saved, todo>>
      /\ phy' = [phy EXCEPT !.mux = 1]
      /\ UNCHANGED <<Stay, reenable, ctl, written, tracken, mail, reading, firmware, wiring>>

-----------------------------------------------------------------------------
(* Back to work.                                                             *)

(* What the configuration says of refresh and power-down, and the end of the *)
(* self-refresh it asked for; the start of refresh is acknowledged first.    *)
restore_refresh ==
  LET enabled == {"DIS_AUTO_REFRESH"} \ c_reg.rfshctl3
  IN  /\ \/ /\ Goto("restore", "set_qd3") /\ todo' = "resume"
            /\ ctl' = [ctl EXCEPT !.rfshctl3 = @ \ enabled,
                                  !.pwrctl = (@ \ ({"SELFREF_SW"} \cap c_reg.pwrctl))
                                             \cup ({"POWERDOWN_EN", "SELFREF_EN"} \cap c_reg.pwrctl)]
         \/ /\ enabled # {} /\ Panic("restore") /\ UNCHANGED todo
            /\ ctl' = [ctl EXCEPT !.rfshctl3 = @ \ enabled]
      /\ UNCHANGED <<Stay, reenable, registers, tracking, mail, reading, firmware, wiring>>

stm32mp_ddr_enable_axi_port ==
  /\ Goto("axi", "test")
  /\ ctl' = [ctl EXCEPT !.pctrl = {"PORT_EN"}] /\ size' = 1
  /\ UNCHANGED <<calls, ret, sr_mode, reenable, todo, registers, tracking, mail, reading, firmware, wiring>>

Passing == {w \in Wirings : Tested(w)}

(* The tests: the lines are what they are, and the same in every call.       *)
Test ==
  /\ wiring' \in IF wiring.known THEN {wiring} ELSE Wirings
  /\ IF wiring' \in Passing THEN Goto("test", "sr") /\ UNCHANGED ret
                        ELSE Goto("test", "idle") /\ ret' = "failed"
  /\ UNCHANGED <<calls, size, sr_mode, control, registers, tracking, mail, reading, firmware>>

(* With none of the bits for them in pwrctl the mode is software             *)
(* self-refresh, and setting it clears the same bits.                        *)
LowPower == {"EN_DFI_DRAM_CLK_DISABLE", "SELFREF_EN"}
ASSUME SoftwareSelfRefresh == c_reg.pwrctl \cap LowPower = {}

ddr_set_sr_mode ==
  /\ Goto("sr", "idle") /\ ret' = "ok"
  /\ sr_mode' = "SSR"
  /\ ctl' = [ctl EXCEPT !.pwrctl = IF sr_mode = "SSR" THEN @ ELSE @ \ LowPower]
  /\ UNCHANGED <<calls, size, reenable, todo, registers, tracking, mail, reading, firmware, wiring>>

-----------------------------------------------------------------------------
(* The training firmware, once its processor runs with the program, its data *)
(* and a message block it understands loaded.  It says the next word when    *)
(* the driver is ready for one, and takes the word back when the driver has  *)
(* read it.  It trains the lines and ranks that the block names.             *)
Runs ==
  /\ phy.micro = "runs" /\ phy.loaded = {"imem", "dmem", "block"}
  /\ \A mb \in calcmb : Understood(mb)
TrainedNow == script[said'] = FW_MAJ_MSG_TRAINING_SUCCESS /\ \A mb \in calcmb : Complete(mb)

FwSend ==
  /\ Runs /\ mail.prot = 1 /\ mail.shadow = 1 /\ said < Len(script)
  /\ mail' = [mail EXCEPT !.shadow = 0, !.word = script[said + 1]]
  /\ said' = said + 1
  /\ phy' = [phy EXCEPT !.trained = said' = Len(script) /\ TrainedNow]
  /\ UNCHANGED <<driver, control, written, tracking, reading, script, wiring>>

FwTakeBack ==
  /\ Runs /\ mail.prot = 0 /\ mail.shadow = 0
  /\ mail' = [mail EXCEPT !.shadow = 1]
  /\ UNCHANGED <<driver, control, registers, tracking, reading, firmware, wiring>>

-----------------------------------------------------------------------------
Phy ==
  \/ PhyConfigure \/ ddrphy_phyinit_d_loadimem \/ ddrphy_phyinit_f_loaddmem \/ ddrphy_phyinit_g_execfw
  \/ Fetch \/ Take \/ MailTimeout \/ Halt
  \/ ddrphy_phyinit_i_loadpieimage \/ ddrphy_phyinit_usercustom_saveretregs
Driver ==
  \/ Pll2 \/ ddr_reset \/ stm32mp_ddr_set_reg \/ disable_refresh
  \/ stm32mp_ddr_set_qd3_update_conditions \/ set_dfimisc \/ stm32mp_ddr_unset_qd3_update_conditions
  \/ Phy \/ restore_refresh \/ stm32mp_ddr_enable_axi_port \/ Test \/ ddr_set_sr_mode
Next == Call \/ Driver \/ FwSend \/ FwTakeBack

(* The code goes on; the firmware need not, and nobody has to call.          *)
Spec == Init /\ [][Next]_vars /\ WF_vars(Driver)

-----------------------------------------------------------------------------
\* ddr_init() returns 0 only for a memory that works: trained by firmware
\* that ran on a PHY with all its registers written, refreshed, awake, with
\* the ports on, with a self-refresh mode to remember, and without a
\* bad data or address line (the memory's tests find every one of them).
MissionReady ==
  pc = "idle" /\ ret = "ok" =>
    /\ phy.trained /\ phy.micro # "runs"
    /\ c_initphyconfig \cup custompretrain \cup i_loadpieimage(FALSE) \subseteq RegistersOf(written)
    /\ ctl = [PowerOn EXCEPT !.core = FALSE, !.pctrl = {"PORT_EN"}]
    /\ sr_mode # "INVALID" /\ wiring = Faultless /\ size # 0

\* Every word of the firmware is read once and in order, and the training is
\* over for the driver only when the firmware has said all it had to say:
\* a word of a stream is never taken for a verdict, nor the reverse
\* (waitfwdone.c).
MailInOrder ==
  /\ Len(got) <= said /\ got = SubSeq(script, 1, Len(got))
  /\ pc = "halt" => got = script

\* "QD3" fields of dfimisc change only in reset, or with the ports and the
\* host interface off and SW_DONE cleared; its "QD1" field needs the queues
\* off as well; and the registers of the PHY change only while its processor
\* does not run (stm32mp_ddr.c, stm32mp2_ddr_helpers.c, g_execfw.c).
Quiescent ==
  [][/\ ctl'.dfimisc # ctl.dfimisc =>
          ctl'.core \/ (~ctl.swdone /\ ctl.pctrl = {} /\ "DIS_HIF" \in ctl.dbg1)
     /\ "FREQUENCY" \in ctl'.dfimisc <=> "FREQUENCY" \notin ctl.dfimisc =>
          ctl'.core \/ "DIS_DQ" \in ctl.dbg1
     /\ written' # written \/ saved' # saved => phy.micro # "runs" \/ written' = {}]_vars

\* What is saved for a warm start covers what a warm start does not do again,
\* apart from the two registers of the periodic training, and fits the area
\* of the retention RAM, also when ddr_init() ran before (saveretregs.c).
WarmStartCovered ==
  "i_loadpieimage" \in written /\ pc # "save" =>
    /\ NotRedone \ Master({"PPTTRAINSETUP", "PPTTRAINSETUP2"}) \subseteq RegistersOf(saved)
    /\ Cardinality(RegistersOf(saved)) <= MAX_NUM_RET_REGS

\* ddr_init() returns or panics, whatever the hardware and the firmware do.
Ends == pc # "idle" ~> pc \in {"idle", "panic"}
=============================================================================
