------------------------------ MODULE DdrSleep ------------------------------
(***************************************************************************)
(* A memory that sleeps between two uses: the self-refresh that software    *)
(* asks for (SSR), that the hardware enters when its clock stops (HSR) or    *)
(* when it is idle (ASR), and the end of the memory's clocks                *)
(* (stm32mp2_ddr_helpers.c).  The bring-up is that of DdrInit.              *)
(***************************************************************************)
EXTENDS DdrInit

CONSTANT MaxNaps  \* bound: calls that make the memory sleep or change its mode

ASSUME NapAssumption == MaxNaps \in Nat

VARIABLES
  pm,   \* what belongs to the memory's power, below
  naps

(* lp_en: DFI_LP_EN_SR.  clk: the clocks of RCC_DDRCPCFGR.  dlp: DDRPHYDLP.  *)
(* ckmod: DDRCKMOD.  hwlp: HW_LP_EN.  auto: LP_DISABLE is 0.  lp3: the PHY   *)
(* is in LP3.  retained: DDRRETDIS is 0.  ddc: the PHY compensates drift.    *)
Clocks == {"CPEN", "CPLPEN"}
Off == [lp_en |-> TRUE, clk |-> {}, dlp |-> FALSE, ckmod |-> "SSR", hwlp |-> FALSE, auto |-> FALSE,
        lp3 |-> FALSE, retained |-> TRUE, ddc |-> TRUE]

SleepInit == Init /\ pm = Off /\ naps = 0

(* Asleep, on the way there or back: what ddr_init() does to a memory that   *)
(* sleeps is not modelled.                                                   *)
Napping == ret \in {"asleep", "no_sleep", "no_wake"}
Sleeps(r) == pc' = "idle" /\ ret' = r

(* What ddr_init() does to the same registers: ddr_sub_system_clk_init(),    *)
(* then the reset, the configuration, and the end of retention.              *)
BringUp ==
  /\ pc = "idle" => ~Napping
  /\ Next
  /\ pm' = CASE pc = "pll2" -> [pm EXCEPT !.clk = Clocks]
             [] pc = "reset" -> [pm EXCEPT !.hwlp = FALSE, !.auto = FALSE, !.lp3 = FALSE, !.ddc = TRUE]
             [] pc = "set_reg" -> [pm EXCEPT !.lp_en = TRUE]
             [] pc = "release" -> [pm EXCEPT !.retained = FALSE]
             [] OTHER -> pm
  /\ UNCHANGED naps

Untouched == <<registers, tracking, mail, reading, firmware, wiring>>
Kept == <<calls, size, sr_mode, reenable, todo, Untouched, naps>>

-----------------------------------------------------------------------------
(* ddr_sr_entry(), by the mode that is remembered.                           *)
ddr_sr_entry ==
  /\ pc = "idle" /\ ret = "ok" /\ naps < MaxNaps /\ naps' = naps + 1
  /\ pc' = [SSR |-> "port_off", HSR |-> "hsr_in", ASR |-> "asr_in"][sr_mode]
  /\ ret' = "none"
  /\ UNCHANGED <<calls, size, sr_mode, control, Untouched, pm>>

(* sr_ssr_entry(): the port is off before the memory is left alone.          *)
SsrPortOff(standby) ==
  /\ Goto("port_off", IF standby THEN "ddc" ELSE "dfi_lp") \/ Panic("port_off")
  /\ ctl' = [ctl EXCEPT !.pctrl = {}]
  /\ UNCHANGED <<ret, pm, Kept>>

(* disable_phy_ddc(), for standby: registers of the PHY, which then has them *)
(* back.                                                                     *)
disable_phy_ddc ==
  /\ Goto("ddc", "dfi_lp")
  /\ pm' = [pm EXCEPT !.ddc = FALSE] /\ phy' = [phy EXCEPT !.mux = 1]
  /\ UNCHANGED <<ret, ctl, written, calls, size, sr_mode, reenable, todo, tracking, mail, reading, firmware, wiring, naps>>

disable_dfi_low_power_interface ==
  /\ \/ Goto("dfi_lp", "sr_in") /\ ctl' = [ctl EXCEPT !.pwrctl = (@ \cup {"SELFREF_SW"}) \ {"STAY_IN_SELFREF"}]
     \/ Panic("dfi_lp") /\ UNCHANGED ctl
  /\ pm' = [pm EXCEPT !.lp_en = FALSE]
  /\ UNCHANGED <<ret, Kept>>

(* sr_entry_loop(): the memory refreshes itself, or it does not in a second, *)
(* and then the call returns with what it did so far.                        *)
SsrAsleep ==
  /\ \/ Goto("sr_in", "set_qd3") /\ todo' = "sleep" /\ UNCHANGED ret
     \/ pc = "sr_in" /\ Sleeps("no_sleep") /\ UNCHANGED todo
  /\ UNCHANGED <<calls, size, sr_mode, reenable, ctl, Untouched, pm, naps>>

(* ddr_wait_lp3_mode(), either way: by registers of the PHY.                 *)
ddr_wait_lp3_mode(here, there, lp3) ==
  /\ Goto(here, there) \/ Panic(here)
  /\ phy' = [phy EXCEPT !.mux = IF pc' = "panic" THEN 0 ELSE 1]
  /\ pm' = [pm EXCEPT !.lp3 = IF pc' = "panic" THEN @ ELSE lp3]
  /\ UNCHANGED <<ret, ctl, written, calls, size, sr_mode, reenable, todo, tracking, mail, reading, firmware, wiring, naps>>

(* Retention for standby, and the clocks: from now on they stop when the     *)
(* processor sleeps.                                                         *)
SsrClocksOff ==
  /\ pc = "clk_off" /\ Sleeps("asleep")
  /\ pm' = [pm EXCEPT !.retained = ~pm.ddc, !.clk = (@ \ {"CPLPEN"}) \cup {"CPEN"}, !.dlp = TRUE]
  /\ UNCHANGED <<ctl, Kept>>

-----------------------------------------------------------------------------
(* ddr_sr_exit().  Out of standby the chip starts anew: its warm start.      *)
ddr_sr_exit ==
  /\ pc = "idle" /\ Napping /\ ~pm.retained /\ pm.ddc
  /\ pc' = [SSR |-> "clk_on", HSR |-> "hsr_out", ASR |-> "asr_out"][sr_mode]
  /\ ret' = "none"
  /\ UNCHANGED <<ctl, pm, Kept>>

SsrClocksOn ==
  /\ Goto("clk_on", "set_qd3")
  /\ todo' = "wake"
  /\ pm' = [pm EXCEPT !.clk = Clocks, !.dlp = FALSE]
  /\ UNCHANGED <<ret, calls, size, sr_mode, reenable, ctl, Untouched, naps>>

(* ddr_sr_exit_loop(), and the port and the interface are back.              *)
SsrAwake ==
  /\ \/ pc = "sr_out" /\ Sleeps("ok") /\ ctl' = [ctl EXCEPT !.pwrctl = @ \ {"SELFREF_SW"}, !.pctrl = {"PORT_EN"}]
        /\ pm' = [pm EXCEPT !.lp_en = TRUE]
     \/ pc = "sr_out" /\ Sleeps("no_wake") /\ ctl' = [ctl EXCEPT !.pwrctl = @ \ {"SELFREF_SW"}] /\ UNCHANGED pm
  /\ UNCHANGED Kept

(* sr_hsr_entry(), sr_hsr_exit(): without its clock the memory refreshes     *)
(* itself, if the hardware may do so; the way back does not wait.            *)
sr_hsr_entry ==
  /\ pc = "hsr_in" /\ \/ Sleeps("asleep") /\ pm.ckmod = "HSR" /\ pm.hwlp
                      \/ Sleeps("no_sleep")
  /\ pm' = [pm EXCEPT !.clk = {"CPLPEN"}]
  /\ UNCHANGED <<ctl, Kept>>

sr_hsr_exit ==
  /\ pc = "hsr_out" /\ Sleeps("ok")
  /\ pm' = [pm EXCEPT !.clk = Clocks]
  /\ UNCHANGED <<ctl, Kept>>

(* sr_asr_entry(), sr_asr_exit(): nothing but the wait for a memory that     *)
(* goes to sleep by itself, if it is told to.                                *)
sr_asr_entry ==
  /\ pc = "asr_in"
  /\ \/ Sleeps("asleep") /\ pm.auto /\ "SELFREF_EN" \in ctl.pwrctl
     \/ Sleeps("no_sleep")
  /\ UNCHANGED <<ctl, pm, Kept>>

sr_asr_exit ==
  /\ pc = "asr_out" /\ (Sleeps("ok") \/ Sleeps("no_wake"))
  /\ UNCHANGED <<ctl, pm, Kept>>

-----------------------------------------------------------------------------
(* ddr_set_sr_mode() of a memory in use.                                     *)
Use == pc = "idle" /\ ret = "ok" /\ naps < MaxNaps
Set == <<calls, ret, size, reenable, todo, Untouched>>

sr_ssr_set ==
  /\ Use /\ sr_mode # "SSR" /\ naps' = naps + 1
  /\ sr_mode' = "SSR" /\ ctl' = [ctl EXCEPT !.pwrctl = @ \ LowPower] /\ pm' = [pm EXCEPT !.auto = FALSE]
  /\ UNCHANGED <<pc, Set>>

sr_asr_set ==
  /\ Use /\ sr_mode # "ASR" /\ naps' = naps + 1
  /\ sr_mode' = "ASR" /\ pm' = [pm EXCEPT !.auto = TRUE]
  /\ UNCHANGED <<pc, ctl, Set>>

(* sr_hsr_set(): HWLPCTL changes while the memory refreshes itself.          *)
sr_hsr_set ==
  /\ Use /\ sr_mode # "HSR" /\ naps' = naps + 1
  /\ pc' \in {"hsr_sr", "panic"}
  /\ ctl' = [ctl EXCEPT !.pwrctl = @ \cup {"SELFREF_SW"}] /\ pm' = [pm EXCEPT !.ckmod = "HSR"]
  /\ UNCHANGED <<sr_mode, Set>>

sr_hsr_set_done ==
  /\ pm' = [pm EXCEPT !.hwlp = TRUE]
  /\ \/ Goto("hsr_sr", "idle") /\ ctl' = [ctl EXCEPT !.pwrctl = @ \ {"SELFREF_SW"}] /\ sr_mode' = "HSR"
     \/ Panic("hsr_sr") /\ ctl' = [ctl EXCEPT !.swdone = FALSE] /\ UNCHANGED sr_mode
  /\ UNCHANGED <<naps, Set>>

(* ddr_read_sr_mode(), ddr_save_sr_mode(): the mode that pwrctl is set to.   *)
(* ddr_restore_sr_mode() sets the mode that is already remembered, which     *)
(* ddr_set_sr_mode() passes over: it does nothing.                           *)
ddr_read_sr_mode ==
  CASE ctl.pwrctl \cap LowPower = {} -> "SSR"
    [] ctl.pwrctl \cap LowPower = {"EN_DFI_DRAM_CLK_DISABLE"} -> "HSR"
    [] ctl.pwrctl \cap LowPower = LowPower -> "ASR"
    [] OTHER -> "INVALID"
ddr_save_sr_mode ==
  /\ Use /\ naps' = naps + 1
  /\ sr_mode' = ddr_read_sr_mode
  /\ UNCHANGED <<pc, ctl, pm, Set>>

(* ddr_sub_system_clk_off(): the memory, its controller and its PHY are off. *)
ddr_sub_system_clk_off ==
  /\ Use /\ naps' = naps + 1
  /\ ret' = "off" /\ ctl' = PowerOn /\ phy' = PhyReset /\ written' = {} /\ pm' = Off
  /\ UNCHANGED <<pc, calls, size, sr_mode, reenable, todo, tracking, mail, reading, firmware, wiring>>

-----------------------------------------------------------------------------
Entry ==
  \/ \E standby \in BOOLEAN : SsrPortOff(standby)
  \/ disable_phy_ddc \/ disable_dfi_low_power_interface \/ SsrAsleep
  \/ ddr_wait_lp3_mode("lp3_in", "clk_off", TRUE)
  \/ SsrClocksOff \/ sr_hsr_entry \/ sr_asr_entry
Exit ==
  \/ SsrClocksOn \/ ddr_wait_lp3_mode("lp3_out", "sr_out", FALSE) \/ SsrAwake \/ sr_hsr_exit \/ sr_asr_exit
Modes == sr_ssr_set \/ sr_asr_set \/ sr_hsr_set \/ ddr_save_sr_mode

SleepNext ==
  BringUp \/ ddr_sr_entry \/ Entry \/ ddr_sr_exit \/ Exit \/ Modes \/ sr_hsr_set_done \/ ddr_sub_system_clk_off

SleepVars == <<vars, pm, naps>>
SleepSpec ==
  SleepInit /\ [][SleepNext]_SleepVars
  /\ WF_SleepVars((BringUp /\ Driver) \/ Entry \/ Exit \/ sr_hsr_set_done)

-----------------------------------------------------------------------------
InUse == ~pm.dlp /\ ~pm.lp3 /\ ~pm.retained /\ pm.lp_en /\ pm.ddc /\ pm.clk = Clocks

\* A call returns 0 only with the memory in one of two states.  In use:
\* MissionReady, with its clocks on and its PHY awake, also after a sleep.
\* Asleep, by software: it refreshes itself, and nothing can reach it, so
\* its clocks may stop; the port that ddr_activate_controller() may find on
\* and put on again is off all the way (stm32mp2_ddr_helpers.c).
UpOrAsleep ==
  /\ MissionReady
  /\ pc = "idle" /\ ret = "ok" => InUse
  /\ pc = "idle" /\ ret = "asleep" /\ sr_mode = "SSR" =>
       /\ ctl.pctrl = {} /\ "SELFREF_SW" \in ctl.pwrctl /\ ctl.dfimisc = {"FREQUENCY"}
       /\ pm.lp3 /\ ~pm.lp_en /\ (pm.retained <=> ~pm.ddc)
=============================================================================
