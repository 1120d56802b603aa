----------------------------- MODULE BootProofs -----------------------------
(***************************************************************************)
(* The way into the kernel, proved with TLAPS: the commands that bring the  *)
(* board up and boot it (Commands), for every length of the staged images,  *)
(* every chunk size and every set of faults, and the monitor that stays     *)
(* behind at EL3 (Psci), for every set of entries and contexts.             *)
(*                                                                         *)
(* DdrDoneMeansUp and OkMeansAsSaved hold whatever is typed.  The other     *)
(* theorems about the commands hold when the sizes are the only record of   *)
(* what is up: `ddr` and `sd` keep a record of their own, and a memory that *)
(* fails its tests leaves a size behind (the README has the constants under *)
(* which TLC shows it).                                                     *)
(*                                                                         *)
(* The theorems about the monitor hold when only core 1 is ever taken       *)
(* offline, which psci.c:8-10 is written for.                               *)
(***************************************************************************)
EXTENDS Commands, Psci, TLAPS

(* The commands. *)

InDdrInit == {"pll2", "training", "tests"}
Booting == {"handoff", "drop", "linux"}
Loading == InDdrInit \cup {"sd_init", "load"}

\* What `ddr` knows: nothing restarts the memory once it said OK.
DoneInv ==
  /\ ddr_done => ddr = "up" /\ ddr_size /\ pc \notin InDdrInit
  /\ pc = "tests" => ddr_size

\* The command that leads to a place in the code, as far as it matters.
PlaceInv ==
  /\ pc \in InDdrInit => cmd \in {"load_sd", "boot"}
  /\ pc = "sd_init" => cmd \in {"sdw", "usb", "load_sd", "boot"}
  /\ pc = "load" => cmd \in {"load_sd", "boot"}
  /\ pc \in Booting => cmd = "boot"
  /\ pc = "idle" => cmd = "prompt"

\* The two sizes are right where they decide.
SizeInv ==
  /\ pc \in {"pll2", "training"} => ~ddr_size
  /\ pc = "tests" => ddr = "up" /\ ddr_size
  /\ DdrSizeMeansUp
  /\ pc = "sd_init" => ~sd_size
  /\ SdSizeMeansUp
  /\ cmd \in {"load_sd", "boot"} /\ pc \in {"sd_init", "load"} \cup Booting => ddr_size

\* How far the copy has come.
LoadInv ==
  /\ pc = "load" => load.done <= mem[load.region]
  /\ cmd = "boot" /\ pc \in Loading => load.n = Blocks[load.region]
  /\ cmd = "boot" /\ pc \in Loading /\ load.region = "dtb"
       => pc = "load" /\ mem["kernel"] = Blocks["kernel"]
  /\ pc \in (Loading \ {"load"}) \cup {"idle"} => load.done = 0
  /\ pc \in Booting => \A r \in Region : mem[r] = Blocks[r]
  /\ firewall = (IF pc \in {"drop", "linux"} THEN "open" ELSE "secure")

LoaderInv ==
  TypeOK /\ PlaceInv /\ SizeInv /\ LoadInv /\ LoadedMeansLoaded

\* The sizes are the only record of what is up, and no bad line goes unnoticed
\* by the first test.
SizesDecide == "ddr" \notin Asked /\ "sd" \notin Asked /\ "TEST" \notin DdrFaults

-----------------------------------------------------------------------------
(* The actions of Next, one by one.                                         *)
LEMMA NextCases ==
  ASSUME [Next]_vars
  PROVE  \/ CmdDdr \/ CmdSd \/ CmdSdw \/ CmdUsb \/ CmdLoadSd \/ CmdBoot \/ CmdJump
         \/ JumpReturned \/ UsbKey \/ Reset
         \/ Pll2 \/ Training \/ TestsDdr \/ SdInit \/ SdMbr
         \/ SdwSave \/ SdwWrite \/ SdwReadback \/ SdwRestore
         \/ UsbDriver \/ UsbServe \/ LoadChunk \/ NextRegion \/ Handoff \/ DropToEl2
         \/ UNCHANGED vars
BY Zenon DEF Next, Typing, Running

(* The copy is set up by three actions and moved by one; all others end it  *)
(* or leave it alone.                                                       *)
LEMMA LoadFrame ==
  ASSUME [Next]_vars
  PROVE  CmdLoadSd \/ CmdBoot \/ LoadChunk \/ NextRegion \/ load' = load \/ load' = NoLoad
<1> USE DEF Return, Call, Enter, Lost
<1>1. CASE CmdDdr \/ CmdSd \/ CmdSdw \/ CmdUsb \/ CmdJump \/ JumpReturned \/ UsbKey \/ Reset
  BY <1>1, Zenon DEF CmdDdr, CmdSd, CmdSdw, CmdUsb, CmdJump, JumpReturned, UsbKey, Reset
<1>2. CASE Pll2 \/ Training \/ TestsDdr
  BY <1>2, Zenon DEF Pll2, Training, TestsDdr, AfterDdr
<1>3. CASE SdInit \/ SdMbr \/ SdwSave \/ SdwWrite \/ SdwReadback \/ SdwRestore
  BY <1>3, Zenon DEF SdInit, SdMbr, SdwSave, SdwWrite, SdwReadback, SdwRestore
<1>4. CASE UsbDriver \/ UsbServe \/ Handoff \/ DropToEl2
  BY <1>4, Zenon DEF UsbDriver, UsbServe, Handoff, DropToEl2
<1>5. CASE UNCHANGED vars
  BY <1>5 DEF vars
<1> QED BY <1>1, <1>2, <1>3, <1>4, <1>5, NextCases, Zenon

(* Only load_region() fills the memory, only ddr_init() and a reset clear   *)
(* it.                                                                      *)
LEMMA MemFrame ==
  ASSUME [Next]_vars
  PROVE  LoadChunk \/ Pll2 \/ Reset \/ mem' = mem
<1> USE DEF memory
<1>1. CASE CmdDdr \/ CmdSd \/ CmdSdw \/ CmdUsb \/ CmdLoadSd \/ CmdBoot \/ CmdJump
  BY <1>1 DEF CmdDdr, CmdSd, CmdSdw, CmdUsb, CmdLoadSd, CmdBoot, CmdJump
<1>2. CASE JumpReturned \/ UsbKey \/ Training \/ TestsDdr \/ SdInit \/ SdMbr
  BY <1>2 DEF JumpReturned, UsbKey, Training, TestsDdr, SdInit, SdMbr
<1>3. CASE SdwSave \/ SdwWrite \/ SdwReadback \/ SdwRestore
  BY <1>3 DEF SdwSave, SdwWrite, SdwReadback, SdwRestore
<1>4. CASE UsbDriver \/ UsbServe \/ NextRegion \/ Handoff \/ DropToEl2
  BY <1>4 DEF UsbDriver, UsbServe, NextRegion, Handoff, DropToEl2
<1>5. CASE UNCHANGED vars
  BY <1>5 DEF vars
<1> QED BY <1>1, <1>2, <1>3, <1>4, <1>5, NextCases, Zenon

(* The length of a staged image is a positive number.                       *)
LEMMA BlocksNat ==
  \A r \in Region : Blocks[r] \in Nat /\ Blocks[r] > 0
BY CommandsAssumption

(* boot copies these two regions.                                           *)
LEMMA RegionIs == "kernel" \in Region /\ "dtb" \in Region
BY DEF Region

(* The next chunk is never empty and never goes past the end.               *)
LEMMA CountInRange ==
  ASSUME LoadOK, load.done < load.n
  PROVE  Count \in Nat /\ Count > 0 /\ load.done + Count <= load.n
BY CommandsAssumption DEF LoadOK, Count

(* Every step of the copy stays inside its region.                          *)
LEMMA LoadOKStep ==
  ASSUME LoadOK, [Next]_vars
  PROVE  LoadOK'
<1> USE BlocksNat, RegionIs DEF LoadOK
<1>1. CASE CmdLoadSd BY <1>1 DEF CmdLoadSd
<1>2. CASE CmdBoot BY <1>2 DEF CmdBoot
<1>3. CASE LoadChunk
  <2>1. CASE load' = NoLoad BY <2>1 DEF NoLoad
  <2>2. CASE load' = [load EXCEPT !.done = load.done + Count] /\ load.done < load.n
    BY <2>2, CountInRange
  <2> QED BY <1>3, <2>1, <2>2 DEF LoadChunk, Return
<1>4. CASE NextRegion
  <2>1. CASE load' = NoLoad BY <2>1 DEF NoLoad
  <2>2. CASE load' = [region |-> "dtb", n |-> Blocks["dtb"], done |-> 0] BY <2>2
  <2>3. CASE load' = load BY <2>3
  <2> QED BY <1>4, <2>1, <2>2, <2>3 DEF NextRegion, Return, Call
<1>5. CASE load' = load BY <1>5
<1>6. CASE load' = NoLoad BY <1>6 DEF NoLoad
<1> QED BY <1>1, <1>2, <1>3, <1>4, <1>5, <1>6, LoadFrame, Zenon

(* No more of an image is in memory than there is.                          *)
LEMMA MemOKStep ==
  ASSUME LoadOK, MemOK, [Next]_vars
  PROVE  MemOK'
<1> USE BlocksNat DEF MemOK
<1>1. CASE LoadChunk
  <2>1. CASE mem' = mem BY <2>1
  <2>2. CASE mem' = [mem EXCEPT ![load.region] = InMemory(load.done + Count)] /\ load.done < load.n
    <3>1. load.region \in Region /\ load.n \in Nat /\ load.done \in Nat
          /\ load.n <= Blocks[load.region]
      BY DEF LoadOK
    <3>2. Count \in Nat /\ load.done + Count <= load.n
      BY <2>2, CountInRange
    <3>3. InMemory(load.done + Count) \in Nat
          /\ InMemory(load.done + Count) <= Blocks[load.region]
      BY <3>1, <3>2 DEF InMemory
    <3> QED BY <2>2, <3>1, <3>3
  <2> QED BY <1>1, <2>1, <2>2 DEF LoadChunk
<1>2. CASE Pll2 \/ Reset
  <2>1. mem' = Empty BY <1>2 DEF Pll2, Reset
  <2> QED BY <2>1 DEF Empty
<1>3. CASE mem' = mem BY <1>3
<1> QED BY <1>1, <1>2, <1>3, MemFrame, Zenon

(* The outcomes that load_sd prints of a whole region.                      *)
LEMMA WholeIs ==
  \A r \in Region : Whole[r] \in {"kernel loaded", "dtb loaded"}
<1>1. Whole["kernel"] = "kernel loaded" /\ Whole["dtb"] = "dtb loaded"
  BY DEF Whole
<1> QED BY <1>1 DEF Region

(* Every command, place and outcome is one of those that exist.             *)
LEMMA ControlOKStep ==
  ASSUME ControlOK, LoadOK, [Next]_vars
  PROVE  ControlOK'
<1> USE CommandsAssumption DEF ControlOK, Places, Outcomes, Typed, Return, Call, Enter, Lost
<1>1. CASE CmdDdr BY <1>1 DEF CmdDdr
<1>2. CASE CmdSd BY <1>2 DEF CmdSd
<1>3. CASE CmdSdw BY <1>3 DEF CmdSdw
<1>4. CASE CmdUsb BY <1>4 DEF CmdUsb
<1>5. CASE CmdJump BY <1>5 DEF CmdJump
<1>6. CASE CmdLoadSd BY <1>6 DEF CmdLoadSd, BootHw, BootSd
<1>7. CASE CmdBoot BY <1>7 DEF CmdBoot, BootHw, BootSd
<1>8. CASE JumpReturned BY <1>8 DEF JumpReturned
<1>9. CASE UsbKey BY <1>9 DEF UsbKey
<1>10. CASE Reset BY <1>10 DEF Reset
<1>11. CASE Pll2 BY <1>11 DEF Pll2
<1>12. CASE Training BY <1>12 DEF Training
<1>13. CASE TestsDdr BY <1>13 DEF TestsDdr, AfterDdr, BootSd
<1>14. CASE SdInit BY <1>14 DEF SdInit, AfterSd
<1>15. CASE SdMbr BY <1>15 DEF SdMbr
<1>16. CASE SdwSave BY <1>16 DEF SdwSave
<1>17. CASE SdwWrite BY <1>17 DEF SdwWrite
<1>18. CASE SdwReadback BY <1>18 DEF SdwReadback
<1>19. CASE SdwRestore BY <1>19 DEF SdwRestore
<1>20. CASE UsbDriver BY <1>20 DEF UsbDriver
<1>21. CASE UsbServe BY <1>21 DEF UsbServe
<1>22. CASE LoadChunk BY <1>22 DEF LoadChunk
<1>23. CASE NextRegion
  <2>1. Whole[load.region] \in Outcomes
    BY WholeIs DEF LoadOK
  <2> QED BY <1>23, <2>1 DEF NextRegion
<1>24. CASE Handoff BY <1>24 DEF Handoff
<1>25. CASE DropToEl2 BY <1>25 DEF DropToEl2
<1>26. CASE UNCHANGED vars BY <1>26 DEF vars
<1> QED
  BY NextCases, Zenon,
     <1>1, <1>2, <1>3, <1>4, <1>5, <1>6, <1>7, <1>8, <1>9, <1>10, <1>11, <1>12, <1>13,
     <1>14, <1>15, <1>16, <1>17, <1>18, <1>19, <1>20, <1>21, <1>22, <1>23, <1>24,
     <1>25, <1>26

(* The flags and devices; `saved` is filled before it is written back.      *)
LEMMA DeviceOKStep ==
  ASSUME DeviceOK, [Next]_vars
  PROVE  DeviceOK'
<1> USE DEF DeviceOK, usage, memory, sdcard, Typed, Return, Call, Enter, Lost
<1>1. CASE CmdDdr BY <1>1 DEF CmdDdr
<1>2. CASE CmdSd BY <1>2 DEF CmdSd
<1>3. CASE CmdSdw BY <1>3 DEF CmdSdw
<1>4. CASE CmdUsb BY <1>4 DEF CmdUsb
<1>5. CASE CmdJump BY <1>5 DEF CmdJump
<1>6. CASE CmdLoadSd BY <1>6 DEF CmdLoadSd, BootHw, BootSd
<1>7. CASE CmdBoot BY <1>7 DEF CmdBoot, BootHw, BootSd
<1>8. CASE JumpReturned BY <1>8 DEF JumpReturned
<1>9. CASE UsbKey BY <1>9 DEF UsbKey
<1>10. CASE Reset BY <1>10 DEF Reset
<1>11. CASE Pll2 BY <1>11 DEF Pll2
<1>12. CASE Training BY <1>12 DEF Training
<1>13. CASE TestsDdr BY <1>13 DEF TestsDdr, AfterDdr, BootSd
<1>14. CASE SdInit BY <1>14 DEF SdInit, AfterSd
<1>15. CASE SdMbr
  <2>1. pc' = "idle" BY <1>15 DEF SdMbr
  <2>2. UNCHANGED <<usage, memory, sdcard, firewall>> BY <1>15 DEF SdMbr
  <2> QED BY <2>1, <2>2
<1>16. CASE SdwSave BY <1>16 DEF SdwSave, ReadOk, ReadFails
<1>17. CASE SdwWrite BY <1>17 DEF SdwWrite, WriteFails
<1>18. CASE SdwReadback BY <1>18 DEF SdwReadback, ReadOk, ReadFails
<1>19. CASE SdwRestore BY <1>19 DEF SdwRestore, WriteFails
<1>20. CASE UsbDriver BY <1>20 DEF UsbDriver
<1>21. CASE UsbServe
  <2>1. pc' \in {"idle", "serving"} BY <1>21 DEF UsbServe
  <2>2. UNCHANGED <<usage, memory, sdcard, firewall>> BY <1>21 DEF UsbServe
  <2> QED BY <2>1, <2>2
<1>22. CASE LoadChunk BY <1>22 DEF LoadChunk, ReadOk, ReadFails
<1>23. CASE NextRegion BY <1>23 DEF NextRegion, Whole
<1>24. CASE Handoff BY <1>24 DEF Handoff
<1>25. CASE DropToEl2 BY <1>25 DEF DropToEl2
<1>26. CASE UNCHANGED vars BY <1>26 DEF vars
<1> QED
  BY NextCases, Zenon,
     <1>1, <1>2, <1>3, <1>4, <1>5, <1>6, <1>7, <1>8, <1>9, <1>10, <1>11, <1>12, <1>13,
     <1>14, <1>15, <1>16, <1>17, <1>18, <1>19, <1>20, <1>21, <1>22, <1>23, <1>24,
     <1>25, <1>26

(* Types and ranges, for every choice of the constants.                     *)
THEOREM TypeCorrect == Spec => []TypeOK
<1>1. Init => TypeOK
  <2> USE DEF Init
  <2>1. Init => ControlOK BY DEF ControlOK, Places, Outcomes
  <2>2. Init => LoadOK
    <3>1. load = NoLoad => LoadOK BY BlocksNat, RegionIs DEF LoadOK, NoLoad
    <3> QED BY <3>1
  <2>3. Init => MemOK
    <3>1. mem = Empty => MemOK BY BlocksNat DEF MemOK, Empty
    <3> QED BY <3>1
  <2>4. Init => DeviceOK BY DEF DeviceOK
  <2> QED BY <2>1, <2>2, <2>3, <2>4 DEF TypeOK
<1>2. TypeOK /\ [Next]_vars => TypeOK'
  BY ControlOKStep, LoadOKStep, MemOKStep, DeviceOKStep, Zenon DEF TypeOK
<1> QED BY <1>1, <1>2, PTL DEF Spec

(* Nothing restarts or spoils the memory once `ddr` has tested it.          *)
LEMMA DoneStep ==
  ASSUME DoneInv, [Next]_vars
  PROVE  DoneInv'
<1> USE DEF DoneInv, InDdrInit, Return, Call, Enter, Lost, Typed, usage, memory, sdcard
<1>1. CASE CmdDdr BY <1>1 DEF CmdDdr
<1>2. CASE CmdSd BY <1>2 DEF CmdSd
<1>3. CASE CmdSdw BY <1>3 DEF CmdSdw
<1>4. CASE CmdUsb BY <1>4 DEF CmdUsb
<1>5. CASE CmdJump BY <1>5 DEF CmdJump
<1>6. CASE CmdLoadSd BY <1>6 DEF CmdLoadSd, BootHw, BootSd
<1>7. CASE CmdBoot BY <1>7 DEF CmdBoot, BootHw, BootSd
<1>8. CASE JumpReturned BY <1>8 DEF JumpReturned
<1>9. CASE UsbKey BY <1>9 DEF UsbKey
<1>10. CASE Reset BY <1>10 DEF Reset
<1>11. CASE Pll2 BY <1>11 DEF Pll2
<1>12. CASE Training BY <1>12 DEF Training
<1>13. CASE TestsDdr BY <1>13 DEF TestsDdr, AfterDdr, BootSd
<1>14. CASE SdInit BY <1>14 DEF SdInit, AfterSd
<1>15. CASE SdMbr BY <1>15 DEF SdMbr
<1>16. CASE SdwSave BY <1>16 DEF SdwSave
<1>17. CASE SdwWrite BY <1>17 DEF SdwWrite
<1>18. CASE SdwReadback BY <1>18 DEF SdwReadback
<1>19. CASE SdwRestore BY <1>19 DEF SdwRestore
<1>20. CASE UsbDriver BY <1>20 DEF UsbDriver
<1>21. CASE UsbServe BY <1>21 DEF UsbServe
<1>22. CASE LoadChunk BY <1>22 DEF LoadChunk
<1>23. CASE NextRegion BY <1>23 DEF NextRegion, Whole
<1>24. CASE Handoff BY <1>24 DEF Handoff
<1>25. CASE DropToEl2 BY <1>25 DEF DropToEl2
<1>26. CASE UNCHANGED vars BY <1>26 DEF vars
<1> QED
  BY NextCases, Zenon,
     <1>1, <1>2, <1>3, <1>4, <1>5, <1>6, <1>7, <1>8, <1>9, <1>10, <1>11, <1>12, <1>13,
     <1>14, <1>15, <1>16, <1>17, <1>18, <1>19, <1>20, <1>21, <1>22, <1>23, <1>24,
     <1>25, <1>26

(* "DDR already initialised" is never said of memory that does not work.    *)
THEOREM DdrDoneHolds == Spec => []DdrDoneMeansUp
<1>1. Init => DoneInv
  BY DEF Init, DoneInv, InDdrInit
<1>2. DoneInv /\ [Next]_vars => DoneInv'
  BY DoneStep
<1>3. DoneInv => DdrDoneMeansUp
  BY DEF DoneInv, DdrDoneMeansUp
<1> QED BY <1>1, <1>2, <1>3, PTL DEF Spec

(* Only cmd_sdw() writes, and it reports OK only after writing back.        *)
LEMMA OkMeansAsSavedStep ==
  ASSUME LoadOK, OkMeansAsSaved, [Next]_vars
  PROVE  OkMeansAsSaved'
<1> USE DEF OkMeansAsSaved, Return, Call, Enter, Lost, Typed, usage, memory, sdcard
<1>1. CASE CmdDdr BY <1>1 DEF CmdDdr
<1>2. CASE CmdSd BY <1>2 DEF CmdSd
<1>3. CASE CmdSdw BY <1>3 DEF CmdSdw
<1>4. CASE CmdUsb BY <1>4 DEF CmdUsb
<1>5. CASE CmdJump BY <1>5 DEF CmdJump
<1>6. CASE CmdLoadSd BY <1>6 DEF CmdLoadSd, BootHw, BootSd
<1>7. CASE CmdBoot BY <1>7 DEF CmdBoot, BootHw, BootSd
<1>8. CASE JumpReturned BY <1>8 DEF JumpReturned
<1>9. CASE UsbKey BY <1>9 DEF UsbKey
<1>10. CASE Reset BY <1>10 DEF Reset
<1>11. CASE Pll2 BY <1>11 DEF Pll2
<1>12. CASE Training BY <1>12 DEF Training
<1>13. CASE TestsDdr BY <1>13 DEF TestsDdr, AfterDdr, BootSd
<1>14. CASE SdInit BY <1>14 DEF SdInit, AfterSd
<1>15. CASE SdMbr BY <1>15 DEF SdMbr
<1>16. CASE SdwSave BY <1>16 DEF SdwSave
<1>17. CASE SdwWrite BY <1>17 DEF SdwWrite
<1>18. CASE SdwReadback BY <1>18 DEF SdwReadback
<1>19. CASE SdwRestore BY <1>19 DEF SdwRestore
<1>20. CASE UsbDriver BY <1>20 DEF UsbDriver
<1>21. CASE UsbServe BY <1>21 DEF UsbServe
<1>22. CASE LoadChunk BY <1>22 DEF LoadChunk
<1>23. CASE NextRegion
  <2>1. Whole[load.region] # "sdw OK"
    BY WholeIs DEF LoadOK
  <2> QED BY <1>23, <2>1 DEF NextRegion
<1>24. CASE Handoff BY <1>24 DEF Handoff
<1>25. CASE DropToEl2 BY <1>25 DEF DropToEl2
<1>26. CASE UNCHANGED vars BY <1>26 DEF vars
<1> QED
  BY NextCases, Zenon,
     <1>1, <1>2, <1>3, <1>4, <1>5, <1>6, <1>7, <1>8, <1>9, <1>10, <1>11, <1>12, <1>13,
     <1>14, <1>15, <1>16, <1>17, <1>18, <1>19, <1>20, <1>21, <1>22, <1>23, <1>24,
     <1>25, <1>26

(* "SD WRITE OK": the last block holds what it held when it was saved.      *)
THEOREM OkMeansAsSavedHolds == Spec => []OkMeansAsSaved
<1>1. Init => OkMeansAsSaved
  BY DEF Init, OkMeansAsSaved
<1>2. TypeOK /\ OkMeansAsSaved /\ [Next]_vars => OkMeansAsSaved'
  BY OkMeansAsSavedStep DEF TypeOK
<1> QED BY <1>1, <1>2, TypeCorrect, PTL DEF Spec

-----------------------------------------------------------------------------
(* With the sizes the only record, the loader does what it says.            *)

(* Which command leads where.                                               *)
LEMMA PlaceStep ==
  ASSUME SizesDecide, PlaceInv, [Next]_vars
  PROVE  PlaceInv'
<1> USE DEF SizesDecide, PlaceInv, InDdrInit, Booting, Typed, Return, Call, Enter, Lost
<1>1. CASE CmdDdr BY <1>1 DEF CmdDdr
<1>2. CASE CmdSd BY <1>2 DEF CmdSd
<1>3. CASE CmdSdw BY <1>3 DEF CmdSdw
<1>4. CASE CmdUsb BY <1>4 DEF CmdUsb
<1>5. CASE CmdJump BY <1>5 DEF CmdJump
<1>6. CASE CmdLoadSd BY <1>6 DEF CmdLoadSd, BootHw, BootSd
<1>7. CASE CmdBoot BY <1>7 DEF CmdBoot, BootHw, BootSd
<1>8. CASE JumpReturned BY <1>8 DEF JumpReturned
<1>9. CASE UsbKey BY <1>9 DEF UsbKey
<1>10. CASE Reset BY <1>10 DEF Reset
<1>11. CASE Pll2 BY <1>11 DEF Pll2
<1>12. CASE Training BY <1>12 DEF Training
<1>13. CASE TestsDdr BY <1>13 DEF TestsDdr, AfterDdr, BootSd
<1>14. CASE SdInit BY <1>14 DEF SdInit, AfterSd
<1>15. CASE SdMbr BY <1>15 DEF SdMbr
<1>16. CASE SdwSave BY <1>16 DEF SdwSave
<1>17. CASE SdwWrite BY <1>17 DEF SdwWrite
<1>18. CASE SdwReadback BY <1>18 DEF SdwReadback
<1>19. CASE SdwRestore BY <1>19 DEF SdwRestore
<1>20. CASE UsbDriver BY <1>20 DEF UsbDriver
<1>21. CASE UsbServe BY <1>21 DEF UsbServe
<1>22. CASE LoadChunk BY <1>22 DEF LoadChunk
<1>23. CASE NextRegion BY <1>23 DEF NextRegion, Whole
<1>24. CASE Handoff BY <1>24 DEF Handoff
<1>25. CASE DropToEl2 BY <1>25 DEF DropToEl2
<1>26. CASE UNCHANGED vars BY <1>26 DEF vars
<1> QED
  BY NextCases, Zenon,
     <1>1, <1>2, <1>3, <1>4, <1>5, <1>6, <1>7, <1>8, <1>9, <1>10, <1>11, <1>12, <1>13,
     <1>14, <1>15, <1>16, <1>17, <1>18, <1>19, <1>20, <1>21, <1>22, <1>23, <1>24,
     <1>25, <1>26

(* The sizes are right wherever a command decides by them.                  *)
LEMMA SizeStep ==
  ASSUME SizesDecide, PlaceInv, SizeInv, [Next]_vars
  PROVE  SizeInv'
<1> USE DEF SizesDecide, PlaceInv, SizeInv, DdrSizeMeansUp, SdSizeMeansUp, InDdrInit, Booting,
            Typed, Return, Call, Enter, Lost, usage, memory, sdcard
<1>1. CASE CmdDdr BY <1>1 DEF CmdDdr
<1>2. CASE CmdSd BY <1>2 DEF CmdSd
<1>3. CASE CmdSdw BY <1>3 DEF CmdSdw
<1>4. CASE CmdUsb BY <1>4 DEF CmdUsb
<1>5. CASE CmdJump BY <1>5 DEF CmdJump
<1>6. CASE CmdLoadSd BY <1>6 DEF CmdLoadSd, BootHw, BootSd
<1>7. CASE CmdBoot BY <1>7 DEF CmdBoot, BootHw, BootSd
<1>8. CASE JumpReturned BY <1>8 DEF JumpReturned
<1>9. CASE UsbKey BY <1>9 DEF UsbKey
<1>10. CASE Reset BY <1>10 DEF Reset
<1>11. CASE Pll2
  <2>1. CASE pc' = "training" /\ ddr_size' = FALSE BY <1>11, <2>1 DEF Pll2
  <2>2. CASE pc' = "idle" /\ cmd' = "prompt" /\ ddr_size' = ddr_size
    BY <1>11, <2>2 DEF Pll2
  <2> QED BY <1>11, <2>1, <2>2 DEF Pll2
<1>12. CASE Training BY <1>12 DEF Training
<1>13. CASE TestsDdr
  <2>1. pc = "tests" /\ cmd # "ddr" /\ ddr = "up" BY <1>13 DEF TestsDdr
  <2>2. pc' = BootSd /\ UNCHANGED <<cmd, memory, sdcard>> BY <1>13, <2>1 DEF TestsDdr, AfterDdr
  <2> QED BY <2>1, <2>2 DEF BootSd
<1>14. CASE SdInit
  <2>1. pc = "sd_init" /\ UNCHANGED memory BY <1>14 DEF SdInit
  <2>2. CASE pc' = AfterSd /\ cmd' = cmd /\ card' = "up" /\ sd_size' = TRUE
    BY <2>1, <2>2 DEF AfterSd
  <2>3. CASE pc' = "idle" /\ cmd' = "prompt" /\ sd_size' = sd_size
    BY <2>1, <2>3
  <2> QED BY <1>14, <2>2, <2>3 DEF SdInit
<1>15. CASE SdMbr BY <1>15 DEF SdMbr
<1>16. CASE SdwSave BY <1>16 DEF SdwSave
<1>17. CASE SdwWrite BY <1>17 DEF SdwWrite
<1>18. CASE SdwReadback BY <1>18 DEF SdwReadback
<1>19. CASE SdwRestore BY <1>19 DEF SdwRestore
<1>20. CASE UsbDriver BY <1>20 DEF UsbDriver
<1>21. CASE UsbServe BY <1>21 DEF UsbServe
<1>22. CASE LoadChunk BY <1>22 DEF LoadChunk
<1>23. CASE NextRegion BY <1>23 DEF NextRegion, Whole
<1>24. CASE Handoff BY <1>24 DEF Handoff
<1>25. CASE DropToEl2 BY <1>25 DEF DropToEl2
<1>26. CASE UNCHANGED vars BY <1>26 DEF vars
<1> QED
  BY NextCases, Zenon,
     <1>1, <1>2, <1>3, <1>4, <1>5, <1>6, <1>7, <1>8, <1>9, <1>10, <1>11, <1>12, <1>13,
     <1>14, <1>15, <1>16, <1>17, <1>18, <1>19, <1>20, <1>21, <1>22, <1>23, <1>24,
     <1>25, <1>26

(* Between commands nothing is copied.                                      *)
LEMMA NoLoadDone == NoLoad.done = 0
BY DEF NoLoad

(* The region that is copied, and what is in memory of it.                  *)
LEMMA LoadInvStep ==
  ASSUME SizesDecide, LoadOK, MemOK, PlaceInv, SizeInv, LoadInv, [Next]_vars
  PROVE  LoadInv'
<1> USE NoLoadDone DEF SizesDecide, PlaceInv, LoadInv, InDdrInit, Booting, Loading,
            Typed, Return, Call, Enter, Lost, memory
<1>1. CASE CmdDdr BY <1>1 DEF CmdDdr
<1>2. CASE CmdSd BY <1>2 DEF CmdSd
<1>3. CASE CmdSdw BY <1>3 DEF CmdSdw
<1>4. CASE CmdUsb BY <1>4 DEF CmdUsb
<1>5. CASE CmdJump BY <1>5 DEF CmdJump
<1>6. CASE CmdLoadSd
  <2>1. cmd' = "load_sd" /\ pc' \in {"pll2", "sd_init", "load"} /\ mem' = mem
    BY <1>6 DEF CmdLoadSd, BootHw, BootSd
  <2>2. load'.done = 0 /\ load'.region \in Region BY <1>6 DEF CmdLoadSd
  <2>3. mem[load'.region] \in Nat BY <2>2 DEF MemOK
  <2>4. firewall' = firewall /\ pc = "idle" BY <1>6 DEF CmdLoadSd
  <2> QED BY <2>1, <2>2, <2>3, <2>4
<1>7. CASE CmdBoot
  <2>1. cmd' = "boot" /\ pc' \in {"pll2", "sd_init", "load"} /\ mem' = mem
    BY <1>7 DEF CmdBoot, BootHw, BootSd
  <2>2. load'.done = 0 /\ load'.region = "kernel" /\ load'.n = Blocks["kernel"]
    BY <1>7 DEF CmdBoot
  <2>3. mem["kernel"] \in Nat BY RegionIs DEF MemOK
  <2>4. firewall' = firewall /\ pc = "idle" BY <1>7 DEF CmdBoot
  <2> QED BY <2>1, <2>2, <2>3, <2>4
<1>8. CASE JumpReturned BY <1>8 DEF JumpReturned
<1>9. CASE UsbKey BY <1>9 DEF UsbKey
<1>10. CASE Reset BY <1>10 DEF Reset
<1>11. CASE Pll2 BY <1>11 DEF Pll2
<1>12. CASE Training BY <1>12 DEF Training
<1>13. CASE TestsDdr
  <2>1. pc = "tests" /\ cmd # "ddr" /\ mem' = mem /\ firewall' = firewall
    BY <1>13 DEF TestsDdr
  <2>2. CASE pc' = "idle" /\ cmd' = "prompt" /\ load' = NoLoad BY <2>1, <2>2
  <2>3. CASE pc' \in {"load", "sd_init"} /\ UNCHANGED <<cmd, load>>
    <3>1. load.region \in Region /\ mem[load.region] \in Nat BY DEF LoadOK, MemOK
    <3> QED BY <2>1, <2>3, <3>1
  <2> QED BY <1>13, <2>1, <2>2, <2>3 DEF TestsDdr, AfterDdr, BootSd
<1>14. CASE SdInit
  <2>1. pc = "sd_init" /\ mem' = mem /\ firewall' = firewall BY <1>14 DEF SdInit
  <2>2. CASE pc' = "idle" /\ cmd' = "prompt" /\ load' = NoLoad BY <2>1, <2>2
  <2>3. CASE pc' = AfterSd /\ UNCHANGED <<cmd, load>>
    <3>1. load.region \in Region /\ mem[load.region] \in Nat BY DEF LoadOK, MemOK
    <3>2. pc' \in {"mbr", "save", "driver", "load"} BY <2>3 DEF AfterSd
    <3> QED BY <2>1, <2>3, <3>1, <3>2
  <2> QED BY <1>14, <2>2, <2>3 DEF SdInit
<1>15. CASE SdMbr BY <1>15 DEF SdMbr
<1>16. CASE SdwSave BY <1>16 DEF SdwSave
<1>17. CASE SdwWrite BY <1>17 DEF SdwWrite
<1>18. CASE SdwReadback BY <1>18 DEF SdwReadback
<1>19. CASE SdwRestore BY <1>19 DEF SdwRestore
<1>20. CASE UsbDriver BY <1>20 DEF UsbDriver
<1>21. CASE UsbServe BY <1>21 DEF UsbServe
<1>22. CASE LoadChunk
  <2>1. pc = "load" /\ load.done < load.n /\ firewall = "secure" /\ ddr = "up"
    BY <1>22 DEF LoadChunk, SizeInv, DdrSizeMeansUp
  <2>2. CASE pc' = "idle" /\ cmd' = "prompt" /\ load' = NoLoad /\ mem' = mem
    BY <1>22, <2>1, <2>2 DEF LoadChunk
  <2>3. CASE /\ load' = [load EXCEPT !.done = load.done + Count]
             /\ mem' = [mem EXCEPT ![load.region] = InMemory(load.done + Count)]
             /\ pc' = pc /\ cmd' = cmd
    <3>1. load.region \in Region /\ load.done \in Nat /\ Count \in Nat
          /\ mem \in [Region -> Nat] /\ mem[load.region] <= Blocks[load.region]
          /\ load.n <= Blocks[load.region] /\ load.n \in Nat
      BY <2>1, CountInRange DEF LoadOK, MemOK
    <3>2. load'.region = load.region /\ load'.n = load.n
          /\ load'.done = load.done + Count
      BY <2>3 DEF LoadOK
    <3>3. mem'[load.region] >= load.done + Count
      BY <2>3, <3>1 DEF InMemory
    <3>4. load.region # "kernel" => mem'["kernel"] = mem["kernel"]
      BY <2>3, <3>1, RegionIs
    <3>5. firewall' = firewall BY <1>22 DEF LoadChunk
    <3>6. mem'[load.region] \in Nat BY <2>3, <3>1 DEF InMemory
    <3> QED BY <2>1, <2>3, <3>1, <3>2, <3>3, <3>4, <3>5, <3>6
  <2> QED BY <1>22, <2>1, <2>2, <2>3 DEF LoadChunk
<1>23. CASE NextRegion
  <2>1. pc = "load" /\ mem' = mem /\ firewall' = firewall /\ load.done >= load.n
    BY <1>23 DEF NextRegion
  <2>2. load.region \in Region /\ load.done \in Nat /\ load.n \in Nat
        /\ load.n <= Blocks[load.region] /\ mem[load.region] \in Nat
        /\ mem[load.region] <= Blocks[load.region] /\ Blocks[load.region] \in Nat
        /\ mem["dtb"] \in Nat
    BY BlocksNat, RegionIs DEF LoadOK, MemOK
  <2>3. cmd = "boot" => mem[load.region] = Blocks[load.region]
    BY <2>1, <2>2
  <2>4. CASE cmd = "load_sd"
    BY <1>23, <2>1, <2>4 DEF NextRegion
  <2>5. CASE cmd = "boot" /\ load.region = "kernel"
    <3>1. load' = [region |-> "dtb", n |-> Blocks["dtb"], done |-> 0]
          /\ cmd' = "boot" /\ pc' = "load"
      BY <1>23, <2>1, <2>5 DEF NextRegion
    <3>2. load'.done = 0 /\ load'.region = "dtb" /\ load'.n = Blocks["dtb"]
      BY <3>1
    <3> QED BY <2>1, <2>2, <2>3, <2>5, <3>1, <3>2
  <2>6. CASE cmd = "boot" /\ load.region # "kernel"
    <3>1. load.region = "dtb" BY <2>2, <2>6 DEF Region
    <3>2. pc' = "handoff" /\ UNCHANGED <<cmd, load>> BY <1>23, <2>1, <2>6 DEF NextRegion
    <3>3. \A r \in Region : mem[r] = Blocks[r]
      BY <2>1, <2>3, <2>6, <3>1 DEF Region
    <3> QED BY <2>1, <3>2, <3>3, <2>6
  <2> QED BY <2>1, <2>4, <2>5, <2>6
<1>24. CASE Handoff BY <1>24 DEF Handoff
<1>25. CASE DropToEl2 BY <1>25 DEF DropToEl2
<1>26. CASE UNCHANGED vars BY <1>26 DEF vars
<1> QED
  BY NextCases, Zenon,
     <1>1, <1>2, <1>3, <1>4, <1>5, <1>6, <1>7, <1>8, <1>9, <1>10, <1>11, <1>12, <1>13,
     <1>14, <1>15, <1>16, <1>17, <1>18, <1>19, <1>20, <1>21, <1>22, <1>23, <1>24,
     <1>25, <1>26

(* What is reported loaded stays loaded until the next command.             *)
LEMMA LoadedMeansLoadedStep ==
  ASSUME SizesDecide, LoadOK, MemOK, PlaceInv, SizeInv, LoadInv, LoadedMeansLoaded, [Next]_vars
  PROVE  LoadedMeansLoaded'
<1> USE WholeIs DEF LoadedMeansLoaded, Loaded, SizesDecide, PlaceInv, InDdrInit,
            Typed, Return, Call, Enter, Lost, memory
<1>1. CASE CmdDdr BY <1>1 DEF CmdDdr
<1>2. CASE CmdSd BY <1>2 DEF CmdSd
<1>3. CASE CmdSdw BY <1>3 DEF CmdSdw
<1>4. CASE CmdUsb BY <1>4 DEF CmdUsb
<1>5. CASE CmdJump BY <1>5 DEF CmdJump
<1>6. CASE CmdLoadSd BY <1>6 DEF CmdLoadSd, BootHw, BootSd
<1>7. CASE CmdBoot BY <1>7 DEF CmdBoot, BootHw, BootSd
<1>8. CASE JumpReturned BY <1>8 DEF JumpReturned
<1>9. CASE UsbKey BY <1>9 DEF UsbKey
<1>10. CASE Reset BY <1>10 DEF Reset
<1>11. CASE Pll2 BY <1>11 DEF Pll2
<1>12. CASE Training BY <1>12 DEF Training
<1>13. CASE TestsDdr BY <1>13 DEF TestsDdr, AfterDdr, BootSd
<1>14. CASE SdInit BY <1>14 DEF SdInit, AfterSd
<1>15. CASE SdMbr BY <1>15 DEF SdMbr
<1>16. CASE SdwSave BY <1>16 DEF SdwSave
<1>17. CASE SdwWrite BY <1>17 DEF SdwWrite
<1>18. CASE SdwReadback BY <1>18 DEF SdwReadback
<1>19. CASE SdwRestore BY <1>19 DEF SdwRestore
<1>20. CASE UsbDriver BY <1>20 DEF UsbDriver
<1>21. CASE UsbServe BY <1>21 DEF UsbServe
<1>22. CASE LoadChunk BY <1>22 DEF LoadChunk
<1>23. CASE NextRegion
  <2>1. pc = "load" /\ mem' = mem /\ ddr' = ddr /\ load.done >= load.n
    BY <1>23 DEF NextRegion
  <2>2. CASE pc' = "idle" /\ said' = Whole[load.region] /\ load.n = Blocks[load.region]
    <3>1. load.region \in Region /\ load.done \in Nat /\ load.n \in Nat
          /\ load.done <= load.n /\ mem[load.region] \in Nat
          /\ mem[load.region] <= Blocks[load.region] /\ Blocks[load.region] \in Nat
      BY BlocksNat DEF LoadOK, MemOK
    <3>2. mem[load.region] = Blocks[load.region]
      <4>1. load.done <= mem[load.region]
        BY <2>1 DEF LoadInv
      <4>2. load.done >= Blocks[load.region]
        BY <2>1, <2>2
      <4> QED BY ONLY <3>1, <4>1, <4>2
    <3>3. \A r \in Region : Whole[r] = Whole[load.region] => r = load.region
      BY <3>1 DEF Whole, Region
    <3>4. ddr = "up"
      BY <2>1 DEF SizeInv, DdrSizeMeansUp
    <3> QED BY <2>1, <2>2, <3>1, <3>2, <3>3, <3>4
  <2>3. CASE pc' = "idle" /\ said' = "part loaded" BY <2>3
  <2>4. CASE pc' # "idle" BY <2>4
  <2> QED BY <1>23, <2>1, <2>2, <2>3, <2>4 DEF NextRegion
<1>24. CASE Handoff BY <1>24 DEF Handoff
<1>25. CASE DropToEl2 BY <1>25 DEF DropToEl2
<1>26. CASE UNCHANGED vars BY <1>26 DEF vars
<1> QED
  BY NextCases, Zenon,
     <1>1, <1>2, <1>3, <1>4, <1>5, <1>6, <1>7, <1>8, <1>9, <1>10, <1>11, <1>12, <1>13,
     <1>14, <1>15, <1>16, <1>17, <1>18, <1>19, <1>20, <1>21, <1>22, <1>23, <1>24,
     <1>25, <1>26

(* The inductive invariant of the loader.                                   *)
THEOREM LoaderInvariance ==
  ASSUME SizesDecide
  PROVE  Spec => []LoaderInv
<1> DEFINE Rest == PlaceInv /\ SizeInv /\ LoadInv /\ LoadedMeansLoaded
<1>1. Init => Rest
  <2> SUFFICES ASSUME Init PROVE Rest
    OBVIOUS
  <2> USE DEF Init
  <2>1. PlaceInv BY DEF PlaceInv, InDdrInit, Booting
  <2>2. SizeInv BY DEF SizeInv, DdrSizeMeansUp, SdSizeMeansUp, InDdrInit, Booting
  <2>3. LoadInv BY NoLoadDone DEF LoadInv, Loading, InDdrInit, Booting
  <2>4. LoadedMeansLoaded BY WholeIs DEF LoadedMeansLoaded
  <2> QED BY <2>1, <2>2, <2>3, <2>4
<1>2. TypeOK /\ Rest /\ [Next]_vars => Rest'
  BY SizesDecide, PlaceStep, SizeStep, LoadInvStep, LoadedMeansLoadedStep, Zenon DEF TypeOK
<1>3. TypeOK /\ Rest => LoaderInv
  BY DEF LoaderInv
<1> HIDE DEF Rest
<1> QED BY <1>1, <1>2, <1>3, TypeCorrect, PTL DEF Spec

(* Linux is entered with all of its kernel and dtb in memory that works.    *)
THEOREM LinuxCompleteHolds ==
  ASSUME SizesDecide
  PROVE  Spec => []LinuxComplete
<1>1. LoaderInv => LinuxComplete
  <2> SUFFICES ASSUME LoaderInv, pc = "linux" PROVE LinuxComplete
    BY DEF LinuxComplete
  <2>1. cmd = "boot" /\ firewall = "open" /\ \A r \in Region : mem[r] = Blocks[r]
    BY DEF LoaderInv, PlaceInv, LoadInv, Booting
  <2>2. ddr = "up"
    BY <2>1 DEF LoaderInv, SizeInv, DdrSizeMeansUp, Booting
  <2> QED BY <2>1, <2>2, RegionIs DEF LinuxComplete, Loaded
<1> QED BY <1>1, LoaderInvariance, PTL

(* A sum printed by load_sd is the sum of what the card holds.              *)
THEOREM LoadedMeansLoadedHolds ==
  ASSUME SizesDecide
  PROVE  Spec => []LoadedMeansLoaded
<1>1. LoaderInv => LoadedMeansLoaded
  BY DEF LoaderInv
<1> QED BY <1>1, LoaderInvariance, PTL

(* A size that is not 0 belongs to a device that works: what the bring-up   *)
(* shared by load_sd, boot, sdw and usb goes by is never stale.             *)
THEOREM SizesHold ==
  ASSUME SizesDecide
  PROVE  Spec => []DdrSizeMeansUp /\ []SdSizeMeansUp
<1>1. LoaderInv => DdrSizeMeansUp /\ SdSizeMeansUp
  BY DEF LoaderInv, SizeInv
<1> QED BY <1>1, LoaderInvariance, PTL

-----------------------------------------------------------------------------
(* The monitor and the holding pen. *)

LEMMA MonitorInit == PsciInit => PsciInv
<1> SUFFICES ASSUME PsciInit PROVE PsciInv
  OBVIOUS
<1> USE PsciAssumption DEF PsciInit
<1>1. PsciTypeOK
  BY DEF PsciTypeOK, Core, Results, Success, Locations, InPen, InCpuOn
<1>2. Roles
  BY DEF Roles, Core, InPen, InCpuOn
<1>3. CallAgreement
  BY DEF CallAgreement, Core, InCpuOn
<1>4. MailboxAgreement
  BY DEF MailboxAgreement, Core, InPen
<1>5. ParkAgreement
  BY DEF ParkAgreement, Core, InCpuOn
<1>6. QED
  BY <1>1, <1>2, <1>3, <1>4, <1>5 DEF PsciInv

(* Every step keeps the invariant.  The steps of one core are taken one by  *)
(* one; each is small enough for the solver once the invariant is opened.   *)
LEMMA MonitorStep ==
  ASSUME HotUnplug \subseteq {1}
  PROVE  PsciInv /\ [PsciNext]_psciVars => PsciInv'
<1> SUFFICES ASSUME PsciInv, [PsciNext]_psciVars PROVE PsciInv'
  OBVIOUS
<1> USE PsciAssumption
    DEF PsciInv, PsciTypeOK, Roles, CallAgreement, MailboxAgreement, ParkAgreement,
        Core, Pair, Results, Success, InCpuOn, InPen, Locations, mailbox, Goto,
        Answer, Other
<1>1. CASE EnterKernel
  BY <1>1 DEF EnterKernel
<1>2. CASE ResetToPen
  BY <1>2 DEF ResetToPen
<1>3. ASSUME NEW c \in Core, PenWake(c) PROVE PsciInv'
  BY <1>3 DEF PenWake
<1>4. ASSUME NEW c \in Core, PenSpurious(c) PROVE PsciInv'
  BY <1>4 DEF PenSpurious
<1>5. ASSUME NEW c \in Core, PenLoad(c) PROVE PsciInv'
  BY <1>5 DEF PenLoad
<1>6. ASSUME NEW c \in Core, PenRelease(c) PROVE PsciInv'
  BY <1>6 DEF PenRelease
<1>7. ASSUME NEW c \in Core, NEW t \in Core, CpuOnRefused(c, t) PROVE PsciInv'
  BY <1>7 DEF CpuOnRefused
<1>8. ASSUME NEW c \in Core, NEW e \in Entry, NEW x \in Context, CpuOn(c, e, x)
      PROVE PsciInv'
  BY <1>8 DEF CpuOn
<1>9. ASSUME NEW c \in Core, CpuOnWriteCtx(c) PROVE PsciInv'
  BY <1>9 DEF CpuOnWriteCtx
<1>10. ASSUME NEW c \in Core, CpuOnWriteEntry(c) PROVE PsciInv'
  BY <1>10 DEF CpuOnWriteEntry
<1>11. ASSUME NEW c \in Core, CpuOnSetFlag(c) PROVE PsciInv'
  BY <1>11 DEF CpuOnSetFlag
<1>12. ASSUME NEW c \in Core, CpuOnSev(c) PROVE PsciInv'
  BY <1>12 DEF CpuOnSev
<1>13. ASSUME NEW c \in Core, CpuOff(c) PROVE PsciInv'
  <2>1. c = 1 /\ Other(c) = 0
    BY <1>13 DEF CpuOff
  <2>2. /\ os[1] = "up" /\ at[0] = "ns" /\ at[1] = "ns"
        /\ at' = [at EXCEPT ![1] = "off_clear"]
        /\ core1_on' = FALSE
        /\ os' = [os EXCEPT ![1] = "dying"]
        /\ UNCHANGED <<mailbox, event, arg, el2, accepted, ret>>
    BY <1>13, <2>1 DEF CpuOff
  <2>3. PsciTypeOK'
    BY <2>2
  <2>4. Roles'
    BY <2>2
  <2>5. CallAgreement' /\ MailboxAgreement' /\ ParkAgreement'
    BY <2>2
  <2>6. QED
    BY <2>3, <2>4, <2>5
<1>14. ASSUME NEW c \in Core, CpuOffClear(c) PROVE PsciInv'
  BY <1>14 DEF CpuOffClear
<1>15. ASSUME NEW c \in Core, NEW t \in Core, AffinityInfo(c, t) PROVE PsciInv'
  BY <1>15 DEF AffinityInfo
<1>16. ASSUME NEW c \in Core, AffinityUnknown(c) PROVE PsciInv'
  BY <1>16 DEF AffinityUnknown
<1>17. ASSUME NEW c \in Core, Query(c) PROVE PsciInv'
  <2>1. PICK r \in Results : ret' = [ret EXCEPT ![c] = r]
    BY <1>17 DEF Query, features, Mode, Function, Served, NotSupported
  <2>2. UNCHANGED <<at, core1_on, mailbox, event, arg, el2, accepted, os>>
    BY <1>17 DEF Query
  <2>3. QED
    BY <2>1, <2>2
<1>18. CASE UNCHANGED psciVars
  BY <1>18 DEF psciVars
<1> HIDE DEF PsciInv, PsciTypeOK, Roles, CallAgreement, MailboxAgreement, ParkAgreement, Core, Goto, Answer
<1>19. QED
  BY <1>1, <1>2, <1>3, <1>4, <1>5, <1>6, <1>7, <1>8, <1>9, <1>10, <1>11, <1>12,
     <1>13, <1>14, <1>15, <1>16, <1>17, <1>18 DEF PsciNext, Pen, Monitor, Kernel

(* The invariant that explains the module holds in every reachable state.   *)
THEOREM MonitorInvariance ==
  ASSUME HotUnplug \subseteq {1}
  PROVE  PsciSpec => []PsciInv
  BY MonitorInit, MonitorStep, PTL DEF PsciSpec

(* Core 1 enters the kernel with the entry and the context of the one       *)
(* CPU_ON that released it, whatever the timing of the two cores.           *)
THEOREM EnteredAsAskedHolds ==
  ASSUME HotUnplug \subseteq {1}
  PROVE  PsciSpec => []EnteredAsAsked
<1>1. PsciInv => EnteredAsAsked
  BY DEF PsciInv, MailboxAgreement, EnteredAsAsked
<1>2. QED
  BY <1>1, MonitorInvariance, PTL

(* Between calls, a cleared core1_on means core 1 is out of the kernel.     *)
THEOREM OffMeansLeftHolds ==
  ASSUME HotUnplug \subseteq {1}
  PROVE  PsciSpec => []OffMeansLeft
<1>1. PsciInv => OffMeansLeft
  BY DEF PsciInv, PsciTypeOK, Roles, CallAgreement, MailboxAgreement, OffMeansLeft,
         CpuOnInFlight, Core, InCpuOn, InPen
<1>2. QED
  BY <1>1, MonitorInvariance, PTL

(* When the parting core reaches the pen before the kernel calls again, no  *)
(* accepted CPU_ON is lost: core 1 cannot wait on an empty mailbox while it *)
(* counts as on.                                                           *)
THEOREM NotStrandedHolds ==
  ASSUME HotUnplug \subseteq {1}, OnAfterPark
  PROVE  PsciSpec => []NotStranded
<1>1. PsciInv => NotStranded
  BY DEF PsciInv, PsciTypeOK, Roles, CallAgreement, ParkAgreement, NotStranded,
         CpuOnInFlight, Core, InCpuOn
<1>2. QED
  BY <1>1, MonitorInvariance, PTL

-----------------------------------------------------------------------------
(* Every step of the monitor, seen through the mapping of module Psci, is a *)
(* step of CpuPower or changes nothing there.                               *)
LEMMA MonitorStepRefines ==
  ASSUME HotUnplug \subseteq {1}, OnAfterPark, PsciInv, [PsciNext]_psciVars
  PROVE  [Power!CPNext]_(Power!cpVars)
<1> DEFINE on == core1_on \/ at[0] = "on_flag"
           due == IF at[1] \in InPen /\ psci_pen_entry # NULL
                  THEN mailbox ELSE <<NULL, NULL>>
           running == IF at[1] = "ns" THEN el2[1] ELSE <<NULL, NULL>>
<1> USE PsciAssumption
    DEF PsciInv, PsciTypeOK, Roles, CallAgreement, MailboxAgreement, ParkAgreement,
        Core, InCpuOn, InPen, Goto, Answer, Other, mailbox
<1>s. ASSUME UNCHANGED <<on, due, running>>
      PROVE  [Power!CPNext]_(Power!cpVars)
  BY <1>s DEF Power!cpVars
<1>1. CASE EnterKernel
  <2>1. UNCHANGED <<on, due, running>>
    BY <1>1 DEF EnterKernel
  <2>2. QED BY <2>1, <1>s
<1>2. CASE ResetToPen
  <2>1. UNCHANGED <<on, due, running>>
    BY <1>2 DEF ResetToPen
  <2>2. QED BY <2>1, <1>s
<1>3. ASSUME NEW c \in Core, PenWake(c) \/ PenSpurious(c) \/ PenLoad(c)
      PROVE  UNCHANGED <<on, due, running>>
  BY <1>3 DEF PenWake, PenSpurious, PenLoad
<1>4. ASSUME NEW c \in Core, PenRelease(c)
      PROVE  Power!EnterWith(accepted) /\ accepted \in Pair
  BY <1>4 DEF PenRelease, Power!EnterWith, Pair
<1>5. ASSUME NEW c \in Core, NEW t \in Core, CpuOnRefused(c, t) \/ AffinityInfo(c, t)
      PROVE  UNCHANGED <<on, due, running>>
  BY <1>5 DEF CpuOnRefused, AffinityInfo
<1>6. ASSUME NEW c \in Core, NEW e \in Entry, NEW x \in Context, CpuOn(c, e, x)
      PROVE  UNCHANGED <<on, due, running>>
  BY <1>6 DEF CpuOn
<1>7. ASSUME NEW c \in Core, CpuOnWriteCtx(c)
      PROVE  UNCHANGED <<on, due, running>>
  BY <1>7 DEF CpuOnWriteCtx
<1>8. ASSUME NEW c \in Core, CpuOnWriteEntry(c)
      PROVE  Power!TurnOn(accepted) /\ accepted \in Pair
  BY <1>8 DEF CpuOnWriteEntry, Power!TurnOn, Pair
<1>9. ASSUME NEW c \in Core, CpuOnSetFlag(c) \/ CpuOnSev(c)
      PROVE  UNCHANGED <<on, due, running>>
  BY <1>9 DEF CpuOnSetFlag, CpuOnSev
<1>10. ASSUME NEW c \in Core, CpuOff(c)
       PROVE  Power!TurnOff
  <2>1. c = 1 /\ at[0] = "ns" /\ at[1] = "ns"
    BY <1>10 DEF CpuOff
  <2>2. /\ at' = [at EXCEPT ![1] = "off_clear"]
        /\ core1_on' = FALSE
        /\ UNCHANGED <<mailbox, el2>>
    BY <1>10, <2>1 DEF CpuOff
  <2>3. running # <<NULL, NULL>>
    BY <2>1 DEF Pair
  <2>4. ~on' /\ running' = <<NULL, NULL>> /\ UNCHANGED due
    BY <2>1, <2>2
  <2>5. QED
    BY <2>3, <2>4 DEF Power!TurnOff
<1>11. ASSUME NEW c \in Core, CpuOffClear(c)
       PROVE  UNCHANGED <<on, due, running>>
  BY <1>11 DEF CpuOffClear
<1>12. ASSUME NEW c \in Core, AffinityUnknown(c) \/ Query(c)
       PROVE  UNCHANGED <<on, due, running>>
  BY <1>12 DEF AffinityUnknown, Query
<1>13. CASE UNCHANGED psciVars
  <2>1. UNCHANGED <<on, due, running>>
    BY <1>13 DEF psciVars
  <2>2. QED BY <2>1, <1>s
<1> HIDE DEF PsciInv, PsciTypeOK, Roles, CallAgreement, MailboxAgreement,
             ParkAgreement, Core, InCpuOn, InPen, Goto, Answer, Other, mailbox,
             on, due, running
<1>14. QED
  BY <1>1, <1>2, <1>3, <1>4, <1>5, <1>6, <1>7, <1>8, <1>9, <1>10, <1>11, <1>12,
     <1>13, <1>s DEF PsciNext, Pen, Monitor, Kernel, Power!CPNext

(* The monitor keeps the safety part of what psci.c promises.               *)
THEOREM MonitorRefinement ==
  ASSUME HotUnplug \subseteq {1}, OnAfterPark
  PROVE  PsciSpec => PowerSafety
<1>1. PsciInit => Power!CPInit
  BY PsciAssumption DEF PsciInit, Power!CPInit, Core, InPen
<1>2. PsciInv /\ [PsciNext]_psciVars => [Power!CPNext]_(Power!cpVars)
  BY MonitorStepRefines
<1>3. QED
  BY <1>1, <1>2, MonitorInvariance, PTL DEF PsciSpec, PowerSafety, Power!CPSafe
=============================================================================
