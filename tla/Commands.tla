------------------------------ MODULE Commands ------------------------------
(***************************************************************************)
(* The commands of the console that touch hardware: ddr, sd, sdw and usb    *)
(* (src/cmd.c), load_sd, jump and boot (src/boot.c), with ddr_init(),       *)
(* sd_init() and usb_msc_start() underneath.  One command runs at a time,   *)
(* but every command brings up what it needs by itself and keeps its own    *)
(* notion of what is up already, so what matters is the sequence of         *)
(* commands, which of their steps fail, and when the board is reset.        *)
(*                                                                         *)
(* A step here is one call that can fail or that changes hardware; the      *)
(* inside of sd_read() and sd_write() is the subject of SdCard, that of     *)
(* usb_msc_poll() the subject of UsbMsc.                                    *)
(***************************************************************************)
EXTENDS Naturals

CONSTANTS
  Asked,        \* the commands that are typed
  Blocks,       \* Blocks[r]: length of the staged image r on the card
  Chunk,        \* LOAD_CHUNK_BLOCKS
  DdrFaults,    \* ways in which the memory may fail: "PLL", "PHY", "TEST"
  SdFaults,     \* ways in which the card may fail: "INIT", "READ", "WRITE"
  UsbFaults     \* ways in which the controller may fail: "CORE"

Region == {"kernel", "dtb"}

ASSUME CommandsAssumption ==
  /\ Asked \subseteq {"ddr", "sd", "sdw", "usb", "load_sd", "jump", "boot"}
  /\ Blocks \in [Region -> Nat \ {0}]
  /\ Chunk \in Nat \ {0}
  /\ DdrFaults \subseteq {"PLL", "PHY", "TEST"}
  /\ SdFaults \subseteq {"INIT", "READ", "WRITE"}
  /\ UsbFaults \subseteq {"CORE"}

VARIABLES
  cmd,       \* the command that runs, "prompt" when none does
  pc,        \* the call it makes next, or where the CPU has gone for good
  load,      \* the region load_region() copies, its length and `done`
  ddr_done,  \* cmd_ddr(): static done
  sd_done,   \* cmd_sd(): static done
  ddr_size,  \* ddr_priv.info.size is not 0
  sd_size,   \* sd_dev_info.device_size is not 0
  usb_state, \* dwc3_handle.State
  ddr,       \* the memory: without clock, working, or with a bad line
  card,      \* the card: answers to reads and writes, or does not
  mem,       \* mem[r]: how many blocks of r, from the first, are in memory
  firewall,  \* "secure" (writes of the loader get through) or "open"
  block,     \* the last block of the card: original data or the pattern
  saved,     \* cmd_sdw(): static saved
  said       \* the outcome the last command printed

vars == <<cmd, pc, load, ddr_done, sd_done, ddr_size, sd_size, usb_state,
          ddr, card, mem, firewall, block, saved, said>>

usage == <<ddr_done, sd_done, usb_state>>
memory == <<ddr_size, ddr, mem>>
sdcard == <<sd_size, card, block, saved>>

NoLoad == [region |-> "kernel", n |-> 0, done |-> 0]
Empty == [r \in Region |-> 0]
Whole == [kernel |-> "kernel loaded", dtb |-> "dtb loaded"]
Loaded(r) == ddr = "up" /\ mem[r] = Blocks[r]

-----------------------------------------------------------------------------
(* Ends of a step: the command prints its outcome and returns, or calls     *)
(* what comes next.                                                         *)
Return(msg) == cmd' = "prompt" /\ pc' = "idle" /\ said' = msg /\ load' = NoLoad
Call(p) == pc' = p /\ UNCHANGED <<cmd, said, load>>
Enter(c, p) == cmd' = c /\ pc' = p /\ UNCHANGED <<said, load>>
Lost(where) == pc' = where /\ UNCHANGED <<cmd, said, load>>

\* What boot_ensure_hw() calls first, and once the memory is up: it goes by
\* the two sizes.
BootSd == IF sd_size THEN "load" ELSE "sd_init"
BootHw == IF ddr_size THEN BootSd ELSE "pll2"

Typed(c) == cmd = "prompt" /\ pc = "idle" /\ c \in Asked

-----------------------------------------------------------------------------
(* A command is typed.                                                      *)

CmdDdr ==
  /\ Typed("ddr")
  /\ IF ddr_done THEN Return("ddr already") ELSE Enter("ddr", "pll2")
  /\ UNCHANGED <<usage, memory, sdcard, firewall>>

CmdSd ==
  /\ Typed("sd")
  /\ Enter("sd", IF sd_done THEN "mbr" ELSE "sd_init")
  /\ UNCHANGED <<usage, memory, sdcard, firewall>>

CmdSdw ==
  /\ Typed("sdw")
  /\ Enter("sdw", IF sd_size THEN "save" ELSE "sd_init")
  /\ UNCHANGED <<usage, memory, sdcard, firewall>>

CmdUsb ==
  /\ Typed("usb")
  /\ Enter("usb", IF sd_size THEN "driver" ELSE "sd_init")
  /\ UNCHANGED <<usage, memory, sdcard, firewall>>

\* load_sd copies any staged region, or the first part of it.
CmdLoadSd ==
  /\ Typed("load_sd")
  /\ \E r \in Region : \E n \in 1 .. Blocks[r] :
       load' = [region |-> r, n |-> n, done |-> 0]
  /\ cmd' = "load_sd" /\ pc' = BootHw
  /\ UNCHANGED <<said, usage, memory, sdcard, firewall>>

CmdBoot ==
  /\ Typed("boot")
  /\ load' = [region |-> "kernel", n |-> Blocks["kernel"], done |-> 0]
  /\ cmd' = "boot" /\ pc' = BootHw
  /\ UNCHANGED <<said, usage, memory, sdcard, firewall>>

\* The call of the loaded code; it returns to the prompt or keeps the CPU.
CmdJump ==
  /\ Typed("jump")
  /\ Enter("jump", "entry")
  /\ UNCHANGED <<usage, memory, sdcard, firewall>>

JumpReturned ==
  /\ pc = "entry"
  /\ Return("jump returned")
  /\ UNCHANGED <<usage, memory, sdcard, firewall>>

-----------------------------------------------------------------------------
(* ddr_init().  Starting PLL2 over and training the memory both lose what   *)
(* was in it.                                                               *)

AfterDdr == IF cmd = "ddr" THEN Return("DDR OK") ELSE Call(BootSd)

\* rcc_pll2_init(): the PLL is stopped before it is programmed.  info.size
\* is not touched when it does not come back.
Pll2_keeps_size ==
  /\ pc = "pll2"
  /\ mem' = Empty
  /\ ddr' = "off"
  /\ \/ Call("training") /\ ddr_size' = TRUE
     \/ "PLL" \in DdrFaults /\ Return("DDR FAILED") /\ ddr_size' = TRUE
  /\ UNCHANGED <<usage, sdcard, firewall>>

Pll2 ==
  /\ pc = "pll2"
  /\ mem' = Empty
  /\ ddr' = "off"
  /\ \/ Call("training") /\ ddr_size' = FALSE
     \/ "PLL" \in DdrFaults /\ Return("DDR FAILED") /\ UNCHANGED ddr_size
  /\ UNCHANGED <<usage, sdcard, firewall>>

\* stm32mp2_ddr_init(), after which info.size is set; a failed training
\* panics, a bad line goes unnoticed.
Training ==
  /\ pc = "training"
  /\ \/ /\ ddr' \in {"up"} \cup {"bad" : f \in DdrFaults \cap {"TEST"}}
        /\ Call("tests") /\ ddr_size' = TRUE
     \/ "PHY" \in DdrFaults /\ Lost("panic") /\ UNCHANGED <<ddr, ddr_size>>
  /\ UNCHANGED <<mem, usage, sdcard, firewall>>

TestsDdr_no_check ==
  /\ pc = "tests"
  /\ AfterDdr /\ ddr_done' = (ddr_done \/ cmd = "ddr")
  /\ UNCHANGED <<sd_done, usb_state, memory, sdcard, firewall>>

\* The data bus, address bus and size tests write patterns all over.
TestsDdr ==
  /\ pc = "tests"
  /\ IF ddr = "up"
       THEN AfterDdr /\ ddr_done' = (ddr_done \/ cmd = "ddr")
       ELSE Return("DDR FAILED") /\ UNCHANGED ddr_done
  /\ UNCHANGED <<sd_done, usb_state, memory, sdcard, firewall>>

-----------------------------------------------------------------------------
(* sd_init().  A failed one has reset the card and may have stopped before  *)
(* or after the card can transfer again; the size of an earlier one stays.  *)

AfterSd == CASE cmd = "sd" -> "mbr" [] cmd = "sdw" -> "save"
             [] cmd = "usb" -> "driver" [] OTHER -> "load"

SdInit_size_first ==
  /\ pc = "sd_init"
  /\ sd_size' = TRUE
  /\ \/ Call(AfterSd) /\ card' = "up" /\ sd_done' = (sd_done \/ cmd = "sd")
     \/ /\ "INIT" \in SdFaults
        /\ Return("SD init FAILED")
        /\ card' \in {"down", "up"}
        /\ UNCHANGED sd_done
  /\ UNCHANGED <<ddr_done, usb_state, memory, block, saved, firewall>>

SdInit ==
  /\ pc = "sd_init"
  /\ \/ /\ Call(AfterSd)
        /\ card' = "up" /\ sd_size' = TRUE
        /\ sd_done' = (sd_done \/ cmd = "sd")
     \/ /\ "INIT" \in SdFaults
        /\ Return("SD init FAILED")
        /\ card' \in {"down", "up"}
        /\ UNCHANGED <<sd_size, sd_done>>
  /\ UNCHANGED <<ddr_done, usb_state, memory, block, saved, firewall>>

ReadOk == card = "up"
ReadFails == card = "down" \/ "READ" \in SdFaults
WriteFails == card = "down" \/ "WRITE" \in SdFaults

\* cmd_sd(): the MBR is read and shown.
SdMbr ==
  /\ pc = "mbr"
  /\ \/ ReadOk /\ Return("SD OK")
     \/ ReadFails /\ Return("SD read FAILED")
  /\ UNCHANGED <<usage, memory, sdcard, firewall>>

-----------------------------------------------------------------------------
(* cmd_sdw(): save, write the pattern, read it back, restore.               *)

SdwSave ==
  /\ pc = "save"
  /\ \/ ReadOk /\ saved' = block /\ Call("write")
     \/ ReadFails /\ UNCHANGED saved /\ Return("sdw FAILED")
  /\ UNCHANGED <<usage, memory, sd_size, card, block, firewall>>

\* A write that fails may have been programmed nevertheless.
SdwWrite ==
  /\ pc = "write"
  /\ \/ card = "up" /\ block' = "pattern" /\ Call("readback")
     \/ WriteFails /\ block' \in {block, "pattern"} /\ Return("sdw FAILED")
  /\ UNCHANGED <<usage, memory, sd_size, card, saved, firewall>>

SdwReadback ==
  /\ pc = "readback"
  /\ \/ ReadOk /\ Call("restore")
     \/ ReadFails /\ Return("sdw FAILED")
  /\ UNCHANGED <<usage, memory, sdcard, firewall>>

SdwRestore_ignores_error ==
  /\ pc = "restore"
  /\ \/ card = "up" /\ block' = saved
     \/ WriteFails /\ block' \in {block, saved}
  /\ Return("sdw OK")
  /\ UNCHANGED <<usage, memory, sd_size, card, saved, firewall>>

SdwRestore ==
  /\ pc = "restore"
  /\ \/ card = "up" /\ block' = saved /\ Return("sdw OK")
     \/ WriteFails /\ block' \in {block, saved} /\ Return("sdw FAILED")
  /\ UNCHANGED <<usage, memory, sd_size, card, saved, firewall>>

-----------------------------------------------------------------------------
(* usb_msc_start() and cmd_usb().                                           *)

\* usb_dwc3_init_driver(): asserts that the driver was never initialised;
\* a controller that does not come up panics.
UsbDriver ==
  /\ pc = "driver"
  /\ \/ usb_state = "RESET" /\ usb_state' = "READY" /\ Call("core")
     \/ usb_state # "RESET" /\ Lost("panic") /\ UNCHANGED usb_state
     \/ "CORE" \in UsbFaults /\ usb_state' = "BUSY" /\ Lost("panic")
  /\ UNCHANGED <<ddr_done, sd_done, memory, sdcard, firewall>>

\* usb_core_start(), and polling until a key is pressed.
UsbServe ==
  /\ pc = "core"
  /\ \/ Call("serving")
     \/ "CORE" \in UsbFaults /\ Return("USB start FAILED")
  /\ UNCHANGED <<usage, memory, sdcard, firewall>>

\* The driver is not shut down.
UsbKey ==
  /\ pc = "serving"
  /\ Return("USB stopped")
  /\ UNCHANGED <<usage, memory, sdcard, firewall>>

-----------------------------------------------------------------------------
(* load_region(): one sd_read() per chunk, of boot's two regions in turn.   *)

Count == IF load.n - load.done > Chunk THEN Chunk ELSE load.n - load.done
InMemory(b) == IF mem[load.region] < b THEN b ELSE mem[load.region]

\* A chunk lands in memory that works and that the firewall leaves to the
\* loader; elsewhere it is lost without notice (or stops the CPU as well).
LoadChunk_ignores_error ==
  /\ pc = "load" /\ load.done < load.n
  /\ load' = [load EXCEPT !.done = load.done + Count]
  /\ \/ ReadOk /\ mem' = [mem EXCEPT ![load.region] = InMemory(load.done + Count)]
     \/ ReadFails /\ UNCHANGED mem
  /\ UNCHANGED <<cmd, pc, said, usage, ddr_size, ddr, sdcard, firewall>>

LoadChunk_no_advance ==
  /\ pc = "load" /\ load.done < load.n
  /\ ReadOk
  /\ UNCHANGED vars

LoadChunk ==
  /\ pc = "load" /\ load.done < load.n
  /\ \/ /\ ReadOk
        /\ load' = [load EXCEPT !.done = load.done + Count]
        /\ mem' = IF ddr = "up" /\ firewall = "secure"
                    THEN [mem EXCEPT ![load.region] = InMemory(load.done + Count)]
                    ELSE mem
        /\ UNCHANGED <<cmd, pc, said>>
     \/ ReadFails /\ Return("load FAILED") /\ UNCHANGED mem
  /\ UNCHANGED <<usage, ddr_size, ddr, sdcard, firewall>>

NextRegion ==
  /\ pc = "load" /\ load.done >= load.n
  /\ CASE cmd = "load_sd" ->
            Return(IF load.n = Blocks[load.region] THEN Whole[load.region]
                                                   ELSE "part loaded")
       [] cmd = "boot" /\ load.region = "kernel" ->
            /\ load' = [region |-> "dtb", n |-> Blocks["dtb"], done |-> 0]
            /\ UNCHANGED <<cmd, pc, said>>
       [] OTHER -> Call("handoff")
  /\ UNCHANGED <<usage, memory, sdcard, firewall>>

\* rif_handoff(): from here on the loader cannot write to the memory.
Handoff ==
  /\ pc = "handoff"
  /\ firewall' = "open"
  /\ Call("drop")
  /\ UNCHANGED <<usage, memory, sdcard>>

\* drop_to_el2(), which does not return.
DropToEl2 ==
  /\ pc = "drop"
  /\ Lost("linux")
  /\ UNCHANGED <<usage, memory, sdcard, firewall>>

-----------------------------------------------------------------------------
Init ==
  /\ cmd = "prompt" /\ pc = "idle" /\ load = NoLoad /\ said = "RAILS OK"
  /\ ddr_done = FALSE /\ sd_done = FALSE /\ usb_state = "RESET"
  /\ ddr_size = FALSE /\ ddr = "off" /\ mem = Empty
  /\ sd_size = FALSE /\ card = "down" /\ saved = "zero"
  /\ firewall = "secure" /\ block = "original"

\* A reset at any point; the card keeps its data.
Reset ==
  /\ cmd' = "prompt" /\ pc' = "idle" /\ load' = NoLoad /\ said' = "RAILS OK"
  /\ ddr_done' = FALSE /\ sd_done' = FALSE /\ usb_state' = "RESET"
  /\ ddr_size' = FALSE /\ ddr' = "off" /\ mem' = Empty
  /\ sd_size' = FALSE /\ card' = "down" /\ saved' = "zero"
  /\ firewall' = "secure"
  /\ UNCHANGED block

Typing == CmdDdr \/ CmdSd \/ CmdSdw \/ CmdUsb \/ CmdLoadSd \/ CmdJump \/ CmdBoot

Running ==
  \/ Pll2 \/ Training \/ TestsDdr
  \/ SdInit \/ SdMbr \/ SdwSave \/ SdwWrite \/ SdwReadback \/ SdwRestore
  \/ UsbDriver \/ UsbServe
  \/ LoadChunk \/ NextRegion \/ Handoff \/ DropToEl2

Next == Typing \/ Running \/ UsbKey \/ JumpReturned \/ Reset

Spec == Init /\ [][Next]_vars

\* Calls return; only serving the USB host takes until a key is pressed.
FairSpec == Spec /\ WF_vars(Running)

-----------------------------------------------------------------------------
Places == {"idle", "pll2", "training", "tests", "sd_init", "mbr", "save", "write",
           "readback", "restore", "driver", "core", "serving", "load", "handoff",
           "drop", "entry", "linux", "panic"}

Outcomes == {"RAILS OK", "ddr already", "DDR OK", "DDR FAILED", "SD OK", "SD init FAILED",
             "SD read FAILED", "sdw OK", "sdw FAILED", "USB start FAILED", "USB stopped",
             "kernel loaded", "dtb loaded", "part loaded", "load FAILED", "jump returned"}

ControlOK == cmd \in Asked \cup {"prompt"} /\ pc \in Places /\ said \in Outcomes

\* A load never runs past the end of its region.
LoadOK ==
  /\ load \in [region : Region, n : Nat, done : Nat]
  /\ load.done <= load.n /\ load.n <= Blocks[load.region]

MemOK == mem \in [Region -> Nat] /\ \A r \in Region : mem[r] <= Blocks[r]

\* The test writes back what it has saved, never the zeroed buffer.
DeviceOK ==
  /\ ddr_done \in BOOLEAN /\ sd_done \in BOOLEAN
  /\ ddr_size \in BOOLEAN /\ sd_size \in BOOLEAN
  /\ usb_state \in {"RESET", "BUSY", "READY"}
  /\ ddr \in {"off", "up", "bad"} /\ card \in {"down", "up"}
  /\ firewall \in {"secure", "open"}
  /\ block \in {"original", "pattern"}
  /\ saved \in {"zero", "original", "pattern"}
  /\ pc \in {"write", "readback", "restore"} => saved # "zero"

\* Types of the variables and ranges of the counters.
TypeOK == ControlOK /\ LoadOK /\ MemOK /\ DeviceOK

\* Linux is entered only with the whole kernel and the whole dtb in memory
\* that works, and with the firewalls open (boot.h: "load kernel + dtb from
\* the SD staging area and enter Linux").
LinuxComplete ==
  pc = "linux" => Loaded("kernel") /\ Loaded("dtb") /\ firewall = "open"

\* When load_sd has printed its sum for a whole region, the region is in
\* memory, whatever was up or had failed before it was typed.
LoadedMeansLoaded ==
  \A r \in Region : pc = "idle" /\ said = Whole[r] => Loaded(r)

\* A command that skips sd_init() because the card has a size finds a card
\* that answers, whichever command brought it up and whichever failed.
SdSizeMeansUp == sd_size /\ pc # "sd_init" => card = "up"

\* The same of the memory, outside ddr_init().
DdrSizeMeansUp ==
  ddr_size /\ pc \notin {"pll2", "training", "tests"} => ddr = "up"

\* "DDR already initialised" is true: once `ddr` has printed "DDR OK" the
\* memory works, whatever boot and load_sd do with it and whatever fails.
DdrDoneMeansUp == ddr_done => ddr = "up" /\ ddr_size

\* After "SD WRITE OK" the last block holds what it held before the command.
OkMeansAsSaved == pc = "idle" /\ said = "sdw OK" => block = saved

\* Every command comes back to the prompt, hands the CPU over or serves USB.
CommandsEnd == pc # "idle" ~> pc \in {"idle", "linux", "panic", "entry", "serving"}

(* Four statements of the sources that the code does not keep; the README   *)
(* gives the constants under which TLC shows each of them violated.         *)

\* "Test SD write on the last block (save/verify/restore)" (cmd.c): the test
\* that reports success has left the user's data on the card.
OkMeansRestored == pc = "idle" /\ said = "sdw OK" => block = "original"

\* "This test is run before data have been put in DDR, and is only done for
\* cold boot" (stm32mp_ddr_test.c): ddr_init() starts with nothing in memory.
TestBeforeData == [][pc # "pll2" /\ pc' = "pll2" => mem = Empty]_vars

\* "Both load_sd and jump need DDR + SD brought up" (boot.c): jump calls a
\* loaded kernel region only.
JumpNeedsDdr == pc = "entry" => ddr = "up"

\* "Check hpcd->State is HAL_PCD_STATE_RESET, otherwise error" (usb_dwc3.c):
\* without a fault of the hardware nothing panics.
NoPanic == pc # "panic"
=============================================================================
