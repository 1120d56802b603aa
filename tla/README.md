# Verification of the STM32MP257 test-board boot loader

The repository holds a bare-metal first-stage boot loader for an STM32MP257
board (`src/bootloader/`): it brings up clocks, power and DDR, offers a command
line on the UART, moves images from the SD card to memory, serves the card to a
PC as a USB mass-storage device, enters Linux and stays behind in EL3 as the
PSCI monitor. This directory is its formal model: TLA+ modules translated from
that source, TLC configurations that check them on small instances, and TLAPS
proofs of what matters most for every instance.

`PROJECT.json` relates every definition to the lines it models. Paths below are
relative to `src/bootloader/`.

## 1. Inventory

| Part | State it keeps | Operations | Interacts with | What is hard |
|---|---|---|---|---|
| PSCI monitor, holding pen (`drivers/psci.c`, `startup.S`) | `core1_on`, the mailbox `psci_pen_entry`/`psci_pen_ctx`, what each core executes | SMC dispatch: CPU_ON, CPU_OFF, AFFINITY_INFO, queries; the pen loop of core 1 | two cores through memory without locks, `sev`/`wfe`; the kernel above | interleaving of two cores, lost wake-ups, order of two stores |
| USB mass storage (`drivers/usb/usb_msc.c`) | `bot_state`, `cbw`, `io_*`, sense, the data buffer | class callbacks: init, setup, data in, data out; SCSI commands | device core below it, `sd_read`/`sd_write`, the PC | a protocol over several transfers, resets at any point, card errors in the middle |
| USB device core with the control endpoint (`drivers/usb/usb_device.c`) | `dev_state`, `dev_old_state`, EP0 state, endpoint records | one event at a time from the controller driver; SETUP, data and status stages, refusals, reset, suspend, resume | class above, DWC3 driver below | a request given up between any two of its stages; state kept over suspend |
| DWC3 driver (`drivers/usb/usb_dwc3.c`) | endpoint flags, TRBs, the event buffer, the bounce buffer, `State` | init, start and end of transfers, the event handler | registers and DMA of the controller | a transfer refused or ended while it is under way |
| SD stack (`drivers/sdmmc/mmc.c`, `stm32_sdmmc2.c`, `sd_glue.c`) | `sd_dev_info`, `next_cmd_is_acmd`, controller registers; the card's own state machine | `sd_init`, `sd_read`, `sd_write`; command retries, CMD12, polls | card over a bus that loses commands and responses | retries of what was already done, stopping a transfer, a busy card |
| Commands that touch hardware (`src/cmd.c`, `src/boot.c`, `ddr_init.c`, `sd_glue.c`, `usb_msc_start`) | two statics `done`, two sizes that mean "up", the USB driver state, the firewall, the memory | ddr, sd, sdw, usb, load_sd, jump, boot | every driver; each command brings up what it needs | several records of "is it up?", a step failing, a reset between a write and its undo |
| Console, command line and main loop (`src/console.c`, `src/cmd.c:135-417`, `src/main.c`, `drivers/uart.c`) | receive FIFO, RX ring, `key_flag`, `interrupt_flag`, line, history ring, escape state | push, get, line editing, completion, history, dispatch | main loop drains the UART, then runs `cmd_poll`; a handler may poll the UART itself | full ring, order of Ctrl-C and the bytes around it, ring of history entries |
| PMIC and I2C (`drivers/pmic.c`, `i2c.c`) | PMIC registers, I2C flags, the byte in RXDR, the bus | probe, rails, listing, register reads and writes with bounded waits | main, the memory | a wait given up while the transfer goes on, order of rails |
| Clocks (`drivers/rcc.c`) | the cluster's switch, PLLs, flexgen channels | PLL1, PLL2, bus clocks | main, DDR | switching away from a running clock, answers that come after the driver gave up |
| Firewalls and GIC (`drivers/rif.c`, `gic.c`, the end of the pen in `startup.S`) | register values | straight-line writes | boot, core 1 | two encodings of the same resources; the moment of the handoff |
| DDR controller, tests and self-refresh (`drivers/ddr/src/`) | controller registers, `ddr_priv`, the mode of self-refresh | `ddr_init`: clock, reset, registers, PHY, training, tests; entry into and exit from each self-refresh mode, standby | boot, ddr | order of quasi-static writes, waits that fail, what a test can and cannot find |
| DDR PHY (`drivers/ddr/phyinit/`) | PHY registers, the mailbox of its processor, the list of registers to retain | the PhyInit steps A to J, firmware and message block, mailbox, retention | the training firmware, DDR glue | a handshake of four edges with firmware that streams, two writers of the same registers |
| Image tools (`scripts/`, `../baremetal/hello/scripts/`) | none | make the header the boot ROM reads | the boot ROM | two tools that must agree |
| Demonstrations (`../tools/`) | frame buffers, what the CRTC shows, a ring of samples | take the screen, draw, flip, give it back | DRM of Linux, signals | a signal or a failure at any point, flips that come late |
| printf and string (`utils/`) | where the characters go | conversions, searches, numbers read and printed | everything that prints or takes an argument | widths, signs and prefixes at their limits |
| The demonstration image (`../baremetal/hello/src/`) | none | a greeting | nothing | nothing |

The board schematics (`../kicad`), device trees and patches (`../config`) hold
no program of this repository.

What makes a part correct:

* PSCI: core 1 enters the kernel with the entry and context of one CPU_ON;
  a CPU_ON that was accepted happens; OFF is reported only of a core that left.
* Mass storage: a command that passed did exactly what it says on exactly its
  blocks, a failed one explains itself, every command is answered, nothing of a
  command survives a bus reset.
* SD: never a wrong block, no call leaves the card in a transfer, an
  initialisation that succeeds leaves card and controller in agreement, every
  call returns.
* Commands: Linux starts only with all of its images in memory that works; what
  is called loaded, OK or already initialised is; every command ends.
* Console: bytes come out in the order they went in, or are dropped; the line
  that runs is the line on the screen.
* PMIC: what is reported set is set; register and value never get out of step.
  Clocks: the cluster never runs from a clock that is not there.
* Control endpoint: the device can always take the next SETUP, and serves every request
  once, in the state it is in.
* DDR: 0 is returned only for a memory that works; every call ends; registers change only while they may; what sleeps wakes up.
* Firewalls: nothing the kernel needs stays closed, nothing the M33 owns opens.
* Demonstrations: no frame is drawn where it is seen, the screen is given back.

`PROJECT.json` lists the hazards one by one, at their lines, with the
properties that cover them.

## 2. Modules

| Module | What it is |
|---|---|
| `Psci` | monitor and pen, one step per memory access, and the kernel that calls it |
| `CpuPower` | what a monitor promises of the second core |
| `UsbMsc` | mass-storage class on the core and driver it runs on, with controller, wire and host |
| `UsbMscProofs` | theorems about `UsbMsc` |
| `UsbControl` | bring-up of the controller and control transfers, with controller, wire and host |
| `UsbDescriptors`, `UsbEndpoints` | descriptors byte for byte; words of commands, TRBs and events, numbers of endpoints, memory areas |
| `ControlPipe` | what a device promises on its control endpoint; `UsbControl` implements it |
| `UsbControlProofs` | theorems about `UsbControl` |
| `SdCard` | `sd_init`, `sd_read`, `sd_write` command by command, with the card |
| `SdCardProofs` | theorems about `SdCard` |
| `BlockDisk` | a disk that serves one request at a time; `UsbMsc` and `SdCard` both implement it |
| `Commands` | the commands that touch hardware, call by call |
| `BootProofs` | theorems about `Commands` and `Psci` |
| `Console` | receiver, ring, line, history, completion, main loop |
| `ConsoleProofs` | theorems about `Console` |
| `CommandNames` | the search for a command by its name, shared by the next two |
| `LineEditor` | what a console promises its user; `Console` implements it |
| `CStrings`, `Format` | string.c and the arguments of a line; printf.c, with what the standard of C asks of it |
| `Pmic` | the rails over I2C, driver and bus side by side |
| `Clocks` | PLLs, the cluster's switch and two routed channels |
| `SupplyProofs` | theorems about `Clocks` and `Pmic` |
| `MemTest` | the three memory tests on a memory with bad lines, as operators |
| `PhyConfig`, `PhyRegs` | parameters and message block of the PHY; the registers each PhyInit step writes and the ones retained |
| `DdrInit` | `ddr_init()` on these three, with controller, firmware and mailbox |
| `DdrSleep` | the self-refresh modes on a memory that `DdrInit` brought up |
| `DdrProofs` | theorems about `DdrInit`, `DdrSleep`, `PhyConfig` and `PhyRegs` |
| `Firewalls` | what `rif_handoff()`, the GIC set-up and core 1 leave in the registers |
| `ImageHeader` | the header of a boot image as both tools write it |
| `Scanout` | `cube`, `fft` and `fft_cpu` on the DRM of the kernel |
| `ScanoutProofs` | theorems about `Scanout` and `Spectrum` |
| `Spectrum` | the samples and rows the analysers draw, as operators |
| `MC*` | instances for TLC: symmetry sets, image lengths, keys, requests, boards, firmware scripts |

The modules meet where the code does: `UsbMsc` uses the card through
`sd_read`/`sd_write`, which it models as what `BlockDisk` allows, and `SdCard`
shows that the driver is such a disk; `Commands` takes `sd_init` and the reads
from `SdCard`, the start of the USB loop from `UsbMsc`, `ddr_init()` from
`DdrInit` (which shows that it returns 0 only for a memory that works), and the moment of the
handoff, whose content is `Firewalls`. `UsbControl` is the control endpoint of the device
whose bulk endpoints are `UsbMsc`; a bus reset is in both.

### Psci

A core's `at` is the instruction that matters next: in the pen (`reset`, `wfe`,
`load`, `ctx`), in `cpu_on()` between its stores (`on_ctx`, `on_entry`,
`on_flag`, `on_sev`), in `psci_pen_return` (`off_clear`), or in the non-secure
world (`ns`). One action is one memory access, so all interleavings of the two
cores are explored. At EL3 the MMU is off and accesses are device accesses, in
program order, which is why a step is atomic and stores are not reordered. `event`
is the event register of `wfe`/`sev`; `wfe` may also wake without an event.
The kernel (external) makes its SMCs in the order Linux does; `HotUnplug` is the
set of cores it takes offline. `OnAfterPark` says whether the kernel's next
CPU_ON gives the parting core time to get back to the pen.

### UsbMsc

`Poll` is one turn of the loop in `cmd_usb`: it takes an event from the
controller's buffer and runs the whole call chain, down to the next transfer
started (`Started`). An endpoint record holds the driver's view (`queued`,
`buf`, `len`) and the transfer the controller works on (`hw`): a second start
while one is under way is refused by the controller and the code ignores that.
The completion count is computed from the driver's length, as the code does.
A packet is 2 units and a short packet 1. Host actions are external: they
follow the bulk-only transport and signal resets, suspends and bulk-only
resets. `OVERRUN` stands for a copy past the end of `cbw`.

### SdCard

A call is a script of commands with data phases and polls; `run` is the place in
it with its retry counters. Each step sends one command to the card's state
machine and picks a fault: the command lost, its response lost, an error in the
data phase, or a data path that outlives its last block. The address unit, the
bus width and the pending application command are state on both sides, so
they can come apart. CMD23, high speed and DMA are off in this build.

### Commands

`pc` is the call a command makes next. The records of what is up
(`ddr_done`, `sd_done`, the two sizes, `usb_state`) are separate from what
really is (`ddr`, `card`). A step may fail in the ways the constants allow,
and `Reset` (external) can come at any point, which loses what RAM holds and leaves the last block of the
card as it is. `mem[r]` counts the blocks of an image already copied.

### UsbControl

The bring-up (`dwc3_core_init` to `usb_dwc3_start_device`) starts the first
setup TRB; every wait in it may fail, which panics. `trb` is what the
controller holds for each direction, `usb` what driver and core remember, and
`evts` the event buffer, whose words are those of `UsbEndpoints`: the driver decodes them
field by field, as the code does. `Poll` takes one event and runs the call chain from
`usb_core_handle_it()`, and `served` remembers whether the request was granted or
refused. The host sends a request only when nothing is pending, but may give one
up at any point and send the next, reset, unplug, suspend or resume. `Descriptor` gives the real
bytes, and the packet size is 64. The controller connects at high or full speed.

### Console

A step takes one byte: into the FIFO (which drops at its depth), from there into
the ring (`main` drains the FIFO before it calls `cmd_poll`), out of the ring
into the line, or through a handler that runs for a while and looks for a key
(`usb`) or for Ctrl-C. `screen` is what the user sees of the line, by the characters and
erase sequences the code prints. A line is a sequence of characters,
of which only those are told apart that lead somewhere else. `LineEditor` has no
ring of entries and no indices: the last lines as a sequence and a cursor on it.

`CStrings` and `Format` are the pure functions below the console. A string is
the sequence of its characters, an integer is taken modulo the width of its type
(`Bits`), and a conversion of `printf` is a record that goes through flags,
width, precision, length and specifier in this order. Their ASSUMEs, which the
run `console` evaluates: the prefix search is the one `CommandNames` takes it
for (`PrefixesFound`), a line that is loaded is cut as `line_load` in `Console` has it
(`LinesCut`), integers come out as the standard of C asks (`PrintsAsC`, for 8
values, 9 sets of flags, 4 widths up to the buffer, 4 precisions), what is
printed can be typed as an argument (`ReadsBack`), and `snprintf_` keeps to its
buffer and ends it (`TextFits`).

### Pmic

Driver and bus run side by side. A transfer is a state of the bus with the
bytes still to come; NACKF, STOPF, TC, RXNE and TXIS are flags the one sets
and the other polls and clears. A wait may be given up while the transfer goes
on (`slow`) and a byte not acknowledged (`nacks`). Whatever that leaves behind
meets the next transfer, since the code clears only some of it. A byte is what
it was meant as: when driver and bus are out of step a value is read as some
register, and a register as some value.

### Clocks

The driver writes a request and polls with a bound; the hardware (crystal, the
PLLs' locks, the acknowledgement of the switch, dividers) answers in its own time, perhaps after
the driver went on. A write to a busy divider may be lost, which the
code retries. A PLL takes its dividers over only when it starts.

### DdrInit, PhyConfig, PhyRegs, MemTest

`pc` walks through `ddr_init()`: PLL2, reset, the four groups of registers, the release, the
steps of PhyInit, firmware, mailbox, message block, retention, refresh on again, tests.
Registers are the sets of the bits the code sets or clears; a PHY register is its name and
instance, and `written` the set of those written since reset. Its values
are left out but where a warm start writes different ones. The firmware
says one of finitely many scripts through the mailbox of one word with its two protect bits, and trains
only what a message block of its own layout names. `PhyConfig` has the
parameters of this board, the message block made of them, and the
codes of the impedances for every value, not only this board's. `MemTest` runs the loops of the
three tests over words and addresses that are sets of lines.

Assumed of the hardware: a reset of the APB puts `MicroContMuxSel` to 0 and `DctWriteProt` to 1;
a register of the PHY written while the mux is 1 is lost; the firmware ends its script with a
verdict unless it falls silent; a panic is the end. A module of DDR has bad data or bad
address lines, stuck or with one short, not both.

### DdrSleep

After a successful `ddr_init()` the functions of `stm32mp2_ddr_helpers.c` are called in any order:
nothing in this image calls them, they are the interface for a standby. SSR waits
for the memory on the way in and out; HSR and ASR are entered by the
hardware, which the model leaves to it, and HSR's exit waits for nothing.

### Firewalls, ImageHeader

Straight-line code, so functions: from the registers before (all zeros or all
ones, with the clocks of some banks off, whose writes are lost) to the registers
after; a word is the set of its bits. `ImageHeader` is the list of fields of each header and the
values both tools give them. What holds of them is stated as named assumptions,
which TLC evaluates on the commands' runs and on all values of their bounded inputs: `HandedOver`, `MemoryOpened`,
`InterruptsHanded`, `SizesAgree`, `ToolsAgree`. In the same way `UsbEndpoints`
states `NumbersAgree` and `AreasApart`, and `PhyConfig` `BoardParameters`.

### Scanout, Spectrum

One action per call that can fail or that shows something; the kernel of Linux is
external: it shows a buffer at a vertical blank and then sends the event. Vertical
blanks are not fair, `poll()` gives up after its 1000 ms. Assumed: setting a
mode waits for or drops a pending flip; closing the device removes its
frame buffers and darkens a CRTC that shows one; `drmModeGetCrtc` does not fail, nor the
restore while the program is master. A surface without a buffer to lock crashes the
program (`pc = "crash"`): nothing is restored, and the kernel closes the device. Left out: a SIGKILL, which
ends it in the same way at any point, matrices, shaders, the transform, and the fences of the GPU.

## 3. Runs

Twelve runs, all of which pass.

| Run | Instance | What it shows |
|---|---|---|
| `psci_hotplug` | 2 entries, 2 contexts; core 1 goes offline and comes back without bound; queries | `EnteredAsAsked`, `NotStranded`, `OffMeansLeft`, `TurnedOnRuns`, and `CpuPower` implemented |
| `msc_serve` | 3 blocks, chunks of 2, transfers of 0 to 3 blocks, all commands | `Answered`, `BlockDisk` implemented, with a last chunk shorter than the others |
| `msc_reset` | 2 blocks, chunks of 1, read and write faults, blocks beyond the card, bus resets at any point, suspends, bulk-only resets before a command block | `OneTransferOwed`, `ProtocolKept`, `HostInStep`, `BlockDisk` implemented |
| `usb_control` | the requests of an enumeration and three that are refused, in any order; one given up, one reset, unplugging, suspend or link event, at any point | `ReadyForSetup`, `Answered`, `ControlPipe` implemented |
| `sd_faults` | 2 blocks, both kinds of card, any 2 faults | `NotWedged`, `InitAgreesOneFault`, `FailureExplained`, `Returns`, `BlockDisk` implemented |
| `commands_faults` | kernel of 5 blocks, dtb of 2, chunks of 2; every command that goes by the sizes, every fault but a bad line | `LinuxComplete`, `LoadedMeansLoaded`, `SdSizeMeansUp`, `CommandsEnd` |
| `commands_all` | the same with `ddr`, `sd` and bad lines; evaluates `Firewalls` and `ImageHeader` | `DdrDoneMeansUp`, `OkMeansAsSaved` |
| `console` | 5 keys of 11 kinds, 3 names, rings of 3 and 4 bytes, lines of 4 characters, a history of 2; types of 4, 6, 8 and 16 bits, numbers of 9 characters | `ConsoleInv`, `ShownIsLine`, `LineEditor` implemented |
| `pmic` | one buck, one LDO, the rails of the memory; 2 bytes not acknowledged and 2 waits given up | `RailsOkMeansSet`, `InStep` |
| `clocks` | polls of 2 tries, 2 lost writes, PLL2 started twice | `ClusterClocked` |
| `ddr` | 3 data and 3 address lines with every fault, 4 firmware scripts, 2 starts, 3 sleeps or changes of mode | `UpOrAsleep`, `MailInOrder`, `WarmStartCovered`, `Quiescent`, `Ends` |
| `scanout` | 3 programs, 4 boards, 3 buffers, windows of 4 samples, 3 columns and rows | `DrawsUnseen`, `HandedBack`, `FrameSound`, `SignalEnds` |

### Bounds, and why they are enough

* Psci: no counter; two entries and two contexts are enough to mix up a pair.
* UsbMsc: `MaxCount` and `ChunkBlocks` give transfers of none, one and several
  chunks, with a short last chunk; two values tell a stored block from an old
  one, two tags a command from the one before. `MaxEvents = 2` limits only when the
  host signals; completions are not limited by it. The real
  chunk is 16 KiB (32 blocks), the real event buffer longer than anything one command leaves in it.
* UsbControl: `MaxAbandons = 1` and `MaxSignals = 1` put one given-up request and one signal at every
  point; the requests go on without bound, so what either leaves behind meets
  every later request. Each kind of request the stages tell apart is in the set: data in, of several lengths, data out,
  none, for the class, refused; and the three states of a device are reached.
* SdCard: `MaxFaults = 2`. Three losses of one command exhaust its tries,
  which then is an explained failure; two are enough to have a retry fail as
  well as the stop of the transfer. `MaxCount = 2` gives single- and multi-block commands.
  `OpCondTries = 2` stands for the many tries of SEND_OP_COND; the other retry
  counts are those of the code.
* Commands: 5 and 2 blocks with chunks of 2 give a short last chunk in one image
  and none in the other. The proofs do without bounds.
* Console: five keys, of which an arrow is three bytes, overflow the FIFO (3), the ring (4; in
  the code 64), the line (4; 32) and wrap the history (2; 8). Two names share
  a prefix, one is a prefix of another. The `VIEW` leaves out bytes of the ring that were given out already: no step
  reads them again.
* Pmic: `MaxFaults = 2` bounds NACKs and given-up waits, each by itself. The list of rails is
  shorter than the board's; an LDO and a buck are all the kinds there are.
* Clocks: `Retries = 2` bounds the rounds of a write that is lost, `MaxDdr = 2`
  has PLL2 started over a running one.
* Ddr: with three lines every pair of bits and every pair of address lines can be shorted,
  and some pairs alias only each other; the board has 32 and 29. The scripts have a stream with words that look
  like verdicts, one without words, a word with a high half, and a failure.
  `MaxCalls = 2` is a second start over what the first left. With `MaxNaps = 3` a mode
  can be left, entered and saved.
* Scanout: `Numbers = 5` numbers the samples modulo one more than the window, so
  an old one differs from a new one; `NFFT = 4`, `HOP = 3` make the ring wrap
  inside a frame. `RampRows = 3` is as high as the highest mode. The boards have a CRTC in use or not, a connector
  without encoder, an unplugged one, two screens, and none.

Symmetry is used only in `msc_reset`, on values and tags, which no
liveness property accompanies. `CHECK_DEADLOCK FALSE` is given where the
modelled system stops: a controller or a memory that panics (`usb_control`, `ddr`), keys,
calls or lost writes that are used up (`console`, `ddr`, `clocks`) and programs that have ended (`scanout`).

### Fairness

* Psci: weak fairness of every core's monitor and pen steps (a core that is not
  in `wfe` executes) and of core 1's way out of reset. The kernel's calls are not fair.
* UsbMsc: weak fairness of `Poll` (`cmd_usb` polls until a key is pressed), of
  the host's transfers (a host retries what the endpoint NAKs) and of an
  enumeration or resume it has begun. New commands, resets and suspends are not fair.
* UsbControl: weak fairness of `Poll` and of the controller with the wire. Requests,
  resets and the bring-up are not fair.
* SdCard: weak fairness of the driver (the loader polls) and of a card that
  programs or sends (it finishes by itself). Calls are not fair.
* Commands: weak fairness of the running command; being typed and resets are not
  fair, and serving USB lasts until a key is pressed.
* Ddr: weak fairness of the driver, whose waits may all time out; the firmware is
  not fair, and may fall silent anywhere.
* Scanout: weak fairness of the program, which includes the time-out of `poll()`;
  vertical blanks and signals are not fair.
* Console, Pmic, Clocks: none, as only safety is checked.

### Sensitivity

Every property of a run comes with a variant of one mapped definition, in the
module just before it and marked as wrong, under which TLC finds the
property violated: a dropped `sev`, a context that `cpu_on()` writes only the first time, an
endpoint not re-armed, a setup TRB not armed after a stall, a missing CMD55, a chunk written
whole, an address test that looks at the base only, a mailbox released without the wait, a missing check of a NACK, a
drawing into the buffer that is shown, and so on. `PROJECT.json` lists them.

## 4. Proofs

TLAPS (SMT, Zenon, LS4 for the temporal steps) checks every obligation. No
module declares a recursive operator.

**BootProofs**, about the commands, for any image lengths, chunk size and set of faults:

* `TypeCorrect`: the types, a copy that never runs past its image, and a test
  that writes back only what it saved. One lemma per group of conjuncts, one
  step per action.
* `DdrDoneHolds` and `OkMeansAsSavedHolds`: whatever is typed and fails. The
  first needs that once `ddr` said OK nothing is inside `ddr_init()` any more.
* `LoaderInvariance`, and from it `LinuxCompleteHolds`,
  `LoadedMeansLoadedHolds` and `SizesHold`, under `SizesDecide`: neither `ddr`
  nor `sd` is typed and no bad line is found by the tests. The invariant ties the
  program place to the command that led there (`PlaceInv`), the sizes to the
  hardware (`SizeInv`) and the progress of a copy to what is in memory
  (`LoadInv`). The assumption cannot be dropped: TLC refutes `LinuxComplete` without it (section 6).

and about the monitor that stays behind, for any sets of entries and contexts:

* `MonitorInvariance`: `PsciInv` holds if only core 1 is taken offline
  (`HotUnplug \subseteq {1}`). The properties alone are not inductive: that a
  core enters with the right pair needs to know what the mailbox holds
  while each core is at each instruction. `PsciInv` says so: `Roles` (which core
  executes what), `CallAgreement` (flag and kernel view during a call),
  `MailboxAgreement` (whose pair is in the mailbox) and `ParkAgreement` (where the
  parting core is, for a slow kernel).
* `EnteredAsAskedHolds`, `OffMeansLeftHolds`: with any timing.
* `NotStrandedHolds`, `MonitorRefinement` (the safety part of `CpuPower`): with
  `OnAfterPark`. Without it TLC refutes `NotStranded` (section 6).
  The kernel's queries are steps of these proofs too: they answer from the flag and change nothing.

**SupplyProofs**, about the clocks, for any number of rounds, lost writes and calls:

* `TypeCorrect`, `ClusterClockedHolds`. The switch and PLL1 are two registers; what holds of them
  depends on how far `rcc_a35_pll1` is, and that on the calls made before it. `PlaceInv` says to
  which function a place belongs, `ClusterInv` that the cluster has left PLL1 in every place in
  which the driver stops or starts it, also when an acknowledgement comes after the driver gave up.
* `ReturnsTrueHolds`: what a function that returns 0 has reached, which needs what each place has
  already reached (`A35Inv`, `Pll2Inv`, `RouteInv`).

and about the rails, for any list of always-on rails without the two of the memory (`PmicAssumption`; the
table of `pmic.c:72`), any number of bytes not acknowledged and of waits given up:

* `PmicTypeCorrect`, `InStepHolds`, `RailsOkMeansSetHolds`. What goes over the bus is one of three
  transfers (`BusKinds`), and `BetweenTransfers`, `Reading`, `WritingInv` say which of them each
  place of the driver may find there, and with which flags; `SendingInv` that a value on its way is the
  register as it was read, with one field changed.
* They hold while driver and bus agree (`Aligned`): until a wait was given up in the middle of a transfer, and, during
  the updates, as long as no error was noted, since there only a wait for STOPF can be given up without one, and
  the next START waits for the bus. That is why RAILS OK can be relied on also after slow devices (`SetInv`), and
  `InStep` not: the listing of `pmic` notes no errors.

**ConsoleProofs**, for any set of names, keys, and sizes of FIFO, ring, line and history
(`ConsoleAssumption`: the buffers hold at least one byte, a name fits into a line,
control characters are not printable; `NamesAssumption`: no name is empty):

* `ConsoleInvHolds`: it is inductive, one lemma per part (`RingStep`, `LineStep`, `PastStep`, `StateStep`).
* `ShownIsLineHolds`: one lemma per key, as each prints its own erase sequence.
* `Refinement` onto `LineEditor`: a line or an escape sequence moves the two together, or the editor
  stutters. It needs that the job that runs is one of the editor's (`JobOK`).
  Completion and the search by prefix are compared on both sides by their values.

**UsbMscProofs**, for any number of blocks, chunk size, tags and data, any card errors, bus resets
and suspends, provided the host does not reset bulk-only in the middle of a command (`"BOT_RESET" \notin
Signals`: with it the old transfer stays with the controller and the properties fail, section 6, `IdleArmed`):

* `TypeCorrect`, `OneTransferOwedHolds`, `ProtocolKeptHolds`, `HostInStepHolds`, and
  `Refinement` onto `BlockDisk`. One invariant carries all of them: `Queue` (the device's state after
  each event that waits, so that every event finds the device in a state that can handle it),
  `HostOK` (the host knows the state the device will be in), `Phase` and `HostPhase` (which transfer is with the
  controller in each state of the protocol, and what the host is waiting for).

**UsbControlProofs**, for any requests, any number of them given up, any resets, suspends and link events,
provided an interface gets no request without data but the reset of the class (`OneAnswer`: `usb_core_itf_req`
starts a status stage also for one that the class refuses, and TLC then refutes `ReadyForSetup`, section 6):

* `InvariantHolds`, and from it `TypeCorrect` and `Ready` (`ReadyForSetup` in every reachable state). The property
  speaks of a moment when nothing waits; how endpoint 0 gets there depends on every event on the way. `IInv` says
  that it is `Armed` (the setup TRB is with the controller), `Taken` (a SETUP is stored, and its event waits) or
  `Working`, and in each what may wait: when armed only what the driver drops; when taken the SETUP, and
  behind it at most one report of each stage; when working one report or the completion of a transfer that is no longer
  with the controller. A reset makes what is before it stale, and nothing but device events comes behind it
  (`ResetsLast`).
* One lemma per function of driver and core says what it does to endpoint 0; the answers are at most one packet
  (`DescriptorLength`: no descriptor has more than 62 bytes), so that a data stage is one transfer (`DataKnown`).
* `Refinement` onto `ControlPipe`: a request is decided once, as the device state in which it is served says, the
  host gets no more than it asked for, and the endpoints that are open are those of the descriptor; resets,
  suspends and late requests included. Its hypotheses beside `OneAnswer` are what section 6 shows to be needed, and what
  a well-formed request is: `Understood` (recipients and lengths; GET_MAX_LUN and the reset of the class go to
  interface 0; no request of an endpoint asks for data) and `QuietLink` (no suspend, wakeup or disconnect but
  those the host causes, and no L1 event). `PipeInv` joins `IInv` and says which request is in
  memory and whether it is decided (`HostKnown`, `ServedKnown`), how many bytes have come (`LeftKnown`), which endpoints
  are open (`EndsKnown`), and behind which of the waiting events the core is suspended (`Naps`): the state
  a request is served in is not the one it was asked in.
* `SetupStageCarried` does the work of the core, one lemma per request: what it decides and the state it leaves
  are `Accepts`, `Owed` and `After`. `Told`, the endpoints a host reads from the descriptor byte by
  byte, are the two that SET_CONFIGURATION opens (`ToldIs`).

**SdCardProofs**, for any card, any blocks and data, any kind of fault:

* `TypeCorrect`: every retry counter keeps to its bound and every script to its steps.
* `Refinement` onto `BlockDisk`, if the card reports no error of its own (`StatusErrors = FALSE`; the code
  ignores those, section 6, `WriteMeansWritten`), for any number of faults: a call that returns
  0 has moved all the blocks, also after the retry of a step of which card or driver had already
  done its part (`ServedInv`).
* `InitAgreesOneFaultHolds`, for any number of faults that the constants allow; the property itself
  is about runs in which one happened.
* `NotWedgedHolds`, `FailureExplainedHolds`, if fewer faults happen than a command has tries
  (`MaxFaults < CmdTries`: with as many, the stop of a transfer itself may be
  lost for good, and a failure then ends where it happens). `Docked` relates the state of the card to the place in the
  script, `Hinted` what went wrong to what the caller is told.

**ScanoutProofs**, for any boards, buffers, ring and window, any order of blanks, signals and failures
(`BoardsAssumption`: a board's lists refer to elements they have; `SpectrumAssumption`: a window is
not longer than the ring, and the numbers tell the samples of a window apart):

* `TypeCorrect`, `DrawsUnseenHolds`: `Kept` says who owns which buffer at each place, `Shows` what the
  screen may show or be about to show.
* `HandedBackHolds`, if the CRTC that is chosen drives no other screen (`Unshared`; without it TLC refutes the
  property, section 6): the saved CRTC stays the one to be put back, and no step touches another (`Apart`).
  After a crash only the program's own screen may be dark.
* `FrameSoundHolds`, if the screen has no more rows than `fft_cpu` has colours (`RampCovers`; section 6): the window read from the ring
  is the newest samples in order wherever the ring wraps (`Samples`), and bars and peaks stay inside their column (`Levels`).

**DdrProofs**, for any scripts of the firmware, any number of starts and naps, any lines of data and
address (`DdrAssumption`: a script is a row of messages and streams that ends with its verdict):

* `TypeCorrect`, `MailInOrderHolds`, `WarmStartCoveredHolds`, `QuiescentHolds`, `UpOrAsleepHolds`. `IInv`
  says, part by part, in what state each place of a bring-up or a nap finds the hardware: the registers of the
  controller (`CtlInv`, `PowerInv`, `DfiInv`), power (`PmInv`), the PHY (`PhyInv`), and the mailbox (`MailInv`).
  A change of `dfimisc` is three places that all five callers share; what they find there depends on
  who called, which `todo` tells.
* The mailbox needs a second invariant. That the driver stops with the last word is not a matter of the handshake:
  a word in a stream may look like a verdict. `ReadInv` says that the driver
  takes a word for the start of a message only where the firmware starts one, for a stream of any length.
* `SavedFits` counts the registers the PhyInit steps retain, from the counts of their
  parts: 283, exactly the area there is. `Covered` goes through the registers of each step.
* `UpOrAsleepHolds` has the hypothesis `TestsFind`: a wiring that passes the three tests has no bad line. It is a fold over
  what the tests write and read, which needs an induction; the run `ddr` evaluates it for its lines.
  The rest, that the memory was tested at all, trained, refreshed and reachable, or asleep and not, is proved.

The hypotheses of these theorems are the conditions under which the runs check the same properties, or wider ones; section 6
shows what happens outside of them.

Only model-checked: all liveness (`TurnedOnRuns`, the liveness of `CpuPower`,
both `Answered`, `Returns`, `CommandsEnd`, `Ends`, `SignalEnds`), which TLAPS does not reach; the pure functions
of `CStrings`, `Format`, `MemTest`, `Firewalls`, `ImageHeader` and the descriptors, which
are recursive over data or are evaluated on bounded inputs; which faults the memory tests find.

## 5. Not modelled, and why

* USB: isochronous and SuperSpeed paths, which the build compiles and this device never takes; `stop_device`, which has no caller;
  register formats; the requests of vendors. SCSI replies are told apart only as far as they are replies.
* SD: eMMC, erase and partitions (never called), CMD23, high speed and DMA (off
  in this build), SWITCH_ERROR.
* Commands: `help` (no state), the checksum `load_sd` prints, `load_sd` of blocks
  that are not a staged image.
* Console: the wording of the output. `console_key_pressed` has no caller.
* PMIC: values in millivolts.
* Clocks: the gates of SDMMC1 and GPIO and the dump, single stores; frequencies are names.
* DDR: the warm start, which the board's configuration never asks for (what it would need is
  `WarmStartCovered`), `stm32mp_ddr_test_rw_access` (used by it only), values of most registers,
  DDR3 and DDR4, which this board does not compile in: their headers are the largest files of the tree. A second
  `ddr_init()` of a sleeping memory, and the way out of standby, which is the boot of another image.
* RIF: the CID filters of RISAB, GPIO and UART registers: single stores of constants.
* Image tools: options, messages, failing files.
* printf and string: floating point, which the Makefile takes out; a format that ends inside a specification and the number
  without a positive counterpart, for which C gives the code no value; `memset` and `memcpy`. The demonstration image: no state.
* Demonstrations: see `Scanout` in section 2.
* Register headers, tables of constants: no behaviour.

## 6. Where code and sources disagree

Each row is one of the findings of `PROJECT.json`. "Constants" says how TLC shows it: the change
to the configuration of the run named there, with the property added to it. Those that ask `usb_control` for other requests
or link events are outside of `HostAssumption` (`MCUsbControl`), which states the hypotheses of the theorems.

| Property | Constants | What |
|---|---|---|
| `NotStranded` | `psci_hotplug`, `OnAfterPark = FALSE` | CPU_OFF clears `core1_on` before the parting core has cleared the mailbox. A CPU_ON between the two is accepted, then erased; core 1 stays in the pen while every later CPU_ON returns ALREADY_ON |
| `OffMeansLeft` | `psci_hotplug`, `HotUnplug = {0, 1}` | CPU_OFF by core 0 clears `core1_on` too, and core 1 counts as OFF while it runs |
| `IdleArmed` | `msc_reset`, `Signals = {"BOT_RESET"}` | a bulk-only reset in the data phase of a write sets `BOT_IDLE` but cannot arm the endpoint, on which the old transfer is still under way: the next command block is taken for data |
| `Answered` (UsbMsc) | `msc_serve`, `WildLba = TRUE` | a WRITE10 beyond the card is answered on the IN endpoint while the host sends data to an OUT endpoint that is neither armed nor stalled |
| `InitAgrees` | `sd_faults`, `Faults = {"CMD_LOST"}` | ACMD6 lost twice is retried without its CMD55; the card takes the last one as SWITCH_FUNC and answers. `sd_init()` returns 0 with controller and card on different bus widths |
| `WriteMeansWritten` | `sd_faults`, `StatusErrors = TRUE` | the error bits of the card status are never looked at |
| `LinuxComplete` | `commands_faults`, `Asked = {"boot"}`, `DdrFaults = {"TEST"}` | `ddr_init()` sets the size before its tests, so the command after a failed one takes the memory for good |
| `TestBeforeData` | `commands_all`, `Asked = {"load_sd", "ddr"}`, no faults | `ddr` goes by its own flag, and tests a memory that holds images |
| `JumpNeedsDdr` | `commands_all`, `Asked = {"jump", "load_sd"}`, no faults | `jump` does not bring the memory up |
| `NoPanic` | `commands_all`, `Asked = {"usb"}`, no faults | the second `usb` asserts: the driver is never taken down |
| `OkMeansRestored` | `commands_all`, `Asked = {"sdw"}`, `SdFaults = {"READ"}` | after a failed read-back the pattern stays; the next `sdw` saves, restores and calls it OK |
| `Vdd1First` | `pmic` | the rails are gone through whatever fails: vdd2 comes up without vdd1 |
| `VoltagesKept` | `pmic` | after a wait given up a late byte is taken for another register, and written back to it |
| `ErrorMeansBypass` | `clocks` | the function for PLL1 returns an error with the cluster on PLL1 |
| `ReturnsTrue` without `dropped[c] < Retries` | `clocks` | a channel whose writes were lost in every round is reported set |
| `ImplementsPipe` | `usb_control`, with GET_MAX_LUN to interface 1 | the interface after the last is served |
| `ReadyForSetup` | `usb_control`, with SET_INTERFACE | a request the class refuses is answered with a status stage as well: it waits in the way of the next SETUP |
| `Answered` (UsbControl) | `usb_control`, with GET_STATUS of an endpoint | the refusal stalls IN alone: neither a status stage nor a setup TRB |
| `Answered` (UsbControl) | `usb_control`, with GET_DESCRIPTOR of length 0 | no status stage |
| `ImplementsPipe` | `usb_control`, `LinkEvents = {"L1SUSPEND"}` | L1 events are taken for DISCONNECT |
| `WarmStartCovered` without its exception | `ddr` | the registers of the periodic training are not retained |
| `FrameSound` | `scanout`, `RampRows = 2` | rows beyond the table of colours |
| `HandedBack` | `scanout`, with a board whose connector without encoder may get the CRTC of another screen | that screen is dark afterwards |
| `HandedBack` without `pc = "crashed"` in its alternative | `scanout` | `gbm_surface_lock_front_buffer()` returns NULL, `fb_for_bo()` does not look, and the crash leaves the screen dark |
| `BoardParameters` | evaluated by `ddr` | bit 12 of the training steps, which a comment reserves, is set: the header of the message block has it as a training step |
| `NumbersHaveDigits` | its value for the line `s +` is FALSE | a sign, "0x" or a blank after "=" counts as an argument of value 0 |
| `ReturnsWritten` | its value for the format `%c` and a NUL is FALSE | `printf_()` counts a character it does not send |
| `PostambleAgrees` | its value for this board is FALSE | the PHY is set to the longer write postamble, the memory to the shorter one |

Seen while modelling, with no property behind it: the configuration descriptor keeps packets of 512 bytes at full speed
(`usb_msc.c:424`); the check of the list of retained registers is off by one
(`reginterface.c:80`; the board's list fills it exactly, which `WarmStartCovered` watches);
`stm32mp_ddr_wait_refresh_update_done_ack` reads back the bit it wrote
(`stm32mp_ddr.c:281`); `ddr_restore_sr_mode` does nothing
(`stm32mp2_ddr_helpers.c:517`); after a warm start the low-power interface stays off
(`stm32mp2_ddr.c:501`). `ZerosOnTheLeft` is FALSE: with the minus flag a precision adds no zeros,
which the standard of C asks for; no format of the loader has both.

Outside of the findings: a setup that the host sends after its reset but before the driver has
seen that reset leaves two setup TRBs (`ReadyForSetup` fails without `ResetSeen` in
`HostAsks`; the run lets the host wait); a reply of exactly a multiple of 64 bytes would miss its
packet of no bytes, which no descriptor here has; GET_STATUS of length 1 sends 2 bytes. In the console "ab^Ccd\r" in one
go runs "abcd", since the interrupt is a flag beside the ring; an escape sequence survives a Ctrl-C;
the index into the history survives an empty line; "^X", which a control
character echoes as, is two columns and one character, so that a backspace after it
leaves one behind (`ShownIsLine` says what holds instead).

## 7. Plan

Done: every component of the boot path, four abstract specifications with the
refinements that TLC checks, and proofs about `Psci`, `Commands`, `Clocks`, `Pmic`, `Console`, `UsbMsc`,
`UsbControl`, `SdCard`, `Scanout` and the memory's modules, of every invariant the runs check, and of the
safety of all four refinements. Next:

1. `MemTest`: which faults the three tests find, for any number of lines, as far as folds allow.
