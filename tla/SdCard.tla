------------------------------- MODULE SdCard -------------------------------
(***************************************************************************)
(* sd_init(), sd_read() and sd_write(): the MMC framework (mmc.c) on the    *)
(* SDMMC driver (stm32_sdmmc2.c), one step per command sent on the bus.     *)
(*                                                                         *)
(* A call is a script of commands with its data phase and its polls of the  *)
(* card's state.  Any command, its response or a data phase may be hit by a *)
(* fault; the driver then retries, stops the transfer or gives up.  The     *)
(* card is the state machine of the SD specification, as far as the driver  *)
(* depends on it: an illegal command gets no response.                      *)
(*                                                                         *)
(* CMD23 and the high-speed switch are off (sd_params.flags is 0), and so   *)
(* is DMA (plat_sdmmc2_use_dma() is false): their branches are left out.    *)
(***************************************************************************)
EXTENDS Integers, Sequences

CONSTANTS
  NumBlocks,    \* capacity of the card
  MaxCount,     \* longest transfer asked for
  Data,         \* the values a block can hold
  NULL,
  Faults,       \* what may go wrong on the bus
  MaxFaults,    \* bound: so many faults in a behaviour
  StatusErrors, \* may the card report a failed write in its status bits only?
  OpCondTries   \* SEND_OP_COND_MAX_RETRIES

ASSUME SdAssumption ==
  /\ NumBlocks \in Nat \ {0} /\ MaxCount \in Nat \ {0} /\ MaxFaults \in Nat
  /\ OpCondTries \in Nat \ {0}
  /\ Data # {} /\ NULL \notin Data
  /\ Faults \subseteq {"IO_SUPPLY", "CMD_LOST", "RESP_LOST", "DATA", "LINGER"}
  /\ StatusErrors \in BOOLEAN

CmdTries == 3   \* stm32_sdmmc2_send_cmd()
MaxRetries == 5 \* MMC_DEFAULT_MAX_RETRIES

VARIABLES
  card,    \* the card: state, awaiting an ACMD, 4-bit bus, addressing, transfer
  disk,    \* its contents
  ctrl,    \* the controller: direction in DCTRLR, DPSMACT, 4-bit bus
  mmc,     \* statics of the drivers: type, ocr, size, next_cmd_is_acmd, ...
  job,     \* the call being served, or NULL
  run,     \* where it is: step and the retries left
  ans,     \* result of the last read or write, as BlockDisk has it
  up,      \* the last sd_init() returned 0
  trouble, \* what the call in progress ran into: faults, a card still busy
  faults   \* faults so far

bus == <<card, disk, ctrl, mmc>>
vars == <<card, disk, ctrl, mmc, job, run, ans, up, trouble, faults>>

Blocks == 0 .. NumBlocks - 1
Request ==
  {r \in [op : {"READ10", "WRITE10"}, lba : Blocks, cnt : 1 .. MaxCount, val : Data \cup {NULL}] :
     r.lba + r.cnt <= NumBlocks /\ (r.val \in IF r.op = "WRITE10" THEN Data ELSE {NULL})}
SdInit == [op |-> "INIT"]

\* NULL stands for no call.
ASSUME NullAssumption == NULL \notin Request \cup {SdInit}

-----------------------------------------------------------------------------
(* The scripts: mmc_enumerate() with mmc_sd_switch(), mmc_read_blocks() and *)
(* mmc_write_blocks() with prepare().  CMD16 is the command of prepare().   *)

\* A wrong variant, for the sensitivity checks: no CMD55 before SET_BUS_WIDTH.
mmc_sd_switch_no_55 == <<"CMD16", "CMD55", "ACMD51", "DATA", "ACMD6", "WAIT">>

mmc_sd_switch == <<"CMD16", "CMD55", "ACMD51", "DATA", "CMD55", "ACMD6", "WAIT">>

mmc_enumerate ==
  <<"CMD0", "CMD8", "CMD55", "ACMD41", "CMD2", "CMD3", "CMD9", "CMD7", "WAIT">> \o mmc_sd_switch

mmc_read_blocks(r) ==
  IF r.cnt > 1 THEN <<"CMD16", "CMD18", "DATA", "WAIT", "CMD12">>
               ELSE <<"CMD16", "CMD17", "DATA", "WAIT">>

mmc_write_blocks(r) ==
  IF r.cnt > 1 THEN <<"CMD16", "CMD25", "DATA", "WAIT", "CMD12">>
               ELSE <<"CMD16", "CMD24", "DATA", "WAIT">>

Script ==
  CASE job.op = "INIT" -> mmc_enumerate
    [] job.op = "READ10" -> mmc_read_blocks(job)
    [] job.op = "WRITE10" -> mmc_write_blocks(job)

Step == Script[run.pc]
Doing(steps) == job # NULL /\ run.stop = 0 /\ Step \in steps
Commands == {"CMD0", "CMD2", "CMD3", "CMD7", "CMD8", "CMD9", "CMD12", "CMD16", "CMD17",
             "CMD18", "CMD24", "CMD25", "CMD55", "ACMD6", "ACMD41", "ACMD51"}

(* At step pc: the tries left of the command, the rounds of the loop it is  *)
(* in, the CMD13s left, the tries left of a CMD12 that stops a transfer and *)
(* what follows it, and the blocks read so far.                             *)
Start(pc) ==
  [pc |-> pc, tries |-> CmdTries, loops |-> 0, polls |-> MaxRetries,
   stop |-> 0, then |-> "NONE", got |-> <<>>]

\* Wrong variant: the card is expected back in tran even inside a CMD25.
Settled_tran_only(state) == state = "tran"

(* The states mmc_device_state() is polled for, at this step.               *)
Settled(state) ==
  CASE job.op = "INIT" /\ run.pc = 9 -> state = "tran"
    [] job.op = "INIT" /\ run.pc # 9 -> state # "prg"
    [] job.op = "READ10" -> state \in {"tran", "data"}
    [] job.op = "WRITE10" -> state \in {"tran", "rcv"}

-----------------------------------------------------------------------------
(* The card.                                                                *)

CardUnit == IF card.type = "SD_HC" THEN "SECTOR" ELSE "BYTE"
ReadUnit == IF mmc.ocr = "BYTE" /\ mmc.type # "SD_HC" THEN "BYTE" ELSE "SECTOR"
WriteUnit == mmc.ocr

(* An argument in the other unit names a block beyond the card or no block. *)
Addressed(unit) == unit = CardUnit \/ job.lba = 0

(* How the card takes a command: its next state, and whether it responds.   *)
Answers(cmd) ==
  LET to(s) == [card |-> [card EXCEPT !.state = s, !.app = FALSE], ok |-> TRUE]
      transfer(s, burst) ==
        [card |-> [card EXCEPT !.state = s, !.app = FALSE, !.burst = burst], ok |-> TRUE]
      illegal == [card |-> [card EXCEPT !.app = FALSE], ok |-> FALSE]
      when(cond, answer) == IF cond THEN {answer} ELSE {illegal}
      s0 == card.state
  IN CASE cmd = "CMD0" ->
            {[card |-> [card EXCEPT !.state = "idle", !.app = FALSE, !.wide = FALSE], ok |-> TRUE]}
       [] cmd = "CMD8" -> when(s0 = "idle", to("idle"))
       [] cmd = "CMD55" -> when(s0 \notin {"ready", "ident"},
                                [card |-> [card EXCEPT !.app = TRUE], ok |-> TRUE])
       [] cmd = "ACMD41" -> IF card.app /\ s0 = "idle" THEN {to("ready"), to("idle")} ELSE {illegal}
       [] cmd = "CMD2" -> when(s0 = "ready", to("ident"))
       [] cmd = "CMD3" -> when(s0 \in {"ident", "stby"}, to("stby"))
       [] cmd = "CMD9" -> when(s0 = "stby", to("stby"))
       [] cmd = "CMD7" -> when(s0 = "stby", to("tran"))
       [] cmd = "CMD13" -> when(s0 \in {"stby", "tran", "data", "rcv", "prg"}, to(s0))
       [] cmd = "CMD16" -> when(s0 = "tran", to("tran"))
       [] cmd = "ACMD51" -> when(card.app /\ s0 = "tran", transfer("data", "one"))
       [] cmd = "ACMD6" -> IF card.app
            THEN when(s0 = "tran", [card |-> [card EXCEPT !.app = FALSE, !.wide = TRUE], ok |-> TRUE])
            ELSE when(s0 = "tran", transfer("data", "one")) \* SWITCH_FUNC sends its status
       [] cmd = "CMD12" -> CASE s0 = "data" -> {to("tran")}
                             [] s0 = "rcv" -> {to("prg")}
                             [] OTHER -> {illegal}
       [] cmd \in {"CMD17", "CMD18"} ->
            when(s0 = "tran", IF Addressed(ReadUnit)
                              THEN transfer("data", IF cmd = "CMD17" THEN "one" ELSE "many")
                              ELSE to("tran"))
       [] cmd \in {"CMD24", "CMD25"} ->
            when(s0 = "tran", IF Addressed(WriteUnit)
                              THEN transfer("rcv", IF cmd = "CMD24" THEN "one" ELSE "many")
                              ELSE to("tran"))

(* Left alone, the card finishes programming, and finishes sending one block *)
(* nobody receives; until then it is busy.                                  *)
LeftBusy == card.state = "prg" \/ (card.state = "data" /\ card.burst = "one")

CardProgrammed ==
  /\ card.state = "prg"
  /\ card' = [card EXCEPT !.state = "tran"]
  /\ UNCHANGED <<disk, ctrl, mmc, job, run, ans, up, trouble, faults>>

CardSent ==
  /\ card.state = "data" /\ card.burst = "one"
  /\ ~(ctrl.active /\ ctrl.dir = "READ")
  /\ card' = [card EXCEPT !.state = "tran"]
  /\ UNCHANGED <<disk, ctrl, mmc, job, run, ans, up, trouble, faults>>

-----------------------------------------------------------------------------
(* The end of a call, and of a step of it.  c and m are the controller and  *)
(* the statics as the step leaves them.                                     *)

\* The controller after stm32_sdmmc2_init(), and after set_ios().
stm32_sdmmc2_init == [dir |-> "OFF", active |-> FALSE, wide |-> FALSE]
stm32_sdmmc2_set_ios(c) == [c EXCEPT !.wide = TRUE]

Return(status, c, m, got) ==
  /\ job' = NULL
  /\ run' = Start(1)
  /\ IF job.op = "INIT"
     THEN /\ up' = (status = "PASS")
          /\ ctrl' = IF up' THEN stm32_sdmmc2_set_ios(c) ELSE c
          /\ mmc' = IF up' THEN [m EXCEPT !.size = NumBlocks] ELSE m
          /\ UNCHANGED ans
     ELSE /\ ans' = [status |-> status, data |-> IF status = "PASS" THEN got ELSE <<>>]
          /\ ctrl' = c
          /\ mmc' = [m EXCEPT !.write_pending = FALSE]
          /\ UNCHANGED up

Continue(next, c, m) ==
  /\ run' = next
  /\ ctrl' = c
  /\ mmc' = m
  /\ UNCHANGED <<job, ans, up>>

StepDone(c, m, got) ==
  IF run.pc = Len(Script) THEN Return("PASS", c, m, got)
  ELSE Continue([Start(run.pc + 1) EXCEPT !.got = got], c, m)

(* send_cmd() has lost an attempt: it tries again, up to three times, and   *)
(* leaves CMD13 to mmc_device_state(), which counts it as a poll.  The loop *)
(* around ACMD51 starts it over.                                            *)
AttemptFailed(c, m) ==
  LET again == [run EXCEPT !.stop = 0, !.then = "NONE"]
  IN CASE Step = "WAIT" -> Continue([again EXCEPT !.polls = @ - 1], c, m)
       [] Step # "WAIT" /\ run.tries > 1 -> Continue([again EXCEPT !.tries = @ - 1], c, m)
       [] Step = "ACMD51" /\ run.tries = 1 /\ run.loops < MaxRetries ->
            Continue([again EXCEPT !.tries = CmdTries, !.loops = @ + 1], c, m)
       [] OTHER -> Return("FAIL", c, m, <<>>)

Blame(f, met) ==
  /\ faults' = IF f = "NONE" THEN faults ELSE faults + 1
  /\ trouble' = trouble \cup (IF f = "NONE" THEN {} ELSE {"FAULT"})
                        \cup (IF met THEN {"BUSY"} ELSE {})

Fault(kinds) == {"NONE"} \cup (IF faults < MaxFaults THEN Faults \cap kinds ELSE {})

-----------------------------------------------------------------------------
(* stm32_sdmmc2_send_cmd_req(): one command and what becomes of it.         *)

DataCommand(cmd) ==
  \/ cmd \in {"CMD17", "CMD18", "CMD24", "CMD25", "ACMD51"}
  \/ cmd = "ACMD6" /\ mmc.type = "SD_HC" /\ ~mmc.next_cmd_is_acmd

\* The controller once cmd is sent: DCTRLR is cleared unless data follows or
\* may follow, and CMD12 stops the data path.
Sent(cmd) ==
  [ctrl EXCEPT !.dir = IF DataCommand(cmd) \/ cmd = "CMD55" THEN @ ELSE "OFF",
               !.active = CASE cmd = "CMD12" -> FALSE
                            [] DataCommand(cmd) -> TRUE
                            [] OTHER -> @]

Noted(cmd) == [mmc EXCEPT !.next_cmd_is_acmd = (cmd = "CMD55")]

\* stm32_sdmmc2_prepare(), after its CMD16: the direction of the transfer.
Prepared(c, m) == [c EXCEPT !.dir = IF m.write_pending THEN "WRITE" ELSE "READ"]

(* The command itself succeeded: what the framework makes of the response.  *)
CommandDone(c, m, after) ==
  CASE Step = "CMD16" -> StepDone(Prepared(c, m), m, run.got)
    [] Step = "ACMD41" /\ after.state = "ready" ->
         StepDone(c, [m EXCEPT !.type = card.type, !.ocr = CardUnit], run.got)
    [] Step = "ACMD41" /\ after.state # "ready" /\ run.loops + 1 < OpCondTries ->
         Continue([Start(run.pc - 1) EXCEPT !.loops = run.loops + 1], c, m)
    [] Step = "ACMD41" /\ after.state # "ready" /\ run.loops + 1 = OpCondTries ->
         Return("FAIL", c, m, <<>>)
    [] Step = "CMD55" -> \* keeps the count of the loop around CMD55 and ACMD41
         Continue([Start(run.pc + 1) EXCEPT !.loops = run.loops], c, m)
    [] OTHER -> StepDone(c, m, run.got)

(* No response: a transfer the command may have started is stopped first.   *)
CommandFailed(c, m) ==
  IF c.active THEN Continue([run EXCEPT !.stop = CmdTries, !.then = "RETRY"], c, m)
  ELSE AttemptFailed(c, m)

Command ==
  /\ Doing(Commands)
  /\ UNCHANGED disk
  /\ \E f \in Fault({"CMD_LOST", "RESP_LOST"}), a \in Answers(Step) :
       LET ok == Step = "CMD0" \/ (f = "NONE" /\ a.ok)
       IN /\ card' = IF f = "CMD_LOST" THEN card ELSE a.card
          /\ Blame(f, \/ ~ok /\ LeftBusy
                      \/ Step = "ACMD41" /\ ok /\ a.card.state = "idle")
          /\ IF ok THEN CommandDone(Sent(Step), Noted(Step), a.card)
                   ELSE CommandFailed(Sent(Step), Noted(Step))

(* mmc_device_state(): CMD13 until READY_FOR_DATA, and no more than five.   *)
(* A data phase ends with the card ready again; a CMD12 does not.           *)
Wait ==
  /\ Doing({"WAIT"}) /\ run.polls > 0
  /\ UNCHANGED disk
  /\ \E f \in Fault({"CMD_LOST", "RESP_LOST"}), a \in Answers("CMD13"),
        ready \in IF card.state = "prg" /\ card.burst = "many" THEN BOOLEAN ELSE {TRUE} :
       LET c == Sent("CMD13")
           m == Noted("CMD13")
       IN /\ card' = IF f = "CMD_LOST" THEN card ELSE a.card
          /\ Blame(f, FALSE)
          /\ CASE f # "NONE" \/ ~a.ok -> CommandFailed(c, m)
               [] f = "NONE" /\ a.ok /\ ~ready -> AttemptFailed(c, m)
               [] f = "NONE" /\ a.ok /\ ready /\ Settled(card.state) -> StepDone(c, m, run.got)
               [] OTHER -> Continue([run EXCEPT !.polls = MaxRetries], c, m)

WaitGivesUp ==
  /\ Doing({"WAIT"}) /\ run.polls = 0
  /\ Return("FAIL", ctrl, mmc, <<>>)
  /\ UNCHANGED <<card, disk, trouble, faults>>

(* stm32_sdmmc2_stop_transfer(), wherever it is called from.                *)
StopTransfer ==
  /\ job # NULL /\ run.stop > 0
  /\ UNCHANGED disk
  /\ \E f \in Fault({"CMD_LOST", "RESP_LOST"}), a \in Answers("CMD12") :
       LET ok == f = "NONE" /\ a.ok
           c == Sent("CMD12")
           m == Noted("CMD12")
       IN /\ card' = IF f = "CMD_LOST" THEN card ELSE a.card
          /\ Blame(f, FALSE)
          /\ CASE ~ok /\ run.stop > 1 -> Continue([run EXCEPT !.stop = @ - 1], c, m)
               [] (ok \/ run.stop = 1) /\ run.then = "RETRY" -> AttemptFailed(c, m)
               [] (ok \/ run.stop = 1) /\ run.then = "FAIL" -> Return("FAIL", c, m, <<>>)
               [] ok /\ run.then = "RESULT" -> StepDone(c, m, run.got)
               [] OTHER -> Return("FAIL", c, m, <<>>)

-----------------------------------------------------------------------------
(* ops->read() and ops->write(): the data phase.  It moves what it should   *)
(* only if the data path was started in its direction, at the width of the  *)
(* card, while the card is in the matching state; it can end in an error or *)
(* a timeout all the same, and DPSMACT can outlive the last block.          *)

Direction == IF job.op = "WRITE10" THEN "WRITE" ELSE "READ"

Moving ==
  /\ ctrl.active /\ ctrl.dir = Direction
  /\ ctrl.wide = card.wide
  /\ card.state = IF Direction = "WRITE" THEN "rcv" ELSE "data"

Asked == job.lba .. job.lba + job.cnt - 1
Stored(blocks) == [b \in Blocks |-> IF b \in blocks THEN job.val ELSE disk[b]]

\* The card when all blocks have passed.
Moved ==
  IF card.burst = "many" THEN card
  ELSE [card EXCEPT !.state = IF Direction = "WRITE" THEN "prg" ELSE "tran"]

Ended(f) ==
  LET got == IF job.op = "READ10" THEN [i \in 1 .. job.cnt |-> disk[job.lba + i - 1]] ELSE <<>>
      c == [ctrl EXCEPT !.active = FALSE]
  IN IF f = "LINGER"
     THEN Continue([run EXCEPT !.stop = CmdTries, !.then = "RESULT", !.got = got], ctrl, mmc)
     ELSE StepDone(c, mmc, got)

DataDone ==
  /\ Doing({"DATA"}) /\ Moving
  /\ card' = Moved
  /\ \E f \in Fault({"LINGER"}) : Blame(f, FALSE) /\ Ended(f)
  /\ IF Direction = "READ" THEN UNCHANGED disk
     ELSE \E stored \in IF StatusErrors THEN SUBSET Asked ELSE {Asked} : disk' = Stored(stored)

\* Wrong variants: error flags not looked at, and a failure without CMD12.
DataError_ignored == StepDone([ctrl EXCEPT !.active = FALSE], mmc, <<>>)
DataError_no_stop == Return("FAIL", [ctrl EXCEPT !.dir = "OFF", !.active = FALSE], mmc, <<>>)

(* An error flag or the software timeout: the FIFO is reset and the         *)
(* transfer is stopped.  Of a write some first blocks are stored.           *)
DataError ==
  Continue([run EXCEPT !.stop = CmdTries, !.then = "FAIL"], [ctrl EXCEPT !.dir = "OFF"], mmc)

DataFailed ==
  /\ Doing({"DATA"})
  /\ \E f \in Fault({"DATA"}) :
       /\ f = "NONE" => ~Moving
       /\ Blame(f, FALSE)
  /\ IF Moving /\ Direction = "WRITE"
     THEN \E k \in 0 .. job.cnt - 1 : disk' = Stored(job.lba .. job.lba + k - 1)
     ELSE UNCHANGED disk
  /\ card' \in IF Moving /\ card.burst = "one" THEN {card, [card EXCEPT !.state = "tran"]} ELSE {card}
  /\ DataError

-----------------------------------------------------------------------------
(* The calls.                                                               *)

\* Wrong variant: the coming write is not announced to prepare().
SdCall_no_hint(r) ==
  /\ job = NULL
  /\ mmc.size # 0
  /\ job' = r
  /\ trouble' = {}
  /\ UNCHANGED <<card, disk, ctrl, mmc, run, ans, up, faults>>

SdCall(r) == \* sd_read(), sd_write()
  /\ job = NULL
  /\ mmc.size # 0
  /\ job' = r
  /\ mmc' = [mmc EXCEPT !.write_pending = (r.op = "WRITE10")]
  /\ trouble' = {}
  /\ UNCHANGED <<card, disk, ctrl, run, ans, up, faults>>

\* sd_init(): the I/O supply, then a reset of the controller; the card keeps
\* its power.
SdInitCall ==
  /\ job = NULL
  /\ trouble' = {}
  /\ job' = SdInit
  /\ ctrl' = stm32_sdmmc2_init
  /\ up' = FALSE
  /\ mmc' = [mmc EXCEPT !.vddio1 = TRUE]
  /\ UNCHANGED <<card, disk, run, ans, faults>>

SdInitNoSupply ==
  /\ job = NULL
  /\ ~mmc.vddio1
  /\ "IO_SUPPLY" \in Fault({"IO_SUPPLY"})
  /\ Blame("IO_SUPPLY", FALSE)
  /\ UNCHANGED <<card, disk, ctrl, mmc, job, run, ans, up>>

Init ==
  /\ card \in [state : {"idle"}, app : {FALSE}, wide : {FALSE}, type : {"SD", "SD_HC"},
               burst : {"one"}]
  /\ disk \in [Blocks -> Data]
  /\ ctrl = stm32_sdmmc2_init
  /\ mmc = [type |-> "SD_HC", ocr |-> "BYTE", size |-> 0, vddio1 |-> FALSE,
            next_cmd_is_acmd |-> FALSE, write_pending |-> FALSE]
  /\ job = NULL
  /\ run = Start(1)
  /\ ans = NULL
  /\ up = FALSE
  /\ trouble = {}
  /\ faults = 0

Driver == Command \/ Wait \/ WaitGivesUp \/ StopTransfer \/ DataDone \/ DataFailed
Card == CardProgrammed \/ CardSent
Calls == SdInitCall \/ SdInitNoSupply \/ \E r \in Request : SdCall(r)

Next == Driver \/ Card \/ Calls

Spec == Init /\ [][Next]_vars

\* The driver runs, and a card that programs or sends gets done.
FairSpec == Spec /\ WF_vars(Driver) /\ WF_vars(CardProgrammed) /\ WF_vars(CardSent)

-----------------------------------------------------------------------------
CardStates == {"idle", "ready", "ident", "stby", "tran", "data", "rcv", "prg"}

\* Types; the counters of the retry loops stay in their ranges.
TypeOK ==
  /\ card \in [state : CardStates, app : BOOLEAN, wide : BOOLEAN, type : {"SD", "SD_HC"},
               burst : {"one", "many"}]
  /\ disk \in [Blocks -> Data]
  /\ ctrl \in [dir : {"OFF", "READ", "WRITE"}, active : BOOLEAN, wide : BOOLEAN]
  /\ mmc \in [type : {"SD", "SD_HC"}, ocr : {"BYTE", "SECTOR"}, size : {0, NumBlocks},
              vddio1 : BOOLEAN, next_cmd_is_acmd : BOOLEAN, write_pending : BOOLEAN]
  /\ job \in Request \cup {SdInit, NULL}
  /\ job # NULL => run.pc \in DOMAIN Script
  /\ run.tries \in 1 .. CmdTries /\ run.stop \in 0 .. CmdTries
  /\ run.polls \in 0 .. MaxRetries
  /\ run.loops \in 0 .. IF OpCondTries > MaxRetries THEN OpCondTries ELSE MaxRetries
  /\ trouble \subseteq {"FAULT", "BUSY"}

(* Same bus width, same kind of address for reads and for writes.           *)
Agreed ==
  /\ ctrl.wide /\ card.wide
  /\ mmc.type = card.type /\ ReadUnit = CardUnit /\ WriteUnit = CardUnit

\* sd_init() returns 0 only with the card and the controller in agreement.
InitAgrees == up => Agreed

\* The same of a bus on which no more than one thing ever went wrong: one
\* lost command or response is retried without any harm.
InitAgreesOneFault == up /\ faults < 2 => Agreed

\* With fewer faults than it takes to lose a command three times, no call
\* returns with the card in the middle of a transfer nobody will end.
NotWedged ==
  job = NULL /\ up => card.state = "tran" \/ LeftBusy

\* A read or write on a card that agrees with the controller, and an
\* sd_init(), fail only if a fault hit one of their commands or the card was
\* still busy with what the last call left it, or powering up.
FailureExplained ==
  [][job # NULL /\ job' = NULL =>
       \/ trouble' # {}
       \/ IF job.op = "INIT" THEN up' ELSE up /\ Agreed => ans'.status = "PASS"]_vars

\* "0 on success" (sd.h:20): a write that returns 0 is on the card.
WriteMeansWritten ==
  [][job # NULL /\ job' = NULL /\ job.op = "WRITE10" /\ ans'.status = "PASS" =>
       \A b \in Asked : disk'[b] = job.val]_vars

Disk == INSTANCE BlockDisk WITH
          Faulty <- TRUE, req <- IF job = NULL \/ job = SdInit THEN NULL ELSE job

\* The card and its driver are the disk of BlockDisk: retries, stops and
\* partial writes never return wrong blocks or touch others.
ImplementsDisk == Disk!BDSpec

\* Every call returns.
Returns == job # NULL ~> job = NULL
=============================================================================
