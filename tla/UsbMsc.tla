------------------------------- MODULE UsbMsc -------------------------------
(***************************************************************************)
(* The mass-storage class of the "usb" command (drivers/usb/usb_msc.c) on   *)
(* its two bulk endpoints, as the one poll loop of cmd_usb drives it.       *)
(*                                                                         *)
(* One Poll step takes one event from the controller's event buffer and     *)
(* runs the whole call chain below usb_core_handle_it(): the DWC3 handler,  *)
(* the core, the class callback, sd_read/sd_write and the next transfer.    *)
(* The host, the wire and the controller run between any two polls.         *)
(*                                                                         *)
(* Lengths are counted in half blocks: a 512-byte packet is 2, a short one  *)
(* (CBW, CSW or a small reply) is 1.                                        *)
(***************************************************************************)
EXTENDS Integers, Sequences

CONSTANTS
  NumBlocks,    \* capacity of the card, sd_size_bytes() / BLOCK_SIZE
  ChunkBlocks,  \* CHUNK_BYTES / BLOCK_SIZE
  MaxCount,     \* longest READ10/WRITE10 the host asks for
  Data,         \* the values a block can hold
  Tags,         \* CBW tags
  NULL,
  ReadFaults,   \* may sd_read() fail?
  WriteFaults,  \* may sd_write() fail?
  WildLba,      \* does the host ask for blocks beyond the card?
  Asked,        \* the operations the host asks for
  Signals,      \* what else the host does, see HostSignals
  MaxEvents     \* bound: the host leaves the bus alone with this many events unread

ASSUME MscAssumption ==
  /\ NumBlocks \in Nat \ {0} /\ ChunkBlocks \in Nat \ {0} /\ MaxCount \in Nat \ {0}
  /\ Data # {} /\ Tags # {} /\ NULL \notin Data \cup Tags
  /\ {ReadFaults, WriteFaults, WildLba} \subseteq BOOLEAN
  /\ Asked \subseteq {"TEST_UNIT_READY", "INQUIRY", "REQUEST_SENSE", "READ10", "WRITE10", "UNKNOWN"}
  /\ Signals \subseteq {"EARLY_BOT_RESET", "BOT_RESET", "RESET", "SUSPEND"}
  /\ MaxEvents \in Nat

VARIABLES
  bot_state,   \* usb_msc.c: BOT_IDLE, BOT_DATA_IN, BOT_DATA_OUT or BOT_CSW
  cbw,         \* the command block being served
  io,          \* io_lba, io_blocks_left, io_chunk_blocks
  sense,       \* sense_key/sense_asc, named for the failure
  xfer_buf,    \* the data buffer, one entry per block
  dev_state,   \* usb_device.c
  dev_old_state,
  out,         \* OUT endpoint: driver view and the transfer in the controller
  in,          \* IN endpoint
  bounce,      \* the OUT bounce buffer, which receives CBWs
  events,      \* the controller's event buffer
  disk,        \* the card
  host         \* the host's side of the command in progress

device == <<bot_state, cbw, io, sense, xfer_buf>>
core == <<dev_state, dev_old_state>>
vars == <<bot_state, cbw, io, sense, xfer_buf, dev_state, dev_old_state,
          out, in, bounce, events, disk, host>>

Packet == 2
Short == 1
Blocks == 0 .. NumBlocks - 1

(* What a host can ask: a command without data, a small reply, blocks in or *)
(* out, and an opcode the class does not know.                              *)
Moves(c) == c.op \in {"READ10", "WRITE10"}

Command ==
  {c \in [op : Asked, lba : Blocks, cnt : 0 .. MaxCount, val : Data \cup {NULL}, tag : Tags] :
     /\ ~Moves(c) => c.lba = 0 /\ c.cnt = 0
     /\ c.val \in IF c.op = "WRITE10" THEN Data ELSE {NULL}
     /\ Moves(c) /\ c.cnt # 0 => WildLba \/ c.lba + c.cnt <= NumBlocks}

DataLength(c) ==
  CASE Moves(c) -> Packet * c.cnt
    [] c.op \in {"INQUIRY", "REQUEST_SENSE"} -> Short
    [] OTHER -> 0

Min2(a, b) == IF a <= b THEN a ELSE b

-----------------------------------------------------------------------------
(* usb_core_receive/transmit down to dwc3_ep_start_xfer().  Starting a      *)
(* transfer on an endpoint that already has one fails for want of a         *)
(* transfer resource: the driver forgets REQ_QUEUED, the caller ignores the *)
(* result, and the controller goes on with the old transfer or, having read *)
(* the TRB late, with the new one.                                          *)
Started(ep, xfer) ==
  {[queued |-> ep.hw = NULL, buf |-> xfer.buf, len |-> xfer.len,
    resid |-> xfer.len, hw |-> h] :
     h \in IF ep.hw = NULL THEN {xfer} ELSE {ep.hw, xfer}}

Idle(ep) == [ep EXCEPT !.queued = FALSE]

(* usb_core_receive(): a length below the packet size goes through the      *)
(* bounce buffer, and every length is rounded up to whole packets.          *)
Receive(buf, len) ==
  out' \in Started(out, [buf |-> buf, len |-> IF len < Packet THEN Packet ELSE len,
                         got |-> 0])

Transmit(payload, len) ==
  in' \in Started(in, [buf |-> payload, len |-> len, got |-> 0])

NoOut == out' = Idle(out)
NoIn == in' = Idle(in)

-----------------------------------------------------------------------------
(* usb_msc.c, in its order.                                                 *)

\* Wrong variant: ready for the next command without a transfer for it.
msc_arm_cbw_state_only ==
  /\ bot_state' = "BOT_IDLE"
  /\ NoOut

msc_arm_cbw ==
  /\ bot_state' = "BOT_IDLE"
  /\ Receive("cbw", Short)

msc_send_csw(status) ==
  /\ bot_state' = "BOT_CSW"
  /\ Transmit([kind |-> "CSW", tag |-> cbw'.tag, status |-> status], Short)

(* Wrong variants of the next two, for the sensitivity checks: a failure    *)
(* that reports success, a reply that leaves io_blocks_left alone.          *)
msc_fail_passes(why) ==
  /\ sense' = why
  /\ msc_send_csw("PASS")

msc_send_data_keeps_left(reply) ==
  /\ bot_state' = "BOT_DATA_IN"
  /\ UNCHANGED <<io, xfer_buf>>
  /\ Transmit([kind |-> "REPLY", what |-> reply], Min2(Short, DataLength(cbw')))

msc_fail(why) ==
  /\ sense' = why
  /\ msc_send_csw("FAIL")

(* A reply shorter than a block, capped to what the host asked for.         *)
msc_send_data(reply) ==
  /\ bot_state' = "BOT_DATA_IN"
  /\ io' = [io EXCEPT !.left = 0]
  /\ xfer_buf' = [i \in DOMAIN xfer_buf |-> IF i = 0 THEN NULL ELSE xfer_buf[i]]
  /\ Transmit([kind |-> "REPLY", what |-> reply], Min2(Short, DataLength(cbw')))

(* sd_read() of the next chunk, then the transfer that sends it.            *)
msc_continue_read(lba, left) ==
  LET n == Min2(left, ChunkBlocks)
      read == [i \in DOMAIN xfer_buf |-> IF i < n THEN disk[lba + i] ELSE xfer_buf[i]]
  IN  \/ /\ io' = [lba |-> lba + n, left |-> left - n, chunk |-> n]
         /\ xfer_buf' = read
         /\ bot_state' = "BOT_DATA_IN"
         /\ Transmit([kind |-> "BLOCKS", data |-> [i \in 1 .. n |-> read[i - 1]]],
                     Packet * n)
         /\ UNCHANGED sense
      \/ /\ ReadFaults
         /\ io' = [io EXCEPT !.lba = lba, !.left = left]
         /\ msc_fail("UNRECOVERED_READ")
         /\ UNCHANGED xfer_buf

msc_arm_write_chunk(lba, left) ==
  LET n == Min2(left, ChunkBlocks)
  IN  /\ io' = [lba |-> lba, left |-> left, chunk |-> n]
      /\ bot_state' = "BOT_DATA_OUT"
      /\ Receive("xfer_buf", Packet * n)

(* msc_cmd_dispatch(), on the command block cbw' just received.             *)
msc_cmd_dispatch(c) ==
  \/ /\ c.op = "TEST_UNIT_READY"
     /\ msc_send_csw("PASS") /\ NoOut
     /\ UNCHANGED <<io, sense, xfer_buf>>
  \/ /\ c.op = "INQUIRY"
     /\ msc_send_data("INQUIRY") /\ NoOut
     /\ UNCHANGED sense
  \/ /\ c.op = "REQUEST_SENSE"
     /\ sense' = "NONE"
     /\ msc_send_data(sense) /\ NoOut
  \/ /\ c.op \in {"READ10", "WRITE10"} /\ c.cnt = 0
     /\ msc_send_csw("PASS") /\ NoOut
     /\ UNCHANGED <<io, sense, xfer_buf>>
  \/ /\ c.op \in {"READ10", "WRITE10"} /\ c.cnt # 0 /\ c.lba + c.cnt > NumBlocks
     /\ msc_fail("LBA_OUT_OF_RANGE") /\ NoOut
     /\ UNCHANGED <<io, xfer_buf>>
  \/ /\ c.op = "READ10" /\ c.cnt # 0 /\ c.lba + c.cnt <= NumBlocks
     /\ msc_continue_read(c.lba, c.cnt) /\ NoOut
  \/ /\ c.op = "WRITE10" /\ c.cnt # 0 /\ c.lba + c.cnt <= NumBlocks
     /\ msc_arm_write_chunk(c.lba, c.cnt) /\ UNCHANGED in
     /\ UNCHANGED <<sense, xfer_buf>>
  \/ /\ c.op = "UNKNOWN"
     /\ msc_fail("INVALID_OPCODE") /\ NoOut
     /\ UNCHANGED <<io, xfer_buf>>

(* msc_data_in(): an IN transfer of ours completed.                         *)
msc_data_in ==
  /\ UNCHANGED <<cbw, disk>>
  /\ \/ /\ bot_state = "BOT_DATA_IN" /\ io.left # 0
        /\ msc_continue_read(io.lba, io.left) /\ UNCHANGED out
     \/ /\ bot_state = "BOT_DATA_IN" /\ io.left = 0
        /\ msc_send_csw("PASS")
        /\ UNCHANGED <<io, sense, xfer_buf, out>>
     \/ /\ bot_state = "BOT_CSW"
        /\ msc_arm_cbw /\ NoIn
        /\ UNCHANGED <<io, sense, xfer_buf>>
     \/ /\ bot_state \notin {"BOT_DATA_IN", "BOT_CSW"}
        /\ NoIn
        /\ UNCHANGED <<bot_state, io, sense, xfer_buf, out>>

\* Wrong variant: a whole chunk is written whatever its length.
StoredWholeChunk ==
  [b \in Blocks |->
     IF b \in io.lba .. io.lba + ChunkBlocks - 1 THEN xfer_buf[b - io.lba] ELSE disk[b]]

Stored == [b \in Blocks |->
             IF b \in io.lba .. io.lba + io.chunk - 1 THEN xfer_buf[b - io.lba] ELSE disk[b]]

(* msc_data_out(): an OUT transfer completed with count units in it.        *)
msc_data_out(count) ==
  \/ /\ bot_state = "BOT_IDLE"
     /\ IF count = Short /\ cbw' # NULL
        THEN msc_cmd_dispatch(cbw')
        ELSE msc_fail("INVALID_CBW") /\ NoOut /\ UNCHANGED <<io, xfer_buf>>
     /\ UNCHANGED disk
  \/ /\ bot_state = "BOT_DATA_OUT"
     /\ disk' = Stored
     /\ IF io.left > io.chunk
        THEN /\ msc_arm_write_chunk(io.lba + io.chunk, io.left - io.chunk)
             /\ UNCHANGED in
        ELSE /\ io' = [lba |-> io.lba + io.chunk, left |-> 0, chunk |-> io.chunk]
             /\ msc_send_csw("PASS") /\ NoOut
     /\ UNCHANGED <<sense, xfer_buf>>
  \/ /\ bot_state = "BOT_DATA_OUT"
     /\ WriteFaults
     /\ \E hit \in SUBSET Blocks :
          disk' = [b \in Blocks |-> IF b \in hit THEN Stored[b] ELSE disk[b]]
     /\ msc_fail("WRITE_FAULT") /\ NoOut
     /\ UNCHANGED <<io, xfer_buf>>
  \/ /\ bot_state \notin {"BOT_IDLE", "BOT_DATA_OUT"}
     /\ NoOut
     /\ UNCHANGED <<bot_state, io, sense, xfer_buf, in, disk>>

-----------------------------------------------------------------------------
(* usb_msc_poll(): the next event of the buffer.                            *)

Taken(e) ==
  /\ events # <<>>
  /\ Head(events) = e
  /\ events' = Tail(events)

(* XferComplete of the OUT endpoint: the driver counts what arrived from    *)
(* the TRB and its own length, and copies that much of the bounce buffer    *)
(* into the 31-byte cbw when the endpoint was last armed for one.           *)
PollOut ==
  LET count == out.len - out.resid
      overrun == out.buf = "cbw" /\ count \notin 0 .. Short
  IN  /\ dev_state # "OVERRUN"
      /\ Taken("OUT")
      /\ cbw' = IF out.buf = "cbw" /\ count = Short THEN bounce ELSE cbw
      /\ dev_state' = IF overrun THEN "OVERRUN" ELSE dev_state
      /\ IF dev_state = "CONFIGURED" /\ ~overrun
         THEN msc_data_out(count)
         ELSE NoOut /\ UNCHANGED <<bot_state, io, sense, xfer_buf, in, disk>>
      /\ UNCHANGED <<dev_old_state, bounce, host>>

PollIn ==
  /\ dev_state # "OVERRUN"
  /\ Taken("IN")
  /\ IF dev_state = "CONFIGURED" THEN msc_data_in ELSE NoIn /\ UNCHANGED <<device, out, disk>>
  /\ UNCHANGED <<core, bounce, host>>

\* The end of a control request frees the host to go on.
HostGoesTo(st) == host' = [host EXCEPT !.st = st]

\* msc_setup() on the class request 0xFF; other states answer with a stall.
PollBotReset ==
  /\ dev_state # "OVERRUN"
  /\ Taken("BOT_RESET")
  /\ IF dev_state = "CONFIGURED" THEN msc_arm_cbw ELSE UNCHANGED <<bot_state, out>>
  /\ host' = [host EXCEPT !.st = "idle", !.cmd = NULL, !.moved = 0, !.data = <<>>, !.resp = NULL]
  /\ UNCHANGED <<cbw, io, sense, xfer_buf, core, in, bounce, disk>>

\* Wrong variant: the reset forgets the transfers without ending them.
StoppedNot(ep) == [ep EXCEPT !.queued = FALSE]

\* The reset event: End Transfer where the driver knows of one.
Stopped(ep) == IF ep.queued THEN [ep EXCEPT !.queued = FALSE, !.hw = NULL] ELSE ep

PollReset ==
  /\ dev_state # "OVERRUN"
  /\ Taken("RESET")
  /\ out' = Stopped(out)
  /\ in' = Stopped(in)
  /\ dev_state' = "DEFAULT"
  /\ UNCHANGED <<device, dev_old_state, bounce, disk, host>>

PollSetAddress ==
  /\ dev_state # "OVERRUN"
  /\ Taken("SET_ADDRESS")
  /\ IF dev_state = "DEFAULT"
     THEN dev_state' = "ADDRESSED" /\ HostGoesTo("addressed")
     ELSE UNCHANGED dev_state /\ HostGoesTo("broken")
  /\ UNCHANGED <<device, dev_old_state, out, in, bounce, disk>>

\* usb_core_set_config(), down to msc_init().
PollSetConfig ==
  /\ dev_state # "OVERRUN"
  /\ Taken("SET_CONFIG")
  /\ IF dev_state = "ADDRESSED"
     THEN dev_state' = "CONFIGURED" /\ msc_arm_cbw
     ELSE UNCHANGED <<dev_state, bot_state, out>>
  /\ host' = [host EXCEPT !.st = IF dev_state \in {"ADDRESSED", "CONFIGURED"} THEN "idle" ELSE "broken",
                          !.cmd = NULL, !.moved = 0, !.data = <<>>, !.resp = NULL]
  /\ UNCHANGED <<cbw, io, sense, xfer_buf, dev_old_state, in, bounce, disk>>

\* Wrong variant: the state before the suspend is not kept.
PollSuspendForgets ==
  /\ dev_state # "OVERRUN"
  /\ Taken("SUSPEND")
  /\ dev_state' = "SUSPENDED"
  /\ UNCHANGED <<device, dev_old_state, out, in, bounce, disk, host>>

PollSuspend ==
  /\ dev_state # "OVERRUN"
  /\ Taken("SUSPEND")
  /\ dev_old_state' = dev_state
  /\ dev_state' = "SUSPENDED"
  /\ UNCHANGED <<device, out, in, bounce, disk, host>>

PollWakeup ==
  /\ dev_state # "OVERRUN"
  /\ Taken("WAKEUP")
  /\ dev_state' = dev_old_state
  /\ UNCHANGED <<device, dev_old_state, out, in, bounce, disk, host>>

Poll ==
  \/ PollOut \/ PollIn
  \/ PollBotReset \/ PollReset \/ PollSetAddress \/ PollSetConfig
  \/ PollSuspend \/ PollWakeup

-----------------------------------------------------------------------------
(* The controller's side of the bulk endpoints.                             *)

(* A packet from the host lands where the transfer in the controller points *)
(* (a command block, or the value of a data block); a short packet or a     *)
(* full buffer completes the transfer, and the TRB gets what is left.       *)
Deliver(units, command, block) ==
  LET got == out.hw.got + units
      done == units < Packet \/ got >= out.hw.len
  IN  /\ out.hw # NULL
      /\ out' = [out EXCEPT !.hw = IF done THEN NULL ELSE [out.hw EXCEPT !.got = got],
                            !.resid = IF done THEN out.hw.len - got ELSE @]
      /\ events' = IF done THEN Append(events, "OUT") ELSE events
      /\ IF out.hw.buf = "cbw"
         THEN bounce' = command /\ UNCHANGED xfer_buf
         ELSE /\ xfer_buf' = [xfer_buf EXCEPT ![out.hw.got \div Packet] = block]
              /\ UNCHANGED bounce

\* The host reads the whole transfer the IN endpoint offers.
Collect ==
  /\ in.hw # NULL
  /\ in' = [in EXCEPT !.hw = NULL, !.resid = 0]
  /\ events' = Append(events, "IN")

-----------------------------------------------------------------------------
(* The host (external): one command at a time, in the order of the          *)
(* bulk-only transport; a CSW in place of data ends the data phase.         *)

software == <<bot_state, cbw, io, sense, dev_state, dev_old_state, disk>>

HostCommand ==
  /\ host.st = "idle"
  /\ \E c \in Command :
       /\ c.tag # host.tag
       /\ host' = [host EXCEPT !.st = "cbw", !.cmd = c, !.tag = c.tag]
  /\ UNCHANGED <<software, xfer_buf, out, in, bounce, events>>

HostSendCbw ==
  /\ host.st = "cbw"
  /\ Deliver(Short, host.cmd, NULL)
  /\ HostGoesTo(IF DataLength(host.cmd) = 0 THEN "csw"
                ELSE IF host.cmd.op = "WRITE10" THEN "data_out" ELSE "data_in")
  /\ UNCHANGED <<software, in>>

HostSendBlock ==
  /\ host.st = "data_out"
  /\ Deliver(Packet, NULL, host.cmd.val)
  /\ host' = [host EXCEPT !.moved = @ + 1,
                          !.st = IF host.moved + 1 = host.cmd.cnt THEN "csw" ELSE @]
  /\ UNCHANGED <<software, in>>

(* What the host takes: data in its data phase, and its CSW in either.      *)
IsData(x) == x.kind # "CSW"
IsCsw(x) == x.kind = "CSW" /\ x.tag = host.cmd.tag

HostTakeData ==
  /\ host.st = "data_in"
  /\ Collect
  /\ IsData(in.hw.buf)
  /\ LET data == IF in.hw.buf.kind = "BLOCKS" THEN host.data \o in.hw.buf.data ELSE <<>>
     IN  host' = [host EXCEPT !.data = data,
                             !.st = IF Len(data) >= host.cmd.cnt THEN "csw" ELSE @]
  /\ UNCHANGED <<software, xfer_buf, out, bounce>>

HostTakeCsw ==
  /\ host.st \in {"data_in", "csw"}
  /\ Collect
  /\ IsCsw(in.hw.buf)
  /\ host' = [host EXCEPT !.st = "idle", !.cmd = NULL, !.moved = 0, !.data = <<>>,
       !.resp = [status |-> in.hw.buf.status,
                 data |-> IF in.hw.buf.status = "PASS" THEN host.data ELSE <<>>]]
  /\ UNCHANGED <<software, xfer_buf, out, bounce>>

Active == {"cbw", "data_out", "data_in", "csw", "broken"}

Signal(e, from, to) ==
  /\ host.st \in from
  /\ Len(events) < MaxEvents
  /\ events' = Append(events, e)
  /\ HostGoesTo(to)
  /\ UNCHANGED <<software, xfer_buf, out, in, bounce>>

\* A bulk-only reset comes before a command block, or at any point of a command.
HostBotReset ==
  Signal("BOT_RESET",
         IF "BOT_RESET" \in Signals THEN Active
         ELSE IF "EARLY_BOT_RESET" \in Signals THEN {"cbw"} ELSE {}, "waiting")
HostBusReset == "RESET" \in Signals /\ Signal("RESET", Active \cup {"suspended"}, "reset")
HostSetAddress == Signal("SET_ADDRESS", {"reset"}, "waiting")
HostSetConfig == Signal("SET_CONFIG", {"addressed"}, "waiting")
HostSuspend == "SUSPEND" \in Signals /\ Signal("SUSPEND", {"idle"}, "suspended")
HostResume == Signal("WAKEUP", {"suspended"}, "idle")

HostTransfers == HostSendCbw \/ HostSendBlock \/ HostTakeData \/ HostTakeCsw
HostSignals ==
  \/ HostBotReset \/ HostBusReset
  \/ HostSetAddress \/ HostSetConfig \/ HostSuspend \/ HostResume

-----------------------------------------------------------------------------
(* After usb_msc_start() the host resets the bus and enumerates.            *)
Init ==
  /\ bot_state = "BOT_IDLE"
  /\ cbw = NULL
  /\ io = [lba |-> 0, left |-> 0, chunk |-> 0]
  /\ sense = "NONE"
  /\ xfer_buf = [i \in 0 .. ChunkBlocks - 1 |-> NULL]
  /\ dev_state = "DEFAULT" /\ dev_old_state = NULL
  /\ out = [queued |-> FALSE, buf |-> NULL, len |-> 0, resid |-> 0, hw |-> NULL]
  /\ in = out
  /\ bounce = NULL
  /\ events = <<"RESET">>
  /\ disk \in [Blocks -> Data]
  /\ host = [st |-> "reset", cmd |-> NULL, tag |-> NULL, moved |-> 0, data |-> <<>>,
             resp |-> NULL]

Next == Poll \/ HostCommand \/ HostTransfers \/ HostSignals

Spec == Init /\ [][Next]_vars

(* cmd_usb() polls until a key is pressed and the host retries a transfer   *)
(* the endpoint refuses; a host that resumes or enumerates carries it on.   *)
Fairness ==
  /\ WF_vars(Poll)
  /\ WF_vars(HostTransfers)
  /\ WF_vars(HostSetAddress \/ HostSetConfig \/ HostResume)

FairSpec == Spec /\ Fairness

-----------------------------------------------------------------------------
(* Properties.                                                              *)

Sense == {"NONE", "UNRECOVERED_READ", "WRITE_FAULT", "LBA_OUT_OF_RANGE", "INVALID_OPCODE", "INVALID_CBW"}
Csw == [kind : {"CSW"}, tag : Tags, status : {"PASS", "FAIL"}]
Transfer == [buf : {"cbw", "xfer_buf"}, len : 0 .. Packet * ChunkBlocks + Packet, got : Nat]

\* What the IN endpoint sends: a status, a small reply or blocks.
Payload ==
  Csw \cup [kind : {"REPLY"}, what : Sense \cup {"INQUIRY"}]
      \cup [kind : {"BLOCKS"}, data : Seq(Data)]
InTransfer == [buf : Payload, len : Nat, got : {0}]

\* NULL stands for no command and for no transfer.
ASSUME NullAssumption == NULL \notin Command \cup Transfer \cup InTransfer

\* Types; a CSW always carries the tag of a command block that arrived, and
\* no completion makes the driver copy more than a command block into cbw.
TypeOK ==
  /\ bot_state \in {"BOT_IDLE", "BOT_DATA_IN", "BOT_DATA_OUT", "BOT_CSW"}
  /\ cbw \in Command \cup {NULL}
  /\ io \in [lba : 0 .. NumBlocks, left : 0 .. MaxCount, chunk : 0 .. ChunkBlocks]
  /\ sense \in Sense
  /\ xfer_buf \in [0 .. ChunkBlocks - 1 -> Data \cup {NULL}]
  /\ dev_state \in {"DEFAULT", "ADDRESSED", "CONFIGURED", "SUSPENDED"}
  /\ out.hw \in Transfer \cup {NULL}
  /\ in.hw # NULL => in.hw.buf.kind # "CSW" \/ in.hw.buf \in Csw
  /\ bounce \in Command \cup {NULL}
  /\ disk \in [Blocks -> Data]

InBuffer(e) == \E i \in DOMAIN events : events[i] = e
OutOwed == out.hw # NULL \/ InBuffer("OUT")
InOwed == in.hw # NULL \/ InBuffer("IN")

\* "BOT_IDLE: waiting for a CBW" (usb_msc.c:65): a configured device in
\* BOT_IDLE has the OUT endpoint armed for a command block, or one has come.
IdleArmed ==
  dev_state = "CONFIGURED" /\ bot_state = "BOT_IDLE" =>
    OutOwed /\ out.buf = "cbw" /\ (out.hw # NULL => out.hw.buf = "cbw")

\* The state machine of the class never waits for nothing: in every state a
\* configured device has one transfer of the right direction and length under
\* way or its completion unread, and nothing on the other endpoint.
OneTransferOwed ==
  dev_state = "CONFIGURED" =>
    CASE bot_state = "BOT_IDLE" -> IdleArmed /\ ~InOwed
      [] bot_state = "BOT_DATA_OUT" ->
           OutOwed /\ ~InOwed /\ out.buf = "xfer_buf" /\ out.len = Packet * io.chunk
      [] bot_state \in {"BOT_DATA_IN", "BOT_CSW"} ->
           /\ InOwed /\ ~OutOwed
           /\ in.buf.kind = "CSW" <=> bot_state = "BOT_CSW"

\* The host never meets a phase it does not expect: what the device offers
\* it is data in the data phase or the CSW of its own command, and every
\* request of an enumeration succeeds.
ProtocolKept ==
  /\ host.st # "broken"
  /\ in.hw # NULL /\ host.st = "data_in" => IsData(in.hw.buf) \/ IsCsw(in.hw.buf)
  /\ in.hw # NULL /\ host.st = "csw" => IsCsw(in.hw.buf)

\* Whatever suspends, resumes and resets came in between, a device that has
\* seen them all is configured whenever the host takes it to be.
HostInStep ==
  host.st \in Active \cup {"idle"} /\ (\A i \in DOMAIN events : events[i] \in {"IN", "OUT"}) =>
    dev_state = "CONFIGURED"

Disk == INSTANCE BlockDisk WITH
          Request <- Command, Faulty <- ReadFaults \/ WriteFaults,
          req <- IF host.cmd = NULL THEN NULL ELSE host.cmd, ans <- host.resp

\* The disk of BlockDisk: a PASS means the request was carried out in full on
\* exactly its blocks, and the card changes only by requested writes.
ImplementsDisk == Disk!BDSpec

\* Every command is answered: what the device owes is always sent, and the
\* state machine is ready again for the next command block.
Answered == host.cmd # NULL ~> host.cmd = NULL
=============================================================================
