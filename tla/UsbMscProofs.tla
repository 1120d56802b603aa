---------------------------- MODULE UsbMscProofs ----------------------------
(***************************************************************************)
(* What usb_msc.c guarantees for every card, every chunk size and every     *)
(* order of commands, bus resets and suspends, proved with TLAPS.           *)
(***************************************************************************)
EXTENDS UsbMsc, SequenceTheorems, TLAPS

-----------------------------------------------------------------------------
(* The inductive invariant.                                                 *)

Event == {"OUT", "IN", "BOT_RESET", "RESET", "SET_ADDRESS", "SET_CONFIG", "SUSPEND", "WAKEUP"}

Ends == {"OUT", "IN"}
Requests == {"BOT_RESET", "SET_ADDRESS", "SET_CONFIG"}

(* The device is in the state the event before left, and every event meets  *)
(* it in a state where it can be handled.                                   *)
StateAfter(e) ==
  CASE e = "SUSPEND" -> "SUSPENDED"
    [] e = "RESET" -> "DEFAULT"
    [] e = "SET_ADDRESS" -> "ADDRESSED"
    [] OTHER -> "CONFIGURED"

StateBefore(s, q, i) == IF i = 1 THEN s ELSE StateAfter(q[i - 1])
StateAtEnd(s, q) == StateBefore(s, q, Len(q) + 1)

Met(e) ==
  CASE e = "WAKEUP" -> {"SUSPENDED"}
    [] e = "SET_ADDRESS" -> {"DEFAULT"}
    [] e = "SET_CONFIG" -> {"ADDRESSED"}
    [] e = "RESET" -> {"DEFAULT", "CONFIGURED", "SUSPENDED"}
    [] OTHER -> {"CONFIGURED"}

Holds(q, e) == \E i \in 1 .. Len(q) : q[i] = e

QueueOK(s, q) ==
  /\ q \in Seq(Event)
  /\ \A i \in 1 .. Len(q) : StateBefore(s, q, i) \in Met(q[i])
  /\ \A i, j \in 1 .. Len(q) : i < j /\ q[i] = "RESET" => q[j] = "SET_ADDRESS"
  /\ \A i \in 1 .. Len(q) : q[i] \in Requests => i = Len(q)
  /\ \A i, j \in 1 .. Len(q) : q[i] \in Ends /\ q[j] \in Ends => i = j

(* The host knows the state the device will be in when it has seen all.     *)
HostSt == {"reset", "waiting", "addressed", "idle", "suspended", "cbw", "data_out", "data_in", "csw"}

HostOK ==
  /\ host.st \in {"idle", "cbw", "data_out", "data_in", "csw"} => StateAtEnd(dev_state, events) = "CONFIGURED"
  /\ host.st = "suspended" => StateAtEnd(dev_state, events) = "SUSPENDED"
  /\ host.st = "reset" => StateAtEnd(dev_state, events) = "DEFAULT"
  /\ host.st = "addressed" => StateAtEnd(dev_state, events) = "ADDRESSED"
  /\ host.st = "waiting" => events # <<>> /\ events[Len(events)] \in Requests
  /\ \A r \in Requests : Holds(events, r) => host.st = "waiting"
  /\ Holds(events, "RESET") => host.st \in {"reset", "waiting"}
  /\ dev_state = "SUSPENDED" => dev_old_state = "CONFIGURED"

(* Types.                                                                   *)
OutEndpoint ==
  [queued : BOOLEAN, buf : {"cbw", "xfer_buf", NULL}, len : Nat, resid : Nat, hw : Transfer \cup {NULL}]
InEndpoint ==
  [queued : BOOLEAN, buf : Payload \cup {NULL}, len : Nat, resid : Nat, hw : InTransfer \cup {NULL}]
Io == [lba : 0 .. NumBlocks, left : 0 .. MaxCount, chunk : 0 .. ChunkBlocks]
XferBuf == [0 .. ChunkBlocks - 1 -> Data \cup {NULL}]
Response == [status : {"PASS", "FAIL"}, data : Seq(Data)]
Host ==
  [st : HostSt, cmd : Command \cup {NULL}, tag : Tags \cup {NULL}, moved : Nat, data : Seq(Data),
   resp : Response \cup {NULL}]

Types ==
  /\ bot_state \in {"BOT_IDLE", "BOT_DATA_IN", "BOT_DATA_OUT", "BOT_CSW"}
  /\ cbw \in Command \cup {NULL}
  /\ io \in Io
  /\ sense \in Sense
  /\ xfer_buf \in XferBuf
  /\ dev_state \in {"DEFAULT", "ADDRESSED", "CONFIGURED", "SUSPENDED"}
  /\ out \in OutEndpoint
  /\ in \in InEndpoint
  /\ bounce \in Command \cup {NULL}
  /\ disk \in [Blocks -> Data]
  /\ host \in Host

(* The one transfer: with the controller, or its completion unread.         *)
NoneUnread == ~Holds(events, "OUT") /\ ~Holds(events, "IN")
OutUnderWay == out.hw # NULL /\ in.hw = NULL /\ NoneUnread
InUnderWay == in.hw # NULL /\ out.hw = NULL /\ NoneUnread
OutDone == out.hw = NULL /\ in.hw = NULL /\ Holds(events, "OUT") /\ ~Holds(events, "IN")
InDone == out.hw = NULL /\ in.hw = NULL /\ Holds(events, "IN") /\ ~Holds(events, "OUT")

CbwTransfer == [buf |-> "cbw", len |-> Packet, got |-> 0]
Slice(a, n) == [i \in 1 .. n |-> disk[a + i - 1]]
InCard(c) == c.lba + c.cnt <= NumBlocks

(* Where a command can stand.                                               *)
ArmedForCbw ==
  /\ bot_state = "BOT_IDLE" /\ OutUnderWay
  /\ out.buf = "cbw" /\ out.len = Packet /\ out.hw = CbwTransfer

CswTaken == bot_state = "BOT_CSW" /\ InDone /\ in.buf \in Csw

Ready == ArmedForCbw \/ CswTaken

CbwCame ==
  /\ bot_state = "BOT_IDLE" /\ OutDone
  /\ out.buf = "cbw" /\ out.len = Packet /\ out.resid = Packet - Short
  /\ host.cmd \in Command /\ bounce = host.cmd /\ host.moved = 0 /\ host.data = <<>>

Serving == host.cmd \in Command /\ cbw = host.cmd

Writing ==
  /\ bot_state = "BOT_DATA_OUT" /\ Serving /\ cbw.op = "WRITE10" /\ InCard(cbw)
  /\ out.buf = "xfer_buf" /\ out.len = Packet * io.chunk
  /\ io.left \in 1 .. cbw.cnt /\ io.chunk = Min2(io.left, ChunkBlocks)
  /\ io.lba + io.left = cbw.lba + cbw.cnt
  /\ \A b \in cbw.lba .. io.lba - 1 : disk[b] = cbw.val
  /\ host.data = <<>>

Filled(n) ==
  /\ host.moved = cbw.cnt - io.left + n
  /\ \A i \in 0 .. n - 1 : xfer_buf[i] = cbw.val

TakingBlocks ==
  /\ Writing /\ OutUnderWay /\ out.queued
  /\ out.hw.buf = "xfer_buf" /\ out.hw.len = Packet * io.chunk
  /\ \E n \in 0 .. io.chunk - 1 : out.hw.got = Packet * n /\ Filled(n)

BlocksCame == Writing /\ OutDone /\ out.resid = 0 /\ Filled(io.chunk)

Sending ==
  /\ bot_state = "BOT_DATA_IN" /\ Serving
  /\ \/ /\ cbw.op \in {"INQUIRY", "REQUEST_SENSE"} /\ io.left = 0
        /\ in.buf \in Payload /\ in.buf.kind = "REPLY"
     \/ /\ cbw.op = "READ10" /\ InCard(cbw)
        /\ io.left \in 0 .. cbw.cnt /\ io.lba + io.left = cbw.lba + cbw.cnt
        /\ in.buf \in Payload /\ in.buf.kind = "BLOCKS"

Offered(n) ==
  /\ in.buf.data = Slice(io.lba - n, n)
  /\ host.data = Slice(cbw.lba, cbw.cnt - io.left - n)

Offering ==
  /\ Sending /\ InUnderWay /\ in.queued /\ in.hw.buf = in.buf
  /\ cbw.op # "READ10" => host.data = <<>>
  /\ cbw.op = "READ10" => \E n \in 1 .. cbw.cnt - io.left : Offered(n)

Sent ==
  /\ Sending /\ InDone
  /\ cbw.op # "READ10" => host.data = <<>>
  /\ cbw.op = "READ10" => host.data = Slice(cbw.lba, cbw.cnt - io.left)

(* A status says the truth.                                                 *)
Passed(c) ==
  /\ c.op # "UNKNOWN"
  /\ Moves(c) => c.cnt = 0 \/ InCard(c)
  /\ c.op = "WRITE10" => \A b \in c.lba .. c.lba + c.cnt - 1 : disk[b] = c.val
  /\ host.data = IF c.op = "READ10" THEN Slice(c.lba, c.cnt) ELSE <<>>

Failed(c) ==
  \/ c.op = "UNKNOWN"
  \/ Moves(c) /\ c.cnt # 0 /\ ~InCard(c)
  \/ Moves(c) /\ (ReadFaults \/ WriteFaults)

Reporting ==
  /\ bot_state = "BOT_CSW" /\ Serving /\ InUnderWay /\ in.queued /\ in.hw.buf = in.buf
  /\ in.buf \in Csw /\ in.buf.tag = cbw.tag
  /\ in.buf.status = "PASS" => Passed(cbw)
  /\ in.buf.status = "FAIL" => Failed(cbw)

Alive == dev_state \in {"CONFIGURED", "SUSPENDED"}

Phase ==
  IF Alive
  THEN Ready \/ CbwCame \/ TakingBlocks \/ BlocksCame \/ Offering \/ Sent \/ Reporting
  ELSE in.hw = NULL /\ out.hw \in {NULL, CbwTransfer} /\ NoneUnread

(* What the host may take the command for.                                  *)
Phases ==
  \/ CbwCame /\ host.st = IF DataLength(host.cmd) = 0 THEN "csw"
                          ELSE IF host.cmd.op = "WRITE10" THEN "data_out" ELSE "data_in"
  \/ TakingBlocks /\ host.st = "data_out"
  \/ BlocksCame /\ host.st = IF io.left = io.chunk THEN "csw" ELSE "data_out"
  \/ Offering /\ host.st = "data_in"
  \/ Sent /\ host.st = IF io.left = 0 THEN "csw" ELSE "data_in"
  \/ Reporting

(* The host is where the command is.                                        *)
HostPhase ==
  /\ host.st \in {"idle", "suspended"} => Ready /\ host.cmd = NULL /\ host.moved = 0 /\ host.data = <<>>
  /\ host.st = "cbw" => Ready /\ host.cmd \in Command /\ host.moved = 0 /\ host.data = <<>>
  /\ host.st = "waiting" /\ Holds(events, "BOT_RESET") => Ready
  /\ host.st \in {"data_out", "data_in", "csw"} => Phases

Queue == QueueOK(dev_state, events)

IInv == Types /\ Queue /\ HostOK /\ Phase /\ HostPhase

-----------------------------------------------------------------------------
(* The event buffer, for any state s and any contents q.                    *)

LEMMA TailIs ==
  ASSUME NEW q \in Seq(Event), q # <<>>
  PROVE  /\ Tail(q) \in Seq(Event) /\ Len(q) \in Nat \ {0} /\ Len(Tail(q)) = Len(q) - 1
         /\ Head(q) = q[1] /\ q[1] \in Event
         /\ \A i \in 1 .. Len(Tail(q)) : Tail(q)[i] = q[i + 1]
<1>1. Len(q) \in Nat \ {0}
  BY EmptySeq, LenProperties
<1>2. Tail(q) \in Seq(Event) /\ Len(Tail(q)) = Len(q) - 1
  BY HeadTailProperties
<1>3. Head(q) = q[1] /\ q[1] \in Event
  BY <1>1, HeadTailProperties, ElementOfSeq
<1>4. \A i \in 1 .. Len(Tail(q)) : Tail(q)[i] = q[i + 1]
  BY <1>1, HeadTailProperties
<1> QED BY <1>1, <1>2, <1>3, <1>4

LEMMA AppendIs ==
  ASSUME NEW q \in Seq(Event), NEW e \in Event
  PROVE  /\ Append(q, e) \in Seq(Event) /\ Len(q) \in Nat /\ Len(Append(q, e)) = Len(q) + 1
         /\ Append(q, e)[Len(q) + 1] = e
         /\ \A i \in 1 .. Len(q) : Append(q, e)[i] = q[i]
         /\ Append(q, e) # <<>>
BY AppendProperties, LenProperties

LEMMA HeadTaken ==
  ASSUME NEW s, NEW q, QueueOK(s, q), q # <<>>
  PROVE  /\ Head(q) \in Event /\ s \in Met(Head(q))
         /\ QueueOK(StateAfter(Head(q)), Tail(q))
         /\ StateAtEnd(StateAfter(Head(q)), Tail(q)) = StateAtEnd(s, q)
         /\ \A e : e # Head(q) => (Holds(Tail(q), e) <=> Holds(q, e))
         /\ \A e : Holds(Tail(q), e) => Holds(q, e)
         /\ Head(q) \in Ends => ~Holds(Tail(q), "OUT") /\ ~Holds(Tail(q), "IN")
         /\ Head(q) = "RESET" => \A e : Holds(Tail(q), e) => e = "SET_ADDRESS"
         /\ Head(q) \in Requests => Tail(q) = <<>>
         /\ Tail(q) # <<>> => Tail(q)[Len(Tail(q))] = q[Len(q)]
         /\ Tail(q) = <<>> => Head(q) = q[Len(q)]
         /\ Holds(q, Head(q))
<1> DEFINE t == Tail(q)
           h == Head(q)
<1>0. q \in Seq(Event)
  BY DEF QueueOK
<1>1. /\ t \in Seq(Event) /\ Len(q) \in Nat \ {0} /\ Len(t) = Len(q) - 1
      /\ h = q[1] /\ h \in Event
      /\ \A i \in 1 .. Len(t) : t[i] = q[i + 1]
  BY <1>0, TailIs
<1>2. \A i \in 1 .. Len(t) : i \in 1 .. Len(q) /\ i + 1 \in 1 .. Len(q) /\ i + 1 # 1
  BY <1>1
<1> HIDE DEF t, h
<1>3. s \in Met(h)
  BY <1>1 DEF QueueOK, StateBefore
<1>4. \A i \in 1 .. Len(t) + 1 : StateBefore(StateAfter(h), t, i) = StateBefore(s, q, i + 1)
  <2> SUFFICES ASSUME NEW i \in 1 .. Len(t) + 1
               PROVE  StateBefore(StateAfter(h), t, i) = StateBefore(s, q, i + 1)
    OBVIOUS
  <2>1. CASE i = 1
    BY <1>1, <2>1 DEF StateBefore
  <2>2. CASE i # 1
    <3>1. i - 1 \in 1 .. Len(t) /\ i + 1 # 1 /\ (i - 1) + 1 = i /\ (i + 1) - 1 = i
      BY <1>1, <2>2
    <3>2. t[i - 1] = q[i]
      BY <1>1, <3>1
    <3> QED BY <2>2, <3>1, <3>2 DEF StateBefore
  <2> QED BY <2>1, <2>2
<1>5. QueueOK(StateAfter(h), t)
  <2>1. \A i \in 1 .. Len(t) : StateBefore(StateAfter(h), t, i) \in Met(t[i])
    BY <1>1, <1>2, <1>4 DEF QueueOK
  <2>2. ASSUME NEW i \in 1 .. Len(t), NEW j \in 1 .. Len(t), i < j, t[i] = "RESET"
        PROVE  t[j] = "SET_ADDRESS"
    <3>1. i + 1 \in 1 .. Len(q) /\ j + 1 \in 1 .. Len(q) /\ i + 1 < j + 1
      BY <1>1, <2>2
    <3>2. q[i + 1] = "RESET" /\ q[j + 1] = t[j]
      BY <1>1, <2>2
    <3> QED BY <3>1, <3>2 DEF QueueOK
  <2>3. ASSUME NEW i \in 1 .. Len(t), t[i] \in Requests
        PROVE  i = Len(t)
    <3>1. i + 1 \in 1 .. Len(q) /\ q[i + 1] \in Requests
      BY <1>1, <2>3
    <3>2. i + 1 = Len(q)
      BY <3>1 DEF QueueOK
    <3> QED BY <1>1, <3>2
  <2>4. ASSUME NEW i \in 1 .. Len(t), NEW j \in 1 .. Len(t), t[i] \in Ends, t[j] \in Ends
        PROVE  i = j
    <3>1. i + 1 \in 1 .. Len(q) /\ j + 1 \in 1 .. Len(q) /\ q[i + 1] \in Ends /\ q[j + 1] \in Ends
      BY <1>1, <2>4
    <3>2. i + 1 = j + 1
      BY <3>1 DEF QueueOK
    <3> QED BY <3>2
  <2> QED BY <1>1, <2>1, <2>2, <2>3, <2>4 DEF QueueOK
<1>6. StateAtEnd(StateAfter(h), t) = StateAtEnd(s, q)
  BY <1>1, <1>4 DEF StateAtEnd
<1>7. \A e : Holds(t, e) => Holds(q, e)
  BY <1>1, <1>2 DEF Holds
<1>8. ASSUME NEW e, e # h, Holds(q, e) PROVE Holds(t, e)
  <2>1. PICK i \in 1 .. Len(q) : q[i] = e
    BY <1>8 DEF Holds
  <2>2. i - 1 \in 1 .. Len(t) /\ (i - 1) + 1 = i
    BY <1>1, <1>8, <2>1
  <2> QED BY <1>1, <2>1, <2>2 DEF Holds
<1>9. ASSUME h \in Ends PROVE ~Holds(t, "OUT") /\ ~Holds(t, "IN")
  <2> SUFFICES ASSUME NEW i \in 1 .. Len(t), t[i] \in Ends PROVE FALSE
    BY DEF Holds, Ends
  <2> QED BY <1>1, <1>2, <1>9 DEF QueueOK
<1>10. ASSUME h = "RESET", NEW e, Holds(t, e) PROVE e = "SET_ADDRESS"
  <2>1. PICK i \in 1 .. Len(t) : t[i] = e
    BY <1>10 DEF Holds
  <2>2. 1 \in 1 .. Len(q) /\ i + 1 \in 1 .. Len(q) /\ 1 < i + 1 /\ q[i + 1] = e
    BY <1>1, <2>1
  <2> QED BY <1>1, <1>10, <2>2 DEF QueueOK
<1>11. ASSUME h \in Requests PROVE t = <<>>
  <2>1. Len(q) = 1
    BY <1>1, <1>11 DEF QueueOK
  <2> QED BY <1>1, <2>1, EmptySeq
<1>12. ASSUME t # <<>> PROVE t[Len(t)] = q[Len(q)]
  <2>1. Len(t) \in 1 .. Len(t) /\ Len(t) + 1 = Len(q)
    BY <1>1, <1>12, EmptySeq
  <2> QED BY <1>1, <2>1
<1>13. ASSUME t = <<>> PROVE h = q[Len(q)]
  <2>1. Len(q) = 1
    BY <1>1, <1>13, EmptySeq
  <2> QED BY <1>1, <2>1
<1>14. Holds(q, h)
  <2>1. 1 \in 1 .. Len(q)
    BY <1>1
  <2> QED BY <1>1, <2>1 DEF Holds
<1> QED BY <1>1, <1>3, <1>5, <1>6, <1>7, <1>8, <1>9, <1>10, <1>11, <1>12, <1>13, <1>14 DEF t, h

LEMMA Appended ==
  ASSUME NEW s, NEW q, QueueOK(s, q), NEW e \in Event, StateAtEnd(s, q) \in Met(e),
         e \in Ends => ~Holds(q, "OUT") /\ ~Holds(q, "IN"),
         \A r \in Requests : ~Holds(q, r),
         e # "SET_ADDRESS" => ~Holds(q, "RESET")
  PROVE  /\ QueueOK(s, Append(q, e))
         /\ StateAtEnd(s, Append(q, e)) = StateAfter(e)
         /\ \A f : Holds(Append(q, e), f) <=> Holds(q, f) \/ f = e
         /\ Append(q, e) # <<>> /\ Append(q, e)[Len(Append(q, e))] = e
<1> DEFINE t == Append(q, e)
<1>0. q \in Seq(Event)
  BY DEF QueueOK
<1>1. /\ t \in Seq(Event) /\ Len(q) \in Nat /\ Len(t) = Len(q) + 1 /\ t[Len(q) + 1] = e
      /\ \A i \in 1 .. Len(q) : t[i] = q[i]
      /\ t # <<>>
  BY <1>0, AppendIs
<1> HIDE DEF t
<1>2. \A i \in 1 .. Len(t) : i \in 1 .. Len(q) \/ i = Len(q) + 1
  BY <1>1
<1>3. \A i \in 1 .. Len(q) + 1 : StateBefore(s, t, i) = StateBefore(s, q, i)
  <2> SUFFICES ASSUME NEW i \in 1 .. Len(q) + 1, i # 1
               PROVE  t[i - 1] = q[i - 1]
    BY DEF StateBefore
  <2>1. i - 1 \in 1 .. Len(q)
    BY <1>1
  <2> QED BY <1>1, <2>1
<1>4. StateAtEnd(s, t) = StateAfter(e)
  <2>1. Len(t) + 1 # 1 /\ (Len(t) + 1) - 1 = Len(q) + 1
    BY <1>1
  <2> QED BY <1>1, <2>1 DEF StateAtEnd, StateBefore
<1>5. \A i \in 1 .. Len(t) : StateBefore(s, t, i) \in Met(t[i])
  <2> SUFFICES ASSUME NEW i \in 1 .. Len(t) PROVE StateBefore(s, t, i) \in Met(t[i])
    OBVIOUS
  <2>1. CASE i \in 1 .. Len(q)
    <3>1. i \in 1 .. Len(q) + 1
      BY <1>1, <2>1
    <3> QED BY <1>1, <1>3, <2>1, <3>1 DEF QueueOK
  <2>2. CASE i = Len(q) + 1
    <3>1. i \in 1 .. Len(q) + 1
      BY <1>1, <2>2
    <3> QED BY <1>1, <1>3, <2>2, <3>1 DEF StateAtEnd
  <2> QED BY <1>2, <2>1, <2>2
<1>6. ASSUME NEW i \in 1 .. Len(t), NEW j \in 1 .. Len(t), i < j, t[i] = "RESET"
      PROVE  t[j] = "SET_ADDRESS"
  <2>1. i \in 1 .. Len(q)
    BY <1>1, <1>6
  <2>2. q[i] = "RESET" /\ Holds(q, "RESET")
    BY <1>1, <1>6, <2>1 DEF Holds
  <2>3. CASE j \in 1 .. Len(q)
    BY <1>1, <1>6, <2>1, <2>2, <2>3 DEF QueueOK
  <2>4. CASE j = Len(q) + 1
    BY <1>1, <2>2, <2>4
  <2> QED BY <1>2, <2>3, <2>4
<1>7. \A i \in 1 .. Len(t) : t[i] \in Requests => i = Len(t)
  <2>1. \A i \in 1 .. Len(q) : q[i] \notin Requests
    BY DEF Holds, Requests
  <2> QED BY <1>1, <1>2, <2>1
<1>9. ASSUME NEW i \in 1 .. Len(t), NEW j \in 1 .. Len(t), t[i] \in Ends, t[j] \in Ends
      PROVE  i = j
  <2>1. CASE e \in Ends
    <3>1. \A k \in 1 .. Len(q) : q[k] \notin Ends
      BY <2>1 DEF Holds, Ends
    <3> QED BY <1>1, <1>2, <1>9, <3>1
  <2>2. CASE e \notin Ends
    <3>1. i \in 1 .. Len(q) /\ j \in 1 .. Len(q)
      BY <1>1, <1>2, <1>9, <2>2
    <3> QED BY <1>1, <1>9, <3>1 DEF QueueOK
  <2> QED BY <2>1, <2>2
<1>10. \A f : Holds(t, f) <=> Holds(q, f) \/ f = e
  <2>1. \A f : Holds(t, f) => Holds(q, f) \/ f = e
    BY <1>1, <1>2 DEF Holds
  <2>2. \A f : Holds(q, f) => Holds(t, f)
    <3>1. \A i \in 1 .. Len(q) : i \in 1 .. Len(t)
      BY <1>1
    <3> QED BY <1>1, <3>1 DEF Holds
  <2>3. Holds(t, e)
    <3>1. Len(q) + 1 \in 1 .. Len(t)
      BY <1>1
    <3> QED BY <1>1, <3>1 DEF Holds
  <2> QED BY <2>1, <2>2, <2>3
<1>11. t[Len(t)] = e
  BY <1>1
<1>12. QueueOK(s, t)
  BY <1>1, <1>5, <1>6, <1>7, <1>9 DEF QueueOK
<1> QED BY <1>1, <1>4, <1>10, <1>11, <1>12 DEF t

-----------------------------------------------------------------------------
(* What starting a transfer leaves on an endpoint that has none.            *)

LEMMA Sizes ==
  /\ NumBlocks \in Nat \ {0} /\ ChunkBlocks \in Nat \ {0} /\ MaxCount \in Nat \ {0}
  /\ Packet = 2 /\ Short = 1
  /\ NULL \notin Data /\ NULL \notin Tags /\ NULL \notin Command
  /\ NULL \notin Transfer /\ NULL \notin InTransfer
BY MscAssumption, NullAssumption DEF Packet, Short

LEMMA CommandIs ==
  ASSUME NEW c \in Command
  PROVE  /\ c.lba \in Blocks /\ c.lba \in Nat /\ c.cnt \in 0 .. MaxCount /\ c.cnt \in Nat
         /\ c.tag \in Tags /\ c # NULL
         /\ c.op = "WRITE10" => c.val \in Data
         /\ c.op \notin {"READ10", "WRITE10"} => c.cnt = 0
         /\ c.op \in {"TEST_UNIT_READY", "INQUIRY", "REQUEST_SENSE", "READ10", "WRITE10", "UNKNOWN"}
<1>1. /\ c \in [op : Asked, lba : Blocks, cnt : 0 .. MaxCount, val : Data \cup {NULL}, tag : Tags]
      /\ c.op \notin {"READ10", "WRITE10"} => c.lba = 0 /\ c.cnt = 0
      /\ c.val \in IF c.op = "WRITE10" THEN Data ELSE {NULL}
  BY DEF Command, Moves
<1>2. c.op \in Asked /\ c.lba \in Blocks /\ c.cnt \in 0 .. MaxCount /\ c.tag \in Tags
  BY <1>1
<1>3. c.lba \in Nat /\ c.cnt \in Nat
  BY <1>2, Sizes DEF Blocks
<1>4. c # NULL
  BY Sizes
<1>5. c.op \in {"TEST_UNIT_READY", "INQUIRY", "REQUEST_SENSE", "READ10", "WRITE10", "UNKNOWN"}
  BY <1>2, MscAssumption
<1> QED BY <1>1, <1>2, <1>3, <1>4, <1>5

LEMMA ReceiveIs ==
  ASSUME out \in OutEndpoint, out.hw = NULL, NEW buf \in {"cbw", "xfer_buf"},
         NEW len \in 0 .. Packet * ChunkBlocks, Receive(buf, len)
  PROVE  /\ out' \in OutEndpoint /\ out'.queued /\ out'.buf = buf
         /\ out'.len = IF len < Packet THEN Packet ELSE len
         /\ out'.hw = [buf |-> buf, len |-> out'.len, got |-> 0]
         /\ out'.hw # NULL
<1> DEFINE l == IF len < Packet THEN Packet ELSE len
           x == [buf |-> buf, len |-> l, got |-> 0]
<1>1. l \in 0 .. Packet * ChunkBlocks + Packet /\ l \in Nat
  BY Sizes
<1>2. x \in Transfer /\ x # NULL
  BY <1>1, Sizes DEF Transfer
<1>3. out' = [queued |-> TRUE, buf |-> buf, len |-> l, resid |-> l, hw |-> x]
  <2>1. (out.hw = NULL) = TRUE
    OBVIOUS
  <2>2. out' \in Started(out, x)
    BY DEF Receive
  <2>3. Started(out, x) = {[queued |-> TRUE, buf |-> x.buf, len |-> x.len, resid |-> x.len, hw |-> h] : h \in {x}}
    BY <2>1, Zenon DEF Started
  <2>4. x.buf = buf /\ x.len = l
    OBVIOUS
  <2> HIDE DEF x, l
  <2> QED BY <2>2, <2>3, <2>4
<1> HIDE DEF x
<1>4. out' \in OutEndpoint
  BY <1>1, <1>2, <1>3 DEF OutEndpoint
<1> QED BY <1>2, <1>3, <1>4 DEF x

LEMMA TransmitIs ==
  ASSUME in \in InEndpoint, in.hw = NULL, NEW payload \in Payload, NEW len \in Nat,
         Transmit(payload, len)
  PROVE  /\ in' \in InEndpoint /\ in'.queued /\ in'.buf = payload
         /\ in'.hw # NULL /\ in'.hw.buf = in'.buf
<1> DEFINE x == [buf |-> payload, len |-> len, got |-> 0]
<1>1. x \in InTransfer /\ x # NULL
  BY Sizes DEF InTransfer
<1>2. in' = [queued |-> TRUE, buf |-> payload, len |-> len, resid |-> len, hw |-> x]
  <2>1. (in.hw = NULL) = TRUE
    OBVIOUS
  <2>2. in' \in Started(in, x)
    BY DEF Transmit
  <2>3. Started(in, x) = {[queued |-> TRUE, buf |-> x.buf, len |-> x.len, resid |-> x.len, hw |-> h] : h \in {x}}
    BY <2>1, Zenon DEF Started
  <2>4. x.buf = payload /\ x.len = len
    OBVIOUS
  <2> HIDE DEF x
  <2> QED BY <2>2, <2>3, <2>4
<1>3. x.buf = payload
  OBVIOUS
<1> HIDE DEF x
<1>4. in' \in InEndpoint
  BY <1>1, <1>2 DEF InEndpoint
<1> QED BY <1>1, <1>2, <1>3, <1>4

LEMMA NoOutIs ==
  ASSUME out \in OutEndpoint, NoOut
  PROVE  out' \in OutEndpoint /\ out'.hw = out.hw /\ out'.buf = out.buf /\ out'.len = out.len
BY DEF NoOut, Idle, OutEndpoint

LEMMA NoInIs ==
  ASSUME in \in InEndpoint, NoIn
  PROVE  in' \in InEndpoint /\ in'.hw = in.hw /\ in'.buf = in.buf
BY DEF NoIn, Idle, InEndpoint

(* An IN transfer was started, with the status of the command.              *)
InArmed == in \in InEndpoint /\ in.queued /\ in.hw # NULL /\ in.hw.buf = in.buf

StatusArmed(status) ==
  /\ bot_state = "BOT_CSW" /\ InArmed
  /\ in.buf \in Csw /\ in.buf.tag = cbw.tag /\ in.buf.status = status

LEMMA CswIs ==
  ASSUME in \in InEndpoint, in.hw = NULL, cbw' \in Command, NEW status \in {"PASS", "FAIL"},
         msc_send_csw(status)
  PROVE  StatusArmed(status)'
<1> DEFINE p == [kind |-> "CSW", tag |-> cbw'.tag, status |-> status]
<1>1. p \in Csw /\ p \in Payload /\ p.tag = cbw'.tag /\ p.status = status
  BY CommandIs DEF Csw, Payload
<1>2. Transmit(p, Short) /\ Short \in Nat /\ bot_state' = "BOT_CSW"
  BY Sizes DEF msc_send_csw
<1> HIDE DEF p
<1> QED BY <1>1, <1>2, TransmitIs DEF StatusArmed, InArmed

LEMMA FailIs ==
  ASSUME in \in InEndpoint, in.hw = NULL, cbw' \in Command, NEW why \in Sense, msc_fail(why)
  PROVE  StatusArmed("FAIL")' /\ sense' \in Sense
BY CswIs DEF msc_fail

LEMMA DataLengthIs == ASSUME NEW c \in Command PROVE DataLength(c) \in Nat
<1>1. c.cnt \in Nat
  BY CommandIs
<1>2. CASE Moves(c)
  <2>1. c.op \notin {"INQUIRY", "REQUEST_SENSE"}
    BY <1>2 DEF Moves
  <2>2. DataLength(c) = Packet * c.cnt
    BY <1>2, <2>1, Zenon DEF DataLength
  <2> QED BY <1>1, <2>2 DEF Packet
<1>3. CASE ~Moves(c) /\ c.op \in {"INQUIRY", "REQUEST_SENSE"}
  BY <1>3 DEF DataLength, Short
<1>4. CASE ~Moves(c) /\ c.op \notin {"INQUIRY", "REQUEST_SENSE"}
  BY <1>4 DEF DataLength
<1> QED BY <1>2, <1>3, <1>4

LEMMA ReplyIs ==
  ASSUME Types, in.hw = NULL, cbw' \in Command, NEW reply \in Sense \cup {"INQUIRY"},
         msc_send_data(reply)
  PROVE  /\ bot_state' = "BOT_DATA_IN" /\ InArmed'
         /\ in'.buf \in Payload /\ in'.buf.kind = "REPLY"
         /\ io' \in Io /\ io'.left = 0 /\ xfer_buf' \in XferBuf
<1> DEFINE p == [kind |-> "REPLY", what |-> reply]
           len == Min2(Short, DataLength(cbw'))
<1>1. p \in Payload /\ p.kind = "REPLY"
  BY DEF Payload
<1>2. len \in Nat
  BY DataLengthIs, Sizes DEF Min2
<1>3. Transmit(p, len) /\ bot_state' = "BOT_DATA_IN"
  BY DEF msc_send_data
<1> HIDE DEF p, len
<1>4. InArmed' /\ in'.buf = p
  BY <1>1, <1>2, <1>3, TransmitIs DEF InArmed, Types
<1>5. io' = [io EXCEPT !.left = 0] /\ io \in Io
  BY DEF msc_send_data, Types
<1>6. io' \in Io /\ io'.left = 0
  BY <1>5, Sizes DEF Io
<1>7. xfer_buf' \in XferBuf
  BY DEF msc_send_data, Types, XferBuf
<1> QED BY <1>1, <1>3, <1>4, <1>6, <1>7

BlocksArmed(lba, left) ==
  /\ bot_state' = "BOT_DATA_IN" /\ InArmed'
  /\ in'.buf \in Payload /\ in'.buf.kind = "BLOCKS"
  /\ io' \in Io /\ xfer_buf' \in XferBuf
  /\ UNCHANGED sense
  /\ \E n \in 1 .. left : io'.lba = lba + n /\ io'.left = left - n /\ in'.buf.data = Slice(lba, n)

LEMMA ReadIs ==
  ASSUME Types, in.hw = NULL, cbw' \in Command, NEW lba \in Nat, NEW left \in 1 .. MaxCount,
         lba + left <= NumBlocks, msc_continue_read(lba, left)
  PROVE  \/ BlocksArmed(lba, left)
         \/ ReadFaults /\ StatusArmed("FAIL")' /\ sense' \in Sense /\ io' \in Io /\ UNCHANGED xfer_buf
<1> DEFINE n == Min2(left, ChunkBlocks)
           read == [i \in DOMAIN xfer_buf |-> IF i < n THEN disk[lba + i] ELSE xfer_buf[i]]
           data == [i \in 1 .. n |-> read[i - 1]]
           p == [kind |-> "BLOCKS", data |-> data]
<1>1. n \in 1 .. left /\ n <= ChunkBlocks /\ n \in Nat
  BY Sizes DEF Min2
<1>2. \/ /\ io' = [lba |-> lba + n, left |-> left - n, chunk |-> n]
         /\ xfer_buf' = read
         /\ bot_state' = "BOT_DATA_IN"
         /\ Transmit(p, Packet * n)
         /\ UNCHANGED sense
      \/ /\ ReadFaults
         /\ io' = [io EXCEPT !.lba = lba, !.left = left]
         /\ msc_fail("UNRECOVERED_READ")
         /\ UNCHANGED xfer_buf
  BY DEF msc_continue_read
<1> HIDE DEF n
<1>3. /\ xfer_buf \in [0 .. ChunkBlocks - 1 -> Data \cup {NULL}] /\ disk \in [Blocks -> Data]
      /\ io \in Io /\ in \in InEndpoint
  BY DEF Types, XferBuf
<1>4. \A i \in 0 .. n - 1 : lba + i \in Blocks /\ i \in 0 .. ChunkBlocks - 1
  BY <1>1, Sizes DEF Blocks
<1>5. read \in XferBuf
  <2>1. \A i \in 0 .. ChunkBlocks - 1 : i < n => i \in 0 .. n - 1
    BY <1>1
  <2> QED BY <1>3, <1>4, <2>1 DEF XferBuf
<1>6. data = Slice(lba, n) /\ data \in Seq(Data)
  <2>1. \A i \in 1 .. n : i - 1 \in 0 .. n - 1 /\ i - 1 < n /\ lba + (i - 1) = lba + i - 1
    BY <1>1
  <2>2. \A i \in 1 .. n : read[i - 1] = disk[lba + i - 1] /\ disk[lba + i - 1] \in Data
    BY <1>3, <1>4, <2>1
  <2> HIDE DEF read
  <2>3. data \in [1 .. n -> Data]
    BY <2>2
  <2> QED BY <1>1, <2>2, <2>3 DEF Slice
<1> HIDE DEF read, data
<1>7. p \in Payload /\ p.kind = "BLOCKS" /\ p.data = data
  BY <1>6 DEF Payload
<1> HIDE DEF p
<1>8. CASE /\ io' = [lba |-> lba + n, left |-> left - n, chunk |-> n]
           /\ xfer_buf' = read
           /\ bot_state' = "BOT_DATA_IN"
           /\ Transmit(p, Packet * n)
           /\ UNCHANGED sense
  <2>1. InArmed' /\ in'.buf = p
    BY <1>1, <1>3, <1>7, <1>8, TransmitIs, Sizes DEF InArmed
  <2>2. io' \in Io /\ io'.lba = lba + n /\ io'.left = left - n
    BY <1>1, <1>8, Sizes DEF Io
  <2> QED BY <1>1, <1>5, <1>6, <1>7, <1>8, <2>1, <2>2 DEF BlocksArmed
<1>9. CASE /\ ReadFaults
           /\ io' = [io EXCEPT !.lba = lba, !.left = left]
           /\ msc_fail("UNRECOVERED_READ")
           /\ UNCHANGED xfer_buf
  <2>1. StatusArmed("FAIL")' /\ sense' \in Sense
    BY <1>3, <1>9, FailIs DEF Sense
  <2>2. io' = [io EXCEPT !.lba = lba, !.left = left] /\ lba \in 0 .. NumBlocks /\ left \in 0 .. MaxCount
    BY <1>9, Sizes
  <2>3. io' \in Io
    BY <1>3, <2>2 DEF Io
  <2> QED BY <1>9, <2>1, <2>3
<1> QED BY <1>2, <1>8, <1>9

LEMMA WriteArmedIs ==
  ASSUME Types, out.hw = NULL, NEW lba \in Nat, NEW left \in 1 .. MaxCount,
         lba + left <= NumBlocks, msc_arm_write_chunk(lba, left)
  PROVE  /\ bot_state' = "BOT_DATA_OUT"
         /\ io' \in Io /\ io'.lba = lba /\ io'.left = left
         /\ io'.chunk = Min2(left, ChunkBlocks) /\ io'.chunk \in 1 .. left
         /\ out' \in OutEndpoint /\ out'.queued /\ out'.hw # NULL
         /\ out'.buf = "xfer_buf" /\ out'.len = Packet * io'.chunk
         /\ out'.hw.buf = "xfer_buf" /\ out'.hw.len = Packet * io'.chunk /\ out'.hw.got = 0
<1> DEFINE n == Min2(left, ChunkBlocks)
<1>1. n \in 1 .. left /\ n <= ChunkBlocks /\ n \in Nat
  BY Sizes DEF Min2
<1>2. /\ io' = [lba |-> lba, left |-> left, chunk |-> n]
      /\ bot_state' = "BOT_DATA_OUT"
      /\ Receive("xfer_buf", Packet * n)
  BY DEF msc_arm_write_chunk
<1>3. n = Min2(left, ChunkBlocks)
  OBVIOUS
<1> HIDE DEF n
<1>4. io' \in Io
  BY <1>1, <1>2, Sizes DEF Io
<1>5. out \in OutEndpoint
  BY DEF Types
<1>6. Packet * n \in 0 .. Packet * ChunkBlocks /\ ~(Packet * n < Packet)
  BY <1>1, Sizes
<1>7. /\ out' \in OutEndpoint /\ out'.queued /\ out'.buf = "xfer_buf"
      /\ out'.len = Packet * n /\ out'.hw = [buf |-> "xfer_buf", len |-> out'.len, got |-> 0]
      /\ out'.hw # NULL
  BY <1>2, <1>5, <1>6, ReceiveIs
<1> QED BY <1>1, <1>2, <1>3, <1>4, <1>7

(* Arming for a command block again changes nothing in the controller.      *)
LEMMA ArmedIs ==
  ASSUME out \in OutEndpoint, out.hw \in {NULL, CbwTransfer}, msc_arm_cbw
  PROVE  /\ bot_state' = "BOT_IDLE" /\ out' \in OutEndpoint
         /\ out'.buf = "cbw" /\ out'.len = Packet /\ out'.hw = CbwTransfer /\ out'.hw # NULL
<1>1. Receive("cbw", Short) /\ Short \in 0 .. Packet * ChunkBlocks /\ Short < Packet /\ bot_state' = "BOT_IDLE"
  BY Sizes DEF msc_arm_cbw
<1>2. CASE out.hw = NULL
  BY <1>1, <1>2, ReceiveIs DEF CbwTransfer
<1>3. CASE out.hw = CbwTransfer /\ out.hw # NULL
  <2>1. out' \in Started(out, CbwTransfer)
    BY <1>1 DEF Receive, CbwTransfer
  <2>2. Started(out, CbwTransfer)
          = {[queued |-> FALSE, buf |-> CbwTransfer.buf, len |-> CbwTransfer.len, resid |-> CbwTransfer.len,
              hw |-> h] : h \in {CbwTransfer}}
    <3>1. (out.hw = NULL) = FALSE
      BY <1>3
    <3>2. (IF out.hw = NULL THEN {CbwTransfer} ELSE {out.hw, CbwTransfer}) = {CbwTransfer}
      BY <1>3
    <3> QED BY <3>1, <3>2, Zenon DEF Started
  <2>3. CbwTransfer.buf = "cbw" /\ CbwTransfer.len = Packet /\ CbwTransfer \in Transfer
    BY Sizes DEF CbwTransfer, Transfer
  <2>4. out' = [queued |-> FALSE, buf |-> "cbw", len |-> Packet, resid |-> Packet, hw |-> CbwTransfer]
    BY <2>1, <2>2, <2>3
  <2>5. out' \in OutEndpoint
    BY <2>3, <2>4, Sizes DEF OutEndpoint
  <2> QED BY <1>1, <1>3, <2>4, <2>5
<1> QED BY <1>2, <1>3

-----------------------------------------------------------------------------
(* Events that are handled.                                                 *)

LEMMA Polled ==
  ASSUME Queue, NEW e, Taken(e), dev_state' = StateAfter(e)
  PROVE  /\ Queue' /\ e \in Event /\ dev_state \in Met(e)
         /\ StateAtEnd(dev_state', events') = StateAtEnd(dev_state, events)
         /\ \A f : f # e => (Holds(events', f) <=> Holds(events, f))
         /\ \A f : Holds(events', f) => Holds(events, f)
         /\ Holds(events, e)
         /\ e \in Ends => NoneUnread'
         /\ e = "RESET" => \A f : Holds(events', f) => f = "SET_ADDRESS"
         /\ e \in Requests => events' = <<>>
         /\ events' # <<>> => events # <<>> /\ events'[Len(events')] = events[Len(events)]
         /\ events' = <<>> => events[Len(events)] = e
<1>1. events # <<>> /\ Head(events) = e /\ events' = Tail(events) /\ QueueOK(dev_state, events)
  BY DEF Taken, Queue
<1> QED BY <1>1, HeadTaken DEF Queue, NoneUnread

LEMMA PolledEnd ==
  ASSUME Queue, HostOK, NEW e \in Ends, Taken(e), dev_state = "CONFIGURED" => dev_state' = dev_state,
         UNCHANGED <<dev_old_state, host>>
  PROVE  /\ Queue' /\ HostOK' /\ NoneUnread' /\ dev_state = "CONFIGURED" /\ dev_state' = dev_state
         /\ Holds(events, e)
         /\ \A f : Holds(events', f) => Holds(events, f)
<1>1. dev_state = "CONFIGURED"
  <2>1. events # <<>> /\ Head(events) = e /\ QueueOK(dev_state, events)
    BY DEF Taken, Queue
  <2>2. dev_state \in Met(e)
    BY <2>1, HeadTaken
  <2>3. e = "OUT" \/ e = "IN"
    BY DEF Ends
  <2> QED BY <2>2, <2>3 DEF Met
<1>2. dev_state' = StateAfter(e)
  BY <1>1 DEF StateAfter, Ends
<1>3. HostOK'
  <2>1. StateAtEnd(dev_state', events') = StateAtEnd(dev_state, events)
    BY <1>2, Polled
  <2>2. \A f : Holds(events', f) => Holds(events, f)
    BY <1>2, Polled
  <2>3. host.st = "waiting" => events' # <<>> /\ events'[Len(events')] \in Requests
    <3>1. e \notin Requests
      BY DEF Ends, Requests
    <3> QED BY <1>2, <3>1, Polled DEF HostOK
  <2> QED BY <1>1, <2>1, <2>2, <2>3 DEF HostOK
<1> QED BY <1>1, <1>2, <1>3, Polled

(* No command stands in two places.                                         *)
LEMMA PhaseApart ==
  /\ Ready => ~CbwCame /\ ~TakingBlocks /\ ~BlocksCame /\ ~Offering /\ ~Sent /\ ~Reporting
  /\ CbwCame => ~TakingBlocks /\ ~BlocksCame /\ ~Offering /\ ~Sent /\ ~Reporting
  /\ TakingBlocks => ~BlocksCame /\ ~Offering /\ ~Sent /\ ~Reporting
  /\ BlocksCame => ~Offering /\ ~Sent /\ ~Reporting
  /\ Offering => ~Sent /\ ~Reporting
  /\ Sent => ~Reporting
BY DEF Ready, ArmedForCbw, CswTaken, CbwCame, TakingBlocks, BlocksCame, Offering, Sent, Reporting,
       Writing, Sending, OutUnderWay, InUnderWay, OutDone, InDone, NoneUnread

LEMMA HostPhaseKept ==
  ASSUME HostPhase, ~Ready, UNCHANGED host, \A f : Holds(events', f) => Holds(events, f),
         host.st \in {"data_out", "data_in", "csw"} => Phases'
  PROVE  HostPhase'
BY Zenon DEF HostPhase, Phases

LEMMA SliceSame == ASSUME UNCHANGED disk, NEW a, NEW n PROVE Slice(a, n)' = Slice(a, n)
BY DEF Slice

LEMMA SliceEmpty == \A a : Slice(a, 0) = <<>>
<1> SUFFICES ASSUME NEW a PROVE Slice(a, 0) = <<>>
  OBVIOUS
<1>1. Slice(a, 0) \in [1 .. 0 -> {0}]
  BY DEF Slice
<1>2. Slice(a, 0) \in Seq({0})
  BY <1>1
<1>3. Len(Slice(a, 0)) = 0
  BY <1>2 DEF Slice
<1> QED BY <1>2, <1>3, EmptySeq

-----------------------------------------------------------------------------
(* The device handles the completion of a transfer.                         *)

LEMMA ReportedStep ==
  ASSUME Types, NEW status \in {"PASS", "FAIL"}, StatusArmed(status)',
         sense' \in Sense, io' \in Io, xfer_buf' \in XferBuf, disk' \in [Blocks -> Data],
         out' \in OutEndpoint, out'.hw = NULL, NoneUnread', Serving',
         UNCHANGED <<dev_state, bounce, host>>,
         status = "PASS" => Passed(cbw)', status = "FAIL" => Failed(cbw)'
  PROVE  Types' /\ Reporting'
<1>1. bot_state' = "BOT_CSW" /\ InArmed' /\ in'.buf \in Csw /\ in'.buf.tag = cbw'.tag /\ in'.buf.status = status
  BY DEF StatusArmed
<1>2. Types'
  BY <1>1 DEF Types, InArmed, Serving
<1>3. Reporting'
  BY <1>1 DEF Reporting, InArmed, InUnderWay
<1> QED BY <1>2, <1>3

LEMMA DispatchStep ==
  ASSUME IInv, PollOut, CbwCame
  PROVE  IInv'
<1>c. PICK c : c = host.cmd
  OBVIOUS
<1>0. Types /\ Queue /\ HostOK /\ Phase /\ HostPhase
  BY DEF IInv
<1>1. /\ c \in Command /\ bounce = c /\ bot_state = "BOT_IDLE" /\ out.buf = "cbw"
      /\ out.len - out.resid = Short /\ host.data = <<>>
      /\ out.hw = NULL /\ in.hw = NULL
  BY <1>c, Sizes DEF CbwCame, OutDone
<1>2. /\ cbw' = c /\ dev_state' = dev_state /\ Taken("OUT")
      /\ UNCHANGED <<dev_old_state, bounce, host>>
      /\ dev_state = "CONFIGURED" => msc_data_out(Short)
  BY <1>1, Sizes DEF PollOut
<1>3. /\ Queue' /\ HostOK' /\ NoneUnread' /\ dev_state = "CONFIGURED"
      /\ \A f : Holds(events', f) => Holds(events, f)
  BY <1>0, <1>2, PolledEnd DEF Ends
<1>4. msc_cmd_dispatch(c) /\ UNCHANGED disk
  <2>1. cbw' # NULL
    BY <1>1, <1>2, CommandIs
  <2>2. msc_data_out(Short)
    BY <1>2, <1>3
  <2> QED BY <1>1, <1>2, <2>1, <2>2, Zenon DEF msc_data_out
<1>5. /\ c.lba \in Blocks /\ c.lba \in Nat /\ c.cnt \in 0 .. MaxCount /\ c.cnt \in Nat
      /\ c.op \notin {"READ10", "WRITE10"} => c.cnt = 0
  BY <1>1, CommandIs
<1>6. /\ Serving' /\ cbw' = c /\ host' = host /\ host'.cmd = c /\ host.cmd = c
      /\ disk' \in [Blocks -> Data] /\ out \in OutEndpoint /\ in \in InEndpoint
      /\ io \in Io /\ sense \in Sense /\ xfer_buf \in XferBuf
  BY <1>c, <1>0, <1>1, <1>2, <1>4 DEF Serving, Types
<1>7. host.st \in {"data_out", "data_in", "csw"} =>
        host.st = IF DataLength(c) = 0 THEN "csw" ELSE IF c.op = "WRITE10" THEN "data_out" ELSE "data_in"
  BY <1>c, <1>0, PhaseApart, Zenon DEF HostPhase, Phases
<1>8. ~Ready
  BY PhaseApart
<1>9. ASSUME Types', Reporting' \/ Offering' \/ TakingBlocks',
             host.st \in {"data_out", "data_in", "csw"} => Phases'
      PROVE  IInv'
  <2>1. HostPhase'
    BY <1>0, <1>3, <1>6, <1>8, <1>9, HostPhaseKept
  <2>2. Phase'
    BY <1>2, <1>3, <1>9 DEF Phase, Alive
  <2> QED BY <1>3, <1>9, <2>1, <2>2 DEF IInv
<1>r. ASSUME Types', Reporting' PROVE IInv'
  <2>1. Phases'
    BY <1>r, Zenon DEF Phases
  <2> QED BY <1>9, <1>r, <2>1
<1>o. ASSUME Types', Offering', (c.cnt # 0 /\ c.op = "READ10") \/ c.op \in {"INQUIRY", "REQUEST_SENSE"}
      PROVE  IInv'
  <2>1. DataLength(c) # 0 /\ c.op # "WRITE10"
    BY <1>5, <1>o DEF DataLength, Moves, Packet, Short
  <2>2. host.st \in {"data_out", "data_in", "csw"} => host'.st = "data_in"
    BY <1>6, <1>7, <2>1
  <2>3. host.st \in {"data_out", "data_in", "csw"} => Phases'
    BY <1>o, <2>2, Zenon DEF Phases
  <2> QED BY <1>9, <1>o, <2>3
<1>t. ASSUME Types', TakingBlocks', c.cnt # 0 /\ c.op = "WRITE10" PROVE IInv'
  <2>1. DataLength(c) # 0
    BY <1>5, <1>t DEF DataLength, Moves, Packet
  <2>2. host.st \in {"data_out", "data_in", "csw"} => host'.st = "data_out"
    BY <1>6, <1>7, <1>t, <2>1
  <2>3. host.st \in {"data_out", "data_in", "csw"} => Phases'
    BY <1>t, <2>2, Zenon DEF Phases
  <2> QED BY <1>9, <1>t, <2>3
<1>10. ASSUME NEW status \in {"PASS", "FAIL"}, StatusArmed(status)', NoOut,
              sense' \in Sense, io' \in Io, xfer_buf' \in XferBuf,
              status = "PASS" => Passed(c)', status = "FAIL" => Failed(c)'
       PROVE  Types' /\ Reporting'
  <2>1. out' \in OutEndpoint /\ out'.hw = NULL
    BY <1>1, <1>6, <1>10, NoOutIs
  <2>2. status = "PASS" => Passed(cbw)'
    BY <1>6, <1>10
  <2>3. status = "FAIL" => Failed(cbw)'
    BY <1>6, <1>10
  <2> QED BY <1>0, <1>2, <1>3, <1>6, <1>10, <2>1, <2>2, <2>3, ReportedStep
<1>11. ASSUME NEW why \in Sense, msc_fail(why), NoOut, UNCHANGED <<io, xfer_buf>>, Failed(c)'
       PROVE  IInv'
  <2>1. StatusArmed("FAIL")' /\ sense' \in Sense
    BY <1>1, <1>6, <1>11, FailIs
  <2>2. io' \in Io /\ xfer_buf' \in XferBuf
    BY <1>6, <1>11
  <2>3. Types' /\ Reporting'
    BY <1>10, <1>11, <2>1, <2>2
  <2> QED BY <1>r, <2>3
<1>12. ASSUME msc_send_csw("PASS"), NoOut, UNCHANGED <<io, sense, xfer_buf>>, Passed(c)'
       PROVE  IInv'
  <2>1. StatusArmed("PASS")'
    BY <1>1, <1>6, <1>12, CswIs
  <2>2. io' \in Io /\ xfer_buf' \in XferBuf /\ sense' \in Sense
    BY <1>6, <1>12
  <2>3. Types' /\ Reporting'
    BY <1>10, <1>12, <2>1, <2>2
  <2> QED BY <1>r, <2>3
<1>13. ASSUME NEW reply \in Sense \cup {"INQUIRY"}, msc_send_data(reply), NoOut, sense' \in Sense,
              c.op \in {"INQUIRY", "REQUEST_SENSE"}
       PROVE  IInv'
  <2>1. /\ bot_state' = "BOT_DATA_IN" /\ InArmed' /\ in'.buf \in Payload /\ in'.buf.kind = "REPLY"
        /\ io' \in Io /\ io'.left = 0 /\ xfer_buf' \in XferBuf
    BY <1>0, <1>1, <1>6, <1>13, ReplyIs
  <2>2. out' \in OutEndpoint /\ out'.hw = NULL
    BY <1>1, <1>6, <1>13, NoOutIs
  <2>3. Types'
    BY <1>0, <1>1, <1>2, <1>6, <1>13, <2>1, <2>2 DEF Types, InArmed
  <2>4. Offering'
    <3>1. host'.data = <<>> /\ cbw'.op # "READ10"
      BY <1>1, <1>6, <1>13
    <3> QED BY <1>3, <1>6, <1>13, <2>1, <2>2, <3>1 DEF Offering, Offered, Sending, InArmed, InUnderWay
  <2> QED BY <1>o, <1>13, <2>3, <2>4
<1>14. CASE c.op = "TEST_UNIT_READY" /\ msc_send_csw("PASS") /\ NoOut /\ UNCHANGED <<io, sense, xfer_buf>>
  <2>1. Passed(c)'
    BY <1>1, <1>6, <1>14 DEF Passed, Moves
  <2> QED BY <1>12, <1>14, <2>1
<1>15. CASE c.op = "INQUIRY" /\ msc_send_data("INQUIRY") /\ NoOut /\ UNCHANGED sense
  BY <1>6, <1>13, <1>15
<1>16. CASE c.op = "REQUEST_SENSE" /\ sense' = "NONE" /\ msc_send_data(sense) /\ NoOut
  BY <1>6, <1>13, <1>16 DEF Sense
<1>17. CASE /\ c.op \in {"READ10", "WRITE10"} /\ c.cnt = 0
            /\ msc_send_csw("PASS") /\ NoOut /\ UNCHANGED <<io, sense, xfer_buf>>
  <2>1. host'.data = Slice(c.lba, 0)' /\ host'.data = <<>>
    BY <1>1, <1>4, <1>6, SliceSame, SliceEmpty
  <2>2. \A b \in c.lba .. c.lba + c.cnt - 1 : disk'[b] = c.val
    BY <1>5, <1>17
  <2>3. Passed(c)'
    BY <1>5, <1>6, <1>17, <2>1, <2>2 DEF Passed
  <2> QED BY <1>12, <1>17, <2>3
<1>18. CASE /\ c.op \in {"READ10", "WRITE10"} /\ c.cnt # 0 /\ c.lba + c.cnt > NumBlocks
            /\ msc_fail("LBA_OUT_OF_RANGE") /\ NoOut /\ UNCHANGED <<io, xfer_buf>>
  <2>1. Failed(c)'
    BY <1>5, <1>18, Sizes DEF Failed, Moves, InCard
  <2>2. "LBA_OUT_OF_RANGE" \in Sense
    BY DEF Sense
  <2> QED BY <1>11, <1>18, <2>1, <2>2
<1>19. CASE /\ c.op = "READ10" /\ c.cnt # 0 /\ c.lba + c.cnt <= NumBlocks
            /\ msc_continue_read(c.lba, c.cnt) /\ NoOut
  <2>0. c.cnt \in 1 .. MaxCount /\ InCard(c)
    BY <1>5, <1>19 DEF InCard
  <2>1. CASE BlocksArmed(c.lba, c.cnt)
    <3>1. PICK n \in 1 .. c.cnt : io'.lba = c.lba + n /\ io'.left = c.cnt - n /\ in'.buf.data = Slice(c.lba, n)
      BY <2>1 DEF BlocksArmed
    <3>2. /\ bot_state' = "BOT_DATA_IN" /\ InArmed' /\ in'.buf \in Payload /\ in'.buf.kind = "BLOCKS"
          /\ io' \in Io /\ xfer_buf' \in XferBuf /\ UNCHANGED sense
      BY <2>1 DEF BlocksArmed
    <3>3. out' \in OutEndpoint /\ out'.hw = NULL
      BY <1>1, <1>6, <1>19, NoOutIs
    <3>4. Types'
      BY <1>0, <1>1, <1>2, <1>6, <3>2, <3>3 DEF Types, InArmed
    <3>5. /\ io'.left \in 0 .. c.cnt /\ io'.lba + io'.left = c.lba + c.cnt
          /\ n \in 1 .. c.cnt - io'.left /\ io'.lba - n = c.lba /\ c.cnt - io'.left - n = 0
      BY <1>5, <3>1
    <3>6. in'.buf.data = Slice(io.lba - n, n)' /\ host'.data = Slice(c.lba, c.cnt - io.left - n)'
      <4>1. Slice(io.lba - n, n)' = Slice(c.lba, n)' /\ Slice(c.lba, c.cnt - io.left - n)' = Slice(c.lba, 0)'
        BY <3>5 DEF Slice
      <4> QED BY <1>1, <1>4, <1>6, <3>1, <4>1, SliceEmpty, SliceSame
    <3>7. Offering'
      BY <1>3, <1>6, <1>19, <2>0, <3>2, <3>3, <3>5, <3>6 DEF Offering, Offered, Sending, InArmed, InUnderWay, InCard
    <3> QED BY <1>o, <1>19, <3>4, <3>7
  <2>2. CASE ReadFaults /\ StatusArmed("FAIL")' /\ sense' \in Sense /\ io' \in Io /\ UNCHANGED xfer_buf
    <3>1. Failed(c)'
      BY <1>19, <2>2 DEF Failed, Moves
    <3>2. Types' /\ Reporting'
      BY <1>6, <1>10, <1>19, <2>2, <3>1
    <3> QED BY <1>r, <3>2
  <2> QED BY <1>0, <1>1, <1>5, <1>6, <1>19, <2>0, <2>1, <2>2, ReadIs
<1>20. CASE /\ c.op = "WRITE10" /\ c.cnt # 0 /\ c.lba + c.cnt <= NumBlocks
            /\ msc_arm_write_chunk(c.lba, c.cnt) /\ UNCHANGED in /\ UNCHANGED <<sense, xfer_buf>>
  <2>0. c.cnt \in 1 .. MaxCount /\ InCard(c)
    BY <1>5, <1>20 DEF InCard
  <2>1. /\ bot_state' = "BOT_DATA_OUT"
        /\ io' \in Io /\ io'.lba = c.lba /\ io'.left = c.cnt
        /\ io'.chunk = Min2(c.cnt, ChunkBlocks) /\ io'.chunk \in 1 .. c.cnt
        /\ out' \in OutEndpoint /\ out'.queued /\ out'.hw # NULL
        /\ out'.buf = "xfer_buf" /\ out'.len = Packet * io'.chunk
        /\ out'.hw.buf = "xfer_buf" /\ out'.hw.len = Packet * io'.chunk /\ out'.hw.got = 0
    BY <1>0, <1>1, <1>5, <1>20, <2>0, WriteArmedIs
  <2>2. Types'
    BY <1>0, <1>1, <1>2, <1>6, <1>20, <2>1 DEF Types
  <2>3. Writing'
    <3>1. io'.left \in 1 .. c.cnt /\ \A b \in c.lba .. io'.lba - 1 : disk'[b] = c.val
      BY <1>5, <2>0, <2>1
    <3> QED BY <1>1, <1>6, <1>20, <2>0, <2>1, <3>1 DEF Writing, InCard
  <2>4. Filled(0)' /\ 0 \in 0 .. io'.chunk - 1 /\ out'.hw.got = Packet * 0
    <3>1. host'.moved = 0
      BY <1>6 DEF CbwCame
    <3>2. cbw'.cnt - io'.left + 0 = 0
      BY <1>5, <1>6, <2>1
    <3> QED BY <2>1, <3>1, <3>2 DEF Filled, Packet
  <2>5. TakingBlocks'
    BY <1>1, <1>3, <1>20, <2>1, <2>3, <2>4 DEF TakingBlocks, OutUnderWay
  <2> QED BY <1>t, <1>20, <2>2, <2>5
<1>21. CASE c.op = "UNKNOWN" /\ msc_fail("INVALID_OPCODE") /\ NoOut /\ UNCHANGED <<io, xfer_buf>>
  <2>1. Failed(c)' /\ "INVALID_OPCODE" \in Sense
    BY <1>21 DEF Failed, Sense
  <2> QED BY <1>11, <1>21, <2>1
<1> QED BY <1>4, <1>14, <1>15, <1>16, <1>17, <1>18, <1>19, <1>20, <1>21, Zenon DEF msc_cmd_dispatch

LEMMA StoreStep ==
  ASSUME IInv, PollOut, BlocksCame
  PROVE  IInv'
<1>c. PICK c : c = host.cmd
  OBVIOUS
<1>0. Types /\ Queue /\ HostOK /\ Phase /\ HostPhase
  BY DEF IInv
<1>1. Writing /\ OutDone /\ Filled(io.chunk)
  BY DEF BlocksCame
<1>2. /\ c \in Command /\ cbw = c /\ host.cmd = c /\ c.op = "WRITE10" /\ InCard(c) /\ c.val \in Data
      /\ c.lba \in Nat /\ c.cnt \in Nat /\ c.cnt <= MaxCount
      /\ bot_state = "BOT_DATA_OUT" /\ out.buf = "xfer_buf" /\ host.data = <<>>
  BY <1>c, <1>1, CommandIs DEF Writing, Serving
<1>3. /\ io.left \in 1 .. c.cnt /\ io.chunk = Min2(io.left, ChunkBlocks)
      /\ io.lba + io.left = c.lba + c.cnt
      /\ \A b \in c.lba .. io.lba - 1 : disk[b] = c.val
      /\ host.moved = c.cnt - io.left + io.chunk
      /\ \A i \in 0 .. io.chunk - 1 : xfer_buf[i] = c.val
  BY <1>1, <1>2 DEF Writing, Filled
<1>4. io.chunk \in 1 .. io.left /\ io.chunk <= ChunkBlocks /\ io.lba \in Nat /\ c.lba <= io.lba
      /\ io.lba + io.left <= NumBlocks
      /\ io.left \in Nat /\ io.chunk \in Nat /\ 1 <= io.chunk /\ io.chunk <= io.left /\ io.left <= c.cnt
  BY <1>0, <1>2, <1>3, Sizes DEF Types, Io, Min2, InCard
<1>5. /\ cbw' = c /\ dev_state' = dev_state /\ Taken("OUT")
      /\ UNCHANGED <<dev_old_state, bounce, host>>
      /\ dev_state = "CONFIGURED" => msc_data_out(out.len - out.resid)
  BY <1>2 DEF PollOut
<1>6. /\ Queue' /\ HostOK' /\ NoneUnread' /\ dev_state = "CONFIGURED"
      /\ \A f : Holds(events', f) => Holds(events, f)
  BY <1>0, <1>5, PolledEnd DEF Ends
<1>7. /\ Serving' /\ host' = host /\ host'.cmd = c /\ out \in OutEndpoint /\ out.hw = NULL
      /\ in \in InEndpoint /\ in.hw = NULL /\ disk \in [Blocks -> Data]
      /\ io \in Io /\ sense \in Sense /\ xfer_buf \in XferBuf
  BY <1>0, <1>1, <1>2, <1>5 DEF Serving, Types, OutDone
<1>8. host.st \in {"data_out", "data_in", "csw"} => host.st = IF io.left = io.chunk THEN "csw" ELSE "data_out"
  BY <1>0, PhaseApart, Zenon DEF HostPhase, Phases
<1>9. ~Ready
  BY PhaseApart
<1>10. /\ Stored \in [Blocks -> Data]
       /\ \A b \in c.lba .. io.lba + io.chunk - 1 : Stored[b] = c.val
  <2>1. \A b \in io.lba .. io.lba + io.chunk - 1 :
          b \in Blocks /\ b - io.lba \in 0 .. io.chunk - 1 /\ xfer_buf[b - io.lba] = c.val
    BY <1>3, <1>4, Sizes DEF Blocks
  <2>2. \A b \in Blocks : Stored[b] = IF b \in io.lba .. io.lba + io.chunk - 1 THEN c.val ELSE disk[b]
    BY <2>1 DEF Stored
  <2>3. Stored \in [Blocks -> Data]
    BY <1>2, <1>7, <2>1 DEF Stored
  <2>4. ASSUME NEW b \in c.lba .. io.lba + io.chunk - 1 PROVE Stored[b] = c.val
    <3>1. b \in Blocks
      <4>1. b \in Nat /\ b <= io.lba + io.chunk - 1
        BY <1>2, <1>4
      <4>2. b <= NumBlocks - 1
        BY <1>4, <4>1, Sizes
      <4> QED BY <4>1, <4>2, Sizes DEF Blocks
    <3>2. b \notin io.lba .. io.lba + io.chunk - 1 => b \in c.lba .. io.lba - 1
      BY <1>2, <1>4
    <3> QED BY <1>3, <2>2, <3>1, <3>2
  <2> QED BY <2>3, <2>4
<1>11. ASSUME Types', Reporting' \/ TakingBlocks', host.st \in {"data_out", "data_in", "csw"} => Phases'
       PROVE  IInv'
  <2>1. HostPhase'
    BY <1>0, <1>6, <1>7, <1>9, <1>11, HostPhaseKept
  <2>2. Phase'
    BY <1>5, <1>6, <1>11 DEF Phase, Alive
  <2> QED BY <1>6, <1>11, <2>1, <2>2 DEF IInv
<1>r. ASSUME Types', Reporting' PROVE IInv'
  <2>1. Phases'
    BY <1>r, Zenon DEF Phases
  <2> QED BY <1>11, <1>r, <2>1
<1>12. CASE /\ disk' = Stored /\ io.left > io.chunk
            /\ msc_arm_write_chunk(io.lba + io.chunk, io.left - io.chunk)
            /\ UNCHANGED in /\ UNCHANGED <<sense, xfer_buf>>
  <2>0. io.left > io.chunk
    BY <1>12
  <2>1. /\ io.lba + io.chunk \in Nat /\ io.left - io.chunk \in 1 .. MaxCount
        /\ (io.lba + io.chunk) + (io.left - io.chunk) <= NumBlocks
    BY <1>2, <1>4, <2>0, Sizes
  <2>2. /\ bot_state' = "BOT_DATA_OUT"
        /\ io' \in Io /\ io'.lba = io.lba + io.chunk /\ io'.left = io.left - io.chunk
        /\ io'.chunk = Min2(io.left - io.chunk, ChunkBlocks) /\ io'.chunk \in 1 .. (io.left - io.chunk)
        /\ out' \in OutEndpoint /\ out'.queued /\ out'.hw # NULL
        /\ out'.buf = "xfer_buf" /\ out'.len = Packet * io'.chunk
        /\ out'.hw.buf = "xfer_buf" /\ out'.hw.len = Packet * io'.chunk /\ out'.hw.got = 0
    BY <1>0, <1>7, <1>12, <2>1, WriteArmedIs
  <2>3. Types'
    BY <1>0, <1>2, <1>5, <1>7, <1>10, <1>12, <2>2 DEF Types
  <2>4. Writing'
    <3>1. /\ io'.left \in 1 .. c.cnt /\ io'.lba + io'.left = c.lba + c.cnt
          /\ \A b \in c.lba .. io'.lba - 1 : disk'[b] = c.val
      <4>1. /\ io'.left \in 1 .. c.cnt /\ io'.lba + io'.left = c.lba + c.cnt
            /\ io'.lba - 1 = io.lba + io.chunk - 1
        BY <1>2, <1>3, <1>4, <2>0, <2>2
      <4> QED BY <1>10, <1>12, <4>1
    <3> QED BY <1>2, <1>5, <1>7, <2>2, <3>1 DEF Writing, InCard
  <2>5. Filled(0)' /\ 0 \in 0 .. io'.chunk - 1 /\ out'.hw.got = Packet * 0
    <3>1. host'.moved = cbw'.cnt - io'.left + 0
      BY <1>2, <1>3, <1>4, <1>5, <1>7, <2>2
    <3> QED BY <2>2, <3>1 DEF Filled, Packet
  <2>6. TakingBlocks'
    BY <1>6, <1>7, <1>12, <2>2, <2>4, <2>5 DEF TakingBlocks, OutUnderWay
  <2>7. host.st \in {"data_out", "data_in", "csw"} => host'.st = "data_out"
    BY <1>4, <1>7, <1>8, <1>12
  <2>8. host.st \in {"data_out", "data_in", "csw"} => Phases'
    BY <2>6, <2>7, Zenon DEF Phases
  <2> QED BY <1>11, <2>3, <2>6, <2>8
<1>13. CASE /\ disk' = Stored /\ ~(io.left > io.chunk)
            /\ io' = [lba |-> io.lba + io.chunk, left |-> 0, chunk |-> io.chunk]
            /\ msc_send_csw("PASS") /\ NoOut /\ UNCHANGED <<sense, xfer_buf>>
  <2>1. StatusArmed("PASS")'
    BY <1>2, <1>5, <1>7, <1>13, CswIs
  <2>2. out' \in OutEndpoint /\ out'.hw = NULL
    BY <1>7, <1>13, NoOutIs
  <2>3. io' \in Io
    BY <1>4, <1>7, <1>13, Sizes DEF Io
  <2>4. c.lba + c.cnt - 1 = io.lba + io.chunk - 1
    <3>1. io.left = io.chunk
      BY <1>4, <1>13
    <3>2. io.lba + io.left = c.lba + c.cnt
      BY <1>3
    <3> QED BY <1>2, <1>4, <3>1, <3>2
  <2>5. Passed(cbw)'
    BY <1>2, <1>5, <1>7, <1>10, <1>13, <2>4 DEF Passed, InCard
  <2>6. Types' /\ Reporting'
    BY <1>0, <1>5, <1>6, <1>7, <1>10, <1>13, <2>1, <2>2, <2>3, <2>5, ReportedStep
  <2> QED BY <1>r, <2>6
<1>14. CASE /\ WriteFaults
            /\ \E hit \in SUBSET Blocks :
                 disk' = [b \in Blocks |-> IF b \in hit THEN Stored[b] ELSE disk[b]]
            /\ msc_fail("WRITE_FAULT") /\ NoOut /\ UNCHANGED <<io, xfer_buf>>
  <2>1. StatusArmed("FAIL")' /\ sense' \in Sense
    BY <1>2, <1>5, <1>7, <1>14, FailIs DEF Sense
  <2>2. out' \in OutEndpoint /\ out'.hw = NULL
    BY <1>7, <1>14, NoOutIs
  <2>3. disk' \in [Blocks -> Data]
    BY <1>7, <1>10, <1>14
  <2>4. Failed(cbw)'
    BY <1>2, <1>5, <1>14 DEF Failed, Moves
  <2>5. io' \in Io /\ xfer_buf' \in XferBuf
    BY <1>7, <1>14
  <2>6. Types' /\ Reporting'
    BY <1>0, <1>5, <1>6, <1>7, <2>1, <2>2, <2>3, <2>4, <2>5, ReportedStep
  <2> QED BY <1>r, <2>6
<1>15. msc_data_out(out.len - out.resid)
  BY <1>5, <1>6
<1> QED BY <1>2, <1>12, <1>13, <1>14, <1>15, Zenon DEF msc_data_out

(* The blocks read so far, and the ones that follow.                        *)
LEMMA SentStep ==
  ASSUME IInv, PollIn, Sent
  PROVE  IInv'
<1>c. PICK c : c = host.cmd
  OBVIOUS
<1>0. Types /\ Queue /\ HostOK /\ Phase /\ HostPhase
  BY DEF IInv
<1>1. Sending /\ InDone
  BY DEF Sent
<1>2. /\ c \in Command /\ cbw = c /\ host.cmd = c /\ bot_state = "BOT_DATA_IN"
      /\ c.lba \in Nat /\ c.cnt \in Nat /\ c.cnt <= MaxCount
  BY <1>c, <1>1, CommandIs DEF Sending, Serving
<1>3. \/ /\ c.op \in {"INQUIRY", "REQUEST_SENSE"} /\ io.left = 0 /\ host.data = <<>>
      \/ /\ c.op = "READ10" /\ InCard(c) /\ io.left \in 0 .. c.cnt /\ io.lba + io.left = c.lba + c.cnt
         /\ host.data = Slice(c.lba, c.cnt - io.left)
  BY <1>1, <1>2 DEF Sent, Sending
<1>4. /\ dev_state' = dev_state /\ Taken("IN")
      /\ UNCHANGED <<dev_old_state, bounce, host>>
      /\ dev_state = "CONFIGURED" => msc_data_in
  BY DEF PollIn, core
<1>5. /\ Queue' /\ HostOK' /\ NoneUnread' /\ dev_state = "CONFIGURED"
      /\ \A f : Holds(events', f) => Holds(events, f)
  BY <1>0, <1>4, PolledEnd DEF Ends
<1>6. msc_data_in /\ UNCHANGED <<cbw, disk>>
  BY <1>4, <1>5 DEF msc_data_in
<1>7. /\ Serving' /\ cbw' = c /\ host' = host /\ host'.cmd = c /\ disk' \in [Blocks -> Data]
      /\ out \in OutEndpoint /\ out.hw = NULL
      /\ in \in InEndpoint /\ in.hw = NULL
      /\ io \in Io /\ sense \in Sense /\ xfer_buf \in XferBuf
  BY <1>0, <1>1, <1>2, <1>4, <1>6 DEF Serving, Types, InDone
<1>8. host.st \in {"data_out", "data_in", "csw"} => host.st = IF io.left = 0 THEN "csw" ELSE "data_in"
  BY <1>0, PhaseApart, Zenon DEF HostPhase, Phases
<1>9. ~Ready
  BY PhaseApart
<1>10. ASSUME Types', Reporting' \/ Offering', host.st \in {"data_out", "data_in", "csw"} => Phases'
       PROVE  IInv'
  <2>1. HostPhase'
    BY <1>0, <1>5, <1>7, <1>9, <1>10, HostPhaseKept
  <2>2. Phase'
    BY <1>4, <1>5, <1>10 DEF Phase, Alive
  <2> QED BY <1>5, <1>10, <2>1, <2>2 DEF IInv
<1>r. ASSUME Types', Reporting' PROVE IInv'
  <2>1. Phases'
    BY <1>r, Zenon DEF Phases
  <2> QED BY <1>10, <1>r, <2>1
<1>11. CASE io.left # 0 /\ msc_continue_read(io.lba, io.left) /\ UNCHANGED out
  <2>1. /\ c.op = "READ10" /\ InCard(c) /\ io.left \in 1 .. c.cnt /\ io.lba + io.left = c.lba + c.cnt
        /\ host.data = Slice(c.lba, c.cnt - io.left)
    BY <1>2, <1>3, <1>11
  <2>2. io.lba \in Nat /\ io.left \in 1 .. MaxCount /\ io.lba + io.left <= NumBlocks
    BY <1>2, <1>7, <2>1, Sizes DEF Io, InCard
  <2>3. CASE BlocksArmed(io.lba, io.left)
    <3>1. PICK n \in 1 .. io.left : io'.lba = io.lba + n /\ io'.left = io.left - n /\ in'.buf.data = Slice(io.lba, n)
      BY <2>3 DEF BlocksArmed
    <3>2. /\ bot_state' = "BOT_DATA_IN" /\ InArmed' /\ in'.buf \in Payload /\ in'.buf.kind = "BLOCKS"
          /\ io' \in Io /\ xfer_buf' \in XferBuf /\ UNCHANGED sense
      BY <2>3 DEF BlocksArmed
    <3>3. Types'
      BY <1>0, <1>2, <1>4, <1>7, <1>11, <3>2 DEF Types, InArmed
    <3>4. /\ io'.left \in 0 .. c.cnt /\ io'.lba + io'.left = c.lba + c.cnt
          /\ n \in 1 .. c.cnt - io'.left /\ io'.lba - n = io.lba
          /\ c.cnt - io'.left - n = c.cnt - io.left
      BY <1>2, <2>1, <2>2, <3>1
    <3>5. in'.buf.data = Slice(io.lba - n, n)' /\ host'.data = Slice(c.lba, c.cnt - io.left - n)'
      <4>1. /\ Slice(io.lba - n, n)' = [i \in 1 .. n |-> disk[(io'.lba - n) + i - 1]]
            /\ Slice(c.lba, c.cnt - io.left - n)' = [i \in 1 .. (c.cnt - io'.left - n) |-> disk[c.lba + i - 1]]
        BY <1>6 DEF Slice
      <4>2. /\ Slice(io.lba, n) = [i \in 1 .. n |-> disk[io.lba + i - 1]]
            /\ Slice(c.lba, c.cnt - io.left) = [i \in 1 .. (c.cnt - io.left) |-> disk[c.lba + i - 1]]
        BY DEF Slice
      <4> QED BY <1>7, <2>1, <3>1, <3>4, <4>1, <4>2
    <3>6. Offering'
      BY <1>5, <1>7, <1>11, <2>1, <3>2, <3>4, <3>5 DEF Offering, Offered, Sending, InArmed, InUnderWay, InCard
    <3>7. host.st \in {"data_out", "data_in", "csw"} => host'.st = "data_in"
      BY <1>7, <1>8, <1>11
    <3>8. host.st \in {"data_out", "data_in", "csw"} => Phases'
      BY <3>6, <3>7, Zenon DEF Phases
    <3> QED BY <1>10, <3>3, <3>6, <3>8
  <2>4. CASE ReadFaults /\ StatusArmed("FAIL")' /\ sense' \in Sense /\ io' \in Io /\ UNCHANGED xfer_buf
    <3>1. Failed(cbw)'
      BY <1>7, <2>1, <2>4 DEF Failed, Moves
    <3>2. Types' /\ Reporting'
      BY <1>0, <1>4, <1>5, <1>7, <1>11, <2>4, <3>1, ReportedStep
    <3> QED BY <1>r, <3>2
  <2> QED BY <1>0, <1>2, <1>7, <1>11, <2>2, <2>3, <2>4, ReadIs
<1>12. CASE io.left = 0 /\ msc_send_csw("PASS") /\ UNCHANGED <<io, sense, xfer_buf, out>>
  <2>1. StatusArmed("PASS")'
    BY <1>2, <1>7, <1>12, CswIs
  <2>2. Passed(c)'
    <3>1. host.data = IF c.op = "READ10" THEN Slice(c.lba, c.cnt) ELSE <<>>
      BY <1>2, <1>3, <1>12
    <3>2. Slice(c.lba, c.cnt)' = Slice(c.lba, c.cnt)
      BY <1>6, SliceSame
    <3> QED BY <1>3, <1>7, <3>1, <3>2 DEF Passed, Moves, InCard
  <2>3. Types' /\ Reporting'
    BY <1>0, <1>4, <1>5, <1>7, <1>12, <2>1, <2>2, ReportedStep
  <2> QED BY <1>r, <2>3
<1> QED BY <1>2, <1>6, <1>11, <1>12, Zenon DEF msc_data_in

(* The host has taken the status: the next command block.                   *)
LEMMA CswTakenStep ==
  ASSUME IInv, PollIn, CswTaken
  PROVE  IInv'
<1>0. Types /\ Queue /\ HostOK /\ Phase /\ HostPhase
  BY DEF IInv
<1>1. /\ dev_state' = dev_state /\ Taken("IN")
      /\ UNCHANGED <<dev_old_state, bounce, host>>
      /\ dev_state = "CONFIGURED" => msc_data_in
  BY DEF PollIn, core
<1>2. /\ Queue' /\ HostOK' /\ NoneUnread' /\ dev_state = "CONFIGURED"
      /\ \A f : Holds(events', f) => Holds(events, f)
  BY <1>0, <1>1, PolledEnd DEF Ends
<1>3. msc_arm_cbw /\ NoIn /\ UNCHANGED <<cbw, disk, io, sense, xfer_buf>>
  <2>1. msc_data_in /\ bot_state = "BOT_CSW"
    BY <1>1, <1>2 DEF CswTaken
  <2> QED BY <2>1, Zenon DEF msc_data_in
<1>4. out \in OutEndpoint /\ out.hw = NULL /\ in \in InEndpoint /\ in.hw = NULL
  BY <1>0 DEF Types, CswTaken, InDone
<1>5. /\ bot_state' = "BOT_IDLE" /\ out' \in OutEndpoint
      /\ out'.buf = "cbw" /\ out'.len = Packet /\ out'.hw = CbwTransfer /\ out'.hw # NULL
  BY <1>3, <1>4, ArmedIs
<1>6. in' \in InEndpoint /\ in'.hw = NULL
  BY <1>3, <1>4, NoInIs
<1>7. Types'
  BY <1>0, <1>1, <1>3, <1>5, <1>6 DEF Types
<1>8. Ready'
  BY <1>2, <1>5, <1>6 DEF Ready, ArmedForCbw, OutUnderWay
<1>9. HostPhase'
  <2>1. host.st \notin {"data_out", "data_in", "csw"}
    BY <1>0, PhaseApart, Zenon DEF HostPhase, Phases, Ready
  <2> QED BY <1>0, <1>1, <1>2, <1>8, <2>1, Zenon DEF HostPhase
<1>10. Phase'
  BY <1>1, <1>2, <1>8 DEF Phase, Alive
<1> QED BY <1>2, <1>7, <1>9, <1>10 DEF IInv

-----------------------------------------------------------------------------
(* The other events.                                                        *)

LEMMA Apart ==
  ASSUME Phase, Alive
  PROVE  /\ Holds(events, "OUT") => CbwCame \/ BlocksCame
         /\ Holds(events, "IN") => CswTaken \/ Sent
         /\ NoneUnread => ArmedForCbw \/ TakingBlocks \/ Offering \/ Reporting
<1>1. ArmedForCbw \/ CswTaken \/ CbwCame \/ TakingBlocks \/ BlocksCame \/ Offering \/ Sent \/ Reporting
  BY DEF Phase, Ready
<1> QED BY <1>1 DEF ArmedForCbw, CswTaken, CbwCame, TakingBlocks, BlocksCame, Offering, Sent, Reporting,
                    OutUnderWay, InUnderWay, OutDone, InDone, NoneUnread

LEMMA PollOutStep == ASSUME IInv, PollOut PROVE IInv'
<1>0. Types /\ Queue /\ HostOK /\ Phase /\ HostPhase
  BY DEF IInv
<1>1. Taken("OUT")
  BY DEF PollOut
<1>2. events # <<>> /\ Head(events) = "OUT" /\ QueueOK(dev_state, events)
  BY <1>0, <1>1 DEF Taken, Queue
<1>3. dev_state \in Met("OUT") /\ Holds(events, "OUT")
  BY <1>2, HeadTaken
<1>4. Alive
  BY <1>3 DEF Met, Alive
<1>5. CbwCame \/ BlocksCame
  BY <1>0, <1>3, <1>4, Apart
<1> QED BY <1>5, DispatchStep, StoreStep

LEMMA PollInStep == ASSUME IInv, PollIn PROVE IInv'
<1>0. Types /\ Queue /\ HostOK /\ Phase /\ HostPhase
  BY DEF IInv
<1>1. Taken("IN")
  BY DEF PollIn
<1>2. events # <<>> /\ Head(events) = "IN" /\ QueueOK(dev_state, events)
  BY <1>0, <1>1 DEF Taken, Queue
<1>3. dev_state \in Met("IN") /\ Holds(events, "IN")
  BY <1>2, HeadTaken
<1>4. Alive
  BY <1>3 DEF Met, Alive
<1>5. CswTaken \/ Sent
  BY <1>0, <1>3, <1>4, Apart
<1> QED BY <1>5, CswTakenStep, SentStep

LEMMA NoEvents == \A s, e : StateAtEnd(s, <<>>) = s /\ ~Holds(<<>>, e)
<1>1. PICK q : q = <<>> /\ Len(q) = 0
  BY EmptySeq
<1>2. \A s, e : StateAtEnd(s, q) = s /\ ~Holds(q, e)
  BY <1>1 DEF StateAtEnd, StateBefore, Holds
<1> QED BY <1>1, <1>2, Zenon

LEMMA ReadySame ==
  ASSUME UNCHANGED <<bot_state, out, in>>,
         Holds(events', "OUT") <=> Holds(events, "OUT"), Holds(events', "IN") <=> Holds(events, "IN")
  PROVE  Ready' <=> Ready
BY Zenon DEF Ready, ArmedForCbw, CswTaken, OutUnderWay, InDone, NoneUnread

LEMMA PhasesSame ==
  ASSUME UNCHANGED <<device, out, in, bounce, disk>>,
         host'.cmd = host.cmd, host'.moved = host.moved, host'.data = host.data,
         Holds(events', "OUT") <=> Holds(events, "OUT"), Holds(events', "IN") <=> Holds(events, "IN")
  PROVE  /\ CbwCame' <=> CbwCame
         /\ TakingBlocks' <=> TakingBlocks
         /\ BlocksCame' <=> BlocksCame
         /\ Offering' <=> Offering
         /\ Sent' <=> Sent
         /\ Reporting' <=> Reporting
<1>1. /\ bot_state' = bot_state /\ cbw' = cbw /\ io' = io /\ xfer_buf' = xfer_buf
      /\ out' = out /\ in' = in /\ bounce' = bounce /\ disk' = disk
  BY DEF device
<1>2. /\ OutDone' <=> OutDone
      /\ InDone' <=> InDone
      /\ OutUnderWay' <=> OutUnderWay
      /\ InUnderWay' <=> InUnderWay
  BY <1>1, Zenon DEF OutDone, InDone, OutUnderWay, InUnderWay, NoneUnread
<1>3. Writing' <=> Writing
  BY <1>1, Zenon DEF Writing, Serving
<1>4. Sending' <=> Sending
  BY <1>1, Zenon DEF Sending, Serving
<1>5. CbwCame' <=> CbwCame
  BY <1>1, <1>2, Zenon DEF CbwCame
<1>6. TakingBlocks' <=> TakingBlocks
  BY <1>1, <1>2, <1>3, Zenon DEF TakingBlocks, Filled
<1>7. BlocksCame' <=> BlocksCame
  BY <1>1, <1>2, <1>3, Zenon DEF BlocksCame, Filled
<1>8. Offering' <=> Offering
  <2>1. \A n : Offered(n)' <=> Offered(n)
    <3> SUFFICES ASSUME NEW n PROVE Offered(n)' <=> Offered(n)
      OBVIOUS
    <3> QED BY <1>1, Zenon DEF Offered, Slice
  <2> QED BY <1>1, <1>2, <1>4, <2>1, Zenon DEF Offering
<1>9. Sent' <=> Sent
  BY <1>1, <1>2, <1>4, Zenon DEF Sent, Slice
<1>10. Reporting' <=> Reporting
  BY <1>1, <1>2, Zenon DEF Reporting, Serving, Passed, Slice
<1> QED BY <1>5, <1>6, <1>7, <1>8, <1>9, <1>10

LEMMA BotResetStep == ASSUME IInv, PollBotReset PROVE IInv'
<1>0. Types /\ Queue /\ HostOK /\ Phase /\ HostPhase
  BY DEF IInv
<1>1. /\ Taken("BOT_RESET") /\ dev_state' = dev_state /\ dev_old_state' = dev_old_state
      /\ dev_state = "CONFIGURED" => msc_arm_cbw
      /\ host' = [host EXCEPT !.st = "idle", !.cmd = NULL, !.moved = 0, !.data = <<>>, !.resp = NULL]
      /\ UNCHANGED <<cbw, io, sense, xfer_buf, in, bounce, disk>>
  BY DEF PollBotReset, core
<1>2. dev_state = "CONFIGURED" /\ Holds(events, "BOT_RESET")
  <2>1. events # <<>> /\ Head(events) = "BOT_RESET" /\ QueueOK(dev_state, events)
    BY <1>0, <1>1 DEF Taken, Queue
  <2>2. dev_state \in Met("BOT_RESET") /\ Holds(events, "BOT_RESET")
    BY <2>1, HeadTaken
  <2> QED BY <2>2 DEF Met
<1>3. dev_state' = StateAfter("BOT_RESET")
  BY <1>1, <1>2 DEF StateAfter
<1>4. Queue' /\ events' = <<>> /\ ~Holds(events, "IN")
  <2>1. Queue' /\ events' = <<>> /\ (Holds(events', "IN") <=> Holds(events, "IN"))
    BY <1>0, <1>1, <1>3, Polled DEF Requests
  <2> QED BY <2>1, NoEvents
<1>5. ArmedForCbw
  <2>1. Ready
    BY <1>0, <1>2 DEF HostOK, HostPhase, Requests
  <2> QED BY <1>4, <2>1 DEF Ready, CswTaken, InDone
<1>6. /\ bot_state' = "BOT_IDLE" /\ out' \in OutEndpoint
      /\ out'.buf = "cbw" /\ out'.len = Packet /\ out'.hw = CbwTransfer /\ out'.hw # NULL
  BY <1>0, <1>1, <1>2, <1>5, ArmedIs DEF Types, ArmedForCbw
<1>7. /\ host' \in Host /\ host'.st = "idle" /\ host'.cmd = NULL /\ host'.moved = 0 /\ host'.data = <<>>
  <2>1. host \in Host
    BY <1>0 DEF Types
  <2>2. <<>> \in Seq(Data)
    OBVIOUS
  <2> QED BY <1>1, <2>1, <2>2 DEF Host, HostSt
<1>8. Types'
  BY <1>0, <1>1, <1>6, <1>7 DEF Types
<1>9. ~Holds(events', "OUT") /\ ~Holds(events', "IN") /\ StateAtEnd(dev_state', events') = "CONFIGURED"
  BY <1>1, <1>2, <1>4, NoEvents
<1>10. HostOK'
  BY <1>1, <1>2, <1>4, <1>7, <1>9, NoEvents DEF HostOK
<1>11. Ready'
  BY <1>1, <1>5, <1>6, <1>9 DEF Ready, ArmedForCbw, OutUnderWay, NoneUnread
<1>12. HostPhase'
  BY <1>7, <1>11 DEF HostPhase
<1>13. Phase'
  BY <1>1, <1>2, <1>11 DEF Phase, Alive
<1> QED BY <1>4, <1>8, <1>10, <1>12, <1>13 DEF IInv

LEMMA SetConfigStep == ASSUME IInv, PollSetConfig PROVE IInv'
<1>0. Types /\ Queue /\ HostOK /\ Phase /\ HostPhase
  BY DEF IInv
<1>1. Taken("SET_CONFIG") /\ dev_old_state' = dev_old_state /\ UNCHANGED <<cbw, io, sense, xfer_buf, in, bounce, disk>>
  BY DEF PollSetConfig
<1>2. dev_state = "ADDRESSED"
  <2>1. events # <<>> /\ Head(events) = "SET_CONFIG" /\ QueueOK(dev_state, events)
    BY <1>0, <1>1 DEF Taken, Queue
  <2>2. dev_state \in Met("SET_CONFIG")
    BY <2>1, HeadTaken
  <2> QED BY <2>2 DEF Met
<1>3. /\ dev_state' = "CONFIGURED" /\ msc_arm_cbw
      /\ host' = [host EXCEPT !.st = "idle", !.cmd = NULL, !.moved = 0, !.data = <<>>, !.resp = NULL]
  BY <1>2 DEF PollSetConfig
<1>4. Queue' /\ events' = <<>>
  BY <1>0, <1>1, <1>3, Polled DEF Requests, StateAfter
<1>5. in.hw = NULL /\ out.hw \in {NULL, CbwTransfer}
  BY <1>0, <1>2 DEF Phase, Alive
<1>6. /\ bot_state' = "BOT_IDLE" /\ out' \in OutEndpoint
      /\ out'.buf = "cbw" /\ out'.len = Packet /\ out'.hw = CbwTransfer /\ out'.hw # NULL
  BY <1>0, <1>3, <1>5, ArmedIs DEF Types
<1>7. /\ host' \in Host /\ host'.st = "idle" /\ host'.cmd = NULL /\ host'.moved = 0 /\ host'.data = <<>>
  <2>1. host \in Host
    BY <1>0 DEF Types
  <2>2. <<>> \in Seq(Data)
    OBVIOUS
  <2> QED BY <1>3, <2>1, <2>2 DEF Host, HostSt
<1>8. Types'
  BY <1>0, <1>1, <1>3, <1>6, <1>7 DEF Types
<1>9. ~Holds(events', "OUT") /\ ~Holds(events', "IN") /\ StateAtEnd(dev_state', events') = "CONFIGURED"
  BY <1>3, <1>4, NoEvents
<1>10. HostOK'
  BY <1>3, <1>4, <1>7, <1>9, NoEvents DEF HostOK
<1>11. Ready'
  BY <1>1, <1>5, <1>6, <1>9 DEF Ready, ArmedForCbw, OutUnderWay, NoneUnread
<1>12. HostPhase'
  BY <1>7, <1>11 DEF HostPhase
<1>13. Phase'
  BY <1>3, <1>11 DEF Phase, Alive
<1> QED BY <1>4, <1>8, <1>10, <1>12, <1>13 DEF IInv

LEMMA SetAddressStep == ASSUME IInv, PollSetAddress PROVE IInv'
<1>0. Types /\ Queue /\ HostOK /\ Phase /\ HostPhase
  BY DEF IInv
<1>1. Taken("SET_ADDRESS") /\ UNCHANGED <<device, dev_old_state, out, in, bounce, disk>>
  BY DEF PollSetAddress
<1>2. dev_state = "DEFAULT"
  <2>1. events # <<>> /\ Head(events) = "SET_ADDRESS" /\ QueueOK(dev_state, events)
    BY <1>0, <1>1 DEF Taken, Queue
  <2>2. dev_state \in Met("SET_ADDRESS")
    BY <2>1, HeadTaken
  <2> QED BY <2>2 DEF Met
<1>3. dev_state' = "ADDRESSED" /\ host' = [host EXCEPT !.st = "addressed"]
  BY <1>2 DEF PollSetAddress, HostGoesTo
<1>4. Queue' /\ events' = <<>>
  BY <1>0, <1>1, <1>3, Polled DEF Requests, StateAfter
<1>5. host' \in Host /\ host'.st = "addressed"
  <2>1. host \in Host
    BY <1>0 DEF Types
  <2> QED BY <1>3, <2>1 DEF Host, HostSt
<1>6. Types'
  BY <1>0, <1>1, <1>3, <1>5 DEF Types, device
<1>7. ~Holds(events', "OUT") /\ ~Holds(events', "IN") /\ StateAtEnd(dev_state', events') = "ADDRESSED"
  BY <1>3, <1>4, NoEvents
<1>8. HostOK'
  BY <1>3, <1>4, <1>5, <1>7, NoEvents DEF HostOK
<1>9. HostPhase'
  BY <1>5 DEF HostPhase
<1>10. Phase'
  BY <1>0, <1>1, <1>2, <1>3, <1>7 DEF Phase, Alive, NoneUnread
<1> QED BY <1>4, <1>6, <1>8, <1>9, <1>10 DEF IInv

LEMMA ResetStep == ASSUME IInv, PollReset PROVE IInv'
<1>0. Types /\ Queue /\ HostOK /\ Phase /\ HostPhase
  BY DEF IInv
<1>1. /\ Taken("RESET") /\ out' = Stopped(out) /\ in' = Stopped(in) /\ dev_state' = "DEFAULT"
      /\ UNCHANGED <<device, dev_old_state, bounce, disk, host>>
  BY DEF PollReset
<1>2. dev_state' = StateAfter("RESET")
  BY <1>1 DEF StateAfter
<1>3. /\ Queue' /\ Holds(events, "RESET")
      /\ \A f : Holds(events', f) => f = "SET_ADDRESS"
      /\ \A f : f # "RESET" => (Holds(events', f) <=> Holds(events, f))
      /\ StateAtEnd(dev_state', events') = StateAtEnd(dev_state, events)
      /\ \A f : Holds(events', f) => Holds(events, f)
      /\ events' # <<>> => events # <<>> /\ events'[Len(events')] = events[Len(events)]
      /\ events' = <<>> => events[Len(events)] = "RESET"
  BY <1>0, <1>1, <1>2, Polled
<1>4. host' = host /\ host.st \in {"reset", "waiting"}
  BY <1>0, <1>1, <1>3 DEF HostOK
<1>5. out \in OutEndpoint /\ in \in InEndpoint
  BY <1>0 DEF Types
<1>6. /\ out' \in OutEndpoint /\ in' \in InEndpoint
      /\ out.queued => out'.hw = NULL
      /\ out'.hw \in {out.hw, NULL}
      /\ in.queued => in'.hw = NULL
      /\ in'.hw \in {in.hw, NULL}
  BY <1>1, <1>5 DEF Stopped, OutEndpoint, InEndpoint
<1>7. Types'
  BY <1>0, <1>1, <1>6 DEF Types, device
<1>8. NoneUnread /\ NoneUnread'
  BY <1>3 DEF NoneUnread
<1>9. Phase'
  <2>1. CASE Alive
    <3>1. ArmedForCbw \/ TakingBlocks \/ Offering \/ Reporting
      BY <1>0, <1>8, <2>1, Apart
    <3>2. out.queued \/ out.hw \in {NULL, CbwTransfer}
      BY <3>1 DEF ArmedForCbw, TakingBlocks, Offering, Reporting, InUnderWay
    <3>3. in.queued \/ in.hw = NULL
      BY <3>1 DEF ArmedForCbw, TakingBlocks, Offering, Reporting, OutUnderWay
    <3> QED BY <1>1, <1>6, <1>8, <3>2, <3>3 DEF Phase, Alive
  <2>2. CASE ~Alive
    BY <1>0, <1>1, <1>6, <1>8, <2>2 DEF Phase, Alive
  <2> QED BY <2>1, <2>2
<1>10. HostOK'
  <2>1. host.st = "waiting" => events' # <<>> /\ events'[Len(events')] \in Requests
    BY <1>0, <1>3 DEF HostOK, Requests
  <2> QED BY <1>0, <1>1, <1>3, <1>4, <2>1 DEF HostOK
<1>11. HostPhase'
  BY <1>3, <1>4 DEF HostPhase
<1> QED BY <1>3, <1>7, <1>9, <1>10, <1>11 DEF IInv

(* A suspend or a resume leaves the transfers where they are.               *)
LEMMA SuspendStep == ASSUME IInv, PollSuspend \/ PollWakeup PROVE IInv'
<1>0. Types /\ Queue /\ HostOK /\ Phase /\ HostPhase
  BY DEF IInv
<1>e. PICK e \in {"SUSPEND", "WAKEUP"} : Taken(e) /\ ((PollSuspend /\ e = "SUSPEND") \/ (PollWakeup /\ e = "WAKEUP"))
  <2>1. CASE PollSuspend
    BY <2>1, Zenon DEF PollSuspend
  <2>2. CASE PollWakeup
    BY <2>2, Zenon DEF PollWakeup
  <2> QED BY <2>1, <2>2
<1>1. UNCHANGED <<device, out, in, bounce, disk, host>>
  BY DEF PollSuspend, PollWakeup
<1>2. dev_state \in Met(e)
  <2>1. events # <<>> /\ Head(events) = e /\ QueueOK(dev_state, events)
    BY <1>0, <1>e DEF Taken, Queue
  <2> QED BY <2>1, HeadTaken
<1>3. /\ Alive /\ Alive' /\ dev_state' = StateAfter(e) /\ (dev_state' = "SUSPENDED" => dev_old_state' = "CONFIGURED")
      /\ dev_state' \in {"CONFIGURED", "SUSPENDED"}
  <2>1. CASE PollSuspend /\ e = "SUSPEND"
    BY <1>2, <2>1 DEF PollSuspend, Met, Alive, StateAfter
  <2>2. CASE PollWakeup /\ e = "WAKEUP"
    <3>1. dev_state = "SUSPENDED" /\ dev_old_state = "CONFIGURED"
      BY <1>0, <1>2, <2>2 DEF Met, HostOK
    <3> QED BY <3>1, <2>2 DEF PollWakeup, Alive, StateAfter
  <2> QED BY <1>e, <2>1, <2>2
<1>4. /\ Queue' /\ \A f : f # e => (Holds(events', f) <=> Holds(events, f))
      /\ StateAtEnd(dev_state', events') = StateAtEnd(dev_state, events)
      /\ \A f : Holds(events', f) => Holds(events, f)
      /\ events' # <<>> => events # <<>> /\ events'[Len(events')] = events[Len(events)]
      /\ events' = <<>> => events[Len(events)] = e
  BY <1>0, <1>e, <1>3, Polled
<1>5. Types'
  BY <1>0, <1>1, <1>3 DEF Types, device
<1>6. /\ Holds(events', "OUT") <=> Holds(events, "OUT")
      /\ Holds(events', "IN") <=> Holds(events, "IN")
      /\ Holds(events', "BOT_RESET") <=> Holds(events, "BOT_RESET")
  BY <1>4
<1>7. Ready' <=> Ready
  BY <1>1, <1>6, ReadySame DEF device
<1>8. /\ CbwCame' <=> CbwCame
      /\ TakingBlocks' <=> TakingBlocks
      /\ BlocksCame' <=> BlocksCame
      /\ Offering' <=> Offering
      /\ Sent' <=> Sent
      /\ Reporting' <=> Reporting
  BY <1>1, <1>6, PhasesSame
<1>9. Phase'
  BY <1>0, <1>3, <1>7, <1>8, Zenon DEF Phase
<1>10. HostPhase'
  <2>1. host' = host /\ io' = io
    BY <1>1 DEF device
  <2> QED BY <1>0, <1>6, <1>7, <1>8, <2>1, Zenon DEF HostPhase, Phases
<1>11. HostOK'
  <2>1. host.st = "waiting" => events' # <<>> /\ events'[Len(events')] \in Requests
    BY <1>0, <1>4 DEF HostOK, Requests
  <2> QED BY <1>0, <1>1, <1>3, <1>4, <2>1 DEF HostOK
<1> QED BY <1>4, <1>5, <1>9, <1>10, <1>11 DEF IInv

-----------------------------------------------------------------------------
(* The host and the wire.                                                   *)

(* What a host in the middle of a command knows of the event buffer.        *)
LEMMA HostKnows ==
  ASSUME Types, Queue, HostOK, host.st \in {"idle", "suspended", "cbw", "data_out", "data_in", "csw"}
  PROVE  /\ \A r \in Requests : ~Holds(events, r)
         /\ ~Holds(events, "RESET")
         /\ host.st # "suspended" => StateAtEnd(dev_state, events) = "CONFIGURED"
         /\ host.st = "suspended" => StateAtEnd(dev_state, events) = "SUSPENDED"
BY DEF HostOK

LEMMA EventAppended ==
  ASSUME Types, Queue, HostOK, NEW e \in Event, events' = Append(events, e), UNCHANGED <<dev_state, dev_old_state>>,
         StateAtEnd(dev_state, events) \in Met(e),
         e \in Ends => NoneUnread,
         \A r \in Requests : ~Holds(events, r),
         e # "SET_ADDRESS" => ~Holds(events, "RESET"),
         host'.st = "waiting" <=> e \in Requests,
         host'.st \in {"idle", "cbw", "data_out", "data_in", "csw"} => StateAfter(e) = "CONFIGURED",
         host'.st = "suspended" => StateAfter(e) = "SUSPENDED",
         host'.st = "reset" => StateAfter(e) = "DEFAULT",
         host'.st = "addressed" => StateAfter(e) = "ADDRESSED",
         e = "RESET" \/ Holds(events, "RESET") => host'.st \in {"reset", "waiting"}
  PROVE  /\ Queue' /\ HostOK'
         /\ \A f : Holds(events', f) <=> Holds(events, f) \/ f = e
<1>1. /\ QueueOK(dev_state, events')
      /\ StateAtEnd(dev_state, events') = StateAfter(e)
      /\ \A f : Holds(events', f) <=> Holds(events, f) \/ f = e
      /\ events' # <<>> /\ events'[Len(events')] = e
  BY Appended DEF Queue, NoneUnread
<1>2. Queue'
  BY <1>1 DEF Queue
<1>3. HostOK'
  <2>1. dev_state' = "SUSPENDED" => dev_old_state' = "CONFIGURED"
    BY DEF HostOK
  <2>2. \A r \in Requests : Holds(events', r) => host'.st = "waiting"
    BY <1>1
  <2> QED BY <1>1, <2>1, <2>2 DEF HostOK
<1> QED BY <1>1, <1>2, <1>3

LEMMA HostAlive ==
  ASSUME Types, Queue, HostOK, host.st \in {"idle", "suspended", "cbw", "data_out", "data_in", "csw"}
  PROVE  Alive
<1> SUFFICES ASSUME ~Alive PROVE FALSE
  OBVIOUS
<1>1. dev_state \in {"DEFAULT", "ADDRESSED"}
  BY DEF Types, Alive
<1>2. CASE events = <<>>
  BY <1>1, <1>2, NoEvents, HostKnows
<1>3. CASE events # <<>>
  <2>1. Head(events) \in Event /\ dev_state \in Met(Head(events)) /\ Holds(events, Head(events))
    BY <1>3, HeadTaken DEF Queue
  <2>2. Head(events) \in Requests \cup {"RESET"}
    BY <1>1, <2>1 DEF Met, Requests
  <2> QED BY <2>1, <2>2, HostKnows
<1> QED BY <1>2, <1>3

LEMMA HostCommandStep == ASSUME IInv, HostCommand PROVE IInv'
<1>0. Types /\ Queue /\ HostOK /\ Phase /\ HostPhase
  BY DEF IInv
<1>1. host.st = "idle" /\ UNCHANGED <<software, xfer_buf, out, in, bounce, events>>
  BY DEF HostCommand
<1>2. PICK c \in Command : host' = [host EXCEPT !.st = "cbw", !.cmd = c, !.tag = c.tag]
  BY DEF HostCommand
<1>3. host' \in Host /\ host'.st = "cbw" /\ host'.cmd = c /\ host'.moved = 0 /\ host'.data = <<>>
  <2>1. host \in Host /\ c.tag \in Tags /\ host.moved = 0 /\ host.data = <<>>
    BY <1>0, <1>1, CommandIs DEF Types, HostPhase
  <2> QED BY <1>2, <2>1 DEF Host, HostSt
<1>4. Types'
  BY <1>0, <1>1, <1>3 DEF Types, software
<1>5. Queue' /\ HostOK'
  BY <1>0, <1>1, <1>3 DEF Queue, HostOK, software
<1>6. Ready /\ Ready'
  <2>1. Ready
    BY <1>0, <1>1 DEF HostPhase
  <2> QED BY <1>1, <2>1, ReadySame DEF software
<1>7. Phase'
  BY <1>0, <1>1, <1>6 DEF Phase, Alive, NoneUnread, software
<1>8. HostPhase'
  BY <1>3, <1>6 DEF HostPhase
<1> QED BY <1>4, <1>5, <1>7, <1>8 DEF IInv

LEMMA HostSendCbwStep == ASSUME IInv, HostSendCbw PROVE IInv'
<1>0. Types /\ Queue /\ HostOK /\ Phase /\ HostPhase
  BY DEF IInv
<1>1. /\ host.st = "cbw" /\ Deliver(Short, host.cmd, NULL)
      /\ host' = [host EXCEPT !.st = IF DataLength(host.cmd) = 0 THEN "csw"
                                     ELSE IF host.cmd.op = "WRITE10" THEN "data_out" ELSE "data_in"]
      /\ UNCHANGED <<software, in>>
  BY DEF HostSendCbw, HostGoesTo
<1>2. ArmedForCbw /\ host.cmd \in Command /\ host.moved = 0 /\ host.data = <<>>
  <2>1. out.hw # NULL
    BY <1>1 DEF Deliver
  <2> QED BY <1>0, <1>1, <2>1 DEF HostPhase, Ready, CswTaken, InDone
<1>3. out.hw = CbwTransfer /\ out.hw.got = 0 /\ out.hw.len = Packet /\ out.hw.buf = "cbw" /\ in.hw = NULL /\ NoneUnread
  BY <1>2 DEF ArmedForCbw, CbwTransfer, OutUnderWay
<1>4. /\ out' = [out EXCEPT !.hw = NULL, !.resid = Packet - Short]
      /\ events' = Append(events, "OUT") /\ bounce' = host.cmd /\ UNCHANGED xfer_buf
  <2>1. Short < Packet /\ out.hw.len - (out.hw.got + Short) = Packet - Short
    BY <1>3, Sizes
  <2> QED BY <1>1, <1>3, <2>1 DEF Deliver
<1>5. /\ out' \in OutEndpoint /\ out'.hw = NULL /\ out'.resid = Packet - Short
      /\ out'.buf = "cbw" /\ out'.len = Packet
  <2>1. out \in OutEndpoint /\ out.buf = "cbw" /\ out.len = Packet /\ Packet - Short \in Nat
    BY <1>0, <1>2, Sizes DEF Types, ArmedForCbw
  <2> QED BY <1>4, <2>1 DEF OutEndpoint
<1>6. /\ host' \in Host /\ host'.cmd = host.cmd /\ host'.moved = 0 /\ host'.data = <<>>
      /\ host'.st = IF DataLength(host.cmd) = 0 THEN "csw"
                    ELSE IF host.cmd.op = "WRITE10" THEN "data_out" ELSE "data_in"
  BY <1>0, <1>1, <1>2 DEF Types, Host, HostSt
<1>7. Types'
  BY <1>0, <1>1, <1>2, <1>4, <1>5, <1>6 DEF Types, software
<1>8. host'.st \in {"data_out", "data_in", "csw"}
  BY <1>6
<1>9. Queue' /\ HostOK' /\ \A f : Holds(events', f) <=> Holds(events, f) \/ f = "OUT"
  <2>1. /\ \A r \in Requests : ~Holds(events, r)
        /\ ~Holds(events, "RESET")
        /\ StateAtEnd(dev_state, events) = "CONFIGURED"
    BY <1>0, <1>1, HostKnows
  <2>2. /\ "OUT" \in Event /\ StateAtEnd(dev_state, events) \in Met("OUT") /\ StateAfter("OUT") = "CONFIGURED"
        /\ "OUT" \notin Requests
    BY <2>1 DEF Event, Met, StateAfter, Requests
  <2> QED BY <1>0, <1>1, <1>3, <1>4, <1>8, <2>1, <2>2, EventAppended DEF software
<1>10. CbwCame'
  <2>1. OutDone'
    BY <1>1, <1>3, <1>5, <1>9 DEF OutDone, NoneUnread
  <2> QED BY <1>1, <1>2, <1>4, <1>5, <1>6, <2>1 DEF CbwCame, ArmedForCbw, software
<1>11. Phase'
  <2>1. Alive => Alive'
    BY <1>1 DEF Alive, software
  <2>2. Alive
    BY <1>0, <1>1, HostAlive
  <2> QED BY <1>10, <2>1, <2>2 DEF Phase
<1>12. HostPhase'
  <2>1. Phases'
    BY <1>6, <1>10, Zenon DEF Phases
  <2> QED BY <1>8, <2>1 DEF HostPhase
<1> QED BY <1>7, <1>9, <1>11, <1>12 DEF IInv

LEMMA HostSendBlockStep == ASSUME IInv, HostSendBlock PROVE IInv'
<1>0. Types /\ Queue /\ HostOK /\ Phase /\ HostPhase
  BY DEF IInv
<1>1. /\ host.st = "data_out" /\ Deliver(Packet, NULL, host.cmd.val) /\ out.hw # NULL
      /\ host' = [host EXCEPT !.moved = @ + 1, !.st = IF host.moved + 1 = host.cmd.cnt THEN "csw" ELSE @]
      /\ UNCHANGED <<software, in>>
  BY DEF HostSendBlock, Deliver
<1>2. TakingBlocks
  <2>1. Phases
    BY <1>0, <1>1 DEF HostPhase
  <2> QED BY <1>1, <2>1 DEF Phases, CbwCame, BlocksCame, Offering, Sent, Reporting, OutDone, InUnderWay, InDone
<1>c. PICK c : c = host.cmd
  OBVIOUS
<1>3. PICK n \in 0 .. io.chunk - 1 : out.hw.got = Packet * n /\ Filled(n)
  BY <1>2 DEF TakingBlocks
<1>4. /\ Writing /\ OutUnderWay /\ out.queued /\ out.hw.buf = "xfer_buf" /\ out.hw.len = Packet * io.chunk
      /\ c \in Command /\ cbw = c /\ host.cmd = c /\ c.val \in Data /\ c.cnt \in Nat
      /\ in.hw = NULL /\ NoneUnread
      /\ \A i \in 0 .. n - 1 : xfer_buf[i] = c.val
      /\ host.moved = c.cnt - io.left + n
  BY <1>c, <1>2, <1>3, CommandIs DEF TakingBlocks, Writing, Serving, OutUnderWay, Filled
<1>5. /\ io.left \in 1 .. c.cnt /\ io.left \in Nat /\ io.chunk \in 1 .. io.left /\ io.chunk <= ChunkBlocks
      /\ io.chunk \in Nat /\ n \in Nat /\ n < io.chunk
  BY <1>3, <1>4, Sizes DEF Writing, Min2
<1>6. /\ out \in OutEndpoint /\ out.hw \in Transfer /\ host \in Host /\ xfer_buf \in [0 .. ChunkBlocks - 1 -> Data \cup {NULL}]
  BY <1>0, <1>1 DEF Types, OutEndpoint, XferBuf
<1>7. /\ out.hw.got + Packet = Packet * (n + 1) /\ out.hw.got \div Packet = n
      /\ n + 1 <= io.chunk
      /\ ~(Packet < Packet)
      /\ (out.hw.got + Packet >= out.hw.len) <=> n + 1 = io.chunk
  BY <1>3, <1>4, <1>5, Sizes
<1>8. /\ xfer_buf' = [xfer_buf EXCEPT ![n] = c.val] /\ bounce' = bounce
  BY <1>1, <1>4, <1>7 DEF Deliver
<1>9. xfer_buf' \in XferBuf /\ \A i \in 0 .. (n + 1) - 1 : xfer_buf'[i] = c.val
  <2>1. n \in 0 .. ChunkBlocks - 1 /\ \A i \in 0 .. (n + 1) - 1 : i \in 0 .. ChunkBlocks - 1 /\ (i = n \/ i \in 0 .. n - 1)
    BY <1>5, Sizes
  <2> QED BY <1>4, <1>6, <1>8, <2>1 DEF XferBuf
<1>10. /\ host' \in Host /\ host'.cmd = c /\ host'.data = host.data /\ host'.moved = c.cnt - io.left + (n + 1)
       /\ host'.st = IF c.cnt - io.left + (n + 1) = c.cnt THEN "csw" ELSE "data_out"
  <2>1. host.moved \in Nat
    BY <1>6 DEF Host
  <2>2. host.moved + 1 \in Nat /\ host.moved + 1 = c.cnt - io.left + (n + 1)
    <3>1. host.moved = c.cnt - io.left + n /\ c.cnt \in Nat
      BY <1>4
    <3> QED BY <2>1, <3>1, <1>5
  <2>3. host' = [host EXCEPT !.moved = host.moved + 1,
                             !.st = IF host.moved + 1 = c.cnt THEN "csw" ELSE "data_out"]
    BY <1>1, <1>4
  <2>4. host' = [host EXCEPT !.moved = c.cnt - io.left + (n + 1),
                             !.st = IF c.cnt - io.left + (n + 1) = c.cnt THEN "csw" ELSE "data_out"]
    BY <2>2, <2>3
  <2>5. c.cnt - io.left + (n + 1) \in Nat
    BY <2>2
  <2> QED BY <1>4, <1>6, <2>4, <2>5 DEF Host, HostSt
<1>11. host'.st \in {"data_out", "csw"} /\ host'.st = IF io.left = n + 1 THEN "csw" ELSE "data_out"
  <2>1. c.cnt \in Nat /\ (c.cnt - io.left + (n + 1) = c.cnt <=> io.left = n + 1)
    BY <1>4, <1>5
  <2> QED BY <1>10, <2>1
<1>12. Alive /\ Alive' /\ dev_state' = dev_state /\ dev_old_state' = dev_old_state /\ UNCHANGED <<bot_state, cbw, io, sense, disk>>
  BY <1>0, <1>1, HostAlive DEF Alive, software
<1>13. ASSUME out' \in OutEndpoint PROVE Types'
  BY <1>0, <1>1, <1>8, <1>9, <1>10, <1>12, <1>13 DEF Types
<1>14. ASSUME out'.buf = out.buf, out'.len = out.len PROVE Writing'
  BY <1>4, <1>10, <1>12, <1>14, Zenon DEF Writing, Serving
<1>15. Filled(n + 1)'
  BY <1>4, <1>9, <1>10, <1>12 DEF Filled
<1>16. CASE n + 1 # io.chunk
  <2>1. /\ out' = [out EXCEPT !.hw = [out.hw EXCEPT !.got = Packet * (n + 1)], !.resid = @]
        /\ events' = events
    BY <1>1, <1>7, <1>16 DEF Deliver
  <2>2. /\ [out.hw EXCEPT !.got = Packet * (n + 1)] \in Transfer /\ Packet * (n + 1) \in Nat
    <3>1. Packet * (n + 1) \in Nat
      BY <1>5, Sizes
    <3> QED BY <1>6, <3>1 DEF Transfer
  <2>3. /\ out' \in OutEndpoint /\ out'.buf = out.buf /\ out'.len = out.len /\ out'.queued = out.queued
        /\ out'.hw # NULL /\ out'.hw.buf = out.hw.buf /\ out'.hw.len = out.hw.len /\ out'.hw.got = Packet * (n + 1)
    <3>1. out' = [out EXCEPT !.hw = [out.hw EXCEPT !.got = Packet * (n + 1)]]
      BY <1>6, <2>1 DEF OutEndpoint
    <3> QED BY <1>6, <2>2, <3>1, Sizes DEF OutEndpoint, Transfer
  <2>4. Types' /\ Writing'
    BY <1>13, <1>14, <2>3
  <2>5. Queue' /\ HostOK' /\ NoneUnread'
    <3>1. host'.st = "data_out"
      BY <1>5, <1>11, <1>16
    <3> QED BY <1>0, <1>1, <1>4, <1>12, <2>1, <3>1 DEF Queue, HostOK, NoneUnread
  <2>6. TakingBlocks'
    <3>1. n + 1 \in 0 .. io'.chunk - 1 /\ out'.hw.len = Packet * io'.chunk /\ out'.hw.buf = "xfer_buf" /\ out'.queued
      BY <1>4, <1>5, <1>12, <1>16, <2>3
    <3>2. OutUnderWay'
      BY <1>1, <1>4, <2>3, <2>5 DEF OutUnderWay
    <3> QED BY <1>15, <2>3, <2>4, <3>1, <3>2 DEF TakingBlocks
  <2>7. host'.st = "data_out"
    BY <1>5, <1>11, <1>16
  <2>8. Phases'
    BY <2>6, <2>7, Zenon DEF Phases
  <2>9. HostPhase'
    BY <2>7, <2>8 DEF HostPhase
  <2> QED BY <1>12, <2>4, <2>5, <2>6, <2>9 DEF IInv, Phase
<1>17. CASE n + 1 = io.chunk
  <2>1. out' = [out EXCEPT !.hw = NULL, !.resid = 0] /\ events' = Append(events, "OUT")
    <3>1. out.hw.len - (out.hw.got + Packet) = 0
      BY <1>4, <1>5, <1>7, <1>17, Sizes
    <3> QED BY <1>1, <1>7, <1>17, <3>1 DEF Deliver
  <2>2. /\ out' \in OutEndpoint /\ out'.buf = out.buf /\ out'.len = out.len /\ out'.hw = NULL /\ out'.resid = 0
    BY <1>6, <2>1 DEF OutEndpoint
  <2>3. Types' /\ Writing'
    BY <1>13, <1>14, <2>2
  <2>4. Queue' /\ HostOK' /\ \A f : Holds(events', f) <=> Holds(events, f) \/ f = "OUT"
    <3>1. /\ \A r \in Requests : ~Holds(events, r)
          /\ ~Holds(events, "RESET")
          /\ StateAtEnd(dev_state, events) = "CONFIGURED"
      BY <1>0, <1>1, HostKnows
    <3>2. /\ "OUT" \in Event /\ StateAtEnd(dev_state, events) \in Met("OUT") /\ StateAfter("OUT") = "CONFIGURED"
          /\ "OUT" \notin Requests
      BY <3>1 DEF Event, Met, StateAfter, Requests
    <3> QED BY <1>0, <1>4, <1>11, <1>12, <2>1, <3>1, <3>2, EventAppended
  <2>5. BlocksCame'
    <3>1. OutDone'
      BY <1>1, <1>4, <2>2, <2>4 DEF OutDone, NoneUnread
    <3>2. Filled(io.chunk)'
      BY <1>12, <1>15, <1>17 DEF Filled
    <3> QED BY <2>2, <2>3, <3>1, <3>2 DEF BlocksCame
  <2>6. host'.st = IF io'.left = io'.chunk THEN "csw" ELSE "data_out"
    BY <1>11, <1>12, <1>17
  <2>7. Phases'
    BY <2>5, <2>6, Zenon DEF Phases
  <2>8. HostPhase'
    BY <1>11, <2>7 DEF HostPhase
  <2> QED BY <1>12, <2>3, <2>4, <2>5, <2>8 DEF IInv, Phase
<1> QED BY <1>16, <1>17

(* Slices of the card that follow each other.                               *)
LEMMA SliceIs ==
  ASSUME disk \in [Blocks -> Data], NEW a \in Nat, NEW n \in Nat, a + n <= NumBlocks
  PROVE  /\ Slice(a, n) \in Seq(Data) /\ Len(Slice(a, n)) = n
         /\ \A i \in 1 .. n : Slice(a, n)[i] = disk[a + i - 1]
<1>1. \A i \in 1 .. n : a + i - 1 \in Blocks
  BY Sizes DEF Blocks
<1>2. Slice(a, n) \in [1 .. n -> Data]
  BY <1>1 DEF Slice
<1>3. \A i \in 1 .. n : Slice(a, n)[i] = disk[a + i - 1]
  BY DEF Slice
<1> HIDE DEF Slice
<1> QED BY <1>2, <1>3

LEMMA SliceConcat ==
  ASSUME disk \in [Blocks -> Data], NEW a \in Nat, NEW m \in Nat, NEW n \in Nat, a + m + n <= NumBlocks
  PROVE  Slice(a, m) \o Slice(a + m, n) = Slice(a, m + n)
<1> DEFINE s == Slice(a, m)
           t == Slice(a + m, n)
           u == Slice(a, m + n)
<1>1. /\ s \in Seq(Data) /\ Len(s) = m /\ \A i \in 1 .. m : s[i] = disk[a + i - 1]
      /\ t \in Seq(Data) /\ Len(t) = n /\ \A i \in 1 .. n : t[i] = disk[(a + m) + i - 1]
      /\ u \in Seq(Data) /\ Len(u) = m + n /\ \A i \in 1 .. m + n : u[i] = disk[a + i - 1]
  <2>1. /\ a + m \in Nat /\ m + n \in Nat /\ a + m <= NumBlocks
        /\ (a + m) + n <= NumBlocks /\ a + (m + n) <= NumBlocks
    BY Sizes
  <2>2. s \in Seq(Data) /\ Len(s) = m /\ \A i \in 1 .. m : s[i] = disk[a + i - 1]
    BY <2>1, SliceIs
  <2>3. t \in Seq(Data) /\ Len(t) = n /\ \A i \in 1 .. n : t[i] = disk[(a + m) + i - 1]
    BY <2>1, SliceIs
  <2>4. u \in Seq(Data) /\ Len(u) = m + n /\ \A i \in 1 .. m + n : u[i] = disk[a + i - 1]
    BY <2>1, SliceIs
  <2> QED BY <2>2, <2>3, <2>4
<1> HIDE DEF s, t, u
<1>2. /\ s \o t \in Seq(Data) /\ Len(s \o t) = m + n
      /\ \A i \in 1 .. m + n : (s \o t)[i] = IF i <= m THEN s[i] ELSE t[i - m]
  BY <1>1, ConcatProperties
<1>3. \A i \in 1 .. m + n : (s \o t)[i] = u[i]
  <2> SUFFICES ASSUME NEW i \in 1 .. m + n PROVE (s \o t)[i] = u[i]
    OBVIOUS
  <2>1. CASE i <= m
    <3>1. i \in 1 .. m
      BY <2>1
    <3> QED BY <1>1, <1>2, <2>1, <3>1
  <2>2. CASE ~(i <= m)
    <3>1. i - m \in 1 .. n /\ (a + m) + (i - m) - 1 = a + i - 1
      BY <2>2
    <3> QED BY <1>1, <1>2, <2>2, <3>1
  <2> QED BY <2>1, <2>2
<1>4. s \o t = u
  BY <1>1, <1>2, <1>3, SeqEqual
<1> QED BY <1>4 DEF s, t, u

LEMMA HostTakeDataStep == ASSUME IInv, HostTakeData PROVE IInv'
<1>0. Types /\ Queue /\ HostOK /\ Phase /\ HostPhase
  BY DEF IInv
<1>c. PICK c : c = host.cmd
  OBVIOUS
<1>d. PICK d : d = IF in.hw.buf.kind = "BLOCKS" THEN host.data \o in.hw.buf.data ELSE <<>>
  OBVIOUS
<1>1. /\ host.st = "data_in" /\ in.hw # NULL /\ in.hw.buf.kind # "CSW"
      /\ in' = [in EXCEPT !.hw = NULL, !.resid = 0] /\ events' = Append(events, "IN")
      /\ host' = [host EXCEPT !.data = d, !.st = IF Len(d) >= c.cnt THEN "csw" ELSE @]
      /\ UNCHANGED <<software, xfer_buf, out, bounce>>
  BY <1>c, <1>d DEF HostTakeData, Collect, IsData
<1>2. Offering
  <2>1. Phases
    BY <1>0, <1>1 DEF HostPhase
  <2>2. ~Reporting
    BY <1>1 DEF Reporting, Csw
  <2>3. ~CbwCame /\ ~TakingBlocks /\ ~BlocksCame /\ ~Sent
    BY <1>1 DEF CbwCame, TakingBlocks, BlocksCame, Sent, OutUnderWay, OutDone, InDone
  <2> QED BY <2>1, <2>2, <2>3 DEF Phases
<1>3. /\ Sending /\ InUnderWay /\ in.queued /\ in.hw.buf = in.buf /\ out.hw = NULL /\ NoneUnread
      /\ cbw = c /\ host.cmd = c /\ c \in Command
      /\ c.lba \in Nat /\ c.cnt \in Nat /\ c.cnt <= MaxCount
  BY <1>c, <1>2, CommandIs DEF Offering, Sending, Serving, InUnderWay
<1>4. /\ in \in InEndpoint /\ host \in Host /\ host.data \in Seq(Data) /\ io \in Io
      /\ disk \in [Blocks -> Data]
  BY <1>0 DEF Types, Host
<1>5. UNCHANGED <<bot_state, cbw, io, sense, dev_state, dev_old_state, disk>>
  BY <1>1 DEF software
<1>6. \/ /\ c.op \in {"INQUIRY", "REQUEST_SENSE"} /\ io.left = 0 /\ in.buf.kind = "REPLY"
      \/ /\ c.op = "READ10" /\ InCard(c) /\ in.buf.kind = "BLOCKS"
         /\ io.left \in 0 .. c.cnt /\ io.lba + io.left = c.lba + c.cnt
  BY <1>3 DEF Sending
<1>7. /\ d \in Seq(Data) /\ (Len(d) >= c.cnt <=> io.left = 0)
      /\ c.op # "READ10" => d = <<>>
      /\ c.op = "READ10" => d = Slice(c.lba, c.cnt - io.left)
  <2>1. CASE in.buf.kind = "REPLY"
    <3>1. d = <<>> /\ c.op \in {"INQUIRY", "REQUEST_SENSE"} /\ io.left = 0
      BY <1>d, <1>3, <1>6, <2>1
    <3>2. c.cnt = 0
      BY <1>3, <3>1 DEF Command, Moves
    <3>3. d \in Seq(Data) /\ Len(d) = 0
      BY <3>1
    <3> QED BY <3>1, <3>2, <3>3
  <2>2. CASE in.buf.kind = "BLOCKS"
    <3>1. c.op = "READ10" /\ InCard(c) /\ io.left \in 0 .. c.cnt /\ io.lba + io.left = c.lba + c.cnt
      BY <1>6, <2>2
    <3>2. PICK n \in 1 .. c.cnt - io.left : Offered(n)
      BY <1>2, <1>3, <3>1 DEF Offering
    <3>m. PICK m : m = c.cnt - io.left - n
      OBVIOUS
    <3>3. /\ m \in Nat /\ n \in Nat /\ c.lba + m + n <= NumBlocks
          /\ io.lba - n = c.lba + m /\ m + n = c.cnt - io.left /\ c.cnt - io.left \in Nat
          /\ c.lba + (c.cnt - io.left) <= NumBlocks
      <4>1. io.lba \in Nat /\ io.left \in Nat
        BY <1>4, Sizes DEF Io
      <4>2. c.lba + c.cnt <= NumBlocks
        BY <3>1 DEF InCard
      <4> QED BY <1>3, <3>1, <3>2, <3>m, <4>1, <4>2, Sizes
    <3>4. host.data = Slice(c.lba, m) /\ in.buf.data = Slice(c.lba + m, n)
      BY <1>3, <3>2, <3>3, <3>m DEF Offered
    <3>5. d = Slice(c.lba, m + n)
      <4>1. d = host.data \o in.buf.data
        BY <1>d, <1>3, <2>2
      <4>2. Slice(c.lba, m) \o Slice(c.lba + m, n) = Slice(c.lba, m + n)
        <5>1. /\ disk \in [Blocks -> Data] /\ c.lba \in Nat /\ m \in Nat /\ n \in Nat
              /\ c.lba + m + n <= NumBlocks
          BY <1>3, <1>4, <3>3
        <5> QED BY <5>1, SliceConcat
      <4> QED BY <3>4, <4>1, <4>2, Zenon
    <3>6. d \in Seq(Data) /\ Len(d) = c.cnt - io.left
      BY <1>3, <1>4, <3>3, <3>5, SliceIs
    <3>7. io.left \in Nat /\ (c.cnt - io.left >= c.cnt <=> io.left = 0)
      BY <1>3, <3>1
    <3> QED BY <3>1, <3>3, <3>5, <3>6, <3>7
  <2> QED BY <1>6, <2>1, <2>2
<1>8. /\ in' \in InEndpoint /\ in'.hw = NULL /\ in'.buf = in.buf
  BY <1>1, <1>4 DEF InEndpoint
<1>9. /\ host' \in Host /\ host'.cmd = c /\ host'.data = d
      /\ host'.st = IF io.left = 0 THEN "csw" ELSE "data_in"
  BY <1>1, <1>3, <1>4, <1>7 DEF Host, HostSt
<1>10. Types'
  BY <1>0, <1>1, <1>5, <1>8, <1>9 DEF Types
<1>11. Queue' /\ HostOK' /\ \A f : Holds(events', f) <=> Holds(events, f) \/ f = "IN"
  <2>1. /\ \A r \in Requests : ~Holds(events, r)
        /\ ~Holds(events, "RESET")
        /\ StateAtEnd(dev_state, events) = "CONFIGURED"
    BY <1>0, <1>1, HostKnows
  <2>2. /\ "IN" \in Event /\ StateAtEnd(dev_state, events) \in Met("IN") /\ StateAfter("IN") = "CONFIGURED"
        /\ "IN" \notin Requests
    BY <2>1 DEF Event, Met, StateAfter, Requests
  <2>3. host'.st \in {"csw", "data_in"}
    BY <1>9
  <2> QED BY <1>0, <1>1, <1>3, <1>5, <2>1, <2>2, <2>3, EventAppended
<1>12. Sent'
  <2>1. InDone'
    BY <1>1, <1>3, <1>8, <1>11 DEF InDone, NoneUnread
  <2>2. Sending'
    BY <1>3, <1>5, <1>8, <1>9, Zenon DEF Sending, Serving
  <2>3. Slice(c.lba, c.cnt - io.left)' = [i \in 1 .. (c.cnt - io'.left) |-> disk[c.lba + i - 1]]
    BY <1>5 DEF Slice
  <2>4. Slice(c.lba, c.cnt - io.left) = [i \in 1 .. (c.cnt - io.left) |-> disk[c.lba + i - 1]]
    BY DEF Slice
  <2>5. c.op = "READ10" => host'.data = Slice(c.lba, c.cnt - io.left)'
    BY <1>5, <1>7, <1>9, <2>3, <2>4
  <2> QED BY <1>3, <1>5, <1>7, <1>9, <2>1, <2>2, <2>5 DEF Sent
<1>13. Phase'
  <2>1. Alive
    BY <1>0, <1>1, HostAlive
  <2>2. Alive'
    BY <1>5, <2>1 DEF Alive
  <2> QED BY <1>12, <2>2 DEF Phase
<1>14. HostPhase'
  <2>1. Phases'
    BY <1>5, <1>9, <1>12, Zenon DEF Phases
  <2>2. host'.st \in {"csw", "data_in"}
    BY <1>9
  <2> QED BY <2>1, <2>2 DEF HostPhase
<1> QED BY <1>10, <1>11, <1>13, <1>14 DEF IInv

LEMMA HostTakeCswStep == ASSUME IInv, HostTakeCsw PROVE IInv'
<1>0. Types /\ Queue /\ HostOK /\ Phase /\ HostPhase
  BY DEF IInv
<1>1. /\ host.st \in {"data_in", "csw"} /\ in.hw # NULL /\ in.hw.buf.kind = "CSW"
      /\ in' = [in EXCEPT !.hw = NULL, !.resid = 0] /\ events' = Append(events, "IN")
      /\ UNCHANGED <<software, xfer_buf, out, bounce>>
  BY DEF HostTakeCsw, Collect, IsCsw
<1>r. PICK r : r = [status |-> in.hw.buf.status,
                    data |-> IF in.hw.buf.status = "PASS" THEN host.data ELSE <<>>]
  OBVIOUS
<1>2. host' = [host EXCEPT !.st = "idle", !.cmd = NULL, !.moved = 0, !.data = <<>>, !.resp = r]
  BY <1>r DEF HostTakeCsw
<1>3. Reporting
  <2>1. Phases
    BY <1>0, <1>1 DEF HostPhase
  <2>2. ~Offering
    BY <1>1 DEF Offering, Sending
  <2>3. ~CbwCame /\ ~TakingBlocks /\ ~BlocksCame /\ ~Sent
    BY <1>1 DEF CbwCame, TakingBlocks, BlocksCame, Sent, OutUnderWay, OutDone, InDone
  <2> QED BY <2>1, <2>2, <2>3 DEF Phases
<1>4. /\ InUnderWay /\ in.hw.buf = in.buf /\ out.hw = NULL /\ NoneUnread /\ bot_state = "BOT_CSW" /\ in.buf \in Csw
  BY <1>3 DEF Reporting, InUnderWay
<1>5. in \in InEndpoint /\ host \in Host /\ host.data \in Seq(Data)
  BY <1>0 DEF Types, Host
<1>6. r \in Response
  BY <1>r, <1>4, <1>5 DEF Response, Csw
<1>7. in' \in InEndpoint /\ in'.hw = NULL /\ in'.buf = in.buf
  BY <1>1, <1>5 DEF InEndpoint
<1>8. /\ host' \in Host /\ host'.st = "idle" /\ host'.cmd = NULL /\ host'.moved = 0 /\ host'.data = <<>>
  <2>1. <<>> \in Seq(Data)
    OBVIOUS
  <2> QED BY <1>2, <1>5, <1>6, <2>1 DEF Host, HostSt
<1>9. UNCHANGED <<bot_state, cbw, io, sense, dev_state, dev_old_state, disk>>
  BY <1>1 DEF software
<1>10. Types'
  BY <1>0, <1>1, <1>7, <1>8, <1>9 DEF Types
<1>11. Queue' /\ HostOK' /\ \A f : Holds(events', f) <=> Holds(events, f) \/ f = "IN"
  <2>1. /\ \A q \in Requests : ~Holds(events, q)
        /\ ~Holds(events, "RESET")
        /\ StateAtEnd(dev_state, events) = "CONFIGURED"
    BY <1>0, <1>1, HostKnows
  <2>2. /\ "IN" \in Event /\ StateAtEnd(dev_state, events) \in Met("IN") /\ StateAfter("IN") = "CONFIGURED"
        /\ "IN" \notin Requests
    BY <2>1 DEF Event, Met, StateAfter, Requests
  <2> QED BY <1>0, <1>1, <1>4, <1>8, <1>9, <2>1, <2>2, EventAppended
<1>12. CswTaken'
  BY <1>1, <1>4, <1>7, <1>9, <1>11 DEF CswTaken, InDone, NoneUnread
<1>13. Phase'
  <2>1. Alive
    BY <1>0, <1>1, HostAlive
  <2>2. Alive'
    BY <1>9, <2>1 DEF Alive
  <2> QED BY <1>12, <2>2 DEF Phase, Ready
<1>14. HostPhase'
  BY <1>8, <1>12 DEF HostPhase, Ready
<1> QED BY <1>10, <1>11, <1>13, <1>14 DEF IInv

(* A signal of the host adds one event and touches nothing else.            *)
LEMMA SignalStep ==
  ASSUME IInv, NEW e \in Event \ Ends, NEW from, NEW to \in HostSt, Signal(e, from, to),
         StateAtEnd(dev_state, events) \in Met(e),
         \A r \in Requests : ~Holds(events, r),
         e # "SET_ADDRESS" => ~Holds(events, "RESET"),
         to = "waiting" <=> e \in Requests,
         to \in {"idle", "cbw", "data_out", "data_in", "csw"} => StateAfter(e) = "CONFIGURED",
         to = "suspended" => StateAfter(e) = "SUSPENDED",
         to = "reset" => StateAfter(e) = "DEFAULT",
         to = "addressed" => StateAfter(e) = "ADDRESSED",
         e = "RESET" \/ Holds(events, "RESET") => to \in {"reset", "waiting"},
         to \notin {"cbw", "data_out", "data_in", "csw"},
         to \in {"idle", "suspended"} => host.st \in {"idle", "suspended"},
         e = "BOT_RESET" => host.st = "cbw"
  PROVE  IInv'
<1>0. Types /\ Queue /\ HostOK /\ Phase /\ HostPhase
  BY DEF IInv
<1>1. /\ events' = Append(events, e) /\ host' = [host EXCEPT !.st = to]
      /\ UNCHANGED <<software, xfer_buf, out, in, bounce>>
  BY DEF Signal, HostGoesTo
<1>2. UNCHANGED <<device, out, in, bounce, disk, dev_state, dev_old_state>>
  BY <1>1 DEF software, device
<1>3. /\ host' \in Host /\ host'.st = to /\ host'.cmd = host.cmd /\ host'.moved = host.moved
      /\ host'.data = host.data
  BY <1>0, <1>1 DEF Types, Host
<1>4. Types'
  BY <1>0, <1>2, <1>3 DEF Types, device
<1>5. Queue' /\ HostOK' /\ \A f : Holds(events', f) <=> Holds(events, f) \/ f = e
  <2>1. e \in Event /\ e \notin Ends
    OBVIOUS
  <2> QED BY <1>0, <1>1, <1>2, <1>3, <2>1, EventAppended
<1>6. /\ Holds(events', "OUT") <=> Holds(events, "OUT")
      /\ Holds(events', "IN") <=> Holds(events, "IN")
      /\ Holds(events', "BOT_RESET") => Holds(events, "BOT_RESET") \/ e = "BOT_RESET"
  BY <1>5 DEF Ends
<1>7. Ready' <=> Ready
  BY <1>2, <1>6, ReadySame DEF device
<1>8. /\ CbwCame' <=> CbwCame
      /\ TakingBlocks' <=> TakingBlocks
      /\ BlocksCame' <=> BlocksCame
      /\ Offering' <=> Offering
      /\ Sent' <=> Sent
      /\ Reporting' <=> Reporting
  BY <1>2, <1>3, <1>6, PhasesSame
<1>9. Phase'
  BY <1>0, <1>2, <1>6, <1>7, <1>8, Zenon DEF Phase, Alive, NoneUnread
<1>10. HostPhase'
  <2>1. to \in {"idle", "suspended"} => Ready /\ host.cmd = NULL /\ host.moved = 0 /\ host.data = <<>>
    BY <1>0 DEF HostPhase
  <2>2. Holds(events', "BOT_RESET") => Ready
    <3>1. ~Holds(events, "BOT_RESET")
      BY DEF Requests
    <3> QED BY <1>0, <1>6, <3>1 DEF HostPhase
  <2> QED BY <1>3, <1>7, <2>1, <2>2 DEF HostPhase
<1> QED BY <1>4, <1>5, <1>9, <1>10 DEF IInv

LEMMA SignalsStep == ASSUME IInv, "BOT_RESET" \notin Signals, HostSignals PROVE IInv'
<1>0. Types /\ Queue /\ HostOK /\ Phase /\ HostPhase
  BY DEF IInv
<1>1. host.st \in HostSt
  BY <1>0 DEF Types, Host
<1>2. host.st # "waiting" => \A r \in Requests : ~Holds(events, r)
  BY <1>0 DEF HostOK
<1>3. host.st \notin {"reset", "waiting"} => ~Holds(events, "RESET")
  BY <1>0 DEF HostOK
<1>4. /\ host.st \in {"idle", "cbw", "data_out", "data_in", "csw"} => StateAtEnd(dev_state, events) = "CONFIGURED"
      /\ host.st = "suspended" => StateAtEnd(dev_state, events) = "SUSPENDED"
      /\ host.st = "reset" => StateAtEnd(dev_state, events) = "DEFAULT"
      /\ host.st = "addressed" => StateAtEnd(dev_state, events) = "ADDRESSED"
  BY <1>0 DEF HostOK
<1>5. CASE HostBotReset
  <2>1. PICK from : Signal("BOT_RESET", from, "waiting") /\ from \subseteq {"cbw"}
    BY <1>5 DEF HostBotReset
  <2>2. host.st = "cbw"
    BY <2>1 DEF Signal
  <2>3. "BOT_RESET" \in Event \ Ends /\ "waiting" \in HostSt /\ "BOT_RESET" \in Requests
    BY DEF Event, Ends, HostSt, Requests
  <2>4. StateAtEnd(dev_state, events) \in Met("BOT_RESET")
    BY <1>4, <2>2 DEF Met
  <2> QED BY <1>2, <1>3, <2>1, <2>2, <2>3, <2>4, SignalStep
<1>6. CASE HostBusReset
  <2>1. Signal("RESET", Active \cup {"suspended"}, "reset")
    BY <1>6 DEF HostBusReset
  <2>2. host.st \in {"suspended", "cbw", "data_out", "data_in", "csw"}
    BY <1>1, <2>1 DEF Signal, Active, HostSt
  <2>3. "RESET" \in Event \ Ends /\ "reset" \in HostSt /\ "RESET" \notin Requests /\ StateAfter("RESET") = "DEFAULT"
    BY DEF Event, Ends, HostSt, Requests, StateAfter
  <2>4. StateAtEnd(dev_state, events) \in Met("RESET")
    BY <1>4, <2>2 DEF Met
  <2> QED BY <1>2, <1>3, <2>1, <2>2, <2>3, <2>4, SignalStep
<1>7. CASE HostSetAddress
  <2>1. Signal("SET_ADDRESS", {"reset"}, "waiting")
    BY <1>7 DEF HostSetAddress
  <2>2. host.st = "reset"
    BY <2>1 DEF Signal
  <2>3. "SET_ADDRESS" \in Event \ Ends /\ "waiting" \in HostSt /\ "SET_ADDRESS" \in Requests
    BY DEF Event, Ends, HostSt, Requests
  <2>4. StateAtEnd(dev_state, events) \in Met("SET_ADDRESS")
    BY <1>4, <2>2 DEF Met
  <2> QED BY <1>2, <1>3, <2>1, <2>2, <2>3, <2>4, SignalStep
<1>8. CASE HostSetConfig
  <2>1. Signal("SET_CONFIG", {"addressed"}, "waiting")
    BY <1>8 DEF HostSetConfig
  <2>2. host.st = "addressed"
    BY <2>1 DEF Signal
  <2>3. "SET_CONFIG" \in Event \ Ends /\ "waiting" \in HostSt /\ "SET_CONFIG" \in Requests
    BY DEF Event, Ends, HostSt, Requests
  <2>4. StateAtEnd(dev_state, events) \in Met("SET_CONFIG")
    BY <1>4, <2>2 DEF Met
  <2> QED BY <1>2, <1>3, <2>1, <2>2, <2>3, <2>4, SignalStep
<1>9. CASE HostSuspend
  <2>1. Signal("SUSPEND", {"idle"}, "suspended")
    BY <1>9 DEF HostSuspend
  <2>2. host.st = "idle"
    BY <2>1 DEF Signal
  <2>3. "SUSPEND" \in Event \ Ends /\ "suspended" \in HostSt /\ "SUSPEND" \notin Requests
        /\ StateAfter("SUSPEND") = "SUSPENDED"
    BY DEF Event, Ends, HostSt, Requests, StateAfter
  <2>4. StateAtEnd(dev_state, events) \in Met("SUSPEND")
    BY <1>4, <2>2 DEF Met
  <2> QED BY <1>2, <1>3, <2>1, <2>2, <2>3, <2>4, SignalStep
<1>10. CASE HostResume
  <2>1. Signal("WAKEUP", {"suspended"}, "idle")
    BY <1>10 DEF HostResume
  <2>2. host.st = "suspended"
    BY <2>1 DEF Signal
  <2>3. "WAKEUP" \in Event \ Ends /\ "idle" \in HostSt /\ "WAKEUP" \notin Requests
        /\ StateAfter("WAKEUP") = "CONFIGURED"
    BY DEF Event, Ends, HostSt, Requests, StateAfter
  <2>4. StateAtEnd(dev_state, events) \in Met("WAKEUP")
    BY <1>4, <2>2 DEF Met
  <2> QED BY <1>2, <1>3, <2>1, <2>2, <2>3, <2>4, SignalStep
<1> QED BY <1>5, <1>6, <1>7, <1>8, <1>9, <1>10, Zenon DEF HostSignals

-----------------------------------------------------------------------------
(* The invariant holds from the start and in every step.                    *)

LEMMA InitOK == Init => IInv
<1> SUFFICES ASSUME Init PROVE IInv
  OBVIOUS
<1>1. /\ bot_state = "BOT_IDLE" /\ cbw = NULL /\ io = [lba |-> 0, left |-> 0, chunk |-> 0] /\ sense = "NONE"
      /\ xfer_buf = [i \in 0 .. ChunkBlocks - 1 |-> NULL] /\ dev_state = "DEFAULT" /\ dev_old_state = NULL
      /\ out = [queued |-> FALSE, buf |-> NULL, len |-> 0, resid |-> 0, hw |-> NULL] /\ in = out
      /\ bounce = NULL /\ disk \in [Blocks -> Data]
  BY DEF Init
<1>2. events = <<"RESET">> /\ host = [st |-> "reset", cmd |-> NULL, tag |-> NULL, moved |-> 0, data |-> <<>>, resp |-> NULL]
  BY DEF Init
<1>3. events \in Seq(Event) /\ Len(events) = 1 /\ events[1] = "RESET"
  BY <1>2 DEF Event
<1>4. \A f : Holds(events, f) <=> f = "RESET"
  BY <1>3 DEF Holds
<1>5. Queue
  <2>1. \A i \in 1 .. Len(events) : i = 1 /\ events[i] = "RESET" /\ events[i] \notin Requests \cup Ends
    BY <1>3 DEF Requests, Ends
  <2>2. StateBefore(dev_state, events, 1) \in Met("RESET")
    BY <1>1 DEF StateBefore, Met
  <2> QED BY <1>3, <2>1, <2>2 DEF Queue, QueueOK
<1>6. /\ host.st = "reset" /\ host.cmd = NULL /\ host.tag = NULL /\ host.moved = 0 /\ host.data = <<>> /\ host.resp = NULL
      /\ host \in Host
  <2>1. <<>> \in Seq(Data)
    OBVIOUS
  <2> QED BY <1>2, <2>1 DEF Host, HostSt
<1>7. HostOK
  <2>1. StateAtEnd(dev_state, events) = "DEFAULT"
    BY <1>3 DEF StateAtEnd, StateBefore, StateAfter
  <2> QED BY <1>1, <1>4, <1>6, <2>1 DEF HostOK, Requests
<1>8. out \in OutEndpoint /\ in \in InEndpoint /\ out.hw = NULL /\ in.hw = NULL
  <2>1. FALSE \in BOOLEAN
    OBVIOUS
  <2> QED BY <1>1, <2>1 DEF OutEndpoint, InEndpoint
<1>9. io \in Io /\ xfer_buf \in XferBuf
  BY <1>1, Sizes DEF Io, XferBuf
<1>10. Types
  BY <1>1, <1>6, <1>8, <1>9 DEF Types, Sense
<1>11. Phase
  BY <1>1, <1>4, <1>8 DEF Phase, Alive, NoneUnread
<1>12. HostPhase
  BY <1>4, <1>6 DEF HostPhase
<1> QED BY <1>5, <1>7, <1>10, <1>11, <1>12 DEF IInv

LEMMA StutterStep == ASSUME IInv, UNCHANGED vars PROVE IInv'
<1>0. Types /\ Queue /\ HostOK /\ Phase /\ HostPhase
  BY DEF IInv
<1>1. UNCHANGED <<bot_state, cbw, io, sense, xfer_buf, dev_state, dev_old_state, out, in, bounce, events, disk, host>>
  BY DEF vars
<1>2. Types' /\ Queue' /\ HostOK'
  BY <1>0, <1>1, Zenon DEF Types, Queue, HostOK
<1>3. Ready' <=> Ready
  BY <1>1, ReadySame
<1>4. /\ CbwCame' <=> CbwCame
      /\ TakingBlocks' <=> TakingBlocks
      /\ BlocksCame' <=> BlocksCame
      /\ Offering' <=> Offering
      /\ Sent' <=> Sent
      /\ Reporting' <=> Reporting
  BY <1>1, PhasesSame DEF device
<1>5. Phase' /\ HostPhase'
  BY <1>0, <1>1, <1>3, <1>4, Zenon DEF Phase, HostPhase, Phases, Alive, NoneUnread
<1> QED BY <1>2, <1>5 DEF IInv

LEMMA NextStep == ASSUME IInv, "BOT_RESET" \notin Signals, [Next]_vars PROVE IInv'
<1>1. CASE Poll
  BY <1>1, PollOutStep, PollInStep, BotResetStep, ResetStep, SetAddressStep, SetConfigStep, SuspendStep, Zenon DEF Poll
<1>2. CASE HostCommand
  BY <1>2, HostCommandStep
<1>3. CASE HostTransfers
  BY <1>3, HostSendCbwStep, HostSendBlockStep, HostTakeDataStep, HostTakeCswStep, Zenon DEF HostTransfers
<1>4. CASE HostSignals
  BY <1>4, SignalsStep
<1>5. CASE UNCHANGED vars
  BY <1>5, StutterStep
<1> QED BY <1>1, <1>2, <1>3, <1>4, <1>5, Zenon DEF Next

LEMMA Invariance == ASSUME "BOT_RESET" \notin Signals PROVE Spec => []IInv
BY InitOK, NextStep, PTL DEF Spec

-----------------------------------------------------------------------------
(* Theorems.  A bulk-only reset in the middle of a command is left out: it   *)
(* finds a transfer of the old command still with the controller, and the    *)
(* endpoint goes on with that one (Started).                                 *)

\* The driver's state, the command block, the buffer and both endpoints keep
\* their types, and a CSW always carries a tag some command block brought.
THEOREM TypeCorrect == ASSUME "BOT_RESET" \notin Signals PROVE Spec => []TypeOK
<1>1. IInv => TypeOK
  <2> SUFFICES ASSUME Types PROVE TypeOK
    BY DEF IInv
  <2>1. out.hw \in Transfer \cup {NULL} /\ in.hw \in InTransfer \cup {NULL}
    BY DEF Types, OutEndpoint, InEndpoint
  <2>2. in.hw # NULL => in.hw.buf.kind # "CSW" \/ in.hw.buf \in Csw
    BY <2>1 DEF InTransfer, Payload
  <2> QED BY <2>1, <2>2 DEF Types, TypeOK, Io, XferBuf
<1> QED BY <1>1, Invariance, PTL

\* usb_msc.c: in every state of its state machine a configured device has one
\* transfer of the right direction and length under way, or its completion
\* unread, and nothing on the other endpoint.
THEOREM OneTransferOwedHolds == ASSUME "BOT_RESET" \notin Signals PROVE Spec => []OneTransferOwed
<1>1. IInv => OneTransferOwed
  <2> SUFFICES ASSUME IInv, dev_state = "CONFIGURED" PROVE OneTransferOwed
    BY DEF OneTransferOwed
  <2>0. Types /\ Queue /\ Phase /\ Alive
    BY DEF IInv, Alive
  <2>1. \A e : InBuffer(e) <=> Holds(events, e)
    BY <2>0 DEF InBuffer, Holds, Queue, QueueOK
  <2>2. /\ OutOwed <=> out.hw # NULL \/ Holds(events, "OUT")
        /\ InOwed <=> in.hw # NULL \/ Holds(events, "IN")
    BY <2>1 DEF OutOwed, InOwed
  <2>3. CASE ArmedForCbw
    BY <2>2, <2>3 DEF OneTransferOwed, IdleArmed, ArmedForCbw, OutUnderWay, NoneUnread, CbwTransfer
  <2>4. CASE CbwCame
    BY <2>2, <2>4 DEF OneTransferOwed, IdleArmed, CbwCame, OutDone
  <2>5. CASE TakingBlocks
    BY <2>2, <2>5 DEF OneTransferOwed, TakingBlocks, Writing, OutUnderWay, NoneUnread
  <2>6. CASE BlocksCame
    BY <2>2, <2>6 DEF OneTransferOwed, BlocksCame, Writing, OutDone
  <2>7. CASE Offering
    BY <2>2, <2>7 DEF OneTransferOwed, Offering, Sending, InUnderWay, NoneUnread
  <2>8. CASE Sent
    BY <2>2, <2>8 DEF OneTransferOwed, Sent, Sending, InDone
  <2>9. CASE CswTaken
    BY <2>2, <2>9 DEF OneTransferOwed, CswTaken, InDone, Csw
  <2>10. CASE Reporting
    BY <2>2, <2>10 DEF OneTransferOwed, Reporting, InUnderWay, NoneUnread, Csw
  <2> QED BY <2>0, <2>3, <2>4, <2>5, <2>6, <2>7, <2>8, <2>9, <2>10 DEF Phase, Ready
<1> QED BY <1>1, Invariance, PTL

\* What the host finds at the IN endpoint is data in its data phase or the
\* CSW of its own command, and no request of an enumeration fails.
THEOREM ProtocolKeptHolds == ASSUME "BOT_RESET" \notin Signals PROVE Spec => []ProtocolKept
<1>1. IInv => ProtocolKept
  <2> SUFFICES ASSUME IInv PROVE ProtocolKept
    OBVIOUS
  <2>1. host.st # "broken"
    BY DEF IInv, Types, Host, HostSt
  <2>2. ASSUME in.hw # NULL, host.st \in {"data_in", "csw"}
        PROVE  (Offering /\ host.st = "data_in") \/ Reporting
    <3>1. Phases
      BY <2>2 DEF IInv, HostPhase
    <3>2. ~CbwCame /\ ~TakingBlocks /\ ~BlocksCame /\ ~Sent
      BY <2>2 DEF CbwCame, TakingBlocks, BlocksCame, Sent, OutUnderWay, OutDone, InDone
    <3> QED BY <3>1, <3>2 DEF Phases
  <2>3. Offering => IsData(in.hw.buf)
    BY DEF Offering, Sending, IsData
  <2>4. Reporting => IsCsw(in.hw.buf)
    BY DEF Reporting, Serving, Csw, IsCsw
  <2> QED BY <2>1, <2>2, <2>3, <2>4 DEF ProtocolKept
<1> QED BY <1>1, Invariance, PTL

\* usb_device.c: after any suspends, resumes and bus resets, once the driver
\* has seen them all the device is configured whenever the host takes it to be.
THEOREM HostInStepHolds == ASSUME "BOT_RESET" \notin Signals PROVE Spec => []HostInStep
<1>1. IInv => HostInStep
  <2> SUFFICES ASSUME IInv, host.st \in Active \cup {"idle"}, \A i \in DOMAIN events : events[i] \in {"IN", "OUT"}
               PROVE  dev_state = "CONFIGURED"
    BY DEF HostInStep
  <2>1. StateAtEnd(dev_state, events) = "CONFIGURED"
    BY DEF IInv, HostOK, Types, Host, HostSt, Active
  <2>2. CASE events = <<>>
    BY <2>1, <2>2, NoEvents
  <2>3. CASE events # <<>>
    <3>1. events \in Seq(Event)
      BY DEF IInv, Queue, QueueOK
    <3>2. Head(events) = events[1] /\ 1 \in DOMAIN events
      BY <2>3, <3>1, TailIs
    <3>3. dev_state \in Met(Head(events))
      BY <2>3, HeadTaken DEF IInv, Queue
    <3> QED BY <3>2, <3>3 DEF Met
  <2> QED BY <2>2, <2>3
<1> QED BY <1>1, Invariance, PTL

(* The disk of BlockDisk: what each step does to it.                        *)
DiskSame == Disk!BDNext \/ UNCHANGED Disk!bdVars

LEMMA StoreRefines ==
  ASSUME IInv, PollOut
  PROVE  DiskSame
<1>0. Types /\ Queue /\ HostOK /\ Phase /\ HostPhase
  BY DEF IInv
<1>c. PICK c : c = host.cmd
  OBVIOUS
<1>1. Taken("OUT") /\ UNCHANGED host
  BY DEF PollOut
<1>2. events # <<>> /\ Head(events) = "OUT" /\ QueueOK(dev_state, events)
  BY <1>0, <1>1 DEF Taken, Queue
<1>3. dev_state = "CONFIGURED" /\ Holds(events, "OUT")
  BY <1>2, HeadTaken DEF Met
<1>4. CbwCame \/ BlocksCame
  BY <1>0, <1>3, Apart DEF Alive
<1>5. ASSUME UNCHANGED disk PROVE DiskSame
  BY <1>1, <1>5 DEF DiskSame, Disk!bdVars
<1>6. \/ UNCHANGED disk
      \/ bot_state = "BOT_DATA_OUT" /\ (disk' = Stored
           \/ \E hit \in SUBSET Blocks : disk' = [b \in Blocks |-> IF b \in hit THEN Stored[b] ELSE disk[b]])
  BY Zenon DEF PollOut, msc_data_out
<1>7. ASSUME bot_state = "BOT_DATA_OUT", NEW hit \in SUBSET Blocks,
             disk' = [b \in Blocks |-> IF b \in hit THEN Stored[b] ELSE disk[b]]
      PROVE  DiskSame
  <2>1. /\ BlocksCame /\ Writing /\ Filled(io.chunk) /\ c \in Command /\ cbw = c /\ host.cmd = c
        /\ c.op = "WRITE10" /\ c.lba + c.cnt <= NumBlocks
        /\ io.left \in 1 .. c.cnt /\ io.chunk = Min2(io.left, ChunkBlocks) /\ io.lba + io.left = c.lba + c.cnt
        /\ \A i \in 0 .. io.chunk - 1 : xfer_buf[i] = c.val
    BY <1>c, <1>4, <1>7 DEF CbwCame, BlocksCame, Writing, Serving, InCard, Filled
  <2>2. c.lba \in Nat /\ c.cnt \in Nat
    BY <2>1, CommandIs
  <2>3. io.chunk \in 1 .. io.left /\ io.lba \in Nat /\ io.left \in Nat
    BY <1>0, <2>1, <2>2, Sizes DEF Types, Io, Min2
  <2>4. PICK chunk : chunk = io.lba .. io.lba + io.chunk - 1
    OBVIOUS
  <2>5. chunk \subseteq c.lba .. c.lba + c.cnt - 1 /\ \A b \in chunk : b - io.lba \in 0 .. io.chunk - 1
    <3>1. c.lba <= io.lba /\ io.lba + io.chunk <= c.lba + c.cnt
      BY <2>1, <2>2, <2>3
    <3>2. c.lba \in Nat /\ c.cnt \in Nat /\ io.lba \in Nat /\ io.chunk \in Nat
      BY <2>2, <2>3
    <3> SUFFICES ASSUME NEW b \in chunk
                 PROVE  b \in c.lba .. c.lba + c.cnt - 1 /\ b - io.lba \in 0 .. io.chunk - 1
      OBVIOUS
    <3>3. b \in io.lba .. io.lba + io.chunk - 1
      BY <2>4
    <3> QED BY <3>1, <3>2, <3>3
  <2>6. \A b \in Blocks : Stored[b] = IF b \in chunk THEN c.val ELSE disk[b]
    BY <2>1, <2>4, <2>5 DEF Stored
  <2>7. disk' = [b \in Blocks |-> IF b \in chunk \cap hit THEN c.val ELSE disk[b]]
    BY <1>7, <2>6
  <2>8. chunk \cap hit \in SUBSET (c.lba .. c.lba + c.cnt - 1)
    BY <2>5
  <2>9. c.lba .. c.lba + c.cnt - 1 \subseteq Blocks /\ c # NULL
    BY <2>1, <2>2, Sizes DEF Blocks
  <2>10. Disk!Store
    BY <1>1, <2>1, <2>7, <2>8, <2>9 DEF Disk!Store, Disk!InRange, Disk!Range
  <2> QED BY <2>10 DEF DiskSame, Disk!BDNext
<1>8. ASSUME bot_state = "BOT_DATA_OUT", disk' = Stored PROVE DiskSame
  <2>1. disk' = [b \in Blocks |-> IF b \in Blocks THEN Stored[b] ELSE disk[b]]
    BY <1>8 DEF Stored
  <2> QED BY <1>7, <1>8, <2>1
<1> QED BY <1>5, <1>6, <1>7, <1>8

LEMMA AnswerRefines ==
  ASSUME IInv, HostTakeCsw
  PROVE  DiskSame
<1>0. Types /\ Queue /\ HostOK /\ Phase /\ HostPhase
  BY DEF IInv
<1>c. PICK c : c = host.cmd
  OBVIOUS
<1>1. /\ host.st \in {"data_in", "csw"} /\ in.hw # NULL /\ in.hw.buf.kind = "CSW" /\ UNCHANGED disk
      /\ host' = [host EXCEPT !.st = "idle", !.cmd = NULL, !.moved = 0, !.data = <<>>,
           !.resp = [status |-> in.hw.buf.status,
                     data |-> IF in.hw.buf.status = "PASS" THEN host.data ELSE <<>>]]
  BY DEF HostTakeCsw, Collect, IsCsw, software
<1>2. Reporting
  <2>1. Phases
    BY <1>0, <1>1 DEF HostPhase
  <2>2. ~Offering
    BY <1>1 DEF Offering, Sending
  <2>3. ~CbwCame /\ ~TakingBlocks /\ ~BlocksCame /\ ~Sent
    BY <1>1 DEF CbwCame, TakingBlocks, BlocksCame, Sent, OutUnderWay, OutDone, InDone
  <2> QED BY <2>1, <2>2, <2>3 DEF Phases
<1>3. /\ c \in Command /\ c # NULL /\ cbw = c /\ host.cmd = c /\ c.lba \in Nat /\ c.cnt \in Nat
      /\ in.hw.buf = in.buf /\ in.buf.status \in {"PASS", "FAIL"}
  BY <1>c, <1>2, CommandIs, Sizes DEF Reporting, Serving, Csw
<1>4. host'.cmd = NULL /\ host'.resp = [status |-> in.buf.status, data |-> IF in.buf.status = "PASS" THEN host.data ELSE <<>>]
  BY <1>0, <1>1, <1>3 DEF Types, Host
<1>5. InCard(c) \/ c.cnt = 0 <=> c.lba .. c.lba + c.cnt - 1 \subseteq Blocks
  <2>1. ASSUME c.cnt = 0 \/ InCard(c) PROVE c.lba .. c.lba + c.cnt - 1 \subseteq Blocks
    BY <1>3, <2>1, Sizes DEF InCard, Blocks
  <2>2. ASSUME c.cnt # 0, c.lba .. c.lba + c.cnt - 1 \subseteq Blocks PROVE InCard(c)
    <3>1. c.lba + c.cnt - 1 \in c.lba .. c.lba + c.cnt - 1
      BY <1>3, <2>2
    <3>2. c.lba + c.cnt - 1 \in Blocks
      BY <2>2, <3>1
    <3> QED BY <1>3, <3>2, Sizes DEF InCard, Blocks
  <2> QED BY <2>1, <2>2
<1>6. CASE in.buf.status = "PASS"
  <2>1. Passed(c)
    BY <1>2, <1>3, <1>6 DEF Reporting
  <2>2. host.data = IF c.op = "READ10" THEN [i \in 1 .. c.cnt |-> disk[c.lba + i - 1]] ELSE <<>>
    BY <2>1 DEF Passed, Slice
  <2>3. Disk!Pass
    BY <1>1, <1>3, <1>4, <1>5, <1>6, <2>1, <2>2 DEF Passed, Moves, Disk!Pass, Disk!InRange, Disk!Range, Disk!Moves
  <2> QED BY <2>3 DEF DiskSame, Disk!BDNext
<1>7. CASE in.buf.status = "FAIL"
  <2>1. Failed(c)
    BY <1>2, <1>3, <1>7 DEF Reporting
  <2>2. host'.resp = [status |-> "FAIL", data |-> <<>>]
    BY <1>4, <1>7
  <2>3. Disk!Fail
    BY <1>1, <1>3, <1>4, <1>5, <2>1, <2>2 DEF Failed, Moves, Disk!Fail, Disk!InRange, Disk!Range, Disk!Moves
  <2> QED BY <2>3 DEF DiskSame, Disk!BDNext
<1> QED BY <1>3, <1>6, <1>7

LEMMA StepRefines ==
  ASSUME IInv, [Next]_vars
  PROVE  DiskSame
<1>1. ASSUME UNCHANGED disk, host'.cmd = host.cmd, host'.resp = host.resp PROVE DiskSame
  BY <1>1 DEF DiskSame, Disk!bdVars
<1>h. host \in Host
  BY DEF IInv, Types
<1>2. CASE Poll
  <2>1. CASE PollOut
    BY <2>1, StoreRefines
  <2>2. CASE PollIn
    <3>1. UNCHANGED <<disk, host>>
      BY <2>2, Zenon DEF PollIn, msc_data_in
    <3> QED BY <1>1, <3>1
  <2>3. CASE PollBotReset \/ PollSetConfig
    <3>1. host'.cmd = NULL /\ host'.resp = NULL /\ UNCHANGED disk
      BY <1>h, <2>3 DEF PollBotReset, PollSetConfig, Host
    <3>2. Disk!Abandon
      BY <3>1 DEF Disk!Abandon
    <3> QED BY <3>2 DEF DiskSame, Disk!BDNext
  <2>4. CASE PollReset \/ PollSuspend \/ PollWakeup
    <3>1. UNCHANGED <<disk, host>>
      BY <2>4 DEF PollReset, PollSuspend, PollWakeup
    <3> QED BY <1>1, <3>1
  <2>5. CASE PollSetAddress
    <3>1. UNCHANGED disk /\ \E st : host' = [host EXCEPT !.st = st]
      BY <2>5, Zenon DEF PollSetAddress, HostGoesTo
    <3>2. host'.cmd = host.cmd /\ host'.resp = host.resp
      BY <1>h, <3>1 DEF Host
    <3> QED BY <1>1, <3>1, <3>2
  <2> QED BY <1>2, <2>1, <2>2, <2>3, <2>4, <2>5, Zenon DEF Poll
<1>3. CASE HostCommand
  <2>1. PICK c \in Command : host' = [host EXCEPT !.st = "cbw", !.cmd = c, !.tag = c.tag]
    BY <1>3 DEF HostCommand
  <2>2. host.cmd = NULL /\ UNCHANGED disk
    BY <1>3 DEF IInv, HostPhase, HostCommand, software
  <2>3. host'.cmd = c /\ host'.resp = host.resp /\ c # NULL
    BY <1>h, <2>1, Sizes DEF Host
  <2>4. Disk!Ask
    BY <2>2, <2>3 DEF Disk!Ask
  <2> QED BY <2>4 DEF DiskSame, Disk!BDNext
<1>4. CASE HostTransfers
  <2>1. CASE HostSendCbw
    BY <1>1, <1>h, <2>1 DEF HostSendCbw, HostGoesTo, software, Host
  <2>2. CASE HostSendBlock
    BY <1>1, <1>h, <2>2 DEF HostSendBlock, software, Host
  <2>3. CASE HostTakeData
    BY <1>1, <1>h, <2>3 DEF HostTakeData, software, Host
  <2>4. CASE HostTakeCsw
    BY <2>4, AnswerRefines
  <2> QED BY <1>4, <2>1, <2>2, <2>3, <2>4, Zenon DEF HostTransfers
<1>5. CASE HostSignals
  <2>1. UNCHANGED disk /\ \E to : host' = [host EXCEPT !.st = to]
    BY <1>5, Zenon DEF HostSignals, HostBotReset, HostBusReset, HostSetAddress, HostSetConfig, HostSuspend,
                       HostResume, Signal, HostGoesTo, software
  <2>2. host'.cmd = host.cmd /\ host'.resp = host.resp
    BY <1>h, <2>1 DEF Host
  <2> QED BY <1>1, <2>1, <2>2
<1>6. CASE UNCHANGED vars
  BY <1>1, <1>6 DEF vars
<1> QED BY <1>2, <1>3, <1>4, <1>5, <1>6, Zenon DEF Next

\* usb_msc.c with the two endpoints, the event buffer and the host's retries
\* serves the card as BlockDisk does: a PASS means the command was carried
\* out in full on exactly its blocks, and only requested writes change it.
THEOREM Refinement == ASSUME "BOT_RESET" \notin Signals PROVE Spec => ImplementsDisk
<1>1. Init => Disk!BDInit
  BY DEF Init, Disk!BDInit
<1>2. IInv /\ [Next]_vars => [Disk!BDNext]_(Disk!bdVars)
  BY StepRefines DEF DiskSame
<1> QED BY <1>1, <1>2, Invariance, PTL DEF Spec, ImplementsDisk, Disk!BDSpec

=============================================================================
