--------------------------- MODULE UsbControlProofs ---------------------------
(***************************************************************************)
(* Theorems about UsbControl, for any requests with OneAnswer, any number   *)
(* of requests given up, and any resets, suspends and events of the link.   *)
(*                                                                         *)
(* Endpoint 0 is Armed, Taken or Working, and what may wait in the event    *)
(* buffer follows from that: behind a reset nothing of endpoint 0; when     *)
(* armed only what the driver drops; when taken the SETUP, and behind it at *)
(* most one report of each stage of the request; when working one report or *)
(* one completion, of a transfer that is no longer with the controller.     *)
(* First come the words of the hardware, then the functions of the driver   *)
(* and the core one by one, then the events, then the steps.                *)
(*                                                                         *)
(* The second half is the refinement of ControlPipe: what the core decides  *)
(* is what ControlPipe says (Carried), in the state of the device in which  *)
(* the request is taken; PipeInv knows that request and that state.         *)
(***************************************************************************)
EXTENDS UsbControl, SequenceTheorems, TLAPS

-----------------------------------------------------------------------------
(* Words.                                                                   *)

LEMMA Powers == 2 ^ 0 = 1 /\ 2 ^ 1 = 2 /\ 2 ^ 2 = 4 /\ 2 ^ 4 = 16 /\ 2 ^ 5 = 32 /\ 2 ^ 6 = 64 /\ 2 ^ 8 = 256 /\ 2 ^ 12 = 4096
  OBVIOUS

(* What the driver writes into a TRB is what the controller reads.          *)
LEMMA TrbKinds ==
  /\ TrbKind(0) = "none"
  /\ \A kind \in {"setup", "data", "status2", "status3"} : TrbKind(TrbControl(kind, 0)) = kind
<1>1. TrbKind(0) = "none"
  BY DEF TrbKind
<1>2. ASSUME NEW kind \in {"setup", "data", "status2", "status3"} PROVE TrbKind(TrbControl(kind, 0)) = kind
  <2>1. TRBCTL[kind] \in 2 .. 5
    BY DEF TRBCTL
  <2>2. PICK flag \in 2 .. 5 : flag = TRBCTL[kind]
    BY <2>1
  <2>3. Put(flag, TRB_CTRL_TRBCTL) = flag * 16
    BY Powers DEF Put, TRB_CTRL_TRBCTL, Field
  <2>4. TrbControl(kind, 0) = flag * 16 + 3075
    BY <2>2, <2>3 DEF TrbControl, dwc3_get_trb_ctltype, ISP_IMI, IOC, LST, HWO
  <2>5. (flag * 16 + 3075) % 2 = 1 /\ ((flag * 16 + 3075) \div 16) % 64 = flag
    OBVIOUS
  <2>6. Get(flag * 16 + 3075, TRB_CTRL_TRBCTL) = flag
    BY <2>5, Powers DEF Get, TRB_CTRL_TRBCTL, Field
  <2>8. \A k \in DOMAIN TRBCTL : TRBCTL[k] = TRBCTL[kind] => k = kind
    BY DEF TRBCTL
  <2>9. kind \in DOMAIN TRBCTL
    BY DEF TRBCTL
  <2>10. TrbKind(flag * 16 + 3075) = kind
    BY <2>2, <2>5, <2>6, <2>8, <2>9 DEF TrbKind
  <2>11. TrbKind(TrbControl(kind, 0)) = TrbKind(flag * 16 + 3075)
    BY <2>4
  <2> QED
    BY <2>10, <2>11, Zenon
<1> QED
  BY <1>1, <1>2

LEMMA EndpointNumbers == Phys("OUT") = 0 /\ Phys("IN") = 1 /\ PHYEPNUM_TO_EPADDR(0) = 0 /\ PHYEPNUM_TO_EPADDR(1) = 128
  BY DEF Phys, EPADDR_TO_PHYEPNUM, PHYEPNUM_TO_EPADDR, EP_DIR_IN

LEMMA EpWords ==
  ASSUME NEW type \in {1, 3}, NEW phy \in {0, 1}, NEW status \in 0 .. 2, NEW word, word = EpEvent(type, phy, status)
  PROVE  /\ word \in Nat
         /\ dwc3_is_ep_event(word) /\ ~dwc3_is_dev_event(word)
         /\ dwc3_read_ep_evt_type(word) = type /\ dwc3_read_ep_evt_epnum(word) = phy
         /\ dwc3_read_ep_evt_status(word) = status
<1>1. /\ Put(type, DEPEVT_TYPE) = type * 64 /\ Put(phy, DEPEVT_EPNUM) = phy * 2
      /\ Put(status, DEPEVT_STATUS) = status * 4096
  BY Powers DEF Put, DEPEVT_TYPE, DEPEVT_EPNUM, DEPEVT_STATUS, Field
<1>2. word = type * 64 + phy * 2 + status * 4096
  BY <1>1 DEF EpEvent
<1>3. /\ (word \div 1) % 2 = 0 /\ (word \div 64) % 16 = type /\ (word \div 2) % 32 = phy
      /\ (word \div 4096) % 16 = status /\ word \in Nat
  BY <1>2
<1> QED
  BY <1>3, Powers DEF dwc3_is_ep_event, dwc3_is_dev_event, dwc3_read_ep_evt_type, dwc3_read_ep_evt_epnum,
     dwc3_read_ep_evt_status, Get, EVT_TYPE, DEPEVT_TYPE, DEPEVT_EPNUM, DEPEVT_STATUS, Field

LEMMA DeviceWords ==
  ASSUME NEW type \in 0 .. 15, NEW word, word = DeviceEvent(type)
  PROVE  /\ word \in Nat
         /\ ~dwc3_is_ep_event(word) /\ dwc3_is_dev_event(word) /\ Get(word, DEVEVT_TYPE) = type
<1>1. Put(type, DEVEVT_TYPE) = type * 256 /\ Put(1, EVT_TYPE) = 1
  BY Powers DEF Put, DEVEVT_TYPE, EVT_TYPE, Field
<1>2. word = type * 256 + 1
  BY <1>1 DEF DeviceEvent
<1>3. (word \div 1) % 2 = 1 /\ (word \div 256) % 16 = type /\ word \in Nat
  BY <1>2
<1> QED
  BY <1>3, Powers DEF dwc3_is_ep_event, dwc3_is_dev_event, Get, EVT_TYPE, DEVEVT_TYPE, Field

-----------------------------------------------------------------------------
(* The events of the buffer, by what they report.                           *)

Completes(e) == {Complete(e, trbsts) : trbsts \in {0, 2}}
Completions == Completes("OUT") \cup Completes("IN")
AskedData == {NotReady(e, CTRL_DATA) : e \in Ends}
AskedStatus == {NotReady(e, CTRL_STATUS) : e \in Ends}
NotReadys == AskedData \cup AskedStatus
DeviceEvents == {Device(what) : what \in DOMAIN DEVICE_EVENT}
Events == Completions \cup NotReadys \cup DeviceEvents

LEMMA CompleteFacts ==
  ASSUME NEW e \in Ends, NEW trbsts \in {0, 2}, NEW ev, ev = Complete(e, trbsts)
  PROVE  /\ ev \in [word : Nat, trbsts : {0, 2}] /\ ev.trbsts = trbsts
         /\ ~dwc3_is_dev_event(ev.word) /\ Is(ev, "XFERCOMPLETE") /\ ~Is(ev, "XFERNOTREADY") /\ EpOf(ev) = e
<1>1. PICK phy \in {0, 1} : phy = Phys(e) /\ (phy = 1 <=> e = "IN")
  BY EndpointNumbers DEF Ends
<1>2. ev.trbsts = trbsts /\ ev.word = EpEvent(1, phy, 0) /\ ev = [word |-> ev.word, trbsts |-> trbsts]
  BY <1>1 DEF Complete, DEPEVT
<1>3. /\ ev.word \in Nat /\ dwc3_is_ep_event(ev.word) /\ ~dwc3_is_dev_event(ev.word)
      /\ dwc3_read_ep_evt_type(ev.word) = 1 /\ dwc3_read_ep_evt_epnum(ev.word) = phy
  BY <1>2, EpWords
<1>4. EpOf(ev) = e
  BY <1>1, <1>3, EndpointNumbers DEF EpOf, EP_DIR_IN, Ends
<1> QED
  BY <1>2, <1>3, <1>4 DEF Is, DEPEVT

LEMMA NotReadyFacts ==
  ASSUME NEW e \in Ends, NEW status \in {CTRL_DATA, CTRL_STATUS}, NEW ev, ev = NotReady(e, status)
  PROVE  /\ ev \in [word : Nat, trbsts : {0, 2}]
         /\ ~dwc3_is_dev_event(ev.word) /\ ~Is(ev, "XFERCOMPLETE") /\ Is(ev, "XFERNOTREADY") /\ EpOf(ev) = e
         /\ At_data(ev) <=> status = CTRL_DATA
         /\ At_status(ev) <=> status = CTRL_STATUS
<1>1. PICK phy \in {0, 1} : phy = Phys(e) /\ (phy = 1 <=> e = "IN")
  BY EndpointNumbers DEF Ends
<1>2. ev.word = EpEvent(3, phy, status) /\ ev = [word |-> ev.word, trbsts |-> 0]
  BY <1>1 DEF NotReady, DEPEVT
<1>3. /\ ev.word \in Nat /\ dwc3_is_ep_event(ev.word) /\ ~dwc3_is_dev_event(ev.word)
      /\ dwc3_read_ep_evt_type(ev.word) = 3 /\ dwc3_read_ep_evt_epnum(ev.word) = phy
      /\ dwc3_read_ep_evt_status(ev.word) = status
  BY <1>2, EpWords DEF CTRL_DATA, CTRL_STATUS
<1>4. EpOf(ev) = e
  BY <1>1, <1>3, EndpointNumbers DEF EpOf, EP_DIR_IN, Ends
<1>5. At_data(ev) <=> status = CTRL_DATA
  BY <1>3 DEF At_data
<1>6. At_status(ev) <=> status = CTRL_STATUS
  BY <1>3 DEF At_status
<1> QED
  BY <1>2, <1>3, <1>4, <1>5, <1>6 DEF Is, DEPEVT

LEMMA DeviceFacts ==
  ASSUME NEW what \in DOMAIN DEVICE_EVENT, NEW ev, ev = Device(what)
  PROVE  /\ ev \in [word : Nat, trbsts : {0, 2}]
         /\ dwc3_is_dev_event(ev.word) /\ ~Is(ev, "XFERCOMPLETE") /\ ~Is(ev, "XFERNOTREADY")
         /\ dwc3_read_dev_evt_type(ev.word) = DEVICE_EVENT.RESET <=> what = "RESET"
         /\ ev = Device("RESET") <=> what = "RESET"
<1>1. PICK type \in 0 .. 15 : type = DEVICE_EVENT[what] /\ (type = 1 <=> what = "RESET")
  BY DEF DEVICE_EVENT
<1>2. ev.word = DeviceEvent(type) /\ ev = [word |-> ev.word, trbsts |-> 0]
  BY <1>1 DEF Device
<1>3. /\ ev.word \in Nat /\ ~dwc3_is_ep_event(ev.word) /\ dwc3_is_dev_event(ev.word)
      /\ Get(ev.word, DEVEVT_TYPE) = type
  BY <1>2, DeviceWords
<1>4. dwc3_read_dev_evt_type(ev.word) \in {0, type} /\ (type = 1 => dwc3_read_dev_evt_type(ev.word) = 1)
  <2>1. 1 \in {DEVICE_EVENT[d] : d \in DOMAIN DEVICE_EVENT \ {"L1SUSPEND", "L1WAKEUP"}}
    BY DEF DEVICE_EVENT
  <2> QED
    BY <1>3, <2>1 DEF dwc3_read_dev_evt_type
<1>5. DEVICE_EVENT.RESET = 1
  BY DEF DEVICE_EVENT
<1>6. Device("RESET").word = DeviceEvent(1)
  BY <1>5 DEF Device
<1>7. Get(Device("RESET").word, DEVEVT_TYPE) = 1
  BY <1>6, DeviceWords
<1>8. ev = Device("RESET") <=> what = "RESET"
  BY <1>1, <1>3, <1>7
<1> QED
  BY <1>1, <1>2, <1>3, <1>4, <1>5, <1>8 DEF Is

(* What an event of each kind is, and that it is of one kind only.          *)
LEMMA EventKinds ==
  ASSUME NEW ev
  PROVE  /\ \A e \in Ends : ev \in Completes(e) =>
              /\ ev \in [word : Nat, trbsts : {0, 2}]
              /\ ev \in Completions /\ ev \notin NotReadys /\ ev \notin DeviceEvents
              /\ ~dwc3_is_dev_event(ev.word) /\ Is(ev, "XFERCOMPLETE") /\ ~Is(ev, "XFERNOTREADY") /\ EpOf(ev) = e
              /\ ev = Complete(e, ev.trbsts) /\ ev.trbsts \in {0, 2}
         /\ ev \in NotReadys =>
              /\ ev \in [word : Nat, trbsts : {0, 2}]
              /\ ev \notin Completions /\ ev \notin DeviceEvents
              /\ ~dwc3_is_dev_event(ev.word) /\ ~Is(ev, "XFERCOMPLETE") /\ Is(ev, "XFERNOTREADY") /\ EpOf(ev) \in Ends
              /\ ev \in AskedData <=> At_data(ev)
              /\ ev \in AskedStatus <=> At_status(ev)
              /\ ev \in AskedData <=> ev \notin AskedStatus
              /\ ev \in AskedData => ev = NotReady(EpOf(ev), CTRL_DATA)
         /\ ev \in DeviceEvents =>
              /\ ev \in [word : Nat, trbsts : {0, 2}]
              /\ ev \notin Completions /\ ev \notin NotReadys
              /\ dwc3_is_dev_event(ev.word) /\ ~Is(ev, "XFERCOMPLETE") /\ ~Is(ev, "XFERNOTREADY")
              /\ dwc3_read_dev_evt_type(ev.word) = DEVICE_EVENT.RESET <=> ev = Device("RESET")
<1>1. ASSUME NEW e \in Ends, ev \in Completes(e)
      PROVE  /\ ev \in [word : Nat, trbsts : {0, 2}]
             /\ ev \in Completions
             /\ ~dwc3_is_dev_event(ev.word) /\ Is(ev, "XFERCOMPLETE") /\ ~Is(ev, "XFERNOTREADY") /\ EpOf(ev) = e
             /\ ev = Complete(e, ev.trbsts) /\ ev.trbsts \in {0, 2}
  <2>1. PICK trbsts \in {0, 2} : ev = Complete(e, trbsts)
    BY <1>1 DEF Completes
  <2>2. ev \in Completions
    BY <1>1 DEF Completions, Ends
  <2> QED
    BY <2>1, <2>2, CompleteFacts
<1>2. ASSUME ev \in NotReadys
      PROVE  /\ ev \in [word : Nat, trbsts : {0, 2}]
             /\ ~dwc3_is_dev_event(ev.word) /\ ~Is(ev, "XFERCOMPLETE") /\ Is(ev, "XFERNOTREADY") /\ EpOf(ev) \in Ends
             /\ ev \in AskedData <=> At_data(ev)
             /\ ev \in AskedStatus <=> At_status(ev)
             /\ ev \in AskedData <=> ev \notin AskedStatus
             /\ ev \in AskedData => ev = NotReady(EpOf(ev), CTRL_DATA)
  <2>1. PICK e \in Ends, status \in {CTRL_DATA, CTRL_STATUS} : ev = NotReady(e, status)
    BY <1>2 DEF NotReadys, AskedData, AskedStatus
  <2>2. /\ ev \in [word : Nat, trbsts : {0, 2}]
        /\ ~dwc3_is_dev_event(ev.word) /\ ~Is(ev, "XFERCOMPLETE") /\ Is(ev, "XFERNOTREADY") /\ EpOf(ev) = e
        /\ At_data(ev) <=> status = CTRL_DATA
        /\ At_status(ev) <=> status = CTRL_STATUS
    BY <2>1, NotReadyFacts
  <2>3. ev \in AskedData => At_data(ev)
    BY NotReadyFacts DEF AskedData
  <2>4. ev \in AskedStatus => At_status(ev)
    BY NotReadyFacts DEF AskedStatus
  <2>5. CTRL_DATA # CTRL_STATUS
    BY DEF CTRL_DATA, CTRL_STATUS
  <2>6. (status = CTRL_DATA => ev \in AskedData) /\ (status = CTRL_STATUS => ev \in AskedStatus)
    BY <2>1 DEF AskedData, AskedStatus
  <2>7. status = CTRL_DATA => ev = NotReady(EpOf(ev), CTRL_DATA)
    BY <2>1, <2>2
  <2> QED
    BY <2>2, <2>3, <2>4, <2>5, <2>6, <2>7, Zenon
<1>3. ASSUME ev \in DeviceEvents
      PROVE  /\ ev \in [word : Nat, trbsts : {0, 2}]
             /\ dwc3_is_dev_event(ev.word) /\ ~Is(ev, "XFERCOMPLETE") /\ ~Is(ev, "XFERNOTREADY")
             /\ dwc3_read_dev_evt_type(ev.word) = DEVICE_EVENT.RESET <=> ev = Device("RESET")
  BY <1>3, DeviceFacts DEF DeviceEvents
<1>4. ASSUME NEW e \in Ends, ev \in Completes(e) PROVE ev \notin NotReadys /\ ev \notin DeviceEvents
  BY <1>1, <1>2, <1>3, <1>4, Zenon
<1>5. ev \in Completions => \E e \in Ends : ev \in Completes(e)
  BY DEF Completions, Ends
<1>6. ev \in NotReadys => ev \notin Completions /\ ev \notin DeviceEvents
  BY <1>1, <1>2, <1>3, <1>5, Zenon
<1>7. ev \in DeviceEvents => ev \notin Completions /\ ev \notin NotReadys
  BY <1>1, <1>2, <1>3, <1>5, Zenon
<1> QED
  BY <1>1, <1>2, <1>3, <1>4, <1>6, <1>7, Zenon

-----------------------------------------------------------------------------
(* The driver: what its functions do to endpoint 0.                         *)

TrbStates == {"none", "setup", "data", "status2", "status3"}
Endpoint == [addr : Nat, type : Nat, maxpacket : Nat]

Handles ==
  [EP0_State : {"RESET", "SETUP_QUEUED", "SETUP_COMPLETED"}, is_stall : [Ends -> BOOLEAN],
   queued : [Ends -> BOOLEAN], xfer_len : [Ends -> Nat], address : Nat,
   dev_state : DevStates, dev_old_state : DevStates, dev_config : Nat, ep0_state : Ep0States,
   total : Nat, rem : Nat, ep0_data_len : Nat, class : BOOLEAN,
   eps : SUBSET Endpoint, pcd_maxpacket : Nat, maxpacket : Nat]

DriverStates == [u : Handles, trb : [Ends -> Nat], stalled : BOOLEAN]

KindIn(s, e) == TrbKind(s.trb[e])

\* What the two directions and the core know stays as it is.
SameEnd(s, t, e) ==
  t.trb[e] = s.trb[e] /\ t.u.queued[e] = s.u.queued[e] /\ t.u.xfer_len[e] = s.u.xfer_len[e]
SameDevice(s, t) ==
  /\ t.u.maxpacket = s.u.maxpacket /\ t.u.pcd_maxpacket = s.u.pcd_maxpacket
  /\ t.u.dev_state = s.u.dev_state /\ t.u.dev_old_state = s.u.dev_old_state
  /\ t.u.eps = s.u.eps /\ t.u.address = s.u.address
SameData(s, t) == t.u.ep0_state = s.u.ep0_state /\ t.u.total = s.u.total /\ t.u.rem = s.u.rem

LEMMA Bools == TRUE \in BOOLEAN /\ FALSE \in BOOLEAN
  OBVIOUS

LEMMA TrbNat == \A kind \in {"setup", "data", "status2", "status3"} : TrbControl(kind, 0) \in Nat
<1> SUFFICES ASSUME NEW kind \in {"setup", "data", "status2", "status3"} PROVE TrbControl(kind, 0) \in Nat
  OBVIOUS
<1>1. PICK flag \in 2 .. 5 : flag = TRBCTL[kind]
  BY DEF TRBCTL
<1>2. Put(flag, TRB_CTRL_TRBCTL) = flag * 16
  BY Powers DEF Put, TRB_CTRL_TRBCTL, Field
<1> QED
  BY <1>1, <1>2 DEF TrbControl, dwc3_get_trb_ctltype, ISP_IMI, IOC, LST, HWO

\* What a transfer changes.
StartsTrb(s, t, e, kind, len) ==
  /\ t \in DriverStates
  /\ KindIn(t, e) = kind /\ t.u.queued[e] /\ t.u.xfer_len[e] = len
  /\ t.stalled = s.stalled
  /\ t.u = [s.u EXCEPT !.xfer_len = t.u.xfer_len, !.queued = t.u.queued]
  /\ \A d \in Ends : d # e => SameEnd(s, t, d)

(* A transfer is started where none is under way.                           *)
LEMMA Started ==
  ASSUME NEW s \in DriverStates, NEW e \in Ends, NEW kind \in {"setup", "data", "status2", "status3"}, NEW len \in Nat,
         KindIn(s, e) = "none"
  PROVE  StartsTrb(s, dwc3_ep_start_xfer(s, e, kind, len), e, kind, len)
<1>0. PICK t : t = dwc3_ep_start_xfer(s, e, kind, len)
  OBVIOUS
<1>1. t = [s EXCEPT !.u.xfer_len[e] = len, !.u.queued[e] = TRUE, !.trb[e] = TrbControl(kind, 0)]
  BY <1>0 DEF dwc3_ep_start_xfer, KindIn
<1>2. TrbControl(kind, 0) \in Nat /\ TrbKind(TrbControl(kind, 0)) = kind
  BY TrbNat, TrbKinds
<1>3. /\ s.u \in Handles /\ s.trb \in [Ends -> Nat] /\ s.stalled \in BOOLEAN
      /\ t = [u |-> [s.u EXCEPT !.xfer_len = [s.u.xfer_len EXCEPT ![e] = len], !.queued = [s.u.queued EXCEPT ![e] = TRUE]],
              trb |-> [s.trb EXCEPT ![e] = TrbControl(kind, 0)], stalled |-> s.stalled]
  BY <1>1 DEF DriverStates, Handles
<1>4. PICK u : u = s.u
  OBVIOUS
<1>5. PICK x : x = [u.xfer_len EXCEPT ![e] = len]
  OBVIOUS
<1>6. PICK q : q = [u.queued EXCEPT ![e] = TRUE]
  OBVIOUS
<1>7. u.xfer_len \in [Ends -> Nat] /\ u.queued \in [Ends -> BOOLEAN]
  BY <1>3, <1>4 DEF Handles
<1>8. x \in [Ends -> Nat] /\ x[e] = len /\ \A d \in Ends : d # e => x[d] = u.xfer_len[d]
  BY <1>5, <1>7
<1>9. q \in [Ends -> BOOLEAN] /\ q[e] = TRUE /\ \A d \in Ends : d # e => q[d] = u.queued[d]
  BY <1>6, <1>7, Bools
<1>10. PICK v : v = [u EXCEPT !.xfer_len = x, !.queued = q]
  OBVIOUS
<1>11. v \in Handles /\ v.xfer_len = x /\ v.queued = q
  BY <1>3, <1>4, <1>8, <1>9, <1>10 DEF Handles
<1>12. PICK b : b = [s.trb EXCEPT ![e] = TrbControl(kind, 0)]
  OBVIOUS
<1>13. b \in [Ends -> Nat] /\ b[e] = TrbControl(kind, 0) /\ \A d \in Ends : d # e => b[d] = s.trb[d]
  BY <1>2, <1>3, <1>12
<1>14. t = [u |-> v, trb |-> b, stalled |-> s.stalled]
  BY <1>3, <1>4, <1>5, <1>6, <1>10, <1>12
<1>15. t.u = v /\ t.trb = b /\ t.stalled = s.stalled /\ t \in DriverStates
  BY <1>3, <1>11, <1>13, <1>14 DEF DriverStates
<1>16. \A d \in Ends : d # e => SameEnd(s, t, d)
  BY <1>4, <1>8, <1>9, <1>11, <1>13, <1>15 DEF SameEnd
<1>17. KindIn(t, e) = kind
  BY <1>2, <1>13, <1>15 DEF KindIn
<1>18. t.u.queued[e]
  BY <1>9, <1>11, <1>15
<1>19. StartsTrb(s, t, e, kind, len)
  BY <1>4, <1>8, <1>10, <1>11, <1>15, <1>16, <1>17, <1>18 DEF StartsTrb
<1> QED
  BY <1>0, <1>19

\* What changes when endpoint 0 is made ready for a SETUP.
Readies(s, t) ==
  /\ t \in DriverStates
  /\ t.u.EP0_State = "SETUP_QUEUED" /\ KindIn(t, "OUT") = "setup" /\ t.u.queued["OUT"]
  /\ SameEnd(s, t, "IN") /\ SameDevice(s, t) /\ SameData(s, t)
  /\ t.u.is_stall = s.u.is_stall /\ t.stalled = s.stalled

LEMMA OutStarted ==
  ASSUME NEW s \in DriverStates, KindIn(s, "OUT") = "none"
  PROVE  Readies(s, usb_dwc3_ep0_out_start(s))
<1>0. PICK t : t = usb_dwc3_ep0_out_start(s)
  OBVIOUS
<1>1. PICK r : r = [s EXCEPT !.u.EP0_State = "SETUP_QUEUED"]
  OBVIOUS
<1>2. r = [s EXCEPT !.u = [s.u EXCEPT !.EP0_State = "SETUP_QUEUED"]] /\ s.u \in Handles
  BY <1>1 DEF DriverStates
<1>3. PICK v : v = [s.u EXCEPT !.EP0_State = "SETUP_QUEUED"]
  OBVIOUS
<1>4. v \in Handles /\ v.EP0_State = "SETUP_QUEUED"
  BY <1>2, <1>3 DEF Handles
<1>5. r \in DriverStates /\ r.u = v /\ r.trb = s.trb /\ r.stalled = s.stalled
  BY <1>2, <1>3, <1>4 DEF DriverStates
<1>6. SameEnd(s, r, "IN") /\ SameDevice(s, r) /\ SameData(s, r) /\ r.u.is_stall = s.u.is_stall
  BY <1>2, <1>3, <1>5 DEF SameEnd, SameDevice, SameData, Handles
<1>7. KindIn(r, "OUT") = "none" /\ t = dwc3_ep_start_xfer(r, "OUT", "setup", 8)
  BY <1>0, <1>1, <1>5 DEF KindIn, usb_dwc3_ep0_out_start
<1>8. StartsTrb(r, t, "OUT", "setup", 8)
  BY <1>5, <1>7, Started DEF Ends
<1>9. t.u = [r.u EXCEPT !.xfer_len = t.u.xfer_len, !.queued = t.u.queued]
  BY <1>8 DEF StartsTrb
<1>10. SameDevice(r, t) /\ SameData(r, t) /\ t.u.EP0_State = "SETUP_QUEUED" /\ t.u.is_stall = r.u.is_stall
  BY <1>4, <1>5, <1>9 DEF Handles, SameDevice, SameData
<1>11. /\ t \in DriverStates /\ KindIn(t, "OUT") = "setup" /\ t.u.queued["OUT"] /\ t.stalled = s.stalled
       /\ SameEnd(r, t, "IN")
  BY <1>5, <1>8 DEF Ends, StartsTrb
<1>12. SameEnd(s, t, "IN") /\ SameDevice(s, t) /\ SameData(s, t)
  BY <1>6, <1>10, <1>11 DEF SameEnd, SameDevice, SameData
<1>13. Readies(s, t)
  BY <1>6, <1>10, <1>11, <1>12 DEF Readies
<1> QED
  BY <1>0, <1>13

\* What a data or a status stage changes.
StageKind(len) == IF len > 0 THEN "data" ELSE IF setup.len = 0 THEN "status2" ELSE "status3"
StartsStage(s, t, e, len) ==
  /\ t \in DriverStates
  /\ KindIn(t, e) = StageKind(len) /\ t.u.queued[e] /\ t.u.xfer_len[e] = len
  /\ \A d \in Ends : d # e => SameEnd(s, t, d)
  /\ SameDevice(s, t) /\ SameData(s, t)
  /\ t.u.EP0_State = s.u.EP0_State /\ t.u.is_stall = s.u.is_stall /\ t.stalled = s.stalled

LEMMA StageStarted ==
  ASSUME NEW s \in DriverStates, NEW e \in Ends, NEW len \in Nat, KindIn(s, e) = "none"
  PROVE  StartsStage(s, usb_dwc3_ep_start_xfer(s, e, len), e, len)
<1>0. PICK t : t = usb_dwc3_ep_start_xfer(s, e, len)
  OBVIOUS
<1>1. PICK kind \in {"data", "status2", "status3"} : kind = StageKind(len)
  BY DEF StageKind
<1>2. t = dwc3_ep_start_xfer(s, e, kind, len)
  BY <1>0, <1>1 DEF StageKind, usb_dwc3_ep_start_xfer
<1>3. StartsTrb(s, t, e, kind, len)
  BY <1>2, Started
<1>4. t.u = [s.u EXCEPT !.xfer_len = t.u.xfer_len, !.queued = t.u.queued] /\ s.u \in Handles
  BY <1>3 DEF StartsTrb, DriverStates
<1>5. SameDevice(s, t) /\ SameData(s, t) /\ t.u.EP0_State = s.u.EP0_State /\ t.u.is_stall = s.u.is_stall
  BY <1>4 DEF Handles, SameDevice, SameData
<1>6. StartsStage(s, t, e, len)
  BY <1>1, <1>3, <1>5 DEF StartsTrb, StartsStage
<1> QED
  BY <1>0, <1>6

\* What an answer of len bytes changes.
Transmits(s, t, len) ==
  /\ t \in DriverStates
  /\ KindIn(t, "IN") = StageKind(len) /\ t.u.queued["IN"] /\ t.u.xfer_len["IN"] = len
  /\ SameEnd(s, t, "OUT") /\ SameDevice(s, t)
  /\ t.u.ep0_state = (IF len = 0 THEN "STATUS_IN" ELSE "DATA_IN") /\ t.u.total = len /\ t.u.rem = len
  /\ t.u.EP0_State = s.u.EP0_State /\ t.u.is_stall = s.u.is_stall /\ t.stalled = s.stalled

LEMMA Transmitted ==
  ASSUME NEW s \in DriverStates, NEW len \in Nat, KindIn(s, "IN") = "none"
  PROVE  Transmits(s, usb_core_transmit_ep0(s, len), len)
<1>0. PICK t : t = usb_core_transmit_ep0(s, len)
  OBVIOUS
<1>1. s.u \in Handles
  BY DEF DriverStates
<1>2. PICK ep0 \in {"STATUS_IN", "DATA_IN"} : ep0 = IF len = 0 THEN "STATUS_IN" ELSE "DATA_IN"
  OBVIOUS
<1>3. PICK v : v = [s.u EXCEPT !.ep0_state = ep0, !.total = len, !.rem = len]
  OBVIOUS
<1>4. v \in Handles /\ v.ep0_state = ep0 /\ v.total = len /\ v.rem = len
  BY <1>1, <1>2, <1>3 DEF Handles, Ep0States
<1>5. PICK r : r = [s EXCEPT !.u = v]
  OBVIOUS
<1>6. r \in DriverStates /\ r.u = v /\ r.trb = s.trb /\ r.stalled = s.stalled
  BY <1>4, <1>5 DEF DriverStates
<1>7. r = [s EXCEPT !.u.ep0_state = ep0, !.u.total = len, !.u.rem = len]
  BY <1>1, <1>3, <1>5 DEF DriverStates, Handles
<1>8. t = usb_dwc3_ep_start_xfer(r, "IN", len)
  BY <1>0, <1>2, <1>7 DEF usb_core_transmit_ep0, usb_core_transmit
<1>9. SameEnd(s, r, "OUT")
  BY <1>1, <1>3, <1>6 DEF SameEnd, Handles
<1>10. SameDevice(s, r) /\ r.u.EP0_State = s.u.EP0_State /\ r.u.is_stall = s.u.is_stall
  BY <1>1, <1>3, <1>6 DEF SameDevice, Handles
<1>11. KindIn(r, "IN") = "none"
  BY <1>6 DEF KindIn
<1>12. StartsStage(r, t, "IN", len)
  BY <1>6, <1>8, <1>11, StageStarted DEF Ends
<1>13. SameEnd(r, t, "OUT") /\ SameDevice(r, t) /\ SameData(r, t) /\ KindIn(t, "IN") = StageKind(len)
  BY <1>12 DEF StartsStage, Ends
<1>14. SameEnd(s, t, "OUT") /\ SameDevice(s, t)
  BY <1>9, <1>10, <1>13 DEF SameEnd, SameDevice
<1>15. t.u.ep0_state = ep0 /\ t.u.total = len /\ t.u.rem = len
  BY <1>4, <1>6, <1>13 DEF SameData
<1>16. Transmits(s, t, len)
  BY <1>2, <1>6, <1>10, <1>12, <1>13, <1>14, <1>15 DEF Transmits, StartsStage
<1> QED
  BY <1>0, <1>16

\* The mark that an end is stalled.
Marks(s, t, e) ==
  /\ t \in DriverStates
  /\ t.u.EP0_State = s.u.EP0_State /\ t.trb = s.trb
  /\ SameEnd(s, t, "OUT") /\ SameEnd(s, t, "IN") /\ SameDevice(s, t) /\ SameData(s, t)
  /\ t.u.is_stall[e] /\ (e = "IN" => t.u.is_stall["OUT"] = s.u.is_stall["OUT"])

LEMMA Marked ==
  ASSUME NEW s \in DriverStates, NEW e \in Ends, NEW on \in BOOLEAN
  PROVE  /\ Marks(s, [s EXCEPT !.u.is_stall[e] = TRUE, !.stalled = on], e)
         /\ [s EXCEPT !.u.is_stall[e] = TRUE, !.stalled = on].stalled = on
<1>0. PICK t : t = [s EXCEPT !.u.is_stall[e] = TRUE, !.stalled = on]
  OBVIOUS
<1>1. s.u \in Handles /\ t = [s EXCEPT !.u = [s.u EXCEPT !.is_stall = [s.u.is_stall EXCEPT ![e] = TRUE]], !.stalled = on]
  BY <1>0 DEF DriverStates, Handles
<1>2. PICK m : m = [s.u.is_stall EXCEPT ![e] = TRUE]
  OBVIOUS
<1>3. s.u.is_stall \in [Ends -> BOOLEAN]
  BY <1>1 DEF Handles
<1>4. m \in [Ends -> BOOLEAN] /\ m[e] = TRUE /\ (e = "IN" => m["OUT"] = s.u.is_stall["OUT"])
  BY <1>2, <1>3, Bools DEF Ends
<1>5. PICK v : v = [s.u EXCEPT !.is_stall = m]
  OBVIOUS
<1>6. v \in Handles /\ v.is_stall = m
  BY <1>1, <1>4, <1>5 DEF Handles
<1>7. t \in DriverStates /\ t.u = v /\ t.trb = s.trb /\ t.stalled = on
  BY <1>1, <1>2, <1>5, <1>6 DEF DriverStates
<1>8. t.u.EP0_State = s.u.EP0_State /\ SameEnd(s, t, "OUT") /\ SameEnd(s, t, "IN") /\ SameDevice(s, t) /\ SameData(s, t)
  BY <1>1, <1>5, <1>7 DEF SameEnd, SameDevice, SameData, Handles
<1>9. t.u.is_stall[e] /\ (e = "IN" => t.u.is_stall["OUT"] = s.u.is_stall["OUT"])
  BY <1>4, <1>6, <1>7
<1>10. Marks(s, t, e)
  BY <1>7, <1>8, <1>9 DEF Marks
<1> QED
  BY <1>0, <1>7, <1>10

\* A refusal makes endpoint 0 ready, and the controller answers with STALL.
Refuses(s, t) ==
  /\ t \in DriverStates
  /\ t.u.EP0_State = "SETUP_QUEUED" /\ KindIn(t, "OUT") = "setup" /\ t.u.queued["OUT"]
  /\ SameEnd(s, t, "IN") /\ SameDevice(s, t) /\ SameData(s, t)
  /\ t.u.is_stall["OUT"] /\ t.stalled

LEMMA Stalled ==
  ASSUME NEW s \in DriverStates, KindIn(s, "OUT") = "none"
  PROVE  Refuses(s, usb_dwc3_ep0_out_start([s EXCEPT !.u.is_stall["OUT"] = TRUE, !.stalled = TRUE]))
<1>1. PICK r : r = [s EXCEPT !.u.is_stall["OUT"] = TRUE, !.stalled = TRUE]
  OBVIOUS
<1>2. Marks(s, r, "OUT") /\ r.stalled
  BY <1>1, Marked, Bools DEF Ends
<1>3. PICK t : t = usb_dwc3_ep0_out_start(r)
  OBVIOUS
<1>4. r \in DriverStates /\ KindIn(r, "OUT") = "none" /\ r.u.is_stall["OUT"]
  BY <1>2 DEF Marks, KindIn
<1>5. Readies(r, t)
  BY <1>3, <1>4, OutStarted
<1>6. SameEnd(s, t, "IN") /\ SameDevice(s, t) /\ SameData(s, t)
  BY <1>2, <1>5 DEF Marks, Readies, SameEnd, SameDevice, SameData
<1>7. t.u.is_stall["OUT"] /\ t.stalled
  BY <1>2, <1>4, <1>5 DEF Readies
<1>8. Refuses(s, t)
  BY <1>5, <1>6, <1>7 DEF Refuses, Readies
<1> QED
  BY <1>1, <1>3, <1>8

LEMMA EpaddrStalled ==
  ASSUME NEW s \in DriverStates, KindIn(s, "OUT") = "none", ~s.u.is_stall["OUT"]
  PROVE  Refuses(s, dwc3_epaddr_set_stall(s))
<1>1. dwc3_epaddr_set_stall(s) = usb_dwc3_ep0_out_start([s EXCEPT !.u.is_stall["OUT"] = TRUE, !.stalled = TRUE])
  BY DEF dwc3_epaddr_set_stall, dwc3_ep_set_stall, DriverStates
<1> QED
  BY <1>1, Stalled

LEMMA StallMarked ==
  ASSUME NEW s \in DriverStates
  PROVE  /\ Marks(s, usb_dwc3_ep_set_stall(s, "IN"), "IN")
         /\ usb_dwc3_ep_set_stall(s, "IN").stalled = s.stalled
<1>0. PICK t : t = usb_dwc3_ep_set_stall(s, "IN")
  OBVIOUS
<1>1. s.u \in Handles /\ s.stalled \in BOOLEAN
  BY DEF DriverStates
<1>2. CASE s.u.is_stall["IN"]
  <2>1. t = s
    BY <1>0, <1>2 DEF usb_dwc3_ep_set_stall
  <2>2. Marks(s, t, "IN")
    BY <1>2, <2>1 DEF Marks, SameEnd, SameDevice, SameData
  <2> QED
    BY <1>0, <2>1, <2>2
<1>3. CASE ~s.u.is_stall["IN"]
  <2>1. t = [s EXCEPT !.u.is_stall["IN"] = TRUE]
    BY <1>0, <1>3 DEF usb_dwc3_ep_set_stall
  <2>2. t = [s EXCEPT !.u.is_stall["IN"] = TRUE, !.stalled = s.stalled]
    BY <2>1 DEF DriverStates
  <2>3. PICK on \in BOOLEAN : on = s.stalled
    BY <1>1
  <2>4. Marks(s, t, "IN") /\ t.stalled = on
    BY <2>2, <2>3, Marked DEF Ends
  <2> QED
    BY <1>0, <2>3, <2>4
<1> QED
  BY <1>2, <1>3

LEMMA CtlError ==
  ASSUME NEW s \in DriverStates, KindIn(s, "OUT") = "none", ~s.u.is_stall["OUT"]
  PROVE  Refuses(s, usb_core_ctl_error(s))
<1>1. PICK r : r = usb_core_set_stall(s, "IN")
  OBVIOUS
<1>2. Marks(s, r, "IN")
  BY <1>1, StallMarked DEF usb_core_set_stall
<1>3. r \in DriverStates /\ KindIn(r, "OUT") = "none" /\ ~r.u.is_stall["OUT"]
  BY <1>2 DEF Marks, KindIn
<1>4. PICK t : t = usb_core_set_stall(r, "OUT")
  OBVIOUS
<1>5. t = usb_dwc3_ep0_out_start([r EXCEPT !.u.is_stall["OUT"] = TRUE, !.stalled = TRUE])
  BY <1>3, <1>4 DEF usb_core_set_stall, usb_dwc3_ep_set_stall, dwc3_ep_set_stall, DriverStates
<1>6. Refuses(r, t)
  BY <1>3, <1>5, Stalled
<1>7. Refuses(s, t)
  BY <1>2, <1>6 DEF Refuses, Marks, SameEnd, SameDevice, SameData
<1> QED
  BY <1>1, <1>4, <1>7 DEF usb_core_ctl_error

-----------------------------------------------------------------------------
(* The device core: what becomes of a request.                              *)

SamePackets(s, t) == t.u.maxpacket = s.u.maxpacket /\ t.u.pcd_maxpacket = s.u.pcd_maxpacket

\* What the device is changes, not what endpoint 0 does.
Alters(s, t) ==
  /\ t \in DriverStates /\ t.trb = s.trb /\ t.stalled = s.stalled
  /\ t.u.EP0_State = s.u.EP0_State /\ t.u.is_stall = s.u.is_stall
  /\ t.u.queued = s.u.queued /\ t.u.xfer_len = s.u.xfer_len /\ SamePackets(s, t)

\* A request is to be decided: no transfer is under way.
Deciding(s) ==
  /\ s \in DriverStates /\ s.u.EP0_State = "SETUP_COMPLETED" /\ ~s.stalled /\ ~s.u.is_stall["OUT"]
  /\ KindIn(s, "OUT") = "none" /\ KindIn(s, "IN") = "none" /\ ~s.u.queued["IN"]

\* It was: refused, or answered, or neither.
Refused(s) ==
  /\ s.u.EP0_State = "SETUP_QUEUED" /\ KindIn(s, "OUT") = "setup" /\ KindIn(s, "IN") = "none"
  /\ s.u.queued["OUT"] /\ ~s.u.queued["IN"] /\ s.u.is_stall["OUT"] /\ s.stalled

Sending(s) ==
  /\ s.u.EP0_State = "SETUP_COMPLETED" /\ ~s.stalled /\ ~s.u.is_stall["OUT"]
  /\ KindIn(s, "OUT") = "none" /\ s.u.queued["IN"]
  /\ KindIn(s, "IN") = StageKind(s.u.xfer_len["IN"])

\* While data is sent its length is known, a single packet.
DataKnown(s) ==
  s.u.ep0_state = "DATA_IN" => s.u.xfer_len["IN"] > 0 /\ s.u.rem < 64 /\ s.u.total < 64

Decides(s, t) ==
  /\ t \in DriverStates /\ SamePackets(s, t) /\ DataKnown(t)
  /\ Refused(t) \/ Sending(t) \/ Deciding(t)

LEMMA SetupFields ==
  ASSUME setup \in Requests
  PROVE  /\ setup.name \in Codes /\ setup.arg \in Nat /\ setup.index \in Nat
         /\ setup.to \in Recipients /\ setup.dir \in Ends /\ setup.len \in Nat
<1>1. setup \in usb_setup_req
  BY UsbControlAssumption
<1>2. PICK word : word = 0 .. 2 ^ 16 - 1
  OBVIOUS
<1>3. \A n \in word : n \in Nat
  BY <1>2
<1>4. setup \in [name : Codes, arg : word, index : word, to : Recipients, dir : Ends, len : word]
  BY <1>1, <1>2 DEF usb_setup_req
<1> QED
  BY <1>3, <1>4

LEMMA AltersDeciding ==
  ASSUME NEW s, NEW t, Deciding(s), Alters(s, t)
  PROVE  Deciding(t)
  BY DEF Deciding, Alters, KindIn

(* What a step of the decision leaves alone is still left alone after it.   *)
LEMMA DecidesAltered ==
  ASSUME NEW s, NEW r, NEW t, Alters(s, r), Decides(r, t)
  PROVE  Decides(s, t)
  BY DEF Alters, Decides, SamePackets

(* A request that is refused; DataKnown was true of it before.              *)
LEMMA RefusalDecides ==
  ASSUME NEW s, Deciding(s), DataKnown(s)
  PROVE  Decides(s, usb_core_ctl_error(s))
<1>1. PICK t : t = usb_core_ctl_error(s)
  OBVIOUS
<1>2. Refuses(s, t)
  BY <1>1, CtlError DEF Deciding
<1>3. Refused(t)
  BY <1>2 DEF Refuses, Refused, Deciding, SameEnd, KindIn
<1>4. SamePackets(s, t) /\ DataKnown(t)
  BY <1>2 DEF Refuses, SameDevice, SamePackets, SameData, SameEnd, DataKnown
<1>5. Decides(s, t)
  BY <1>2, <1>3, <1>4 DEF Decides, Refuses
<1> QED
  BY <1>1, <1>5

(* A request that is answered, with one packet at most.                     *)
LEMMA AnswerDecides ==
  ASSUME NEW s, Deciding(s), NEW len \in 0 .. 63
  PROVE  Decides(s, usb_core_transmit_ep0(s, len))
<1>1. PICK t : t = usb_core_transmit_ep0(s, len)
  OBVIOUS
<1>2. Transmits(s, t, len)
  BY <1>1, Transmitted DEF Deciding
<1>3. SamePackets(s, t)
  BY <1>2 DEF Transmits, SameDevice, SamePackets
<1>4. DataKnown(t)
  BY <1>2 DEF Transmits, DataKnown
<1>5. KindIn(t, "OUT") = "none"
  BY <1>2 DEF Transmits, Deciding, SameEnd, KindIn
<1>6. Sending(t)
  BY <1>2, <1>5 DEF Transmits, Deciding, Sending
<1>7. Decides(s, t)
  BY <1>2, <1>3, <1>4, <1>6 DEF Decides, Transmits
<1> QED
  BY <1>1, <1>7

(* A request of which nothing comes.                                        *)
LEMMA NothingDecides ==
  ASSUME NEW s, Deciding(s), DataKnown(s)
  PROVE  Decides(s, s)
  BY DEF Decides, SamePackets, Deciding

LEMMA EndpointConfigured ==
  ASSUME NEW epnum \in Nat, NEW is_in \in BOOLEAN, NEW type \in Nat, NEW mps \in Nat, NEW action,
         NEW eps \in SUBSET Endpoint
  PROVE  With(eps, dwc3_ep_configure(epnum, is_in, type, mps, action)) \in SUBSET Endpoint
<1>1. PICK c : c = dwc3_ep_configure(epnum, is_in, type, mps, action)
  OBVIOUS
<1>2. 2 ^ 11 = 2048
  OBVIOUS
<1>3. c.type = type % 4 /\ c.max_packet = mps % 2048 /\ c.ep_number = (2 * epnum + (IF is_in THEN 1 ELSE 0)) % 32
  BY <1>1, <1>2, Powers DEF dwc3_ep_configure, Cut, DEPCFG
<1>4. c.type \in Nat /\ c.max_packet \in Nat /\ c.ep_number \in Nat
  BY <1>3
<1>5. PHYEPNUM_TO_EPADDR(c.ep_number) \in Nat
  BY <1>4 DEF PHYEPNUM_TO_EPADDR, EP_DIR_IN
<1>6. Configured(c) \in Endpoint
  BY <1>4, <1>5 DEF Configured, Endpoint
<1>7. With(eps, c) \in SUBSET Endpoint
  BY <1>6 DEF With
<1> QED
  BY <1>1, <1>7

(* The descriptors are short enough for one packet of endpoint 0.           *)
LEMMA StringLength ==
  ASSUME NEW chars \in Nat
  PROVE  msc_string_desc(chars) \in Seq(Nat) /\ Len(msc_string_desc(chars)) \in 0 .. 62
<1>1. PICK n \in 2 .. 62 : n = IF chars < 30 THEN 2 + 2 * chars ELSE 62
  OBVIOUS
<1>2. PICK head : head = <<n, 3>>
  OBVIOUS
<1>3. PICK rest : rest = [i \in 1 .. n - 2 |-> 0]
  OBVIOUS
<1>4. head \in Seq(Nat) /\ Len(head) = 2
  BY <1>1, <1>2
<1>5. rest \in Seq(Nat) /\ Len(rest) = n - 2
  BY <1>1, <1>3
<1>6. msc_string_desc(chars) = head \o rest
  BY <1>1, <1>2, <1>3 DEF msc_string_desc, USB_DESC_TYPE
<1>7. head \o rest \in Seq(Nat) /\ Len(head \o rest) = Len(head) + Len(rest)
  BY <1>4, <1>5, ConcatProperties
<1> QED
  BY <1>1, <1>4, <1>5, <1>6, <1>7

LEMMA ConfigLength == Len(msc_config_desc) = 32
<1>1. PICK a : a = <<9, 2, 32, 0, 1, 1, 0, 192, 50>>
  OBVIOUS
<1>2. PICK b : b = <<9, 4, 0, 0, 2, 8, 6, 80, 0>>
  OBVIOUS
<1>3. PICK c : c = <<7, 5, 129, 2, 0, 2, 0>>
  OBVIOUS
<1>4. PICK d : d = <<7, 5, 1, 2, 0, 2, 0>>
  OBVIOUS
<1>5. /\ a \in Seq(Nat) /\ Len(a) = 9 /\ b \in Seq(Nat) /\ Len(b) = 9
      /\ c \in Seq(Nat) /\ Len(c) = 7 /\ d \in Seq(Nat) /\ Len(d) = 7
  BY <1>1, <1>2, <1>3, <1>4
<1>6. msc_config_desc = a \o b \o c \o d
  BY <1>1, <1>2, <1>3, <1>4
     DEF msc_config_desc, USB_DESC_TYPE, USBD_EP_TYPE, LOBYTE, HIBYTE, MSC_MPS_HS, MSC_EP_IN, MSC_EP_OUT
<1>7. PICK ab : ab = a \o b
  OBVIOUS
<1>8. ab \in Seq(Nat) /\ Len(ab) = Len(a) + Len(b)
  BY <1>5, <1>7, ConcatProperties
<1>9. PICK abc : abc = ab \o c
  OBVIOUS
<1>10. abc \in Seq(Nat) /\ Len(abc) = Len(ab) + Len(c)
  BY <1>5, <1>8, <1>9, ConcatProperties
<1>11. Len(abc \o d) = Len(abc) + Len(d)
  BY <1>5, <1>10, ConcatProperties
<1>12. msc_config_desc = abc \o d
  BY <1>6, <1>7, <1>9
<1> QED
  BY <1>5, <1>8, <1>10, <1>11, <1>12

LEMMA DescriptorLength ==
  ASSUME NEW value
  PROVE  Len(Descriptor(value)) \in 0 .. 62
<1>1. Len(msc_device_desc) = 18 /\ Len(msc_lang_id_desc) = 4 /\ Len(msc_qualifier_desc) = 10 /\ Len(<<>>) = 0
  BY DEF msc_device_desc, msc_lang_id_desc, msc_qualifier_desc
<1>2. /\ Len(msc_desc.mfc) \in 0 .. 62 /\ Len(msc_desc.product) \in 0 .. 62 /\ Len(msc_desc.serial) \in 0 .. 62
      /\ Len(msc_desc.configuration) \in 0 .. 62 /\ Len(msc_desc.interface) \in 0 .. 62 /\ Len(msc_desc.usr) \in 0 .. 62
  BY StringLength DEF msc_desc
<1>3. /\ Len(msc_desc.lang_id) \in 0 .. 62 /\ Len(msc_desc.device) \in 0 .. 62 /\ Len(msc_desc.config) \in 0 .. 62
      /\ Len(msc_desc.device_qualifier) \in 0 .. 62 /\ Len(msc_desc.other_speed_config) \in 0 .. 62
  BY <1>1, ConfigLength DEF msc_desc
<1>4. Len(StringDescriptor(LOBYTE(value))) \in 0 .. 62
  BY <1>2, <1>3 DEF StringDescriptor
<1> QED
  BY <1>1, <1>3, <1>4 DEF Descriptor

LEMMA Altered ==
  ASSUME NEW s \in DriverStates, NEW v \in Handles,
         v.EP0_State = s.u.EP0_State, v.is_stall = s.u.is_stall, v.queued = s.u.queued, v.xfer_len = s.u.xfer_len,
         v.maxpacket = s.u.maxpacket, v.pcd_maxpacket = s.u.pcd_maxpacket
  PROVE  Alters(s, [s EXCEPT !.u = v])
<1>1. PICK t : t = [s EXCEPT !.u = v]
  OBVIOUS
<1>2. t \in DriverStates /\ t.u = v /\ t.trb = s.trb /\ t.stalled = s.stalled
  BY <1>1 DEF DriverStates
<1>3. Alters(s, t)
  BY <1>2 DEF Alters, SamePackets
<1> QED
  BY <1>1, <1>3

LEMMA SetAddressDecides ==
  ASSUME NEW s, Deciding(s), DataKnown(s), setup \in Requests
  PROVE  Decides(s, usb_core_set_address(s))
<1>1. CASE setup.index # 0 \/ setup.len # 0 \/ s.u.dev_state # "DEFAULT"
  <2>1. usb_core_set_address(s) = usb_core_ctl_error(s)
    BY <1>1 DEF usb_core_set_address
  <2> QED
    BY <2>1, RefusalDecides
<1>2. CASE ~(setup.index # 0 \/ setup.len # 0 \/ s.u.dev_state # "DEFAULT")
  <2>1. s \in DriverStates /\ s.u \in Handles
    BY DEF Deciding, DriverStates
  <2>2. PICK dev_addr \in Nat : dev_addr = setup.arg % 128
    BY SetupFields
  <2>3. PICK v : v = [s.u EXCEPT !.address = dev_addr]
    OBVIOUS
  <2>4. v \in Handles
    BY <2>1, <2>3 DEF Handles
  <2>5. PICK r : r = [s EXCEPT !.u = v]
    OBVIOUS
  <2>6. Alters(s, r)
    <3>1. /\ v.EP0_State = s.u.EP0_State /\ v.is_stall = s.u.is_stall /\ v.queued = s.u.queued /\ v.xfer_len = s.u.xfer_len
          /\ v.maxpacket = s.u.maxpacket /\ v.pcd_maxpacket = s.u.pcd_maxpacket
      BY <2>1, <2>3 DEF Handles
    <3> QED
      BY <2>1, <2>4, <2>5, <3>1, Altered
  <2>7. r = usb_dwc3_set_address(s, dev_addr)
    BY <2>1, <2>3, <2>5 DEF usb_dwc3_set_address, DriverStates
  <2>8. PICK q : q = usb_core_transmit_ep0(r, 0)
    OBVIOUS
  <2>9. Decides(r, q)
    BY <2>6, <2>8, AltersDeciding, AnswerDecides
  <2>10. PICK state \in DevStates : state = IF dev_addr = 0 THEN "DEFAULT" ELSE "ADDRESSED"
    BY DEF DevStates
  <2>11. PICK t : t = [q EXCEPT !.u.dev_state = state]
    OBVIOUS
  <2>12. usb_core_set_address(s) = t
    BY <1>2, <2>2, <2>7, <2>8, <2>10, <2>11 DEF usb_core_set_address
  <2>13. q \in DriverStates /\ q.u \in Handles
    BY <2>9 DEF Decides, DriverStates
  <2>14. PICK w : w = [q.u EXCEPT !.dev_state = state]
    OBVIOUS
  <2>15. w \in Handles
    BY <2>13, <2>14 DEF Handles
  <2>16. /\ w.EP0_State = q.u.EP0_State /\ w.is_stall = q.u.is_stall /\ w.queued = q.u.queued /\ w.xfer_len = q.u.xfer_len
         /\ w.maxpacket = q.u.maxpacket /\ w.pcd_maxpacket = q.u.pcd_maxpacket
         /\ w.ep0_state = q.u.ep0_state /\ w.rem = q.u.rem /\ w.total = q.u.total
    BY <2>13, <2>14 DEF Handles
  <2>17. t = [q EXCEPT !.u = w]
    BY <2>11, <2>13, <2>14 DEF DriverStates
  <2>18. Alters(q, t)
    BY <2>13, <2>15, <2>16, <2>17, Altered
  <2>19. t.u = w /\ t.trb = q.trb /\ t.stalled = q.stalled /\ t \in DriverStates
    BY <2>13, <2>15, <2>17 DEF DriverStates
  <2>20. Decides(r, t)
    BY <2>9, <2>16, <2>19
       DEF Decides, SamePackets, DataKnown, Refused, Sending, Deciding, KindIn
  <2> QED
    BY <2>6, <2>12, <2>20, DecidesAltered
<1> QED
  BY <1>1, <1>2

LEMMA EndpointOpened ==
  ASSUME NEW eps \in SUBSET Endpoint, NEW addr \in Nat
  PROVE  usb_dwc3_ep_open(eps, addr, USBD_EP_TYPE.BULK, MSC_MPS_HS) \in SUBSET Endpoint
<1>1. addr % 16 \in Nat /\ (addr >= EP_DIR_IN) \in BOOLEAN /\ USBD_EP_TYPE.BULK \in Nat /\ MSC_MPS_HS \in Nat
  BY DEF USBD_EP_TYPE, MSC_MPS_HS, EP_DIR_IN
<1> QED
  BY <1>1, EndpointConfigured DEF usb_dwc3_ep_open

LEMMA ConfiguredAlters ==
  ASSUME NEW s \in DriverStates, NEW cfgidx \in Nat
  PROVE  /\ Alters(s, msc_init([s EXCEPT !.u.dev_config = cfgidx, !.u.dev_state = "CONFIGURED"]))
         /\ Alters(s, msc_de_init([s EXCEPT !.u.dev_config = 0, !.u.dev_state = "ADDRESSED"]))
<1>1. s.u \in Handles
  BY DEF DriverStates
<1>2. PICK v : v = [s.u EXCEPT !.dev_config = cfgidx, !.dev_state = "CONFIGURED"]
  OBVIOUS
<1>3. v \in Handles /\ v.eps = s.u.eps /\ v.eps \in SUBSET Endpoint
  BY <1>1, <1>2 DEF Handles, DevStates
<1>4. PICK r : r = [s EXCEPT !.u.dev_config = cfgidx, !.u.dev_state = "CONFIGURED"]
  OBVIOUS
<1>5. r.u = v /\ r = [s EXCEPT !.u = v]
  BY <1>1, <1>2, <1>4 DEF DriverStates
<1>6. PICK out \in SUBSET Endpoint : out = usb_dwc3_ep_open(v.eps, MSC_EP_OUT, USBD_EP_TYPE.BULK, MSC_MPS_HS)
  BY <1>3, EndpointOpened DEF MSC_EP_OUT
<1>7. PICK in \in SUBSET Endpoint : in = usb_dwc3_ep_open(out, MSC_EP_IN, USBD_EP_TYPE.BULK, MSC_MPS_HS)
  BY EndpointOpened DEF MSC_EP_IN
<1>8. PICK w : w = [v EXCEPT !.class = TRUE, !.eps = in]
  OBVIOUS
<1>9. w \in Handles
  BY <1>3, <1>7, <1>8, Bools DEF Handles
<1>10. msc_init(r) = [r EXCEPT !.u.class = TRUE, !.u.eps = in]
  BY <1>5, <1>6, <1>7 DEF msc_init
<1>11. msc_init(r) = [s EXCEPT !.u = w]
  BY <1>5, <1>8, <1>10 DEF DriverStates
<1>12. /\ w.EP0_State = s.u.EP0_State /\ w.is_stall = s.u.is_stall /\ w.queued = s.u.queued /\ w.xfer_len = s.u.xfer_len
       /\ w.maxpacket = s.u.maxpacket /\ w.pcd_maxpacket = s.u.pcd_maxpacket
  BY <1>1, <1>2, <1>3, <1>8 DEF Handles
<1>13. Alters(s, msc_init(r))
  BY <1>9, <1>11, <1>12, Altered
<1>14. PICK x : x = [s.u EXCEPT !.dev_config = 0, !.dev_state = "ADDRESSED", !.class = FALSE]
  OBVIOUS
<1>15. x \in Handles
  BY <1>1, <1>14, Bools DEF Handles, DevStates
<1>16. msc_de_init([s EXCEPT !.u.dev_config = 0, !.u.dev_state = "ADDRESSED"]) = [s EXCEPT !.u = x]
  BY <1>1, <1>14 DEF msc_de_init, DriverStates
<1>17. /\ x.EP0_State = s.u.EP0_State /\ x.is_stall = s.u.is_stall /\ x.queued = s.u.queued /\ x.xfer_len = s.u.xfer_len
       /\ x.maxpacket = s.u.maxpacket /\ x.pcd_maxpacket = s.u.pcd_maxpacket
  BY <1>1, <1>14 DEF Handles
<1>18. Alters(s, [s EXCEPT !.u = x])
  BY <1>15, <1>17, Altered
<1> QED
  BY <1>4, <1>13, <1>16, <1>18

LEMMA SetConfigDecides ==
  ASSUME NEW s, Deciding(s), DataKnown(s), setup \in Requests
  PROVE  Decides(s, usb_core_set_config(s))
<1> DEFINE cfgidx == LOBYTE(setup.arg)
           configured == msc_init([s EXCEPT !.u.dev_config = cfgidx, !.u.dev_state = "CONFIGURED"])
           cleared == msc_de_init([s EXCEPT !.u.dev_config = 0, !.u.dev_state = "ADDRESSED"])
<1>1. \/ usb_core_set_config(s) = usb_core_ctl_error(s)
      \/ usb_core_set_config(s) = usb_core_transmit_ep0(configured, 0)
      \/ usb_core_set_config(s) = usb_core_transmit_ep0(cleared, 0)
      \/ usb_core_set_config(s) = usb_core_transmit_ep0(s, 0)
  BY DEF usb_core_set_config
<1>2. cfgidx \in Nat /\ s \in DriverStates
  BY SetupFields DEF LOBYTE, Deciding
<1>3. Alters(s, configured) /\ Alters(s, cleared)
  BY <1>2, ConfiguredAlters
<1> HIDE DEF configured, cleared
<1>4. Deciding(configured) /\ Deciding(cleared)
  BY <1>3, AltersDeciding
<1>5. Decides(configured, usb_core_transmit_ep0(configured, 0)) /\ Decides(cleared, usb_core_transmit_ep0(cleared, 0))
  BY <1>4, AnswerDecides
<1>6. Decides(s, usb_core_transmit_ep0(configured, 0)) /\ Decides(s, usb_core_transmit_ep0(cleared, 0))
  BY <1>3, <1>5, DecidesAltered
<1>7. Decides(s, usb_core_transmit_ep0(s, 0)) /\ Decides(s, usb_core_ctl_error(s))
  BY AnswerDecides, RefusalDecides
<1> QED
  BY <1>1, <1>6, <1>7

LEMMA GetDescDecides ==
  ASSUME NEW s, Deciding(s), DataKnown(s), setup \in Requests
  PROVE  Decides(s, usb_core_get_desc(s))
<1>1. PICK len \in 0 .. 63 : len = Smaller(Len(Descriptor(setup.arg)), setup.len)
  <2>1. PICK n \in 0 .. 62 : n = Len(Descriptor(setup.arg))
    BY DescriptorLength
  <2>2. PICK m \in Nat : m = setup.len
    BY SetupFields
  <2>3. Smaller(n, m) \in 0 .. 63
    BY DEF Smaller
  <2> QED
    BY <2>1, <2>2, <2>3
<1>2. \/ usb_core_get_desc(s) = usb_core_ctl_error(s)
      \/ usb_core_get_desc(s) = usb_core_transmit_ep0(s, len)
      \/ usb_core_get_desc(s) = s
  BY <1>1 DEF usb_core_get_desc
<1> QED
  BY <1>2, AnswerDecides, RefusalDecides, NothingDecides

LEMMA DeviceRequestDecides ==
  ASSUME NEW s, Deciding(s), DataKnown(s), setup \in Requests
  PROVE  Decides(s, usb_core_dev_req(s))
<1>1. Decides(s, usb_core_get_status(s))
  BY AnswerDecides, RefusalDecides DEF usb_core_get_status
<1> QED
  BY <1>1, GetDescDecides, SetConfigDecides, SetAddressDecides, RefusalDecides DEF usb_core_dev_req

LEMMA InterfaceRequestDecides ==
  ASSUME NEW s, Deciding(s), DataKnown(s), setup \in Requests, OneAnswer, setup.to = "interface"
  PROVE  Decides(s, usb_core_itf_req(s))
<1>1. CASE s.u.dev_state # "CONFIGURED" \/ LOBYTE(setup.index) > USBD_MAX_NUM_INTERFACES
  <2>1. usb_core_itf_req(s) = usb_core_ctl_error(s)
    BY <1>1 DEF usb_core_itf_req
  <2> QED
    BY <2>1, RefusalDecides
<1>2. CASE ~(s.u.dev_state # "CONFIGURED" \/ LOBYTE(setup.index) > USBD_MAX_NUM_INTERFACES) /\ setup.len = 0
  <2>1. setup.name = "BOT_RESET"
    BY <1>2 DEF OneAnswer
  <2>2. usb_core_itf_req(s) = usb_core_transmit_ep0(s, 0)
    BY <1>2, <2>1 DEF usb_core_itf_req, msc_setup
  <2> QED
    BY <2>2, AnswerDecides
<1>3. CASE ~(s.u.dev_state # "CONFIGURED" \/ LOBYTE(setup.index) > USBD_MAX_NUM_INTERFACES) /\ setup.len # 0
  <2>1. \/ usb_core_itf_req(s) = usb_core_transmit_ep0(s, 1)
        \/ usb_core_itf_req(s) = s
        \/ usb_core_itf_req(s) = usb_core_ctl_error(s)
    BY <1>3 DEF usb_core_itf_req, msc_setup
  <2> QED
    BY <2>1, AnswerDecides, RefusalDecides, NothingDecides
<1> QED
  BY <1>1, <1>2, <1>3

(* A request for an endpoint is refused; the IN end is only marked.         *)
LEMMA EndpointRequestDecides ==
  ASSUME NEW s, Deciding(s), DataKnown(s), setup \in Requests
  PROVE  Decides(s, usb_core_set_stall(s, setup.dir))
<1>1. CASE setup.dir = "OUT"
  <2>1. PICK t : t = usb_core_set_stall(s, "OUT")
    OBVIOUS
  <2>2. t = usb_dwc3_ep0_out_start([s EXCEPT !.u.is_stall["OUT"] = TRUE, !.stalled = TRUE])
    BY <2>1 DEF usb_core_set_stall, usb_dwc3_ep_set_stall, dwc3_ep_set_stall, DriverStates, Deciding
  <2>3. Refuses(s, t)
    BY <2>2, Stalled DEF Deciding
  <2>4. Refused(t) /\ SamePackets(s, t) /\ DataKnown(t) /\ t \in DriverStates
    BY <2>3 DEF Refuses, Refused, Deciding, SameEnd, KindIn, SameDevice, SamePackets, SameData, DataKnown
  <2> QED
    BY <1>1, <2>1, <2>4 DEF Decides
<1>2. CASE setup.dir = "IN"
  <2>1. PICK t : t = usb_core_set_stall(s, "IN")
    OBVIOUS
  <2>2. Marks(s, t, "IN") /\ t.stalled = s.stalled
    BY <2>1, StallMarked DEF usb_core_set_stall, Deciding
  <2>3. Deciding(t) /\ SamePackets(s, t) /\ DataKnown(t)
    BY <2>2 DEF Marks, Deciding, SameEnd, KindIn, SameDevice, SamePackets, SameData, DataKnown
  <2> QED
    BY <1>2, <2>1, <2>3 DEF Decides, Deciding
<1> QED
  BY <1>1, <1>2, SetupFields DEF Ends

LEMMA SetupStageDecides ==
  ASSUME NEW s, Deciding(s), setup \in Requests, OneAnswer
  PROVE  Decides(s, usb_core_setup_stage(s))
<1>1. PICK t : t = [s EXCEPT !.u.ep0_state = "SETUP", !.u.ep0_data_len = setup.len]
  OBVIOUS
<1>2. s \in DriverStates /\ s.u \in Handles
  BY DEF Deciding, DriverStates
<1>3. PICK v : v = [s.u EXCEPT !.ep0_state = "SETUP", !.ep0_data_len = setup.len]
  OBVIOUS
<1>4. v \in Handles /\ v.ep0_state = "SETUP"
  BY <1>2, <1>3, SetupFields DEF Handles, Ep0States
<1>5. /\ v.EP0_State = s.u.EP0_State /\ v.is_stall = s.u.is_stall /\ v.queued = s.u.queued /\ v.xfer_len = s.u.xfer_len
      /\ v.maxpacket = s.u.maxpacket /\ v.pcd_maxpacket = s.u.pcd_maxpacket
  BY <1>2, <1>3 DEF Handles
<1>6. t = [s EXCEPT !.u = v] /\ t.u = v
  BY <1>1, <1>2, <1>3 DEF DriverStates
<1>7. Alters(s, t)
  BY <1>2, <1>4, <1>5, <1>6, Altered
<1>8. Deciding(t) /\ DataKnown(t)
  BY <1>4, <1>6, <1>7, AltersDeciding DEF DataKnown
<1>9. \/ setup.to = "device" /\ usb_core_setup_stage(s) = usb_core_dev_req(t)
      \/ setup.to = "interface" /\ usb_core_setup_stage(s) = usb_core_itf_req(t)
      \/ setup.to = "endpoint" /\ usb_core_setup_stage(s) = usb_core_set_stall(t, setup.dir)
  BY <1>1, SetupFields DEF usb_core_setup_stage, Recipients
<1>10. Decides(t, usb_core_setup_stage(s))
  BY <1>8, <1>9, DeviceRequestDecides, InterfaceRequestDecides, EndpointRequestDecides
<1> QED
  BY <1>7, <1>10, DecidesAltered

-----------------------------------------------------------------------------
(* One event: what becomes of endpoint 0.                                   *)

\* Ready for the next SETUP.
Armed(s) ==
  /\ s.u.EP0_State = "SETUP_QUEUED" /\ KindIn(s, "OUT") = "setup" /\ KindIn(s, "IN") = "none"
  /\ s.u.queued["OUT"] /\ ~s.u.queued["IN"]

\* A SETUP has been stored, and the event that says so waits.
Taken(s) ==
  /\ s.u.EP0_State = "SETUP_QUEUED" /\ KindIn(s, "OUT") = "none" /\ KindIn(s, "IN") = "none"
  /\ ~s.u.queued["IN"] /\ ~s.stalled

\* The driver works on a request, with one transfer at most.
Free(s) == KindIn(s, "OUT") = "none" /\ KindIn(s, "IN") = "none"
Working(s) ==
  /\ s.u.EP0_State = "SETUP_COMPLETED" /\ ~s.stalled /\ ~s.u.is_stall["OUT"]
  /\ KindIn(s, "OUT") = "none" \/ KindIn(s, "IN") = "none"
  /\ KindIn(s, "OUT") \in {"none", "status3"} /\ KindIn(s, "IN") \in {"none", "data", "status2", "status3"}
  /\ KindIn(s, "OUT") # "none" => s.u.queued["OUT"] /\ s.u.xfer_len["OUT"] = 0
  /\ KindIn(s, "IN") # "none" =>
       s.u.queued["IN"] /\ KindIn(s, "IN") = StageKind(s.u.xfer_len["IN"])

\* Endpoint 0 is not touched.
SameWork(s, t) ==
  /\ t \in DriverStates /\ t.trb = s.trb /\ t.stalled = s.stalled
  /\ t.u.EP0_State = s.u.EP0_State /\ t.u.is_stall = s.u.is_stall
  /\ t.u.queued = s.u.queued /\ t.u.xfer_len = s.u.xfer_len
  /\ SameData(s, t) /\ t.u.maxpacket = s.u.maxpacket

LEMMA SameWorkKeeps ==
  ASSUME NEW s, NEW t, SameWork(s, t)
  PROVE  /\ Armed(s) => Armed(t)
         /\ Taken(s) => Taken(t)
         /\ Working(s) => Working(t)
         /\ Free(t) <=> Free(s)
         /\ DataKnown(s) => DataKnown(t)
         /\ KindIn(t, "IN") = KindIn(s, "IN") /\ KindIn(t, "OUT") = KindIn(s, "OUT")
<1>1. KindIn(t, "IN") = KindIn(s, "IN") /\ KindIn(t, "OUT") = KindIn(s, "OUT")
  BY DEF SameWork, KindIn
<1>2. Armed(s) => Armed(t)
  BY <1>1 DEF SameWork, Armed
<1>3. Taken(s) => Taken(t)
  BY <1>1 DEF SameWork, Taken
<1>4. Working(s) => Working(t)
  BY <1>1 DEF SameWork, Working
<1>5. (Free(t) <=> Free(s)) /\ (DataKnown(s) => DataKnown(t))
  BY <1>1 DEF SameWork, Free, SameData, DataKnown
<1> QED
  BY <1>1, <1>2, <1>3, <1>4, <1>5

LEMMA Altering ==
  ASSUME NEW s \in DriverStates, NEW v \in Handles,
         v.EP0_State = s.u.EP0_State, v.is_stall = s.u.is_stall, v.queued = s.u.queued, v.xfer_len = s.u.xfer_len,
         v.maxpacket = s.u.maxpacket, v.ep0_state = s.u.ep0_state, v.total = s.u.total, v.rem = s.u.rem
  PROVE  SameWork(s, [s EXCEPT !.u = v])
<1>1. PICK t : t = [s EXCEPT !.u = v]
  OBVIOUS
<1>2. t \in DriverStates /\ t.u = v /\ t.trb = s.trb /\ t.stalled = s.stalled
  BY <1>1 DEF DriverStates
<1>3. SameWork(s, t)
  BY <1>2 DEF SameWork, SameData
<1> QED
  BY <1>1, <1>3

LEMMA SameWorkRefl ==
  ASSUME NEW s \in DriverStates
  PROVE  SameWork(s, s)
  BY DEF SameWork, SameData

(* A device event that is no reset.                                         *)
LEMMA DeviceEventHandled ==
  ASSUME Now \in DriverStates, NEW type, type # DEVICE_EVENT.RESET, NEW s \in dwc3_handle_dev_event(type)
  PROVE  SameWork(Now, s)
<1>1. usb \in Handles /\ Now.u = usb
  BY DEF Now, DriverStates
<1>2. CASE s = usb_core_disconnect
  <2>1. PICK v : v = [usb EXCEPT !.dev_state = "DEFAULT", !.class = FALSE]
    OBVIOUS
  <2>2. v \in Handles
    BY <1>1, <2>1, Bools DEF Handles, DevStates
  <2>3. s = [Now EXCEPT !.u = v]
    BY <1>1, <1>2, <2>1 DEF usb_core_disconnect, Now
  <2>4. /\ v.EP0_State = usb.EP0_State /\ v.is_stall = usb.is_stall /\ v.queued = usb.queued /\ v.xfer_len = usb.xfer_len
        /\ v.maxpacket = usb.maxpacket /\ v.ep0_state = usb.ep0_state /\ v.total = usb.total /\ v.rem = usb.rem
    BY <1>1, <2>1 DEF Handles
  <2> QED
    BY <1>1, <2>2, <2>3, <2>4, Altering
<1>3. CASE s = usb_core_suspend
  <2>1. PICK v : v = [usb EXCEPT !.dev_old_state = usb.dev_state, !.dev_state = "SUSPENDED"]
    OBVIOUS
  <2>2. v \in Handles
    BY <1>1, <2>1 DEF Handles, DevStates
  <2>3. s = [Now EXCEPT !.u = v]
    BY <1>1, <1>3, <2>1 DEF usb_core_suspend, Now
  <2>4. /\ v.EP0_State = usb.EP0_State /\ v.is_stall = usb.is_stall /\ v.queued = usb.queued /\ v.xfer_len = usb.xfer_len
        /\ v.maxpacket = usb.maxpacket /\ v.ep0_state = usb.ep0_state /\ v.total = usb.total /\ v.rem = usb.rem
    BY <1>1, <2>1 DEF Handles
  <2> QED
    BY <1>1, <2>2, <2>3, <2>4, Altering
<1>4. CASE s = usb_core_resume
  <2>1. PICK v : v = [usb EXCEPT !.dev_state = usb.dev_old_state]
    OBVIOUS
  <2>2. v \in Handles
    BY <1>1, <2>1 DEF Handles
  <2>3. s = [Now EXCEPT !.u = v]
    BY <1>1, <1>4, <2>1 DEF usb_core_resume, Now
  <2>4. /\ v.EP0_State = usb.EP0_State /\ v.is_stall = usb.is_stall /\ v.queued = usb.queued /\ v.xfer_len = usb.xfer_len
        /\ v.maxpacket = usb.maxpacket /\ v.ep0_state = usb.ep0_state /\ v.total = usb.total /\ v.rem = usb.rem
    BY <1>1, <2>1 DEF Handles
  <2> QED
    BY <1>1, <2>2, <2>3, <2>4, Altering
<1>5. ASSUME NEW dsts \in ConnectSpeeds, s = ConnectDone(dsts) PROVE SameWork(Now, s)
  <2>1. PICK mps \in Nat : mps = ep0_mps(dwc3_get_dev_speed(dsts))
    BY DEF ep0_mps
  <2>2. PICK out : out = With(usb.eps, dwc3_ep_configure(0, FALSE, USBD_EP_TYPE.CTRL, mps, DEPCFG_ACTION.MODIFY))
    OBVIOUS
  <2>3. PICK in : in = With(out, dwc3_ep_configure(0, TRUE, USBD_EP_TYPE.CTRL, mps, DEPCFG_ACTION.MODIFY))
    OBVIOUS
  <2>4. USBD_EP_TYPE.CTRL \in Nat /\ 0 \in Nat /\ usb.eps \in SUBSET Endpoint
    BY <1>1 DEF USBD_EP_TYPE, Handles
  <2>5. out \in SUBSET Endpoint
    BY <2>2, <2>4, EndpointConfigured, Bools
  <2>6. in \in SUBSET Endpoint
    BY <2>3, <2>4, <2>5, EndpointConfigured, Bools
  <2>7. PICK v : v = [usb EXCEPT !.eps = in, !.pcd_maxpacket = mps]
    OBVIOUS
  <2>8. v \in Handles
    BY <1>1, <2>6, <2>7 DEF Handles
  <2>9. s = [Now EXCEPT !.u = v]
    BY <1>1, <1>5, <2>1, <2>2, <2>3, <2>7 DEF ConnectDone, Now
  <2>10. /\ v.EP0_State = usb.EP0_State /\ v.is_stall = usb.is_stall /\ v.queued = usb.queued /\ v.xfer_len = usb.xfer_len
         /\ v.maxpacket = usb.maxpacket /\ v.ep0_state = usb.ep0_state /\ v.total = usb.total /\ v.rem = usb.rem
    BY <1>1, <2>7 DEF Handles
  <2> QED
    BY <1>1, <2>8, <2>9, <2>10, Altering
<1>6. CASE s = Now
  BY <1>6, SameWorkRefl
<1>7. \/ s \in {ConnectDone(dsts) : dsts \in ConnectSpeeds}
      \/ s = usb_core_disconnect \/ s = usb_core_suspend \/ s = usb_core_resume \/ s = Now
  BY DEF dwc3_handle_dev_event
<1> QED
  BY <1>2, <1>3, <1>4, <1>5, <1>6, <1>7

\* What is under way in a direction ends.
Stops(s, t, e) ==
  /\ t \in DriverStates /\ ~t.u.queued[e]
  /\ KindIn(t, e) = IF s.u.queued[e] THEN "none" ELSE KindIn(s, e)
  /\ t.u.EP0_State = IF e = "OUT" /\ s.u.queued[e] THEN "SETUP_COMPLETED" ELSE s.u.EP0_State
  /\ \A d \in Ends : d # e => SameEnd(s, t, d)
  /\ t.u.xfer_len = s.u.xfer_len /\ t.u.is_stall = s.u.is_stall /\ t.stalled = s.stalled
  /\ SameData(s, t) /\ t.u.maxpacket = s.u.maxpacket

LEMMA Stopped ==
  ASSUME NEW s \in DriverStates, NEW e \in Ends
  PROVE  Stops(s, dwc3_ep_stop_xfer(s, e), e)
<1>0. PICK t : t = dwc3_ep_stop_xfer(s, e)
  OBVIOUS
<1>1. s.u \in Handles /\ s.trb \in [Ends -> Nat]
  BY DEF DriverStates
<1>2. CASE ~s.u.queued[e]
  <2>1. t = s
    BY <1>0, <1>2 DEF dwc3_ep_stop_xfer
  <2>2. Stops(s, t, e)
    BY <1>2, <2>1 DEF Stops, SameEnd, SameData
  <2> QED
    BY <1>0, <2>2
<1>3. CASE s.u.queued[e]
  <2>1. PICK q : q = [s.u.queued EXCEPT ![e] = FALSE]
    OBVIOUS
  <2>2. s.u.queued \in [Ends -> BOOLEAN]
    BY <1>1 DEF Handles
  <2>3. q \in [Ends -> BOOLEAN] /\ q[e] = FALSE /\ \A d \in Ends : d # e => q[d] = s.u.queued[d]
    BY <2>1, <2>2, Bools
  <2>4. PICK b : b = [s.trb EXCEPT ![e] = 0]
    OBVIOUS
  <2>5. b \in [Ends -> Nat] /\ b[e] = 0 /\ \A d \in Ends : d # e => b[d] = s.trb[d]
    BY <1>1, <2>4
  <2>6. PICK state \in {"RESET", "SETUP_QUEUED", "SETUP_COMPLETED"} :
          state = IF e = "OUT" THEN "SETUP_COMPLETED" ELSE s.u.EP0_State
    BY <1>1 DEF Handles
  <2>7. PICK v : v = [s.u EXCEPT !.queued = q, !.EP0_State = state]
    OBVIOUS
  <2>8. v \in Handles /\ v.queued = q /\ v.EP0_State = state
    BY <1>1, <2>3, <2>6, <2>7 DEF Handles
  <2>9. t = [s EXCEPT !.u = v, !.trb = b]
    <3>1. CASE e = "OUT"
      BY <1>0, <1>1, <1>3, <2>1, <2>4, <2>6, <2>7, <3>1 DEF dwc3_ep_stop_xfer, DriverStates, Handles
    <3>2. CASE e # "OUT"
      <4>1. v = [s.u EXCEPT !.queued = q]
        BY <1>1, <2>6, <2>7, <3>2 DEF Handles
      <4> QED
        BY <1>0, <1>1, <1>3, <2>1, <2>4, <3>2, <4>1 DEF dwc3_ep_stop_xfer, DriverStates
    <3> QED
      BY <3>1, <3>2
  <2>10. t \in DriverStates /\ t.u = v /\ t.trb = b /\ t.stalled = s.stalled
    BY <2>5, <2>8, <2>9 DEF DriverStates
  <2>11. v.xfer_len = s.u.xfer_len /\ v.is_stall = s.u.is_stall /\ SameData(s, t) /\ v.maxpacket = s.u.maxpacket
    BY <1>1, <2>7, <2>10 DEF Handles, SameData
  <2>12. \A d \in Ends : d # e => SameEnd(s, t, d)
    BY <2>3, <2>5, <2>8, <2>10, <2>11 DEF SameEnd
  <2>13. KindIn(t, e) = "none" /\ ~t.u.queued[e]
    BY <2>3, <2>5, <2>8, <2>10, TrbKinds DEF KindIn
  <2>14. t.u.EP0_State = IF e = "OUT" /\ s.u.queued[e] THEN "SETUP_COMPLETED" ELSE s.u.EP0_State
    BY <1>3, <2>6, <2>8, <2>10
  <2>15. Stops(s, t, e)
    BY <1>3, <2>10, <2>11, <2>12, <2>13, <2>14 DEF Stops
  <2> QED
    BY <1>0, <2>15
<1> QED
  BY <1>2, <1>3

(* The address and the state of the device go back.                         *)
LEMMA Defaulted ==
  ASSUME NEW s \in DriverStates
  PROVE  SameWork(s, [usb_dwc3_set_address(s, 0) EXCEPT !.u.dev_state = "DEFAULT"])
<1>1. s.u \in Handles
  BY DEF DriverStates
<1>2. PICK v : v = [s.u EXCEPT !.address = 0, !.dev_state = "DEFAULT"]
  OBVIOUS
<1>3. v \in Handles
  BY <1>1, <1>2 DEF Handles, DevStates
<1>4. [usb_dwc3_set_address(s, 0) EXCEPT !.u.dev_state = "DEFAULT"] = [s EXCEPT !.u = v]
  BY <1>1, <1>2 DEF usb_dwc3_set_address, DriverStates
<1>5. /\ v.EP0_State = s.u.EP0_State /\ v.is_stall = s.u.is_stall /\ v.queued = s.u.queued /\ v.xfer_len = s.u.xfer_len
      /\ v.maxpacket = s.u.maxpacket /\ v.ep0_state = s.u.ep0_state /\ v.total = s.u.total /\ v.rem = s.u.rem
  BY <1>1, <1>2 DEF Handles
<1> QED
  BY <1>3, <1>4, <1>5, Altering

\* Endpoint 0 is ready again, and what was being sent is known as before.
Restarts(s, t) ==
  t \in DriverStates /\ Armed(t) /\ (DataKnown(s) => DataKnown(t)) /\ t.u.maxpacket = s.u.maxpacket

(* A reset ends what is under way, and makes endpoint 0 ready.              *)
LEMMA ResetHandled ==
  ASSUME Now \in DriverStates
  PROVE  /\ Working(Now) => Restarts(Now, DeviceReset)
         /\ Armed(Now) \/ Taken(Now) => SameWork(Now, DeviceReset)
<1>1. PICK r : r = IF usb.EP0_State # "SETUP_QUEUED" THEN dwc3_epaddr_set_stall(dwc3_ep_stop_xfer(Now, "OUT")) ELSE Now
  OBVIOUS
<1>2. PICK q : q = dwc3_ep_stop_xfer(r, "IN")
  OBVIOUS
<1>3. PICK t : t = DeviceReset
  OBVIOUS
<1>4. t = [usb_dwc3_set_address(q, 0) EXCEPT !.u.dev_state = "DEFAULT"]
  BY <1>1, <1>2, <1>3 DEF DeviceReset
<1>5. Now.u = usb
  BY DEF Now
<1>6. ASSUME Working(Now) PROVE Restarts(Now, t)
  <2>1. PICK p : p = dwc3_ep_stop_xfer(Now, "OUT")
    OBVIOUS
  <2>2. Stops(Now, p, "OUT")
    BY <2>1, Stopped DEF Ends
  <2>3. p \in DriverStates /\ KindIn(p, "OUT") = "none" /\ ~p.u.is_stall["OUT"] /\ SameEnd(Now, p, "IN")
    BY <1>6, <2>2 DEF Stops, Working, Ends
  <2>4. r = dwc3_epaddr_set_stall(p)
    BY <1>1, <1>5, <1>6, <2>1 DEF Working
  <2>5. Refuses(p, r)
    BY <2>3, <2>4, EpaddrStalled
  <2>6. r \in DriverStates
    BY <2>5 DEF Refuses
  <2>7. Stops(r, q, "IN")
    BY <1>2, <2>6, Stopped DEF Ends
  <2>8. SameEnd(Now, r, "IN")
    BY <2>3, <2>5 DEF SameEnd, Refuses
  <2>9. KindIn(q, "IN") = "none"
    BY <1>6, <2>7, <2>8 DEF Stops, Working, SameEnd, KindIn
  <2>10. SameEnd(r, q, "OUT")
    BY <2>7 DEF Stops, Ends
  <2>11. q \in DriverStates /\ Armed(q)
    BY <2>5, <2>7, <2>9, <2>10 DEF Armed, Stops, Refuses, SameEnd, KindIn
  <2>12. q.u.xfer_len["IN"] = usb.xfer_len["IN"] /\ SameData(Now, q) /\ q.u.maxpacket = usb.maxpacket
    BY <1>5, <2>2, <2>3, <2>5, <2>7 DEF Stops, Refuses, SameEnd, SameData, SameDevice
  <2>13. DataKnown(Now) => DataKnown(q)
    BY <1>5, <2>12 DEF SameData, DataKnown
  <2>14. SameWork(q, t)
    BY <1>4, <2>11, Defaulted
  <2> QED
    BY <1>5, <2>11, <2>12, <2>13, <2>14, SameWorkKeeps DEF Restarts, SameWork
<1>7. ASSUME Armed(Now) \/ Taken(Now) PROVE SameWork(Now, t)
  <2>1. r = Now
    BY <1>1, <1>5, <1>7 DEF Armed, Taken
  <2>2. q = Now
    BY <1>2, <1>7, <2>1 DEF Armed, Taken, dwc3_ep_stop_xfer
  <2> QED
    BY <1>4, <2>2, Defaulted
<1> QED
  BY <1>3, <1>6, <1>7

(* The end of what the IN end sent: nothing more to do for data that was    *)
(* wanted, and else endpoint 0 is ready again.                              *)
LEMMA Unqueued ==
  ASSUME NEW s \in DriverStates, NEW e \in Ends
  PROVE  LET t == [s EXCEPT !.u.queued[e] = FALSE]
         IN /\ t \in DriverStates /\ ~t.u.queued[e] /\ t.trb = s.trb /\ t.stalled = s.stalled
            /\ t.u.queued \in [Ends -> BOOLEAN] /\ \A d \in Ends : d # e => t.u.queued[d] = s.u.queued[d]
            /\ t.u.xfer_len = s.u.xfer_len /\ t.u.is_stall = s.u.is_stall /\ t.u.EP0_State = s.u.EP0_State
            /\ SameData(s, t) /\ t.u.maxpacket = s.u.maxpacket
<1>0. PICK t : t = [s EXCEPT !.u.queued[e] = FALSE]
  OBVIOUS
<1>1. s.u \in Handles
  BY DEF DriverStates
<1>2. PICK q : q = [s.u.queued EXCEPT ![e] = FALSE]
  OBVIOUS
<1>3. s.u.queued \in [Ends -> BOOLEAN]
  BY <1>1 DEF Handles
<1>4. q \in [Ends -> BOOLEAN] /\ q[e] = FALSE /\ \A d \in Ends : d # e => q[d] = s.u.queued[d]
  BY <1>2, <1>3, Bools
<1>5. PICK v : v = [s.u EXCEPT !.queued = q]
  OBVIOUS
<1>6. v \in Handles /\ v.queued = q
  BY <1>1, <1>4, <1>5 DEF Handles
<1>7. t = [s EXCEPT !.u = v]
  BY <1>0, <1>1, <1>2, <1>5 DEF DriverStates, Handles
<1>8. t \in DriverStates /\ t.u = v /\ t.trb = s.trb /\ t.stalled = s.stalled
  BY <1>6, <1>7 DEF DriverStates
<1>9. /\ v.xfer_len = s.u.xfer_len /\ v.is_stall = s.u.is_stall /\ v.EP0_State = s.u.EP0_State
      /\ SameData(s, t) /\ v.maxpacket = s.u.maxpacket
  BY <1>1, <1>5, <1>8 DEF Handles, SameData
<1>10. ~t.u.queued[e]
  BY <1>4, <1>6, <1>8
<1> QED
  BY <1>0, <1>4, <1>6, <1>8, <1>9, <1>10

\* Data has been sent.
Sent(s, t) ==
  /\ t \in DriverStates /\ Deciding(t) /\ t.u.xfer_len = s.u.xfer_len
  /\ (DataKnown(s) => DataKnown(t)) /\ t.u.maxpacket = s.u.maxpacket

LEMMA InCompleted ==
  ASSUME Now \in DriverStates, Working(Now), Free(Now), DataKnown(Now), NEW event \in Completes("IN"),
         event.trbsts = 2 => usb.xfer_len["IN"] # 0
  PROVE  /\ event.trbsts = 2 \/ usb.xfer_len["IN"] = 0 => Restarts(Now, InComplete(event))
         /\ event.trbsts # 2 /\ usb.xfer_len["IN"] # 0 => Sent(Now, InComplete(event))
<1>0. PICK t : t = InComplete(event)
  OBVIOUS
<1>1. PICK r : r = [Now EXCEPT !.u.queued["IN"] = FALSE]
  OBVIOUS
<1>2. /\ r \in DriverStates /\ ~r.u.queued["IN"] /\ r.trb = Now.trb /\ r.stalled = Now.stalled
      /\ r.u.xfer_len = Now.u.xfer_len /\ r.u.is_stall = Now.u.is_stall /\ r.u.EP0_State = Now.u.EP0_State
      /\ SameData(Now, r) /\ r.u.maxpacket = Now.u.maxpacket
  BY <1>1, Unqueued DEF Ends
<1>3. Now.u = usb
  BY DEF Now
<1>4. Deciding(r)
  BY <1>2 DEF Deciding, Working, Free, KindIn
<1>5. DataKnown(r)
  BY <1>2 DEF DataKnown, SameData
<1>6. CASE event.trbsts = 2
  <2>1. t = dwc3_epaddr_set_stall(r)
    BY <1>0, <1>1, <1>6 DEF InComplete
  <2>2. Refuses(r, t)
    BY <1>4, <2>1, EpaddrStalled DEF Deciding
  <2>3. Armed(t)
    BY <1>4, <2>2 DEF Refuses, Deciding, Armed, SameEnd, KindIn
  <2>4. DataKnown(t) /\ t.u.maxpacket = usb.maxpacket
    BY <1>2, <1>3, <1>5, <2>2 DEF Refuses, SameEnd, SameData, SameDevice, DataKnown
  <2>5. Restarts(Now, t)
    BY <1>3, <2>2, <2>3, <2>4 DEF Restarts, Refuses
  <2> QED
    BY <1>0, <1>6, <2>5
<1>7. CASE event.trbsts # 2 /\ usb.xfer_len["IN"] = 0
  <2>1. PICK q : q = usb_dwc3_ep0_out_start(r)
    OBVIOUS
  <2>2. Readies(r, q)
    BY <1>4, <2>1, OutStarted DEF Deciding
  <2>3. q.u.xfer_len["IN"] = 0 /\ DataKnown(q)
    BY <1>2, <1>3, <1>5, <1>7, <2>2 DEF Readies, SameEnd, SameData, DataKnown
  <2>4. q.u.ep0_state # "DATA_IN"
    BY <2>3 DEF DataKnown
  <2>5. t = q
    BY <1>0, <1>1, <1>7, <2>1, <2>4 DEF InComplete, usb_core_data_in
  <2>6. Armed(t)
    BY <1>4, <2>2, <2>5 DEF Readies, Deciding, Armed, SameEnd, KindIn
  <2>7. Restarts(Now, t)
    BY <1>2, <1>3, <2>2, <2>3, <2>5, <2>6 DEF Restarts, Readies, SameDevice
  <2> QED
    BY <1>0, <1>7, <2>7
<1>8. CASE event.trbsts # 2 /\ usb.xfer_len["IN"] # 0
  <2>1. t = r
    BY <1>0, <1>1, <1>8 DEF InComplete
  <2>2. Sent(Now, t)
    BY <1>2, <1>4, <1>5, <2>1 DEF Sent
  <2> QED
    BY <1>0, <1>8, <2>2
<1> QED
  BY <1>6, <1>7, <1>8

(* A SETUP is taken: a request with data is decided at once.                *)
LEMMA SetupTaken ==
  ASSUME Now \in DriverStates, Taken(Now), DataKnown(Now), setup \in Requests, OneAnswer, NEW event \in Completes("OUT")
  PROVE  LET t == OutComplete(event)
         IN /\ t \in DriverStates /\ DataKnown(t) /\ t.u.maxpacket = usb.maxpacket
            /\ setup.len > 0 => Refused(t) \/ Sending(t) \/ Deciding(t)
            /\ setup.len = 0 => Deciding(t)
<1>0. PICK t : t = OutComplete(event)
  OBVIOUS
<1>1. PICK r : r = [Now EXCEPT !.u.queued["OUT"] = FALSE]
  OBVIOUS
<1>2. /\ r \in DriverStates /\ r.trb = Now.trb /\ r.stalled = Now.stalled /\ r.u.queued["IN"] = Now.u.queued["IN"]
      /\ r.u.xfer_len = Now.u.xfer_len /\ r.u.is_stall = Now.u.is_stall /\ r.u.EP0_State = Now.u.EP0_State
      /\ SameData(Now, r) /\ r.u.maxpacket = Now.u.maxpacket
  BY <1>1, Unqueued DEF Ends
<1>3. PICK q : q = [r EXCEPT !.u.EP0_State = "SETUP_COMPLETED", !.u.is_stall["OUT"] = FALSE]
  OBVIOUS
<1>4. PICK m : m = [r.u.is_stall EXCEPT !["OUT"] = FALSE]
  OBVIOUS
<1>5. r.u \in Handles
  BY <1>2 DEF DriverStates
<1>6. r.u.is_stall \in [Ends -> BOOLEAN]
  BY <1>5 DEF Handles
<1>7. m \in [Ends -> BOOLEAN] /\ m["OUT"] = FALSE
  BY <1>4, <1>6, Bools DEF Ends
<1>8. PICK v : v = [r.u EXCEPT !.EP0_State = "SETUP_COMPLETED", !.is_stall = m]
  OBVIOUS
<1>9. v \in Handles /\ v.EP0_State = "SETUP_COMPLETED" /\ v.is_stall = m
  BY <1>5, <1>7, <1>8 DEF Handles
<1>10. q = [r EXCEPT !.u = v]
  BY <1>2, <1>3, <1>4, <1>5, <1>8 DEF DriverStates, Handles
<1>11. q \in DriverStates /\ q.u = v /\ q.trb = r.trb /\ q.stalled = r.stalled
  BY <1>2, <1>9, <1>10 DEF DriverStates
<1>12. v.queued = r.u.queued /\ v.xfer_len = r.u.xfer_len /\ SameData(r, q) /\ v.maxpacket = r.u.maxpacket
  BY <1>5, <1>8, <1>11 DEF Handles, SameData
<1>13. Now.u = usb
  BY DEF Now
<1>14. ~q.u.is_stall["OUT"]
  BY <1>7, <1>9, <1>11
<1>15. Deciding(q)
  BY <1>2, <1>9, <1>11, <1>12, <1>14 DEF Taken, Deciding, KindIn
<1>16. DataKnown(q) /\ q.u.maxpacket = usb.maxpacket
  BY <1>2, <1>11, <1>12, <1>13 DEF DataKnown, SameData
<1>17. Is(event, "XFERCOMPLETE") /\ ~Is(event, "XFERNOTREADY") /\ EpOf(event) = "OUT"
  BY EventKinds DEF Ends
<1>18. usb.EP0_State = "SETUP_QUEUED" /\ (Serves(event) <=> setup.len > 0)
  BY <1>13, <1>17 DEF Taken, Serves
<1>19. CASE setup.len > 0
  <2>1. t = usb_core_setup_stage(q)
    BY <1>0, <1>1, <1>3, <1>18, <1>19 DEF OutComplete
  <2>2. Decides(q, t)
    BY <1>15, <2>1, SetupStageDecides
  <2> QED
    BY <1>0, <1>16, <1>19, <2>2 DEF Decides, SamePackets
<1>20. CASE ~(setup.len > 0)
  <2>1. t = q
    BY <1>0, <1>1, <1>3, <1>18, <1>20 DEF OutComplete
  <2> QED
    BY <1>0, <1>11, <1>15, <1>16, <1>20, <2>1
<1> QED
  BY <1>19, <1>20

(* The end of a status stage the host sent.                                 *)
LEMMA OutCompleted ==
  ASSUME Now \in DriverStates, Working(Now), Free(Now), DataKnown(Now), ~usb.queued["IN"], usb.xfer_len["OUT"] = 0,
         NEW event \in Completes("OUT")
  PROVE  Restarts(Now, OutComplete(event))
<1>0. PICK t : t = OutComplete(event)
  OBVIOUS
<1>1. PICK r : r = [Now EXCEPT !.u.queued["OUT"] = FALSE]
  OBVIOUS
<1>2. /\ r \in DriverStates /\ r.trb = Now.trb /\ r.stalled = Now.stalled /\ r.u.queued["IN"] = Now.u.queued["IN"]
      /\ r.u.xfer_len = Now.u.xfer_len /\ r.u.is_stall = Now.u.is_stall /\ r.u.EP0_State = Now.u.EP0_State
      /\ SameData(Now, r) /\ r.u.maxpacket = Now.u.maxpacket
  BY <1>1, Unqueued DEF Ends
<1>3. Now.u = usb
  BY DEF Now
<1>4. Is(event, "XFERCOMPLETE") /\ ~Is(event, "XFERNOTREADY") /\ EpOf(event) = "OUT"
  BY EventKinds DEF Ends
<1>5. usb.EP0_State # "SETUP_QUEUED" /\ ~Serves(event)
  BY <1>3, <1>4 DEF Working, Serves
<1>6. t = usb_dwc3_ep0_out_start(r)
  BY <1>0, <1>1, <1>5 DEF OutComplete
<1>7. KindIn(r, "OUT") = "none" /\ KindIn(r, "IN") = "none"
  BY <1>2 DEF Free, KindIn
<1>8. Readies(r, t)
  BY <1>2, <1>6, <1>7, OutStarted
<1>9. Armed(t)
  BY <1>2, <1>3, <1>7, <1>8 DEF Readies, Armed, SameEnd, KindIn
<1>10. DataKnown(t) /\ t.u.maxpacket = usb.maxpacket
  BY <1>2, <1>3, <1>8 DEF Readies, SameEnd, SameData, SameDevice, DataKnown
<1>11. Restarts(Now, t)
  BY <1>3, <1>8, <1>9, <1>10 DEF Restarts, Readies
<1> QED
  BY <1>0, <1>11

(* A stage for which no transfer is there: nothing comes of it while        *)
(* endpoint 0 is stalled, nor of a data stage in the direction asked for.   *)
LEMMA StallRepeated ==
  ASSUME usb.EP0_State = "SETUP_QUEUED", usb.is_stall["OUT"], NEW event
  PROVE  XferNotReady(event) = Now
<1>1. Now.u = usb
  BY DEF Now
<1> QED
  BY <1>1 DEF XferNotReady, dwc3_epaddr_set_stall

LEMMA DataAsked ==
  ASSUME usb.EP0_State # "SETUP_QUEUED", setup \in Requests, setup.len > 0, NEW event \in AskedData,
         event = NotReady(setup.dir, CTRL_DATA)
  PROVE  XferNotReady(event) = Now
<1>1. setup.dir \in Ends /\ setup.len \in Nat
  BY SetupFields
<1>2. At_data(event) /\ ~At_status(event) /\ Is(event, "XFERNOTREADY") /\ ~Is(event, "XFERCOMPLETE")
  BY EventKinds DEF NotReadys
<1>3. EpOf(event) = setup.dir
  BY <1>1, NotReadyFacts
<1>4. ~Serves(event)
  BY <1>2 DEF Serves
<1>5. dwc3_handle_ep0_xfernotready_event(event) = Now
  BY <1>1, <1>2, <1>3, <1>4 DEF dwc3_handle_ep0_xfernotready_event
<1> QED
  BY <1>5 DEF XferNotReady

(* The driver goes on with a request: what the IN end has to send is with   *)
(* the controller.                                                          *)
GoesOn(t) ==
  t \in DriverStates /\ Working(t) /\ (t.u.queued["IN"] => KindIn(t, "IN") # "none")

LEMMA SendingGoesOn ==
  ASSUME NEW t \in DriverStates, Sending(t) \/ Deciding(t)
  PROVE  GoesOn(t)
<1>1. CASE Sending(t)
  <2>1. StageKind(t.u.xfer_len["IN"]) \in {"data", "status2", "status3"}
    BY DEF StageKind
  <2>2. Working(t)
    BY <1>1, <2>1 DEF Sending, Working
  <2> QED
    BY <1>1, <2>1, <2>2 DEF Sending, GoesOn
<1>2. CASE Deciding(t)
  <2>1. Working(t)
    BY <1>2 DEF Deciding, Working
  <2> QED
    BY <1>2, <2>1 DEF Deciding, GoesOn
<1> QED
  BY <1>1, <1>2

(* The status stage of a request with data.                                 *)
LEMMA ReceiveStarted ==
  ASSUME NEW s, Deciding(s), setup.len # 0
  PROVE  LET t == usb_core_receive_ep0(s)
         IN GoesOn(t) /\ DataKnown(t) /\ t.u.maxpacket = s.u.maxpacket
<1>1. PICK t : t = usb_core_receive_ep0(s)
  OBVIOUS
<1>2. s \in DriverStates /\ s.u \in Handles
  BY DEF Deciding, DriverStates
<1>3. PICK v : v = [s.u EXCEPT !.ep0_state = "STATUS_OUT"]
  OBVIOUS
<1>4. v \in Handles /\ v.ep0_state = "STATUS_OUT"
  BY <1>2, <1>3 DEF Handles, Ep0States
<1>5. PICK r : r = [s EXCEPT !.u = v]
  OBVIOUS
<1>6. r \in DriverStates /\ r.u = v /\ r.trb = s.trb /\ r.stalled = s.stalled
  BY <1>2, <1>4, <1>5 DEF DriverStates
<1>7. r = [s EXCEPT !.u.ep0_state = "STATUS_OUT"]
  BY <1>2, <1>3, <1>5 DEF DriverStates
<1>8. t = usb_dwc3_ep_start_xfer(r, "OUT", 0)
  BY <1>1, <1>7 DEF usb_core_receive_ep0, usb_core_receive
<1>9. /\ v.EP0_State = s.u.EP0_State /\ v.is_stall = s.u.is_stall /\ v.queued = s.u.queued
      /\ v.maxpacket = s.u.maxpacket
  BY <1>2, <1>3 DEF Handles
<1>10. KindIn(r, "OUT") = "none" /\ KindIn(r, "IN") = "none"
  BY <1>6 DEF Deciding, KindIn
<1>11. StartsStage(r, t, "OUT", 0)
  BY <1>6, <1>8, <1>10, StageStarted DEF Ends
<1>12. KindIn(t, "OUT") = "status3" /\ t.u.queued["OUT"] /\ t.u.xfer_len["OUT"] = 0 /\ t \in DriverStates
  BY <1>11 DEF StartsStage, StageKind
<1>13. SameEnd(r, t, "IN")
  BY <1>11 DEF StartsStage, Ends
<1>14. KindIn(t, "IN") = "none" /\ ~t.u.queued["IN"]
  BY <1>6, <1>9, <1>10, <1>13 DEF SameEnd, KindIn, Deciding
<1>15. t.u.EP0_State = "SETUP_COMPLETED" /\ ~t.u.is_stall["OUT"] /\ ~t.stalled
  BY <1>6, <1>9, <1>11 DEF StartsStage, Deciding
<1>16. GoesOn(t)
  BY <1>12, <1>14, <1>15 DEF GoesOn, Working
<1>17. DataKnown(t) /\ t.u.maxpacket = s.u.maxpacket
  BY <1>4, <1>6, <1>9, <1>11 DEF StartsStage, SameData, SameDevice, DataKnown
<1> QED
  BY <1>1, <1>16, <1>17

(* The status stage is asked for: now a request without data is decided,    *)
(* and one with data takes the packet with which the host ends it.          *)
LEMMA StatusAsked ==
  ASSUME Now \in DriverStates, Deciding(Now), DataKnown(Now), usb.maxpacket = 64, setup \in Requests, OneAnswer,
         NEW event \in AskedStatus
  PROVE  LET t == XferNotReady(event)
         IN /\ t \in DriverStates /\ DataKnown(t) /\ t.u.maxpacket = 64
            /\ Refused(t) \/ GoesOn(t)
<1>1. PICK t : t = XferNotReady(event)
  OBVIOUS
<1>2. Now.u = usb
  BY DEF Now
<1>3. setup.dir \in Ends /\ setup.len \in Nat
  BY SetupFields
<1>4. At_status(event) /\ ~At_data(event) /\ Is(event, "XFERNOTREADY") /\ ~Is(event, "XFERCOMPLETE")
  BY EventKinds DEF NotReadys
<1>5. usb.EP0_State # "SETUP_QUEUED" /\ (Serves(event) <=> setup.len = 0)
  BY <1>2, <1>4 DEF Serves, Deciding
<1>6. t = dwc3_handle_ep0_xfernotready_event(event)
  BY <1>1, <1>5 DEF XferNotReady
<1>7. GoesOn(Now)
  BY SendingGoesOn
<1>8. CASE setup.len = 0
  <2>1. t = usb_core_setup_stage(Now)
    BY <1>3, <1>4, <1>5, <1>6, <1>8 DEF dwc3_handle_ep0_xfernotready_event
  <2>2. Decides(Now, t)
    BY <2>1, SetupStageDecides
  <2>3. t \in DriverStates /\ DataKnown(t) /\ t.u.maxpacket = 64 /\ (Refused(t) \/ Sending(t) \/ Deciding(t))
    BY <1>2, <2>2 DEF Decides, SamePackets
  <2>4. Refused(t) \/ GoesOn(t)
    BY <2>3, SendingGoesOn
  <2> QED
    BY <1>1, <2>3, <2>4
<1>9. CASE setup.len # 0 /\ EpOf(event) = "OUT"
  <2>1. t = usb_core_data_in(Now)
    BY <1>3, <1>4, <1>5, <1>6, <1>9 DEF dwc3_handle_ep0_xfernotready_event
  <2>2. CASE usb.ep0_state # "DATA_IN"
    <3>1. t = Now
      BY <1>2, <2>1, <2>2 DEF usb_core_data_in
    <3> QED
      BY <1>1, <1>2, <1>7, <3>1
  <2>3. CASE usb.ep0_state = "DATA_IN"
    <3>1. usb.rem < 64 /\ usb.total < 64
      BY <1>2, <2>3 DEF DataKnown
    <3>2. usb.rem \in Nat /\ usb.total \in Nat
      BY <1>2 DEF DriverStates, Handles
    <3>3. ~(usb.rem > usb.maxpacket) /\ ~(usb.total >= usb.maxpacket)
      BY <3>1, <3>2
    <3>4. t = usb_core_receive_ep0(Now)
      BY <1>2, <2>1, <2>3, <3>3 DEF usb_core_data_in
    <3>5. GoesOn(t) /\ DataKnown(t) /\ t.u.maxpacket = 64
      BY <1>2, <1>9, <3>4, ReceiveStarted
    <3> QED
      BY <1>1, <3>5 DEF GoesOn
  <2> QED
    BY <2>2, <2>3
<1>10. CASE setup.len # 0 /\ EpOf(event) # "OUT"
  <2>1. t = Now
    BY <1>4, <1>5, <1>6, <1>10 DEF dwc3_handle_ep0_xfernotready_event
  <2> QED
    BY <1>1, <1>2, <1>7, <2>1
<1> QED
  BY <1>8, <1>9, <1>10

-----------------------------------------------------------------------------
(* The inductive invariant.                                                 *)

\* An event nothing comes of while endpoint 0 is ready.
Stale(ev) == ev \notin Completions /\ (ev \in NotReadys => usb.is_stall["OUT"])

\* A stage is reported for the request in memory.
OfRequest(ev) ==
  /\ ev \in AskedData => setup.len > 0 /\ ev = NotReady(setup.dir, CTRL_DATA)
  /\ ev \in AskedStatus => (stage = "status" /\ raised) \/ ~ResetSeen

\* The event after which endpoint 0 is ready again.
Final(ev) == ev \in Completes("OUT") \/ (ev \in Completes("IN") /\ (ev.trbsts = 2 \/ usb.xfer_len["IN"] = 0))

Waiting == 1 .. Len(evts)

WhenArmed ==
  /\ Armed(Now)
  /\ stage # "idle" => stalled
  /\ \A i \in Waiting : Stale(evts[i])

\* The event of the SETUP is the k-th.
SetupWaits(k) ==
  /\ evts[k] \in Completes("OUT")
  /\ \A i \in Waiting : i < k => Stale(evts[i])
  /\ \A i \in Waiting : i > k => evts[i] \notin Completions /\ OfRequest(evts[i])
  /\ \A i \in Waiting : i > k /\ evts[i] \in AskedStatus =>
       setup.len = 0 /\ \A j \in Waiting : j > i => evts[j] \notin AskedStatus

WhenTaken ==
  /\ Taken(Now)
  /\ setup \in Requests
  /\ stage = "idle" => ~ResetSeen
  /\ stage = "data" => setup.len > 0
  /\ stage = "status" => setup.len = 0
  /\ \E k \in Waiting : SetupWaits(k)

\* What waits with the controller free: the end of a transfer, or a stage
\* for which there is none; after the last of a request only device events.
Pending(i) ==
  /\ OfRequest(evts[i])
  /\ evts[i] \in Completions => Free(Now)
  /\ evts[i] \in Completes("OUT") => usb.xfer_len["OUT"] = 0
  /\ evts[i] \in Completes("IN") /\ evts[i].trbsts = 2 => usb.xfer_len["IN"] # 0
  /\ Final(evts[i]) => stage = "idle" /\ \A j \in Waiting : j > i => evts[j] \in DeviceEvents
  /\ evts[i] \in AskedStatus =>
       Free(Now) /\ \A j \in Waiting : j > i => evts[j] \notin AskedStatus /\ evts[j] \notin Completions

WhenWorking ==
  /\ Working(Now)
  /\ setup \in Requests
  /\ stage = "data" => setup.len > 0
  /\ stage = "idle" => ~ResetSeen \/ \E i \in Waiting : Final(evts[i])
  /\ stage = "status" /\ ~raised => Free(Now)
  /\ usb.queued["IN"] => KindIn(Now, "IN") # "none" \/ \E i \in Waiting : evts[i] \in Completes("IN")
  /\ \A i \in Waiting : Pending(i)

Typed ==
  /\ up \in {"off", "core", "device", "ready", "running", "panic"}
  /\ Now \in DriverStates /\ evts \in Seq(Events)
  /\ stage \in {"idle", "data", "status"} /\ left \in Int

BringingUp ==
  /\ up # "running" =>
       evts = <<>> /\ stage = "idle" /\ host = NONE /\ ~asleep /\ usb.pcd_maxpacket = 64
  /\ up \in {"off", "core", "panic"} =>
       usb.EP0_State = "RESET" /\ ~stalled /\ \A e \in Ends : trb[e] = 0 /\ ~usb.queued[e]
  /\ up \in {"device", "ready"} => Armed(Now)
  /\ up \in {"ready", "running"} => usb.maxpacket = 64

\* After a reset only the device reports.
ResetsLast == \A i, j \in Waiting : i < j /\ evts[i] = Device("RESET") => evts[j] \in DeviceEvents

OnTheBus ==
  /\ ~ResetSeen => host = NONE /\ stage = "idle"
  /\ waiting \in Requests \cup {NONE}
  /\ waiting # NONE => host # NONE
  /\ ResetsLast

IInv ==
  /\ Typed /\ BringingUp /\ OnTheBus /\ DataKnown(Now)
  /\ up = "running" => WhenArmed \/ WhenTaken \/ WhenWorking

-----------------------------------------------------------------------------
(* The event buffer.                                                        *)

LEMMA Kinds ==
  ASSUME NEW ev
  PROVE  /\ ev \in Completions <=> ev \in Completes("OUT") \/ ev \in Completes("IN")
         /\ ~(ev \in Completes("OUT") /\ ev \in Completes("IN"))
         /\ ev \in NotReadys <=> ev \in AskedData \/ ev \in AskedStatus
         /\ ~(ev \in AskedData /\ ev \in AskedStatus)
         /\ ev \in Events <=> ev \in Completions \/ ev \in NotReadys \/ ev \in DeviceEvents
         /\ ~(ev \in Completions /\ ev \in NotReadys)
         /\ ~(ev \in Completions /\ ev \in DeviceEvents)
         /\ ~(ev \in NotReadys /\ ev \in DeviceEvents)
         /\ ev = Device("RESET") => ev \in DeviceEvents
<1>1. ev \in Completions <=> ev \in Completes("OUT") \/ ev \in Completes("IN")
  BY DEF Completions
<1>2. ~(ev \in Completes("OUT") /\ ev \in Completes("IN"))
  BY EventKinds DEF Ends
<1>3. ev \in NotReadys <=> ev \in AskedData \/ ev \in AskedStatus
  BY DEF NotReadys
<1>4. ev \in Events <=> ev \in Completions \/ ev \in NotReadys \/ ev \in DeviceEvents
  BY DEF Events
<1>5. ev = Device("RESET") => ev \in DeviceEvents
  BY DEF DeviceEvents, DEVICE_EVENT
<1>6. ev \in NotReadys => ~(ev \in AskedData /\ ev \in AskedStatus) /\ ev \notin Completions /\ ev \notin DeviceEvents
  BY EventKinds, Zenon
<1>7. ev \in DeviceEvents => ev \notin Completions /\ ev \notin NotReadys
  BY EventKinds, Zenon
<1> QED
  BY <1>1, <1>2, <1>3, <1>4, <1>5, <1>6, <1>7, Zenon

LEMMA ReportKinds ==
  /\ \A e \in Ends : \A trbsts \in {0, 2} : Complete(e, trbsts) \in Completes(e) /\ Complete(e, trbsts).trbsts = trbsts
  /\ \A e \in Ends : NotReady(e, CTRL_DATA) \in AskedData /\ NotReady(e, CTRL_STATUS) \in AskedStatus
  /\ \A what \in DOMAIN DEVICE_EVENT : Device(what) \in DeviceEvents /\ (Device(what) = Device("RESET") <=> what = "RESET")
<1>1. ASSUME NEW e \in Ends, NEW trbsts \in {0, 2}
      PROVE  Complete(e, trbsts) \in Completes(e) /\ Complete(e, trbsts).trbsts = trbsts
  BY DEF Completes, Complete
<1>2. ASSUME NEW e \in Ends PROVE NotReady(e, CTRL_DATA) \in AskedData /\ NotReady(e, CTRL_STATUS) \in AskedStatus
  BY DEF AskedData, AskedStatus
<1>3. ASSUME NEW what \in DOMAIN DEVICE_EVENT
      PROVE  Device(what) \in DeviceEvents /\ (Device(what) = Device("RESET") <=> what = "RESET")
  <2>1. PICK ev : ev = Device(what)
    OBVIOUS
  <2>2. ev = Device("RESET") <=> what = "RESET"
    BY <2>1, DeviceFacts
  <2> QED
    BY <2>1, <2>2 DEF DeviceEvents
<1> QED
  BY <1>1, <1>2, <1>3

\* r is q with events of the set new behind it.
Grows(q, r, new) ==
  /\ r \in Seq(Events) /\ Len(q) \in Nat /\ Len(r) \in Nat /\ Len(q) <= Len(r)
  /\ \A i \in 1 .. Len(q) : r[i] = q[i]
  /\ \A i \in 1 .. Len(r) : i > Len(q) => r[i] \in new

LEMMA Appended ==
  ASSUME NEW q \in Seq(Events), NEW ev \in Events
  PROVE  Grows(q, Append(q, ev), {ev}) /\ Len(Append(q, ev)) = Len(q) + 1
<1>1. PICK r : r = Append(q, ev)
  OBVIOUS
<1>2. r \in Seq(Events) /\ Len(r) = Len(q) + 1 /\ Len(q) \in Nat
  BY <1>1
<1>3. \A i \in 1 .. Len(q) : r[i] = q[i]
  BY <1>1
<1>4. r[Len(q) + 1] = ev
  BY <1>1
<1>5. \A i \in 1 .. Len(r) : i > Len(q) => i = Len(q) + 1
  BY <1>2
<1>6. Grows(q, r, {ev})
  BY <1>2, <1>3, <1>4, <1>5 DEF Grows
<1> QED
  BY <1>1, <1>2, <1>6

LEMMA GrowsTwice ==
  ASSUME NEW q, NEW r, NEW s, NEW new, Grows(q, r, new), Grows(r, s, new)
  PROVE  Grows(q, s, new)
  BY DEF Grows

LEMMA GrowsMore ==
  ASSUME NEW q, NEW r, NEW new, NEW more, Grows(q, r, new), new \subseteq more
  PROVE  Grows(q, r, more)
  BY DEF Grows

LEMMA GrowsNot ==
  ASSUME NEW q \in Seq(Events), NEW new
  PROVE  Grows(q, q, new)
  BY DEF Grows

\* r is q without its first event.
Shrinks(q, r) ==
  /\ r \in Seq(Events) /\ Len(q) \in Nat /\ Len(r) \in Nat /\ Len(q) = Len(r) + 1
  /\ \A i \in 1 .. Len(r) : r[i] = q[i + 1]

LEMMA HeadTaken ==
  ASSUME NEW q \in Seq(Events), q # <<>>
  PROVE  Shrinks(q, Tail(q)) /\ Head(q) = q[1] /\ q[1] \in Events
<1>1. PICK r : r = Tail(q)
  OBVIOUS
<1>2. r \in Seq(Events) /\ Len(q) \in Nat /\ Len(q) >= 1
  BY <1>1
<1>3. Len(r) = Len(q) - 1
  BY <1>1, <1>2
<1>4. \A i \in 1 .. Len(r) : r[i] = q[i + 1]
  BY <1>1, <1>2, <1>3
<1>5. Shrinks(q, r)
  BY <1>2, <1>3, <1>4 DEF Shrinks
<1> QED
  BY <1>1, <1>2, <1>5

LEMMA SeenAt ==
  ASSUME evts \in Seq(Events)
  PROVE  ResetSeen <=> \A i \in Waiting : evts[i] # Device("RESET")
  BY DEF ResetSeen, Waiting

LEMMA SeenAtNext ==
  ASSUME evts' \in Seq(Events)
  PROVE  ResetSeen' <=> \A i \in Waiting' : evts'[i] # Device("RESET")
  BY DEF ResetSeen, Waiting

-----------------------------------------------------------------------------
(* The bus: requests, resets and what else is reported of the link.         *)

(* Events of the device are added behind what waits, and nothing else       *)
(* happens, or the bus is reset.                                            *)
LEMMA DeviceEventsAdded ==
  ASSUME IInv, up = "running", Grows(evts, evts', DeviceEvents),
         usb' = usb, trb' = trb, stalled' = stalled, setup' = setup,
         \/ stage' = stage /\ raised' = raised /\ (ResetSeen' <=> ResetSeen)
         \/ stage' = "idle" /\ ~ResetSeen'
  PROVE  WhenArmed' \/ WhenTaken' \/ WhenWorking'
<1>1. Now' = Now /\ evts \in Seq(Events)
  BY DEF Now, IInv, Typed
<1>2. /\ Waiting \subseteq Waiting' /\ \A i \in Waiting : i \in Nat /\ evts'[i] = evts[i]
      /\ \A i \in Waiting' : i \in Nat /\ (i \notin Waiting => evts'[i] \in DeviceEvents)
      /\ \A i \in Waiting : \A j \in Waiting' : j \notin Waiting => j > i
  BY <1>1 DEF Grows, Waiting
<1>3. \A ev \in DeviceEvents : ev \notin Completions /\ ev \notin Completes("OUT") /\ ev \notin Completes("IN")
        /\ ev \notin NotReadys /\ ev \notin AskedData /\ ev \notin AskedStatus
  BY Kinds
<1>4. CASE WhenArmed
  <2>1. \A i \in Waiting' : Stale(evts[i])'
    BY <1>2, <1>3, <1>4 DEF WhenArmed, Stale
  <2>2. stage' # "idle" => stalled'
    BY <1>4 DEF WhenArmed
  <2>3. Armed(Now)'
    BY <1>1, <1>4 DEF WhenArmed
  <2> QED
    BY <2>1, <2>2, <2>3 DEF WhenArmed
<1>5. CASE WhenTaken
  <2>1. PICK k \in Waiting : SetupWaits(k)
    BY <1>5 DEF WhenTaken
  <2>2. k \in Waiting' /\ evts'[k] \in Completes("OUT")
    BY <1>2, <2>1 DEF SetupWaits
  <2>3. \A i \in Waiting' : i < k => Stale(evts[i])'
    BY <1>2, <1>3, <2>1 DEF SetupWaits, Stale
  <2>4. \A i \in Waiting' : i > k => evts'[i] \notin Completions /\ OfRequest(evts[i])'
    BY <1>2, <1>3, <2>1 DEF SetupWaits, OfRequest
  <2>5. \A i \in Waiting' : i > k /\ evts'[i] \in AskedStatus =>
          setup'.len = 0 /\ \A j \in Waiting' : j > i => evts'[j] \notin AskedStatus
    BY <1>2, <1>3, <2>1 DEF SetupWaits
  <2>6. SetupWaits(k)'
    BY <2>2, <2>3, <2>4, <2>5 DEF SetupWaits
  <2>7. Taken(Now)'
    BY <1>1, <1>5 DEF WhenTaken
  <2>8. /\ setup' \in Requests /\ (stage' = "idle" => ~ResetSeen')
        /\ (stage' = "data" => setup'.len > 0) /\ (stage' = "status" => setup'.len = 0)
    BY <1>5 DEF WhenTaken
  <2> QED
    BY <2>2, <2>6, <2>7, <2>8 DEF WhenTaken
<1>6. CASE WhenWorking
  <2>1. Working(Now)'
    BY <1>1, <1>6 DEF WhenWorking, Working, StageKind
  <2>2. Free(Now)' <=> Free(Now)
    BY <1>1
  <2>3. ASSUME NEW i \in Waiting' PROVE Pending(i)'
    <3>1. CASE i \in Waiting
      <4>1. Pending(i) /\ evts'[i] = evts[i]
        BY <1>2, <1>6, <3>1 DEF WhenWorking
      <4>2. OfRequest(evts[i])'
        BY <4>1 DEF Pending, OfRequest
      <4>3. Final(evts[i])' <=> Final(evts[i])
        BY <4>1 DEF Final
      <4>4. Final(evts[i])' => stage' = "idle" /\ \A j \in Waiting' : j > i => evts'[j] \in DeviceEvents
        BY <1>2, <4>1, <4>3 DEF Pending
      <4>5. evts'[i] \in AskedStatus =>
              Free(Now)' /\ \A j \in Waiting' : j > i => evts'[j] \notin AskedStatus /\ evts'[j] \notin Completions
        BY <1>2, <1>3, <2>2, <4>1 DEF Pending
      <4> QED
        BY <2>2, <4>1, <4>2, <4>4, <4>5 DEF Pending
    <3>2. CASE i \notin Waiting
      <4>1. evts'[i] \in DeviceEvents
        BY <1>2, <3>2
      <4> QED
        BY <1>3, <4>1 DEF Pending, OfRequest, Final
    <3> QED
      BY <3>1, <3>2
  <2>4. stage' = "idle" => ~ResetSeen' \/ \E i \in Waiting' : Final(evts[i])'
    BY <1>2, <1>6 DEF WhenWorking, Final
  <2>5. usb'.queued["IN"] => KindIn(Now, "IN")' # "none" \/ \E i \in Waiting' : evts'[i] \in Completes("IN")
    BY <1>1, <1>2, <1>6 DEF WhenWorking
  <2>6. /\ setup' \in Requests /\ (stage' = "data" => setup'.len > 0)
        /\ (stage' = "status" /\ ~raised' => Free(Now)')
    BY <1>6, <2>2 DEF WhenWorking
  <2> QED
    BY <2>1, <2>3, <2>4, <2>5, <2>6 DEF WhenWorking
<1> QED
  BY <1>4, <1>5, <1>6 DEF IInv

(* Behind a reset only the device reports, also when more is added.         *)
LEMMA ResetsStayLast ==
  ASSUME ResetsLast, Grows(evts, evts', DeviceEvents)
  PROVE  ResetsLast'
<1> SUFFICES ASSUME NEW i \in Waiting', NEW j \in Waiting', i < j, evts'[i] = Device("RESET")
             PROVE  evts'[j] \in DeviceEvents
  BY DEF ResetsLast
<1>1. CASE j \in Waiting
  <2>1. i \in Waiting
    BY <1>1 DEF Waiting, Grows
  <2> QED
    BY <1>1, <2>1 DEF Grows, Waiting, ResetsLast
<1>2. CASE j \notin Waiting
  BY <1>2 DEF Grows, Waiting
<1> QED
  BY <1>1, <1>2

(* While no reset waits anything may follow.                                *)
LEMMA NoResetAdded ==
  ASSUME evts \in Seq(Events), ResetSeen, NEW ev, ev # Device("RESET"), Grows(evts, evts', {ev})
  PROVE  ResetSeen' /\ ResetsLast'
<1>1. \A i \in Waiting : evts[i] # Device("RESET")
  BY SeenAt
<1>2. evts' \in Seq(Events) /\ \A i \in Waiting' : evts'[i] # Device("RESET")
  BY <1>1 DEF Grows, Waiting
<1>3. ResetSeen'
  BY <1>2, SeenAtNext
<1> QED
  BY <1>2, <1>3 DEF ResetsLast

(* A device event that is no reset leaves open what was.                    *)
LEMMA OtherEventAdded ==
  ASSUME evts \in Seq(Events), NEW ev, ev # Device("RESET"), Grows(evts, evts', {ev})
  PROVE  ResetSeen' <=> ResetSeen
<1>1. evts' \in Seq(Events)
  BY DEF Grows
<1>2. (\A i \in Waiting' : evts'[i] # Device("RESET")) <=> \A i \in Waiting : evts[i] # Device("RESET")
  BY DEF Grows, Waiting
<1> QED
  BY <1>1, <1>2, SeenAt, SeenAtNext

LEMMA HostAsksKeeps ==
  ASSUME IInv, NEW r \in Requests, HostAsks(r) \/ HostAbandons(r)
  PROVE  IInv'
<1>1. Now' = Now /\ Now \in DriverStates /\ evts \in Seq(Events)
  BY DEF Now, HostAsks, HostAbandons, IInv, Typed
<1>2. /\ up' = up /\ usb' = usb /\ trb' = trb /\ stalled' = stalled /\ stage' = stage /\ left' = left /\ raised' = raised
      /\ evts' = evts /\ setup' = setup /\ asleep' = asleep /\ host' = r /\ waiting' = r
  BY DEF HostAsks, HostAbandons, wire
<1>3. up = "running" /\ r # NONE
  BY UsbControlAssumption DEF HostAsks, HostAbandons, IInv, BringingUp
<1>4. ResetSeen' <=> ResetSeen
  BY <1>2 DEF ResetSeen
<1>5. ResetSeen
  BY DEF HostAsks, HostAbandons, IInv, OnTheBus
<1>6. Grows(evts, evts', DeviceEvents)
  BY <1>1, <1>2, GrowsNot
<1>7. WhenArmed' \/ WhenTaken' \/ WhenWorking'
  BY <1>2, <1>3, <1>4, <1>6, DeviceEventsAdded
<1>8. ResetsLast'
  BY <1>6, ResetsStayLast DEF IInv, OnTheBus
<1>9. OnTheBus'
  BY <1>2, <1>3, <1>4, <1>5, <1>8 DEF OnTheBus
<1>10. Typed' /\ BringingUp' /\ DataKnown(Now)'
  BY <1>1, <1>2, <1>3 DEF IInv, Typed, BringingUp
<1> QED
  BY <1>7, <1>9, <1>10 DEF IInv

LEMMA BusResetKeeps ==
  ASSUME IInv, BusReset
  PROVE  IInv'
<1>1. Now' = Now /\ Now \in DriverStates /\ evts \in Seq(Events)
  BY DEF Now, BusReset, IInv, Typed
<1>2. /\ up' = up /\ up = "running" /\ usb' = usb /\ trb' = trb /\ stalled' = stalled /\ setup' = setup
      /\ stage' = "idle" /\ left' = 0 /\ raised' = FALSE /\ host' = NONE /\ waiting' = NONE
  BY DEF BusReset, Signals
<1>3. Device("RESET") \in DeviceEvents /\ Device("DISCONNECT") \in DeviceEvents
  BY ReportKinds DEF DEVICE_EVENT
<1>4. Device("RESET") \in Events /\ Device("DISCONNECT") \in Events
  BY <1>3 DEF Events
<1>5. Grows(evts, evts', DeviceEvents) /\ evts'[Len(evts')] = Device("RESET") /\ Len(evts') > 0
  <2>1. ASSUME NEW q \in Seq(Events), evts' = Append(q, Device("RESET")), Grows(evts, q, DeviceEvents)
        PROVE  Grows(evts, evts', DeviceEvents) /\ evts'[Len(evts')] = Device("RESET") /\ Len(evts') > 0
    <3>1. Grows(q, evts', {Device("RESET")}) /\ Len(evts') = Len(q) + 1
      BY <1>4, <2>1, Appended
    <3>2. Grows(evts, evts', DeviceEvents)
      BY <1>3, <2>1, <3>1, GrowsMore, GrowsTwice
    <3> QED
      BY <3>1, <3>2 DEF Grows
  <2>2. CASE evts' = evts \o <<Device("RESET")>>
    <3>1. evts' = Append(evts, Device("RESET"))
      BY <1>1, <1>4, <2>2
    <3> QED
      BY <1>1, <2>1, <3>1, GrowsNot
  <2>3. CASE evts' = evts \o <<Device("DISCONNECT"), Device("RESET")>>
    <3>1. PICK q : q = Append(evts, Device("DISCONNECT"))
      OBVIOUS
    <3>2. q \in Seq(Events) /\ evts' = Append(q, Device("RESET"))
      BY <1>1, <1>4, <2>3, <3>1
    <3>3. Grows(evts, q, {Device("DISCONNECT")})
      BY <1>1, <1>4, <3>1, Appended
    <3>4. Grows(evts, q, DeviceEvents)
      BY <1>3, <3>3, GrowsMore
    <3> QED
      BY <2>1, <3>2, <3>4
  <2> QED
    BY <2>2, <2>3 DEF BusReset
<1>6. ~ResetSeen'
  BY <1>5, SeenAtNext DEF Grows, Waiting
<1>7. WhenArmed' \/ WhenTaken' \/ WhenWorking'
  BY <1>2, <1>5, <1>6, DeviceEventsAdded
<1>8. ResetsLast'
  BY <1>5, ResetsStayLast DEF IInv, OnTheBus
<1>9. OnTheBus'
  BY <1>2, <1>8 DEF OnTheBus
<1>10. Typed' /\ BringingUp' /\ DataKnown(Now)'
  BY <1>1, <1>2, <1>5 DEF IInv, Typed, BringingUp, Grows
<1> QED
  BY <1>7, <1>9, <1>10 DEF IInv

LEMMA LinkEventKeeps ==
  ASSUME IInv, LinkEvent \/ BusResume
  PROVE  IInv'
<1>1. Now' = Now /\ Now \in DriverStates /\ evts \in Seq(Events)
  BY DEF Now, LinkEvent, BusResume, IInv, Typed
<1>2. /\ up' = up /\ usb' = usb /\ trb' = trb /\ stalled' = stalled /\ setup' = setup
      /\ stage' = stage /\ left' = left /\ raised' = raised /\ host' = host /\ waiting' = waiting
  BY DEF LinkEvent, BusResume, wire
<1>3. up = "running"
  BY DEF LinkEvent, BusResume, Signals, IInv, BringingUp
<1>4. PICK what \in DOMAIN DEVICE_EVENT : what # "RESET" /\ evts' = Append(evts, Device(what))
  <2>1. {"EOPF", "WAKEUP"} \subseteq DOMAIN DEVICE_EVENT \ {"RESET"}
    BY DEF DEVICE_EVENT
  <2>2. CASE LinkEvent
    BY <2>1, <2>2, UsbControlAssumption DEF LinkEvent, Event
  <2>3. CASE BusResume
    BY <2>1, <2>3 DEF BusResume, Event
  <2> QED
    BY <2>2, <2>3
<1>5. Device(what) \in DeviceEvents /\ Device(what) # Device("RESET") /\ Device(what) \in Events
  BY <1>4, ReportKinds DEF Events
<1>6. Grows(evts, evts', {Device(what)})
  BY <1>1, <1>4, <1>5, Appended
<1>7. Grows(evts, evts', DeviceEvents)
  BY <1>5, <1>6, GrowsMore
<1>8. ResetSeen' <=> ResetSeen
  BY <1>1, <1>5, <1>6, OtherEventAdded
<1>9. WhenArmed' \/ WhenTaken' \/ WhenWorking'
  BY <1>2, <1>3, <1>7, <1>8, DeviceEventsAdded
<1>10. ResetsLast'
  BY <1>7, ResetsStayLast DEF IInv, OnTheBus
<1>11. OnTheBus'
  BY <1>2, <1>8, <1>10 DEF IInv, OnTheBus
<1>12. Typed' /\ BringingUp' /\ DataKnown(Now)'
  BY <1>1, <1>2, <1>3, <1>7 DEF IInv, Typed, BringingUp, Grows
<1> QED
  BY <1>9, <1>11, <1>12 DEF IInv

-----------------------------------------------------------------------------
(* The controller: a SETUP stored, a transfer ended, a stage reported.      *)

(* A direction becomes free.                                                *)
LEMMA TrbFreed ==
  ASSUME Now \in DriverStates, NEW e \in Ends, trb' = [trb EXCEPT ![e] = 0], usb' = usb, stalled' \in BOOLEAN
  PROVE  /\ Now' \in DriverStates /\ Now'.u = usb /\ Now'.stalled = stalled' /\ KindIn(Now', e) = "none"
         /\ \A d \in Ends : d # e => KindIn(Now', d) = KindIn(Now, d)
<1>1. trb \in [Ends -> Nat] /\ usb \in Handles /\ Now.trb = trb
  BY DEF Now, DriverStates
<1>2. trb' \in [Ends -> Nat] /\ trb'[e] = 0 /\ \A d \in Ends : d # e => trb'[d] = trb[d]
  BY <1>1
<1>3. Now' = [u |-> usb, trb |-> trb', stalled |-> stalled']
  BY DEF Now
<1>4. Now' \in DriverStates /\ Now'.u = usb /\ Now'.stalled = stalled' /\ Now'.trb = trb'
  BY <1>1, <1>2, <1>3 DEF DriverStates
<1> QED
  BY <1>1, <1>2, <1>4, TrbKinds DEF KindIn

LEMMA TransferEnds ==
  ASSUME IInv, WhenWorking, ResetSeen, NEW e \in Ends, KindIn(Now, e) # "none", NEW trbsts \in {0, 2},
         trbsts = 2 => KindIn(Now, e) = "data",
         trb' = [trb EXCEPT ![e] = 0], usb' = usb, stalled' = stalled, setup' = setup, raised' = FALSE,
         evts' = Append(evts, Complete(e, trbsts)),
         stage' \in {"idle", "data", "status"},
         stage' = "idle" <=> trbsts = 2 \/ KindIn(Now, e) # "data",
         stage' = "data" => setup.len > 0
  PROVE  WhenWorking' /\ ResetSeen' /\ ResetsLast' /\ evts' \in Seq(Events) /\ Now' \in DriverStates /\ DataKnown(Now)'
<1>1. /\ Now \in DriverStates /\ evts \in Seq(Events) /\ stalled \in BOOLEAN
      /\ Now.u = usb /\ Now.stalled = stalled
  BY DEF IInv, Typed, DriverStates, Now
<1>2. /\ Now' \in DriverStates /\ Now'.u = usb /\ Now'.stalled = stalled /\ KindIn(Now', e) = "none"
      /\ \A d \in Ends : d # e => KindIn(Now', d) = KindIn(Now, d)
  BY <1>1, TrbFreed
<1>3. PICK ev : ev = Complete(e, trbsts)
  OBVIOUS
<1>4. ev \in Completes(e) /\ ev.trbsts = trbsts
  BY <1>3, ReportKinds
<1>5. /\ ev \in Events /\ ev # Device("RESET") /\ ev \in Completions /\ ev \notin AskedData /\ ev \notin AskedStatus
      /\ (ev \in Completes("OUT") <=> e = "OUT") /\ (ev \in Completes("IN") <=> e = "IN")
  BY <1>4, Kinds DEF Ends
<1>6. Grows(evts, evts', {ev}) /\ Len(evts') = Len(evts) + 1
  BY <1>1, <1>3, <1>5, Appended
<1>7. PICK n \in Nat : n = Len(evts) + 1
  BY <1>6 DEF Grows
<1>8. /\ n \in Waiting' /\ evts'[n] = ev
      /\ \A i \in Waiting' : i \in Nat /\ (i # n => i \in Waiting /\ i < n /\ evts'[i] = evts[i])
  BY <1>6, <1>7 DEF Grows, Waiting
<1>9. ResetSeen' /\ ResetsLast'
  BY <1>1, <1>5, <1>6, NoResetAdded
<1>10. ~Free(Now)
  BY DEF Free, Ends
<1>11. \A i \in Waiting : evts[i] \notin Completions /\ evts[i] \notin AskedStatus /\ OfRequest(evts[i])
  BY <1>10 DEF WhenWorking, Pending
<1>12. Working(Now)
  BY DEF WhenWorking
<1>13. /\ KindIn(Now, "OUT") = "none" \/ KindIn(Now, "IN") = "none"
       /\ KindIn(Now, "IN") # "none" => KindIn(Now, "IN") = StageKind(usb.xfer_len["IN"])
       /\ KindIn(Now, "OUT") \in {"none", "status3"}
       /\ KindIn(Now, "OUT") # "none" => usb.xfer_len["OUT"] = 0
  BY <1>1, <1>12 DEF Working
<1>14. usb.xfer_len["IN"] \in Nat
  BY <1>1 DEF DriverStates, Handles, Ends
<1>15. Free(Now')
  BY <1>2, <1>13 DEF Free, Ends
<1>16. e = "OUT" => trbsts = 0 /\ usb.xfer_len["OUT"] = 0 /\ stage' = "idle"
  BY <1>13
<1>17. e = "IN" => (KindIn(Now, "IN") = "data" <=> usb.xfer_len["IN"] # 0)
  BY <1>13, <1>14 DEF StageKind
<1>18. Working(Now')
  BY <1>1, <1>2, <1>12, <1>15 DEF Working, Free
<1>19. Working(Now)'
  BY <1>18 DEF Working, StageKind
<1>20. Final(ev)' <=> stage' = "idle"
  BY <1>4, <1>5, <1>16, <1>17 DEF Final, Ends
<1>21. \A i \in Waiting' : i # n => Pending(i)'
  <2> SUFFICES ASSUME NEW i \in Waiting', i # n PROVE Pending(i)'
    OBVIOUS
  <2>1. evts'[i] = evts[i] /\ evts[i] \notin Completions /\ evts[i] \notin AskedStatus /\ OfRequest(evts[i])
    BY <1>8, <1>11
  <2>2. evts[i] \notin Completes("OUT") /\ evts[i] \notin Completes("IN")
    BY <2>1, Kinds
  <2> QED
    BY <2>1, <2>2 DEF Pending, OfRequest, Final
<1>22. Pending(n)'
  <2>1. OfRequest(evts[n])'
    BY <1>5, <1>8 DEF OfRequest
  <2>2. \A j \in Waiting' : ~(j > n)
    BY <1>8
  <2>3. Final(evts[n])' => stage' = "idle"
    BY <1>8, <1>20 DEF Final
  <2>4. evts'[n] \in Completes("OUT") => usb'.xfer_len["OUT"] = 0
    BY <1>5, <1>8, <1>16
  <2>5. evts'[n] \in Completes("IN") /\ evts'[n].trbsts = 2 => usb'.xfer_len["IN"] # 0
    BY <1>4, <1>5, <1>8, <1>17
  <2>6. evts'[n] \notin AskedStatus
    BY <1>5, <1>8
  <2> QED
    BY <1>15, <2>1, <2>2, <2>3, <2>4, <2>5, <2>6 DEF Pending
<1>23. stage' = "idle" => \E i \in Waiting' : Final(evts[i])'
  BY <1>8, <1>20 DEF Final
<1>24. usb'.queued["IN"] => \E i \in Waiting' : evts'[i] \in Completes("IN")
  <2>1. CASE e = "IN"
    BY <1>5, <1>8, <2>1
  <2>2. CASE e = "OUT"
    <3>1. KindIn(Now, "IN") = "none"
      BY <1>13, <2>2
    <3>2. \A i \in Waiting : evts[i] \notin Completes("IN")
      BY <1>11, Kinds
    <3> QED
      BY <3>1, <3>2 DEF WhenWorking
  <2> QED
    BY <2>1, <2>2 DEF Ends
<1>25. Free(Now)' /\ setup' \in Requests /\ (stage' = "data" => setup'.len > 0)
  BY <1>15 DEF WhenWorking
<1>26. WhenWorking'
  BY <1>8, <1>19, <1>21, <1>22, <1>23, <1>24, <1>25 DEF WhenWorking
<1>27. DataKnown(Now')
  BY <1>1, <1>2 DEF IInv, DataKnown
<1> QED
  BY <1>2, <1>6, <1>9, <1>26, <1>27 DEF Grows

(* While endpoint 0 has a transfer under way a request is worked on.        *)
LEMMA StageIsWorking ==
  ASSUME IInv, up = "running", NEW e \in Ends, Kind(e) \in {"data", "status2", "status3"}
  PROVE  WhenWorking /\ KindIn(Now, e) = Kind(e)
<1>1. KindIn(Now, e) = Kind(e)
  BY DEF KindIn, Kind, Now
<1>2. ~Armed(Now) /\ ~Taken(Now)
  BY <1>1 DEF Armed, Taken, Ends
<1> QED
  BY <1>1, <1>2 DEF IInv, WhenArmed, WhenTaken

(* A stall is answered only while endpoint 0 is ready.                      *)
LEMMA StalledIsArmed ==
  ASSUME IInv, up = "running", stalled
  PROVE  WhenArmed
<1>1. Now.stalled
  BY DEF Now
<1> QED
  BY <1>1 DEF IInv, WhenTaken, WhenWorking, Taken, Working

LEMMA AskedOnTheBus ==
  ASSUME IInv, waiting # NONE \/ stage # "idle"
  PROVE  up = "running" /\ ResetSeen
  BY DEF IInv, BringingUp, OnTheBus

LEMMA TakeSetupKeeps ==
  ASSUME IInv, TakeSetup
  PROVE  IInv'
<1>1. up = "running" /\ ResetSeen /\ waiting \in Requests /\ host # NONE
  BY AskedOnTheBus DEF TakeSetup, IInv, OnTheBus
<1>2. /\ Kind("OUT") = "setup" /\ Kind("IN") = "none" /\ trb' = [trb EXCEPT !["OUT"] = 0] /\ stalled' = FALSE
      /\ setup' = waiting /\ waiting' = NONE /\ left' = waiting.len /\ raised' = FALSE
      /\ stage' = IF waiting.len = 0 THEN "status" ELSE "data"
      /\ evts' = Append(evts, Complete("OUT", 0))
      /\ up' = up /\ usb' = usb /\ asleep' = asleep /\ host' = host
  BY DEF TakeSetup, Event, Given
<1>3. Now \in DriverStates /\ evts \in Seq(Events) /\ Now.u = usb
  BY DEF IInv, Typed, Now
<1>4. /\ Now' \in DriverStates /\ Now'.u = usb /\ Now'.stalled = stalled' /\ KindIn(Now', "OUT") = "none"
      /\ KindIn(Now', "IN") = KindIn(Now, "IN")
  BY <1>2, <1>3, TrbFreed, Bools DEF Ends
<1>5. KindIn(Now, "OUT") = "setup" /\ KindIn(Now, "IN") = "none"
  BY <1>2 DEF KindIn, Kind, Now
<1>6. WhenArmed
  BY <1>1, <1>5 DEF IInv, WhenTaken, WhenWorking, Taken, Working
<1>7. Taken(Now')
  BY <1>2, <1>3, <1>4, <1>5, <1>6 DEF WhenArmed, Armed, Taken
<1>8. PICK ev : ev = Complete("OUT", 0)
  OBVIOUS
<1>9. ev \in Completes("OUT")
  BY <1>8, ReportKinds DEF Ends
<1>10. ev \in Events /\ ev # Device("RESET")
  BY <1>9, Kinds
<1>11. Grows(evts, evts', {ev}) /\ Len(evts') = Len(evts) + 1
  BY <1>2, <1>3, <1>8, <1>10, Appended
<1>12. ResetSeen' /\ ResetsLast'
  BY <1>1, <1>3, <1>10, <1>11, NoResetAdded
<1>13. PICK n \in Nat : n = Len(evts) + 1
  BY <1>11 DEF Grows
<1>14. /\ n \in Waiting' /\ evts'[n] = ev
       /\ \A i \in Waiting' : i \in Nat /\ ~(i > n) /\ (i < n => i \in Waiting /\ evts'[i] = evts[i])
  BY <1>11, <1>13 DEF Grows, Waiting
<1>15. \A i \in Waiting' : i < n => Stale(evts[i])'
  BY <1>2, <1>6, <1>14 DEF WhenArmed, Stale
<1>16. SetupWaits(n)'
  BY <1>9, <1>14, <1>15 DEF SetupWaits
<1>17. waiting.len \in Nat
  <2>1. PICK word : word = 0 .. 2 ^ 16 - 1
    OBVIOUS
  <2>2. \A x \in word : x \in Nat
    BY <2>1
  <2>3. waiting \in [name : Codes, arg : word, index : word, to : Recipients, dir : Ends, len : word]
    BY <1>1, <2>1, UsbControlAssumption DEF usb_setup_req
  <2> QED
    BY <2>2, <2>3
<1>18. WhenTaken'
  BY <1>1, <1>2, <1>7, <1>14, <1>16, <1>17 DEF WhenTaken
<1>19. DataKnown(Now')
  BY <1>3, <1>4 DEF IInv, DataKnown
<1>20. OnTheBus'
  BY <1>1, <1>2, <1>12 DEF OnTheBus
<1>21. Typed' /\ BringingUp'
  BY <1>1, <1>2, <1>4, <1>11, <1>17 DEF IInv, Typed, BringingUp, Grows
<1> QED
  BY <1>18, <1>19, <1>20, <1>21 DEF IInv

(* The end of a transfer keeps the rest, whether the host goes on with the  *)
(* request or not.                                                          *)
LEMMA TransferKeeps ==
  ASSUME IInv, up = "running", WhenWorking', ResetSeen', ResetsLast', evts' \in Seq(Events), Now' \in DriverStates,
         DataKnown(Now)', up' = up, usb' = usb, stage' \in {"idle", "data", "status"}, left' \in Int,
         waiting' = waiting, host' = host \/ (host' = NONE /\ waiting = NONE)
  PROVE  IInv'
<1>1. OnTheBus'
  BY DEF IInv, OnTheBus
<1>2. Typed' /\ BringingUp'
  BY DEF IInv, Typed, BringingUp
<1> QED
  BY <1>1, <1>2 DEF IInv

LEMMA SetupPendingKeeps ==
  ASSUME IInv, NEW e \in Ends, SetupPending(e)
  PROVE  IInv'
<1>1. up = "running" /\ ResetSeen
  BY AskedOnTheBus DEF SetupPending
<1>2. Kind(e) \in {"data", "status2", "status3"}
  BY DEF SetupPending
<1>3. WhenWorking /\ KindIn(Now, e) = Kind(e)
  BY <1>1, <1>2, StageIsWorking
<1>4. PICK trbsts \in {0, 2} : trbsts = IF Kind(e) = "data" THEN 2 ELSE 0
  OBVIOUS
<1>5. /\ trb' = [trb EXCEPT ![e] = 0] /\ usb' = usb /\ stalled' = stalled /\ setup' = setup /\ raised' = FALSE
      /\ evts' = Append(evts, Complete(e, trbsts)) /\ stage' = "idle" /\ left' = 0
      /\ up' = up /\ waiting' = waiting /\ host' = host
  BY <1>4 DEF SetupPending, Event, Given
<1>6. /\ KindIn(Now, e) # "none" /\ (trbsts = 2 => KindIn(Now, e) = "data")
      /\ (stage' = "idle" <=> trbsts = 2 \/ KindIn(Now, e) # "data")
      /\ stage' \in {"idle", "data", "status"} /\ (stage' = "data" => setup.len > 0)
  BY <1>2, <1>3, <1>4, <1>5
<1>7. WhenWorking' /\ ResetSeen' /\ ResetsLast' /\ evts' \in Seq(Events) /\ Now' \in DriverStates /\ DataKnown(Now)'
  BY <1>1, <1>3, <1>5, <1>6, TransferEnds
<1> QED
  BY <1>1, <1>5, <1>7, TransferKeeps

LEMMA MovesKeeps ==
  ASSUME IInv, Moves
  PROVE  IInv'
<1>1. stage = "data" /\ Kind(Data) = "data" /\ waiting = NONE
  BY DEF Moves, At
<1>2. up = "running" /\ ResetSeen
  BY <1>1, AskedOnTheBus
<1>3. KindIn(Now, Data) = "data"
  BY <1>1 DEF KindIn, Kind, Now
<1>4. WhenWorking
  <2>1. ~WhenArmed
    BY <1>1 DEF WhenArmed, Moves, At
  <2>2. ASSUME WhenTaken PROVE FALSE
    <3>1. setup \in Requests /\ KindIn(Now, "OUT") = "none" /\ KindIn(Now, "IN") = "none"
      BY <2>2 DEF WhenTaken, Taken
    <3>2. Data \in Ends
      BY <3>1, SetupFields DEF Data
    <3> QED
      BY <1>3, <3>1, <3>2 DEF Ends
  <2> QED
    BY <1>2, <2>1, <2>2 DEF IInv
<1>5. Data \in Ends /\ setup.len > 0
  BY <1>1, <1>4, SetupFields DEF WhenWorking, Data
<1>6. Data = "IN"
  BY <1>3, <1>4, <1>5 DEF WhenWorking, Working, Ends
<1>7. /\ trb' = [trb EXCEPT ![Data] = 0] /\ usb' = usb /\ stalled' = stalled /\ setup' = setup /\ raised' = FALSE
      /\ evts' = Append(evts, Complete(Data, 0)) /\ stage' \in {"data", "status"}
      /\ left' = left - usb.xfer_len[Data]
      /\ up' = up /\ waiting' = waiting /\ host' = host
  BY <1>1 DEF Moves, Event, Given
<1>8. WhenWorking' /\ ResetSeen' /\ ResetsLast' /\ evts' \in Seq(Events) /\ Now' \in DriverStates /\ DataKnown(Now)'
  <2>1. PICK trbsts \in {0, 2} : trbsts = 0
    OBVIOUS
  <2>2. /\ KindIn(Now, Data) # "none" /\ (trbsts = 2 => KindIn(Now, Data) = "data")
        /\ (stage' = "idle" <=> trbsts = 2 \/ KindIn(Now, Data) # "data")
        /\ stage' \in {"idle", "data", "status"} /\ (stage' = "data" => setup.len > 0)
        /\ evts' = Append(evts, Complete(Data, trbsts))
    BY <1>3, <1>5, <1>7, <2>1
  <2> QED
    BY <1>2, <1>4, <1>5, <1>7, <2>2, TransferEnds
<1>9. left' \in Int
  <2>1. usb.xfer_len \in [Ends -> Nat]
    BY DEF IInv, Typed, DriverStates, Handles, Now
  <2>2. usb.xfer_len[Data] \in Nat /\ left \in Int
    BY <1>5, <2>1 DEF IInv, Typed
  <2> QED
    BY <1>7, <2>2
<1> QED
  BY <1>2, <1>7, <1>8, <1>9, TransferKeeps

LEMMA EndsKeeps ==
  ASSUME IInv, Ends_ok
  PROVE  IInv'
<1>1. stage = "status" /\ waiting = NONE /\ Kind(Status) \in {"status2", "status3"} /\ Status \in Ends
  BY DEF Ends_ok, At, StatusTrb, Status, Ends
<1>2. up = "running" /\ ResetSeen
  BY <1>1, AskedOnTheBus
<1>3. WhenWorking /\ KindIn(Now, Status) = Kind(Status)
  BY <1>1, <1>2, StageIsWorking
<1>4. /\ trb' = [trb EXCEPT ![Status] = 0] /\ usb' = usb /\ stalled' = stalled /\ setup' = setup /\ raised' = FALSE
      /\ evts' = Append(evts, Complete(Status, 0)) /\ stage' = "idle" /\ left' = 0
      /\ up' = up /\ waiting' = waiting /\ host' = NONE
  BY DEF Ends_ok, Event
<1>5. WhenWorking' /\ ResetSeen' /\ ResetsLast' /\ evts' \in Seq(Events) /\ Now' \in DriverStates /\ DataKnown(Now)'
  <2>1. PICK trbsts \in {0, 2} : trbsts = 0
    OBVIOUS
  <2>2. /\ KindIn(Now, Status) # "none" /\ (trbsts = 2 => KindIn(Now, Status) = "data")
        /\ (stage' = "idle" <=> trbsts = 2 \/ KindIn(Now, Status) # "data")
        /\ stage' \in {"idle", "data", "status"} /\ (stage' = "data" => setup.len > 0)
        /\ evts' = Append(evts, Complete(Status, trbsts))
    BY <1>1, <1>3, <1>4, <2>1
  <2> QED
    BY <1>1, <1>2, <1>3, <1>4, <2>2, TransferEnds
<1> QED
  BY <1>1, <1>2, <1>4, <1>5, TransferKeeps

(* A stage without a transfer is reported once.                             *)
LEMMA ReportsKeeps ==
  ASSUME IInv, Reports
  PROVE  IInv'
<1>1. ~raised /\ ~stalled /\ raised' = TRUE /\ stage \in {"data", "status"}
  BY DEF Reports, At
<1>2. /\ up' = up /\ usb' = usb /\ trb' = trb /\ stalled' = stalled /\ stage' = stage /\ left' = left
      /\ setup' = setup /\ host' = host /\ waiting' = waiting
  BY DEF Reports, Given
<1>3. up = "running" /\ ResetSeen
  BY <1>1, AskedOnTheBus
<1>4. Now' = Now /\ Now \in DriverStates /\ evts \in Seq(Events)
  BY <1>2 DEF Now, IInv, Typed
<1>5. ~WhenArmed
  BY <1>1 DEF WhenArmed
<1>6. setup \in Requests
  BY <1>3, <1>5 DEF IInv, WhenTaken, WhenWorking
<1>7. setup.dir \in Ends /\ setup.len \in Nat /\ Status \in Ends
  BY <1>6, SetupFields DEF Status, Ends
<1>8. PICK ev : /\ evts' = Append(evts, ev)
                /\ \/ stage = "data" /\ ev = NotReady(setup.dir, CTRL_DATA) /\ ev \in AskedData
                   \/ stage = "status" /\ ev \in AskedStatus
  BY <1>7, ReportKinds DEF Reports, Event, Data, At
<1>9. /\ ev \in Events /\ ev # Device("RESET") /\ ev \notin Completions /\ ev \notin Completes("OUT")
      /\ ev \notin Completes("IN") /\ (stage = "data" => ev \notin AskedStatus) /\ (stage = "status" => ev \notin AskedData)
  BY <1>8, Kinds
<1>10. Grows(evts, evts', {ev}) /\ Len(evts') = Len(evts) + 1
  BY <1>4, <1>8, <1>9, Appended
<1>11. ResetSeen' /\ ResetsLast'
  BY <1>3, <1>4, <1>9, <1>10, NoResetAdded
<1>12. PICK n \in Nat : n = Len(evts) + 1
  BY <1>10 DEF Grows
<1>13. /\ n \in Waiting' /\ evts'[n] = ev /\ n \notin Waiting /\ Waiting \subseteq Waiting'
       /\ \A i \in Waiting' : i \in Nat /\ (i # n => i \in Waiting)
       /\ \A i \in Waiting : i \in Nat /\ i < n /\ evts'[i] = evts[i]
  BY <1>10, <1>12 DEF Grows, Waiting
<1>14. stage = "data" => setup.len > 0
  BY <1>3, <1>5 DEF IInv, WhenTaken, WhenWorking
<1>15. OfRequest(ev)'
  BY <1>1, <1>2, <1>8, <1>9, <1>14 DEF OfRequest
<1>16. \A i \in Waiting : OfRequest(evts[i]) => evts[i] \notin AskedStatus /\ OfRequest(evts[i])'
  BY <1>1, <1>2, <1>3, <1>13 DEF OfRequest
<1>17. ASSUME WhenTaken PROVE WhenTaken'
  <2>1. PICK k \in Waiting : SetupWaits(k)
    BY <1>17 DEF WhenTaken
  <2>2. k \in Waiting' /\ k < n /\ evts'[k] \in Completes("OUT")
    BY <1>13, <2>1 DEF SetupWaits
  <2>3. \A i \in Waiting' : i < k => Stale(evts[i])'
    BY <1>2, <1>13, <2>1, <2>2 DEF SetupWaits, Stale
  <2>4. \A i \in Waiting : i > k => evts[i] \notin Completions /\ OfRequest(evts[i])
    BY <2>1 DEF SetupWaits
  <2>5. \A i \in Waiting' : i > k => evts'[i] \notin Completions
    BY <1>9, <1>13, <2>4
  <2>6. ASSUME NEW i \in Waiting', i > k PROVE OfRequest(evts[i])'
    <3>1. CASE i = n
      BY <1>13, <1>15, <3>1 DEF OfRequest
    <3>2. CASE i # n
      BY <1>13, <1>16, <2>4, <2>6, <3>2
    <3> QED
      BY <3>1, <3>2
  <2>7. ASSUME NEW i \in Waiting', i > k, evts'[i] \in AskedStatus
        PROVE  setup'.len = 0 /\ \A j \in Waiting' : j > i => evts'[j] \notin AskedStatus
    <3>1. i = n
      BY <1>13, <1>16, <2>4, <2>7
    <3>2. setup.len = 0
      BY <1>8, <1>9, <1>13, <1>17, <2>7, <3>1 DEF WhenTaken
    <3>3. \A j \in Waiting' : ~(j > n)
      BY <1>13
    <3> QED
      BY <1>2, <3>1, <3>2, <3>3
  <2>8. SetupWaits(k)'
    BY <2>2, <2>3, <2>5, <2>6, <2>7 DEF SetupWaits
  <2>9. Taken(Now)'
    BY <1>4, <1>17 DEF WhenTaken
  <2> QED
    BY <1>2, <1>11, <1>17, <2>2, <2>8, <2>9, <1>1 DEF WhenTaken
<1>18. ASSUME WhenWorking PROVE WhenWorking'
  <2>1. Working(Now)'
    BY <1>2, <1>4, <1>18 DEF WhenWorking, Working, StageKind
  <2>2. stage = "status" => Free(Now)
    BY <1>1, <1>18 DEF WhenWorking
  <2>3. \A i \in Waiting : Pending(i) /\ ~Final(evts[i]) /\ evts[i] \notin AskedStatus
    BY <1>1, <1>16, <1>18 DEF WhenWorking, Pending
  <2>4. ASSUME NEW i \in Waiting', i # n PROVE Pending(i)'
    <3>1. Pending(i) /\ ~Final(evts[i]) /\ evts[i] \notin AskedStatus /\ evts'[i] = evts[i]
      BY <1>13, <2>3, <2>4
    <3>2. OfRequest(evts[i])'
      BY <1>13, <1>16, <2>4, <3>1 DEF Pending
    <3>3. ~Final(evts[i])'
      BY <1>2, <3>1 DEF Final
    <3> QED
      BY <1>2, <1>4, <3>1, <3>2, <3>3 DEF Pending
  <2>5. Pending(n)'
    <3>1. OfRequest(evts[n])'
      BY <1>13, <1>15 DEF OfRequest
    <3>2. ~Final(evts[n])'
      BY <1>9, <1>13 DEF Final
    <3>3. \A j \in Waiting' : ~(j > n)
      BY <1>13
    <3>4. evts'[n] \in AskedStatus => Free(Now)'
      BY <1>4, <1>8, <1>9, <1>13, <2>2
    <3> QED
      BY <1>9, <1>13, <3>1, <3>2, <3>3, <3>4 DEF Pending
  <2>6. usb'.queued["IN"] => KindIn(Now, "IN")' # "none" \/ \E i \in Waiting' : evts'[i] \in Completes("IN")
    BY <1>2, <1>4, <1>13, <1>18 DEF WhenWorking
  <2> QED
    BY <1>1, <1>2, <1>18, <2>1, <2>4, <2>5, <2>6 DEF WhenWorking
<1>19. WhenTaken' \/ WhenWorking'
  BY <1>3, <1>5, <1>17, <1>18 DEF IInv
<1>20. OnTheBus'
  BY <1>2, <1>11 DEF IInv, OnTheBus
<1>21. Typed' /\ BringingUp' /\ DataKnown(Now)'
  BY <1>2, <1>3, <1>4, <1>10 DEF IInv, Typed, BringingUp, Grows
<1> QED
  BY <1>19, <1>20, <1>21 DEF IInv

LEMMA StallsKeeps ==
  ASSUME IInv, Stalls
  PROVE  IInv'
<1>1. up = "running" /\ ResetSeen
  BY AskedOnTheBus DEF Stalls
<1>2. WhenArmed
  BY <1>1, StalledIsArmed DEF Stalls
<1>3. /\ up' = up /\ usb' = usb /\ trb' = trb /\ stalled' = stalled /\ evts' = evts /\ stage' = "idle" /\ left' = 0
      /\ host' = NONE /\ waiting' = NONE /\ setup' = setup
  BY DEF Stalls, Given
<1>4. Now' = Now
  BY <1>3 DEF Now
<1>5. WhenArmed'
  BY <1>2, <1>3, <1>4 DEF WhenArmed, Waiting, Stale
<1>6. OnTheBus'
  BY <1>3 DEF IInv, OnTheBus, ResetsLast, Waiting
<1>7. Typed' /\ BringingUp' /\ DataKnown(Now)'
  BY <1>1, <1>3, <1>4 DEF IInv, Typed, BringingUp
<1> QED
  BY <1>5, <1>6, <1>7 DEF IInv

-----------------------------------------------------------------------------
(* The driver takes an event.                                               *)

Becomes(s) == s \in DriverStates => Now' = s

(* What becomes of endpoint 0, by the event.                                *)
LEMMA PollStep ==
  ASSUME IInv, Poll
  PROVE  /\ up = "running" /\ up' = up /\ stage' = stage /\ left' = left /\ raised' = raised /\ setup' = setup
         /\ host' = host /\ waiting' = waiting /\ asleep' = asleep
         /\ Shrinks(evts, evts') /\ evts[1] \in Events
         /\ evts[1] = Device("RESET") => Becomes(DeviceReset)
         /\ evts[1] \in DeviceEvents /\ evts[1] # Device("RESET") => SameWork(Now, Now')
         /\ evts[1] \in Completes("IN") => Becomes(InComplete(evts[1]))
         /\ evts[1] \in Completes("OUT") => Becomes(OutComplete(evts[1]))
         /\ evts[1] \in NotReadys => Becomes(XferNotReady(evts[1]))
<1>1. Now \in DriverStates /\ evts \in Seq(Events) /\ evts # <<>> /\ evts' = Tail(evts)
  BY DEF IInv, Typed, Poll
<1>2. Shrinks(evts, evts') /\ Head(evts) = evts[1] /\ evts[1] \in Events
  BY <1>1, HeadTaken
<1>3. PICK event : event = evts[1]
  OBVIOUS
<1>4. PICK after : after = IF dwc3_is_dev_event(event.word)
                           THEN dwc3_handle_dev_event(dwc3_read_dev_evt_type(event.word))
                           ELSE {dwc3_handle_ep_event(event)}
  OBVIOUS
<1>5. PICK s \in after : usb' = s.u /\ trb' = s.trb /\ stalled' = s.stalled
  BY <1>2, <1>3, <1>4 DEF Poll
<1>6. Becomes(s)
  BY <1>5 DEF Becomes, Now, DriverStates
<1>7. ASSUME event = Device("RESET") PROVE s = DeviceReset
  <2>1. dwc3_is_dev_event(event.word) /\ dwc3_read_dev_evt_type(event.word) = DEVICE_EVENT.RESET
    BY <1>7, EventKinds, Kinds
  <2>2. after = {DeviceReset}
    BY <1>4, <2>1 DEF dwc3_handle_dev_event, DEVICE_EVENT
  <2> QED
    BY <1>5, <2>2
<1>8. ASSUME event \in DeviceEvents, event # Device("RESET") PROVE SameWork(Now, Now')
  <2>1. dwc3_is_dev_event(event.word) /\ dwc3_read_dev_evt_type(event.word) # DEVICE_EVENT.RESET
    BY <1>8, EventKinds
  <2>2. PICK type : type = dwc3_read_dev_evt_type(event.word)
    OBVIOUS
  <2>3. s \in dwc3_handle_dev_event(type) /\ type # DEVICE_EVENT.RESET
    BY <1>4, <1>5, <2>1, <2>2
  <2>4. SameWork(Now, s)
    BY <1>1, <2>3, DeviceEventHandled
  <2> QED
    BY <1>6, <2>4 DEF SameWork, Becomes
<1>9. ~dwc3_is_dev_event(event.word) => s = dwc3_handle_ep_event(event)
  BY <1>4, <1>5
<1>10. ASSUME NEW e \in Ends, event \in Completes(e)
       PROVE  s = IF e = "IN" THEN InComplete(event) ELSE OutComplete(event)
  <2>1. ~dwc3_is_dev_event(event.word) /\ Is(event, "XFERCOMPLETE") /\ EpOf(event) = e
    BY <1>10, EventKinds
  <2> QED
    BY <1>9, <2>1 DEF dwc3_handle_ep_event, Ends
<1>11. ASSUME event \in NotReadys PROVE s = XferNotReady(event)
  <2>1. ~dwc3_is_dev_event(event.word) /\ ~Is(event, "XFERCOMPLETE")
    BY <1>11, EventKinds
  <2> QED
    BY <1>9, <2>1 DEF dwc3_handle_ep_event
<1>12. /\ up = "running" /\ up' = up /\ stage' = stage /\ left' = left /\ raised' = raised /\ setup' = setup
       /\ host' = host /\ waiting' = waiting /\ asleep' = asleep
  BY DEF Poll, wire
<1>13. event \in Completes("IN") => s = InComplete(event)
  BY <1>10 DEF Ends
<1>14. event \in Completes("OUT") => s = OutComplete(event)
  BY <1>10 DEF Ends
<1> QED
  BY <1>2, <1>3, <1>6, <1>7, <1>8, <1>11, <1>12, <1>13, <1>14

(* The places of the events that are left.                                  *)
LEMMA Shifted ==
  ASSUME Shrinks(evts, evts')
  PROVE  /\ 1 \in Waiting
         /\ \A i \in Waiting' : i \in Nat /\ i + 1 \in Waiting /\ i + 1 > 1 /\ evts'[i] = evts[i + 1]
         /\ \A i \in Waiting : i \in Nat /\ i >= 1 /\ (i # 1 => i - 1 \in Waiting' /\ evts[i] = evts'[i - 1])
  BY DEF Shrinks, Waiting

LEMMA SeenShifted ==
  ASSUME evts \in Seq(Events), Shrinks(evts, evts')
  PROVE  /\ ResetSeen => ResetSeen'
         /\ evts[1] # Device("RESET") => (ResetSeen' <=> ResetSeen)
<1>1. evts' \in Seq(Events)
  BY DEF Shrinks
<1>2. (\A i \in Waiting : evts[i] # Device("RESET")) => \A i \in Waiting' : evts'[i] # Device("RESET")
  BY Shifted
<1>3. evts[1] # Device("RESET") /\ (\A i \in Waiting' : evts'[i] # Device("RESET"))
        => \A i \in Waiting : evts[i] # Device("RESET")
  BY Shifted
<1> QED
  BY <1>1, <1>2, <1>3, SeenAt, SeenAtNext

(* What an event leaves as it is.                                           *)
LEMMA PollKeeps ==
  ASSUME IInv, Poll, Now' \in DriverStates, DataKnown(Now'), Now'.u.maxpacket = 64,
         WhenArmed' \/ WhenTaken' \/ WhenWorking'
  PROVE  IInv'
<1>1. /\ up = "running" /\ up' = up /\ stage' = stage /\ left' = left
      /\ host' = host /\ waiting' = waiting /\ asleep' = asleep /\ Shrinks(evts, evts')
  BY PollStep
<1>2. evts \in Seq(Events)
  BY DEF IInv, Typed
<1>3. ResetSeen => ResetSeen'
  BY <1>1, <1>2, SeenShifted
<1>4. ResetsLast'
  <2> SUFFICES ASSUME NEW i \in Waiting', NEW j \in Waiting', i < j, evts'[i] = Device("RESET")
               PROVE  evts'[j] \in DeviceEvents
    BY DEF ResetsLast
  <2>1. /\ i + 1 \in Waiting /\ j + 1 \in Waiting /\ i + 1 < j + 1
        /\ evts'[i] = evts[i + 1] /\ evts'[j] = evts[j + 1]
    BY <1>1, Shifted
  <2> QED
    BY <2>1 DEF IInv, OnTheBus, ResetsLast
<1>5. OnTheBus'
  BY <1>1, <1>3, <1>4 DEF IInv, OnTheBus
<1>6. Now'.u = usb'
  BY DEF Now
<1>7. Typed' /\ BringingUp'
  BY <1>1, <1>6 DEF IInv, Typed, BringingUp, Shrinks
<1> QED
  BY <1>5, <1>7 DEF IInv

(* Endpoint 0 is ready after an event behind which only the device reports. *)
LEMMA ReadyAfter ==
  ASSUME IInv, Poll, Restarts(Now, Now'), stage = "idle", \A j \in Waiting : j > 1 => evts[j] \in DeviceEvents
  PROVE  IInv'
<1>1. stage' = stage /\ Shrinks(evts, evts') /\ up = "running"
  BY PollStep
<1>2. \A i \in Waiting' : evts'[i] \in DeviceEvents
  BY <1>1, Shifted
<1>3. \A i \in Waiting' : Stale(evts[i])'
  BY <1>2, Kinds DEF Stale
<1>4. Now' \in DriverStates /\ Armed(Now') /\ DataKnown(Now') /\ Now'.u.maxpacket = 64
  BY <1>1 DEF Restarts, IInv, BringingUp, Now
<1>5. WhenArmed'
  BY <1>1, <1>3, <1>4 DEF WhenArmed
<1> QED
  BY <1>4, <1>5, PollKeeps

(* An event nothing comes of.                                               *)
LEMMA EventSkipped ==
  ASSUME IInv, Poll, SameWork(Now, Now'), evts[1] \notin Completions, evts[1] # Device("RESET")
  PROVE  IInv'
<1>1. /\ up = "running" /\ stage' = stage /\ raised' = raised /\ setup' = setup /\ Shrinks(evts, evts')
      /\ Now.u = usb /\ Now'.u = usb' /\ Now.stalled = stalled /\ Now'.stalled = stalled'
  BY PollStep DEF Now
<1>2. ResetSeen' <=> ResetSeen
  BY <1>1, SeenShifted DEF IInv, Typed
<1>3. /\ Now' \in DriverStates /\ DataKnown(Now') /\ Now'.u.maxpacket = 64
      /\ (Armed(Now) => Armed(Now')) /\ (Taken(Now) => Taken(Now')) /\ (Working(Now) => Working(Now'))
      /\ (Free(Now') <=> Free(Now)) /\ KindIn(Now', "IN") = KindIn(Now, "IN")
  BY <1>1, SameWorkKeeps DEF SameWork, IInv, BringingUp
<1>4. usb'.is_stall = usb.is_stall /\ usb'.queued = usb.queued /\ usb'.xfer_len = usb.xfer_len /\ stalled' = stalled
  BY <1>1 DEF SameWork
<1>5. /\ 1 \in Waiting
      /\ \A i \in Waiting' : i \in Nat /\ i + 1 \in Waiting /\ i + 1 > 1 /\ evts'[i] = evts[i + 1]
      /\ \A i \in Waiting : i \in Nat /\ i >= 1 /\ (i # 1 => i - 1 \in Waiting' /\ evts[i] = evts'[i - 1])
  BY <1>1, Shifted
<1>6. evts[1] \notin Completes("OUT") /\ evts[1] \notin Completes("IN")
  BY Kinds
<1>7. CASE WhenArmed
  <2>1. \A i \in Waiting' : Stale(evts[i])'
    BY <1>4, <1>5, <1>7 DEF WhenArmed, Stale
  <2>2. WhenArmed'
    BY <1>1, <1>3, <1>4, <1>7, <2>1 DEF WhenArmed
  <2> QED
    BY <1>3, <2>2, PollKeeps
<1>8. CASE WhenTaken
  <2>1. PICK n \in Waiting : SetupWaits(n)
    BY <1>8 DEF WhenTaken
  <2>2. n # 1
    BY <1>6, <2>1 DEF SetupWaits
  <2>3. PICK k \in Waiting' : k = n - 1 /\ evts'[k] = evts[n] /\ k \in Nat /\ n \in Nat
    BY <1>5, <2>1, <2>2
  <2>4. \A i \in Waiting' : /\ i \in Nat /\ i + 1 \in Waiting /\ evts'[i] = evts[i + 1]
                            /\ (i < k => i + 1 < n) /\ (i > k => i + 1 > n)
    BY <1>5, <2>3
  <2>5. evts'[k] \in Completes("OUT")
    BY <2>1, <2>3 DEF SetupWaits
  <2>6. \A i \in Waiting' : i < k => Stale(evts[i])'
    BY <1>4, <2>1, <2>4 DEF SetupWaits, Stale
  <2>7. \A i \in Waiting' : i > k => evts'[i] \notin Completions /\ OfRequest(evts[i])'
    BY <1>1, <1>2, <2>1, <2>4 DEF SetupWaits, OfRequest
  <2>8. \A i \in Waiting' : i > k /\ evts'[i] \in AskedStatus =>
          setup'.len = 0 /\ \A j \in Waiting' : j > i => evts'[j] \notin AskedStatus
    <3> SUFFICES ASSUME NEW i \in Waiting', i > k, evts'[i] \in AskedStatus
                 PROVE  setup'.len = 0 /\ \A j \in Waiting' : j > i => evts'[j] \notin AskedStatus
      OBVIOUS
    <3>1. i + 1 \in Waiting /\ i + 1 > n /\ evts[i + 1] \in AskedStatus
      BY <2>4
    <3>2. setup.len = 0 /\ \A j \in Waiting : j > i + 1 => evts[j] \notin AskedStatus
      BY <2>1, <3>1 DEF SetupWaits
    <3>3. ASSUME NEW j \in Waiting', j > i PROVE evts'[j] \notin AskedStatus
      <4>1. j + 1 \in Waiting /\ j + 1 > i + 1 /\ evts'[j] = evts[j + 1]
        BY <2>4, <3>3
      <4> QED
        BY <3>2, <4>1
    <3> QED
      BY <1>1, <3>2, <3>3
  <2>9. SetupWaits(k)'
    BY <2>5, <2>6, <2>7, <2>8 DEF SetupWaits
  <2>10. WhenTaken'
    BY <1>1, <1>2, <1>3, <1>8, <2>3, <2>9 DEF WhenTaken
  <2> QED
    BY <1>3, <2>10, PollKeeps
<1>9. CASE WhenWorking
  <2>1. Working(Now)'
    BY <1>1, <1>3, <1>9 DEF WhenWorking, Working, StageKind
  <2>2. ASSUME NEW i \in Waiting' PROVE Pending(i)'
    <3>1. PICK n \in Waiting : n = i + 1 /\ evts'[i] = evts[n] /\ n \in Nat /\ i \in Nat
      BY <1>5
    <3>2. Pending(n)
      BY <1>9 DEF WhenWorking
    <3>3. \A j \in Waiting' : j > i => j + 1 \in Waiting /\ j + 1 > n /\ evts'[j] = evts[j + 1]
      <4> SUFFICES ASSUME NEW j \in Waiting', j > i
                   PROVE  j + 1 \in Waiting /\ j + 1 > n /\ evts'[j] = evts[j + 1]
        OBVIOUS
      <4>1. j \in Nat /\ j + 1 \in Waiting /\ evts'[j] = evts[j + 1]
        BY <1>5
      <4>2. j + 1 > n
        BY <3>1, <4>1
      <4> QED
        BY <4>1, <4>2
    <3>4. OfRequest(evts[i])'
      BY <1>1, <1>2, <3>1, <3>2 DEF Pending, OfRequest
    <3>5. Final(evts[i])' => stage' = "idle" /\ \A j \in Waiting' : j > i => evts'[j] \in DeviceEvents
      <4>1. Final(evts[i])' => Final(evts[n])
        BY <1>4, <3>1 DEF Final
      <4> QED
        BY <1>1, <3>2, <3>3, <4>1 DEF Pending
    <3>6. evts'[i] \in AskedStatus =>
            Free(Now)' /\ \A j \in Waiting' : j > i => evts'[j] \notin AskedStatus /\ evts'[j] \notin Completions
      BY <1>3, <3>1, <3>2, <3>3 DEF Pending
    <3> QED
      BY <1>3, <1>4, <3>1, <3>2, <3>4, <3>5, <3>6 DEF Pending
  <2>3. stage' = "idle" => ~ResetSeen' \/ \E i \in Waiting' : Final(evts[i])'
    <3>1. ~Final(evts[1])
      BY <1>6 DEF Final
    <3>2. \A i \in Waiting : Final(evts[i]) => i # 1 /\ i - 1 \in Waiting' /\ Final(evts[i - 1])'
      BY <1>4, <1>5, <3>1 DEF Final
    <3> QED
      BY <1>1, <1>2, <1>9, <3>2 DEF WhenWorking
  <2>4. usb'.queued["IN"] => KindIn(Now, "IN")' # "none" \/ \E i \in Waiting' : evts'[i] \in Completes("IN")
    BY <1>3, <1>4, <1>5, <1>6, <1>9 DEF WhenWorking
  <2>5. /\ setup' \in Requests /\ (stage' = "data" => setup'.len > 0)
        /\ (stage' = "status" /\ ~raised' => Free(Now)')
    BY <1>1, <1>3, <1>9 DEF WhenWorking
  <2>6. WhenWorking'
    BY <2>1, <2>2, <2>3, <2>4, <2>5 DEF WhenWorking
  <2> QED
    BY <1>3, <2>6, PollKeeps
<1> QED
  BY <1>1, <1>7, <1>8, <1>9 DEF IInv

(* Events of a transfer are still of the request that waits.                *)
LEMMA RequestsShifted ==
  ASSUME IInv, Poll, evts[1] # Device("RESET"), NEW i \in Waiting', OfRequest(evts[i + 1])
  PROVE  OfRequest(evts[i])'
<1>1. stage' = stage /\ raised' = raised /\ setup' = setup /\ Shrinks(evts, evts') /\ evts \in Seq(Events)
  BY PollStep DEF IInv, Typed
<1>2. ResetSeen' <=> ResetSeen
  BY <1>1, SeenShifted
<1>3. evts'[i] = evts[i + 1]
  BY <1>1, Shifted
<1> QED
  BY <1>1, <1>2, <1>3 DEF OfRequest

(* A request is refused or goes on, with nothing but stages of it to come.  *)
LEMMA RequestDecided ==
  ASSUME IInv, Poll, evts[1] # Device("RESET"), DataKnown(Now'), Now'.u.maxpacket = 64,
         (Now' \in DriverStates /\ Refused(Now')) \/ GoesOn(Now'),
         \A i \in Waiting : i > 1 => evts[i] \notin Completions /\ OfRequest(evts[i]),
         \A i \in Waiting : i > 1 /\ evts[i] \in AskedStatus =>
           (Refused(Now') \/ Free(Now')) /\ \A j \in Waiting : j > i => evts[j] \notin AskedStatus,
         setup \in Requests, stage = "data" => setup.len > 0, stage = "idle" => ~ResetSeen,
         stage = "status" /\ ~raised => Refused(Now') \/ Free(Now')
  PROVE  IInv'
<1>1. /\ stage' = stage /\ raised' = raised /\ setup' = setup /\ Shrinks(evts, evts') /\ evts \in Seq(Events)
      /\ Now'.u = usb' /\ Now'.stalled = stalled'
  BY PollStep DEF IInv, Typed, Now
<1>2. ResetSeen' <=> ResetSeen
  BY <1>1, SeenShifted
<1>3. \A i \in Waiting' : i \in Nat /\ i + 1 \in Waiting /\ i + 1 > 1 /\ evts'[i] = evts[i + 1]
  BY <1>1, Shifted
<1>4. \A i \in Waiting' : evts'[i] \notin Completions /\ evts'[i] \notin Completes("OUT") /\ evts'[i] \notin Completes("IN")
  BY <1>3, Kinds
<1>5. Now' \in DriverStates
  BY DEF GoesOn
<1>6. CASE Refused(Now')
  <2>1. Armed(Now') /\ usb'.is_stall["OUT"] /\ stalled'
    BY <1>1, <1>6 DEF Refused, Armed
  <2>2. \A i \in Waiting' : Stale(evts[i])'
    BY <1>4, <2>1 DEF Stale
  <2>3. WhenArmed'
    BY <2>1, <2>2 DEF WhenArmed
  <2> QED
    BY <1>5, <2>3, PollKeeps
<1>7. CASE GoesOn(Now') /\ ~Refused(Now')
  <2>1. Working(Now)'
    BY <1>1, <1>7 DEF GoesOn, Working, StageKind
  <2>2. ASSUME NEW i \in Waiting' PROVE Pending(i)'
    <3>1. i \in Nat /\ i + 1 \in Waiting /\ i + 1 > 1 /\ evts'[i] = evts[i + 1]
      BY <1>3
    <3>2. OfRequest(evts[i])'
      BY <3>1, RequestsShifted
    <3>3. ASSUME evts'[i] \in AskedStatus
          PROVE  Free(Now') /\ \A j \in Waiting' : j > i => evts'[j] \notin AskedStatus /\ evts'[j] \notin Completions
      <4>1. Free(Now') /\ \A j \in Waiting : j > i + 1 => evts[j] \notin AskedStatus
        BY <1>7, <3>1, <3>3
      <4>2. ASSUME NEW j \in Waiting', j > i PROVE evts'[j] \notin AskedStatus
        <5>1. j \in Nat /\ j + 1 \in Waiting /\ evts'[j] = evts[j + 1]
          BY <1>3
        <5>2. j + 1 > i + 1
          BY <3>1, <4>2, <5>1
        <5> QED
          BY <4>1, <5>1, <5>2
      <4> QED
        BY <1>4, <4>1, <4>2
    <3>4. ~Final(evts[i])'
      BY <1>4 DEF Final
    <3> QED
      BY <1>4, <3>2, <3>3, <3>4 DEF Pending
  <2>3. usb'.queued["IN"] => KindIn(Now, "IN")' # "none"
    BY <1>1, <1>7 DEF GoesOn
  <2>4. WhenWorking'
    BY <1>1, <1>2, <1>7, <2>1, <2>2, <2>3 DEF WhenWorking
  <2> QED
    BY <1>5, <2>4, PollKeeps
<1> QED
  BY <1>6, <1>7

LEMMA ResetPolled ==
  ASSUME IInv, Poll, evts[1] = Device("RESET")
  PROVE  IInv'
<1>1. Now \in DriverStates /\ evts \in Seq(Events) /\ DataKnown(Now) /\ up = "running" /\ Shrinks(evts, evts')
  BY PollStep DEF IInv, Typed
<1>2. 1 \in Waiting /\ \A j \in Waiting : j > 1 => evts[j] \in DeviceEvents
  BY <1>1, Shifted DEF IInv, OnTheBus, ResetsLast
<1>3. ~ResetSeen
  BY <1>1, <1>2, SeenAt
<1>4. stage = "idle"
  BY <1>3 DEF IInv, OnTheBus
<1>5. Becomes(DeviceReset)
  BY PollStep
<1>6. CASE WhenArmed
  <2>1. SameWork(Now, DeviceReset)
    BY <1>1, <1>6, ResetHandled DEF WhenArmed
  <2>2. Now' = DeviceReset
    BY <1>5, <2>1 DEF Becomes, SameWork
  <2>3. Restarts(Now, Now')
    BY <1>6, <2>1, <2>2, SameWorkKeeps DEF WhenArmed, SameWork, Restarts
  <2> QED
    BY <1>2, <1>4, <2>3, ReadyAfter
<1>7. CASE WhenTaken
  <2>1. PICK k \in Waiting : evts[k] \in Completes("OUT")
    BY <1>7 DEF WhenTaken, SetupWaits
  <2>2. k # 1 /\ k \in Nat /\ k >= 1
    BY <1>1, <2>1, Kinds, Shifted
  <2>3. evts[k] \in DeviceEvents
    BY <1>2, <2>2
  <2> QED
    BY <2>1, <2>3, Kinds
<1>8. CASE WhenWorking
  <2>1. Restarts(Now, DeviceReset)
    BY <1>1, <1>8, ResetHandled DEF WhenWorking
  <2>2. Now' = DeviceReset
    BY <1>5, <2>1 DEF Becomes, Restarts
  <2> QED
    BY <1>2, <1>4, <2>1, <2>2, ReadyAfter
<1> QED
  BY <1>1, <1>6, <1>7, <1>8 DEF IInv

(* The end of a transfer, or the SETUP.                                     *)
LEMMA CompletionPolled ==
  ASSUME IInv, Poll, OneAnswer, evts[1] \in Completions
  PROVE  IInv'
<1>1. /\ Now \in DriverStates /\ evts \in Seq(Events) /\ DataKnown(Now) /\ up = "running" /\ Shrinks(evts, evts')
      /\ usb.maxpacket = 64 /\ Now.u = usb
  BY PollStep DEF IInv, Typed, BringingUp, Now
<1>2. 1 \in Waiting /\ \A i \in Waiting : i \in Nat /\ i >= 1
  BY <1>1, Shifted
<1>3. PICK event : event = evts[1]
  OBVIOUS
<1>4. /\ event \in Completes("OUT") \/ event \in Completes("IN")
      /\ ~(event \in Completes("OUT") /\ event \in Completes("IN"))
      /\ event # Device("RESET")
  BY <1>3, Kinds
<1>5. ~WhenArmed
  BY <1>2 DEF WhenArmed, Stale
<1>6. CASE WhenTaken
  <2>1. PICK k \in Waiting : SetupWaits(k)
    BY <1>6 DEF WhenTaken
  <2>2. k = 1
    <3>1. ~(1 < k)
      BY <1>2, <2>1 DEF SetupWaits, Stale
    <3> QED
      BY <1>2, <3>1
  <2>3. event \in Completes("OUT") /\ Taken(Now) /\ setup \in Requests
    BY <1>3, <1>6, <2>1, <2>2 DEF SetupWaits, WhenTaken
  <2>4. PICK t : t = OutComplete(event)
    OBVIOUS
  <2>5. /\ t \in DriverStates /\ DataKnown(t) /\ t.u.maxpacket = 64
        /\ setup.len > 0 => Refused(t) \/ Sending(t) \/ Deciding(t)
        /\ setup.len = 0 => Deciding(t)
    BY <1>1, <2>3, <2>4, SetupTaken
  <2>6. Now' = t
    BY <1>3, <2>3, <2>4, <2>5, PollStep DEF Becomes
  <2>7. setup.len \in Nat
    BY <2>3, SetupFields
  <2>8. Refused(t) \/ GoesOn(t)
    BY <2>5, <2>7, SendingGoesOn
  <2>9. setup.len = 0 => Free(t)
    BY <2>5 DEF Deciding, Free
  <2>10. \A i \in Waiting : i > 1 => evts[i] \notin Completions /\ OfRequest(evts[i])
    BY <2>1, <2>2 DEF SetupWaits
  <2>11. \A i \in Waiting : i > 1 /\ evts[i] \in AskedStatus =>
           Free(t) /\ \A j \in Waiting : j > i => evts[j] \notin AskedStatus
    BY <2>1, <2>2, <2>9 DEF SetupWaits
  <2>12. (stage = "data" => setup.len > 0) /\ (stage = "idle" => ~ResetSeen) /\ (stage = "status" => Free(t))
    BY <1>6, <2>9 DEF WhenTaken
  <2> QED
    BY <1>3, <1>4, <2>3, <2>5, <2>6, <2>8, <2>10, <2>11, <2>12, RequestDecided
<1>7. CASE WhenWorking
  <2>1. Pending(1) /\ Working(Now) /\ setup \in Requests
    BY <1>2, <1>7 DEF WhenWorking
  <2>2. /\ Free(Now) /\ (event \in Completes("OUT") => usb.xfer_len["OUT"] = 0)
        /\ (event \in Completes("IN") /\ event.trbsts = 2 => usb.xfer_len["IN"] # 0)
        /\ (Final(event) => stage = "idle" /\ \A j \in Waiting : j > 1 => evts[j] \in DeviceEvents)
        /\ event \notin AskedStatus
    BY <1>3, <2>1, Kinds DEF Pending, Final
  <2>3. CASE event \in Completes("OUT")
    <3>1. Final(event)
      BY <2>3 DEF Final
    <3>2. ~usb.queued["IN"]
      <4>1. \A i \in Waiting : evts[i] \notin Completes("IN")
        BY <1>2, <1>3, <1>4, <2>2, <2>3, <3>1, Kinds
      <4> QED
        BY <1>7, <2>2, <4>1 DEF WhenWorking, Free
    <3>3. Restarts(Now, OutComplete(event))
      BY <1>1, <2>1, <2>2, <2>3, <3>2, OutCompleted
    <3>4. Restarts(Now, Now')
      BY <1>3, <2>3, <3>3, PollStep DEF Becomes, Restarts
    <3> QED
      BY <2>2, <3>1, <3>4, ReadyAfter
  <2>4. CASE event \in Completes("IN") /\ (event.trbsts = 2 \/ usb.xfer_len["IN"] = 0)
    <3>1. Final(event)
      BY <2>4 DEF Final
    <3>2. Restarts(Now, InComplete(event))
      BY <1>1, <2>1, <2>2, <2>4, InCompleted
    <3>3. Restarts(Now, Now')
      BY <1>3, <2>4, <3>2, PollStep DEF Becomes, Restarts
    <3> QED
      BY <2>2, <3>1, <3>3, ReadyAfter
  <2>5. CASE event \in Completes("IN") /\ ~(event.trbsts = 2 \/ usb.xfer_len["IN"] = 0)
    <3>1. PICK t : t = InComplete(event)
      OBVIOUS
    <3>2. Sent(Now, t)
      BY <1>1, <2>1, <2>2, <2>5, <3>1, InCompleted
    <3>3. Now' = t
      BY <1>3, <2>5, <3>1, <3>2, PollStep DEF Becomes, Sent
    <3>4. /\ t \in DriverStates /\ DataKnown(t) /\ t.u.maxpacket = 64 /\ Free(t) /\ ~t.u.queued["IN"] /\ GoesOn(t)
          /\ t.u.xfer_len = usb.xfer_len
      BY <1>1, <3>2, SendingGoesOn DEF Sent, Deciding, Free
    <3>5. /\ stage' = stage /\ raised' = raised /\ setup' = setup /\ t.u = usb' /\ t.stalled = stalled'
          /\ usb'.xfer_len = usb.xfer_len
      BY <3>3, <3>4, PollStep DEF Now
    <3>6. ResetSeen' <=> ResetSeen
      BY <1>1, <1>3, <1>4, SeenShifted
    <3>7. Working(Now)'
      BY <3>3, <3>4, <3>5 DEF GoesOn, Working, StageKind
    <3>8. ASSUME NEW i \in Waiting' PROVE Pending(i)'
      <4>1. PICK n \in Waiting : n = i + 1 /\ evts'[i] = evts[n] /\ n \in Nat /\ i \in Nat
        BY <1>1, Shifted
      <4>2. Pending(n)
        BY <1>7 DEF WhenWorking
      <4>3. \A j \in Waiting' : j > i => j + 1 \in Waiting /\ j + 1 > n /\ evts'[j] = evts[j + 1]
        <5> SUFFICES ASSUME NEW j \in Waiting', j > i
                     PROVE  j + 1 \in Waiting /\ j + 1 > n /\ evts'[j] = evts[j + 1]
          OBVIOUS
        <5>1. j \in Nat /\ j + 1 \in Waiting /\ evts'[j] = evts[j + 1]
          BY <1>1, Shifted
        <5>2. j + 1 > n
          BY <4>1, <5>1
        <5> QED
          BY <5>1, <5>2
      <4>4. OfRequest(evts[i])'
        BY <1>3, <1>4, <4>1, <4>2, RequestsShifted DEF Pending
      <4>5. Final(evts[i])' => stage' = "idle" /\ \A j \in Waiting' : j > i => evts'[j] \in DeviceEvents
        <5>1. Final(evts[i])' => Final(evts[n])
          BY <3>5, <4>1 DEF Final
        <5> QED
          BY <3>5, <4>2, <4>3, <5>1 DEF Pending
      <4>6. evts'[i] \in AskedStatus =>
              Free(Now)' /\ \A j \in Waiting' : j > i => evts'[j] \notin AskedStatus /\ evts'[j] \notin Completions
        BY <3>3, <3>4, <4>1, <4>2, <4>3 DEF Pending
      <4> QED
        BY <3>3, <3>4, <3>5, <4>1, <4>2, <4>4, <4>5, <4>6 DEF Pending
    <3>9. stage' = "idle" => ~ResetSeen' \/ \E i \in Waiting' : Final(evts[i])'
      <4>1. ~Final(evts[1])
        BY <1>3, <1>4, <2>5 DEF Final
      <4>2. \A i \in Waiting : Final(evts[i]) => i # 1 /\ i - 1 \in Waiting' /\ Final(evts[i - 1])'
        BY <1>1, <3>5, <4>1, Shifted DEF Final
      <4> QED
        BY <1>7, <3>5, <3>6, <4>2 DEF WhenWorking
    <3>10. WhenWorking'
      BY <1>7, <3>3, <3>4, <3>5, <3>7, <3>8, <3>9 DEF WhenWorking
    <3> QED
      BY <3>3, <3>4, <3>10, PollKeeps
  <2> QED
    BY <1>4, <2>3, <2>4, <2>5
<1> QED
  BY <1>1, <1>5, <1>6, <1>7 DEF IInv

(* A stage for which there is no transfer.                                  *)
LEMMA NotReadyPolled ==
  ASSUME IInv, Poll, OneAnswer, evts[1] \in NotReadys
  PROVE  IInv'
<1>1. /\ Now \in DriverStates /\ evts \in Seq(Events) /\ DataKnown(Now) /\ up = "running" /\ Shrinks(evts, evts')
      /\ usb.maxpacket = 64 /\ Now.u = usb
  BY PollStep DEF IInv, Typed, BringingUp, Now
<1>2. 1 \in Waiting /\ \A i \in Waiting : i \in Nat /\ i >= 1
  BY <1>1, Shifted
<1>3. PICK event : event = evts[1]
  OBVIOUS
<1>4. event \notin Completions /\ event # Device("RESET") /\ (event \in AskedData \/ event \in AskedStatus)
  BY <1>3, Kinds
<1>5. Becomes(XferNotReady(event))
  BY <1>3, PollStep
<1>6. ASSUME XferNotReady(event) = Now PROVE IInv'
  <2>1. SameWork(Now, Now')
    BY <1>1, <1>5, <1>6, SameWorkRefl DEF Becomes
  <2> QED
    BY <1>3, <1>4, <2>1, EventSkipped
<1>7. CASE WhenArmed
  <2>1. usb.EP0_State = "SETUP_QUEUED" /\ usb.is_stall["OUT"]
    BY <1>1, <1>2, <1>7 DEF WhenArmed, Armed, Stale
  <2> QED
    BY <1>6, <2>1, StallRepeated
<1>8. CASE WhenTaken
  <2>1. PICK k \in Waiting : SetupWaits(k)
    BY <1>8 DEF WhenTaken
  <2>2. k # 1
    BY <2>1, Kinds DEF SetupWaits
  <2>3. Stale(evts[1])
    BY <1>2, <2>1, <2>2 DEF SetupWaits
  <2>4. usb.EP0_State = "SETUP_QUEUED" /\ usb.is_stall["OUT"]
    BY <1>1, <1>8, <2>3 DEF WhenTaken, Taken, Stale
  <2> QED
    BY <1>6, <2>4, StallRepeated
<1>9. CASE WhenWorking
  <2>1. Pending(1) /\ Working(Now) /\ setup \in Requests
    BY <1>2, <1>9 DEF WhenWorking
  <2>2. usb.EP0_State # "SETUP_QUEUED"
    BY <1>1, <2>1 DEF Working
  <2>3. CASE event \in AskedData
    <3>1. setup.len > 0 /\ event = NotReady(setup.dir, CTRL_DATA)
      BY <1>3, <2>1, <2>3 DEF Pending, OfRequest
    <3> QED
      BY <1>6, <2>1, <2>2, <2>3, <3>1, DataAsked
  <2>4. CASE event \in AskedStatus
    <3>1. /\ Free(Now) /\ \A j \in Waiting : j > 1 => evts[j] \notin AskedStatus /\ evts[j] \notin Completions
          /\ (stage = "status" /\ raised) \/ ~ResetSeen
      BY <1>3, <2>1, <2>4 DEF Pending, OfRequest
    <3>2. \A i \in Waiting : evts[i] \notin Completions
      BY <1>2, <1>3, <1>4, <3>1
    <3>3. \A i \in Waiting : evts[i] \notin Completes("IN") /\ ~Final(evts[i])
      BY <3>2, Kinds DEF Final
    <3>4. ~usb.queued["IN"]
      BY <1>9, <3>1, <3>3 DEF WhenWorking, Free
    <3>5. Deciding(Now)
      BY <1>1, <2>1, <3>1, <3>4 DEF Deciding, Working, Free
    <3>6. PICK t : t = XferNotReady(event)
      OBVIOUS
    <3>7. t \in DriverStates /\ DataKnown(t) /\ t.u.maxpacket = 64 /\ (Refused(t) \/ GoesOn(t))
      BY <1>1, <2>1, <2>4, <3>5, <3>6, StatusAsked
    <3>8. Now' = t
      BY <1>5, <3>6, <3>7 DEF Becomes
    <3>9. \A i \in Waiting : i > 1 => evts[i] \notin Completions /\ OfRequest(evts[i]) /\ evts[i] \notin AskedStatus
      BY <1>9, <3>1 DEF WhenWorking, Pending
    <3>10. (stage = "data" => setup.len > 0) /\ (stage = "idle" => ~ResetSeen) /\ ~(stage = "status" /\ ~raised)
      BY <1>9, <3>1, <3>3 DEF WhenWorking, IInv, OnTheBus
    <3> QED
      BY <1>3, <1>4, <2>1, <3>7, <3>8, <3>9, <3>10, RequestDecided
  <2> QED
    BY <1>4, <2>3, <2>4
<1> QED
  BY <1>1, <1>7, <1>8, <1>9 DEF IInv

LEMMA PolledKeeps ==
  ASSUME IInv, Poll, OneAnswer
  PROVE  IInv'
<1>1. evts[1] \in Completions \/ evts[1] \in NotReadys \/ evts[1] \in DeviceEvents
  BY PollStep, Kinds
<1>2. ASSUME evts[1] \in DeviceEvents, evts[1] # Device("RESET") PROVE IInv'
  <2>1. SameWork(Now, Now') /\ evts[1] \notin Completions
    BY <1>2, PollStep, Kinds
  <2> QED
    BY <1>2, <2>1, EventSkipped
<1> QED
  BY <1>1, <1>2, ResetPolled, CompletionPolled, NotReadyPolled

-----------------------------------------------------------------------------
(* The bring-up.                                                            *)

LEMMA InitInv ==
  ASSUME Init
  PROVE  IInv
<1>1. usb = usb_handle
  BY DEF Init
<1>2. usb \in Handles
  <2>1. [e \in Ends |-> FALSE] \in [Ends -> BOOLEAN] /\ [e \in Ends |-> 0] \in [Ends -> Nat]
    BY Bools
  <2>2. "DEFAULT" \in DevStates /\ "IDLE" \in Ep0States /\ FALSE \in BOOLEAN /\ {} \in SUBSET Endpoint
        /\ USB_MAX_EP0_SIZE \in Nat
    BY Bools DEF DevStates, Ep0States, USB_MAX_EP0_SIZE
  <2> QED
    BY <1>1, <2>1, <2>2 DEF usb_handle, Handles
<1>3. Now \in DriverStates
  <2>1. [e \in Ends |-> 0] \in [Ends -> Nat] /\ trb = [e \in Ends |-> 0] /\ stalled \in BOOLEAN
    BY Bools DEF Init
  <2> QED
    BY <1>2, <2>1 DEF Now, DriverStates
<1>4. /\ usb.EP0_State = "RESET" /\ usb.pcd_maxpacket = 64 /\ usb.ep0_state = "IDLE"
      /\ usb.queued = [e \in Ends |-> FALSE]
  BY <1>1 DEF usb_handle, USB_MAX_EP0_SIZE
<1>5. Typed
  BY <1>3 DEF Init, Typed
<1>6. BringingUp
  BY <1>4 DEF Init, BringingUp
<1>7. OnTheBus
  BY DEF Init, OnTheBus, ResetSeen, ResetsLast, Waiting
<1>8. DataKnown(Now)
  BY <1>4 DEF DataKnown, Now
<1> QED
  BY <1>5, <1>6, <1>7, <1>8 DEF Init, IInv

(* A step of the bring-up that leaves endpoint 0 to the driver.             *)
LEMMA BringUpKeeps ==
  ASSUME IInv, BringUp
  PROVE  IInv'
<1>1. Now \in DriverStates /\ usb \in Handles /\ trb \in [Ends -> Nat] /\ stalled \in BOOLEAN
      /\ Now = [u |-> usb, trb |-> trb, stalled |-> stalled]
  BY DEF IInv, Typed, Now, DriverStates
<1>2. /\ stalled' = stalled /\ stage' = stage /\ left' = left /\ raised' = raised /\ evts' = evts /\ setup' = setup
      /\ host' = host /\ waiting' = waiting /\ asleep' = asleep /\ up # "running"
  BY DEF BringUp, dwc3_core_init, dwc3_dev_init, register_usb_driver, usb_dwc3_start_device, wire
<1>3. evts = <<>> /\ stage = "idle" /\ host = NONE /\ ~asleep /\ usb.pcd_maxpacket = 64
  BY <1>2 DEF IInv, BringingUp
<1>4. OnTheBus'
  BY <1>2 DEF IInv, OnTheBus, ResetSeen, ResetsLast, Waiting
<1>5. CASE dwc3_core_init \/ (dwc3_dev_init /\ Panic)
  <2>1. usb' = usb /\ trb' = trb /\ Now' = Now /\ up' \in {"core", "panic"} /\ up \in {"off", "core"}
    BY <1>2, <1>5 DEF dwc3_core_init, dwc3_dev_init, Panic, Now
  <2>2. Typed' /\ BringingUp' /\ DataKnown(Now)'
    BY <1>2, <2>1 DEF IInv, Typed, BringingUp
  <2> QED
    BY <1>4, <2>1, <2>2 DEF IInv
<1>6. CASE dwc3_dev_init /\ ~Panic
  <2> DEFINE ctrl(is_in) == dwc3_ep_configure(0, is_in, USBD_EP_TYPE.CTRL, usb.pcd_maxpacket, DEPCFG_ACTION.INIT)
  <2>1. PICK out : out = With(usb.eps, ctrl(FALSE))
    OBVIOUS
  <2>2. PICK eps : eps = With(out, ctrl(TRUE))
    OBVIOUS
  <2>3. usb.eps \in SUBSET Endpoint /\ usb.pcd_maxpacket \in Nat /\ USBD_EP_TYPE.CTRL \in Nat /\ 0 \in Nat
    BY <1>1 DEF Handles, USBD_EP_TYPE
  <2>4. out \in SUBSET Endpoint
    BY <2>1, <2>3, EndpointConfigured, Bools
  <2>5. eps \in SUBSET Endpoint
    BY <2>2, <2>3, <2>4, EndpointConfigured, Bools
  <2>6. PICK v : v = [usb EXCEPT !.eps = eps]
    OBVIOUS
  <2>7. v \in Handles
    BY <1>1, <2>5, <2>6 DEF Handles
  <2>8. /\ v.EP0_State = usb.EP0_State /\ v.is_stall = usb.is_stall /\ v.queued = usb.queued /\ v.xfer_len = usb.xfer_len
        /\ v.maxpacket = usb.maxpacket /\ v.ep0_state = usb.ep0_state /\ v.total = usb.total /\ v.rem = usb.rem
        /\ v.pcd_maxpacket = usb.pcd_maxpacket
    BY <1>1, <2>6 DEF Handles
  <2>9. PICK s : s = [Now EXCEPT !.u = v]
    OBVIOUS
  <2>10. s \in DriverStates /\ s.u = v /\ s.trb = trb /\ s.stalled = stalled
    BY <1>1, <2>7, <2>9 DEF DriverStates
  <2>11. PICK t : t = usb_dwc3_ep0_out_start(s)
    OBVIOUS
  <2>12. s = [Now EXCEPT !.u.eps = With(With(usb.eps, ctrl(FALSE)), ctrl(TRUE))]
    BY <1>1, <2>1, <2>2, <2>6, <2>9
  <2>13. up = "core" /\ up' = "device" /\ usb' = t.u /\ trb' = t.trb
    BY <1>6, <2>11, <2>12 DEF dwc3_dev_init
  <2>14. trb["OUT"] = 0 /\ trb["IN"] = 0 /\ ~usb.queued["IN"] /\ ~stalled
    BY <2>13 DEF IInv, BringingUp, Ends
  <2>15. KindIn(s, "OUT") = "none" /\ KindIn(s, "IN") = "none"
    BY <2>10, <2>14, TrbKinds DEF KindIn
  <2>16. Readies(s, t)
    BY <2>10, <2>11, <2>15, OutStarted
  <2>17. t \in DriverStates /\ t.stalled = stalled /\ t.u.pcd_maxpacket = 64
    BY <1>3, <2>8, <2>10, <2>16 DEF Readies, SameDevice
  <2>18. Armed(t)
    BY <2>8, <2>10, <2>14, <2>15, <2>16 DEF Readies, Armed, SameEnd, KindIn
  <2>19. Now' = t
    BY <1>2, <2>13, <2>17 DEF Now, DriverStates
  <2>20. DataKnown(t)
    BY <1>1, <2>8, <2>10, <2>16 DEF Readies, SameEnd, SameData, DataKnown, IInv
  <2>21. Typed' /\ BringingUp'
    BY <1>2, <1>3, <2>13, <2>17, <2>18, <2>19 DEF IInv, Typed, BringingUp
  <2> QED
    BY <1>4, <2>13, <2>19, <2>20, <2>21 DEF IInv
<1>7. CASE register_usb_driver
  <2>1. PICK v : v = [usb EXCEPT !.dev_state = "DEFAULT", !.ep0_state = "IDLE", !.maxpacket = usb.pcd_maxpacket]
    OBVIOUS
  <2>2. v \in Handles /\ v.ep0_state = "IDLE" /\ v.maxpacket = 64 /\ v.pcd_maxpacket = 64
    BY <1>1, <1>3, <2>1 DEF Handles, DevStates, Ep0States
  <2>3. v.EP0_State = usb.EP0_State /\ v.queued = usb.queued
    BY <1>1, <2>1 DEF Handles
  <2>4. up = "device" /\ up' = "ready" /\ usb' = v /\ trb' = trb
    BY <1>7, <2>1 DEF register_usb_driver
  <2>5. Now' = [u |-> v, trb |-> trb, stalled |-> stalled]
    BY <1>2, <2>4 DEF Now
  <2>6. Now' \in DriverStates /\ DataKnown(Now') /\ Now'.u = v /\ Now'.trb = trb
    BY <1>1, <2>2, <2>5 DEF DriverStates, DataKnown
  <2>7. Armed(Now')
    BY <1>1, <2>3, <2>4, <2>6 DEF IInv, BringingUp, Armed, KindIn
  <2>8. Typed' /\ BringingUp'
    BY <1>2, <1>3, <2>2, <2>4, <2>6, <2>7 DEF IInv, Typed, BringingUp
  <2> QED
    BY <1>4, <2>4, <2>6, <2>8 DEF IInv
<1>8. CASE usb_dwc3_start_device
  <2>1. up = "ready" /\ up' = "running"
    BY <1>8 DEF usb_dwc3_start_device
  <2>2. Armed(Now) /\ usb.maxpacket = 64
    BY <2>1 DEF IInv, BringingUp
  <2>3. usb' = usb /\ trb' = trb
    BY <1>1, <1>8, <2>2 DEF usb_dwc3_start_device, Armed
  <2>4. Now' = Now
    BY <1>2, <2>3 DEF Now
  <2>5. WhenArmed'
    BY <1>2, <1>3, <2>2, <2>4 DEF WhenArmed, Waiting
  <2>6. Typed' /\ BringingUp' /\ DataKnown(Now)'
    BY <1>2, <2>1, <2>2, <2>3, <2>4 DEF IInv, Typed, BringingUp
  <2> QED
    BY <1>4, <2>5, <2>6 DEF IInv
<1> QED
  BY <1>5, <1>6, <1>7, <1>8 DEF BringUp

-----------------------------------------------------------------------------
(* Every step.                                                              *)

LEMMA StepInv ==
  ASSUME IInv, OneAnswer, [Next]_vars
  PROVE  IInv'
<1>1. CASE UNCHANGED vars
  <2>1. Now' = Now
    BY <1>1 DEF vars, Now
  <2>2. /\ up' = up /\ usb' = usb /\ trb' = trb /\ stalled' = stalled /\ stage' = stage /\ left' = left
        /\ raised' = raised /\ evts' = evts /\ setup' = setup /\ host' = host /\ waiting' = waiting /\ asleep' = asleep
    BY <1>1 DEF vars, wire
  <2>3. ResetSeen' <=> ResetSeen
    BY <2>2 DEF ResetSeen
  <2>4. Grows(evts, evts', DeviceEvents)
    BY <2>2, GrowsNot DEF IInv, Typed
  <2>5. up = "running" => WhenArmed' \/ WhenTaken' \/ WhenWorking'
    BY <2>2, <2>3, <2>4, DeviceEventsAdded
  <2>6. Typed' /\ BringingUp' /\ DataKnown(Now)'
    BY <2>1, <2>2 DEF IInv, Typed, BringingUp
  <2>7. OnTheBus'
    BY <2>2, <2>3 DEF IInv, OnTheBus, ResetsLast, Waiting
  <2> QED
    BY <2>2, <2>5, <2>6, <2>7 DEF IInv
<1>2. CASE Controller
  BY <1>2, TakeSetupKeeps, SetupPendingKeeps, MovesKeeps, EndsKeeps, ReportsKeeps, StallsKeeps DEF Controller
<1>3. CASE \E r \in Requests : HostAsks(r) \/ HostAbandons(r)
  BY <1>3, HostAsksKeeps
<1>4. CASE BringUp
  BY <1>4, BringUpKeeps
<1>5. CASE Poll
  BY <1>5, PolledKeeps
<1>6. CASE BusReset \/ LinkEvent \/ BusResume
  BY <1>6, BusResetKeeps, LinkEventKeeps
<1> QED
  BY <1>1, <1>2, <1>3, <1>4, <1>5, <1>6 DEF Next

(* Every state the driver reaches is one the invariant describes.           *)
THEOREM InvariantHolds ==
  ASSUME OneAnswer
  PROVE  Spec => []IInv
<1>1. Init => IInv
  BY InitInv
<1>2. IInv /\ [Next]_vars => IInv'
  BY StepInv
<1> QED
  BY <1>1, <1>2, PTL DEF Spec

(* TypeOK, from the controls of the TRBs, which only ever hold a transfer   *)
(* of their own direction, to the words of the event buffer.                *)
THEOREM TypeCorrect ==
  ASSUME OneAnswer
  PROVE  Spec => []TypeOK
<1>1. IInv => TypeOK
  <2> SUFFICES ASSUME IInv PROVE TypeOK
    OBVIOUS
  <2>1. usb \in Handles /\ trb \in [Ends -> Nat] /\ Typed
    BY DEF IInv, Typed, Now, DriverStates
  <2>2. Kind("OUT") = KindIn(Now, "OUT") /\ Kind("IN") = KindIn(Now, "IN")
    BY DEF Kind, KindIn, Now
  <2>3. up \in {"off", "core", "panic"} => KindIn(Now, "OUT") = "none" /\ KindIn(Now, "IN") = "none"
    BY TrbKinds DEF IInv, BringingUp, KindIn, Now, Ends
  <2>4. up \in {"device", "ready"} => KindIn(Now, "OUT") = "setup" /\ KindIn(Now, "IN") = "none"
    BY DEF IInv, BringingUp, Armed
  <2>5. up = "running" => /\ KindIn(Now, "OUT") \in {"none", "setup", "status3"}
                          /\ KindIn(Now, "IN") \in {"none", "data", "status2", "status3"}
    BY DEF IInv, WhenArmed, WhenTaken, WhenWorking, Armed, Taken, Working
  <2>6. usb.EP0_State \in {"RESET", "SETUP_QUEUED", "SETUP_COMPLETED"} /\ usb.dev_state \in DevStates
        /\ usb.ep0_state \in Ep0States
    BY <2>1 DEF Handles
  <2>7. evts \in Seq([word : Nat, trbsts : {0, 2}])
    <3>1. Events \subseteq [word : Nat, trbsts : {0, 2}]
      <4> SUFFICES ASSUME NEW ev \in Events PROVE ev \in [word : Nat, trbsts : {0, 2}]
        OBVIOUS
      <4> QED
        BY Kinds, EventKinds DEF Ends
    <3>2. evts \in Seq(Events)
      BY <2>1 DEF Typed
    <3>3. PICK words : words = [word : Nat, trbsts : {0, 2}]
      OBVIOUS
    <3>4. Events \subseteq words
      BY <3>1, <3>3
    <3>5. PICK n \in Nat : evts \in [1 .. n -> Events]
      BY <3>2, SeqDef
    <3>6. evts \in [1 .. n -> words]
      BY <3>4, <3>5
    <3>7. evts \in Seq(words)
      BY <3>6, SeqDef
    <3> QED
      BY <3>3, <3>7
  <2> QED
    BY <2>1, <2>2, <2>3, <2>4, <2>5, <2>6, <2>7 DEF Typed, TypeOK
<1>2. Spec => []IInv
  BY InvariantHolds
<1> QED
  BY <1>1, <1>2, PTL

(* When nothing is under way endpoint 0 takes the next SETUP, whatever      *)
(* request, refusal, abandoned request or reset was last.                   *)
THEOREM Ready ==
  ASSUME OneAnswer
  PROVE  Spec => []ReadyForSetup
<1>1. IInv => ReadyForSetup
  <2> SUFFICES ASSUME IInv, up = "running", evts = <<>>, stage = "idle"
               PROVE  /\ Kind("OUT") = "setup" /\ Kind("IN") = "none"
                      /\ usb.EP0_State = "SETUP_QUEUED" /\ ~usb.queued["IN"]
    BY DEF ReadyForSetup
  <2>1. ResetSeen /\ Waiting = {}
    BY DEF ResetSeen, Waiting
  <2>2. WhenArmed
    BY <2>1 DEF IInv, WhenTaken, WhenWorking
  <2> QED
    BY <2>2 DEF WhenArmed, Armed, Kind, KindIn, Now
<1>2. Spec => []IInv
  BY InvariantHolds
<1> QED
  BY <1>1, <1>2, PTL

-----------------------------------------------------------------------------
(* ControlPipe: what the request in memory, the events and the endpoints    *)
(* have to do with each other, beside IInv.                                 *)

ControlEnd(addr) == [addr |-> addr, type |-> USBD_EP_TYPE.CTRL, maxpacket |-> USB_MAX_EP0_SIZE]
BulkEnd(addr) == [addr |-> addr, type |-> USBD_EP_TYPE.BULK, maxpacket |-> MSC_MPS_HS]
Bulks == {BulkEnd(MSC_EP_IN), BulkEnd(MSC_EP_OUT)}

\* The endpoints that are open, and the state the device is in when the bus
\* is not suspended.
Awake(s) == IF s.u.dev_state = "SUSPENDED" THEN s.u.dev_old_state ELSE s.u.dev_state
EndsKnown(s) ==
  /\ s.u.eps \subseteq {ControlEnd(0), ControlEnd(EP_DIR_IN)} \cup Bulks
  /\ s.u.pcd_maxpacket = USB_MAX_EP0_SIZE
  /\ Awake(s) # "SUSPENDED"
  /\ Awake(s) = "CONFIGURED" => Bulks \subseteq s.u.eps

\* The request the host waits for is the one in memory, or still to be stored.
HostKnown ==
  /\ host \in Requests \cup {NONE}
  /\ host # NONE => ~asleep
  /\ waiting # NONE => waiting = host
  /\ host # NONE /\ waiting = NONE => setup = host /\ stage # "idle"
  /\ stage # "idle" => host # NONE

\* Whether the request in memory is decided.
ServedKnown ==
  /\ up # "running" => served = "OK" /\ usb.dev_state = "DEFAULT"
  /\ Armed(Now) => served \in {"OK", "STALL"} /\ (stage # "idle" => served = "STALL")
  /\ Taken(Now) => served = "no"
  /\ Working(Now) => served \in {"no", "OK"}
  /\ Working(Now) /\ served = "no" =>
       setup.len = 0 /\ Deciding(Now) /\ \A i \in Waiting : evts[i] \notin Completions
  /\ Working(Now) /\ served = "OK" /\ setup.len = 0 =>
       (stage = "status" => raised) /\ \A i \in Waiting : evts[i] \notin AskedStatus

\* How many bytes the host has.
LeftKnown ==
  /\ stage = "data" => left = setup.len
  /\ stage = "status" => setup.len - left = Pipe!Owed(setup) /\ (setup.len > 0 => served = "OK")
  /\ KindIn(Now, "IN") = "data" /\ ResetSeen =>
       stage = "data" /\ usb.xfer_len["IN"] = Pipe!Owed(setup) /\ usb.xfer_len["IN"] < 64

\* The events wait in an order in which the core is never suspended twice,
\* nor asked of a request while it is suspended: naps are the places behind
\* which it is.
Turning == {Device(what) : what \in {"EOPF", "WAKEUP", "RESET", "DISCONNECT"}}
Turns(ev, before, after) ==
  /\ ev = Device("EOPF") => ~before /\ after
  /\ ev = Device("WAKEUP") => before /\ ~after
  /\ ev \in {Device("RESET"), Device("DISCONNECT")} => ~after
  /\ ev \notin Turning => (after <=> before)
  /\ ev \notin DeviceEvents => ~before
Naps(q, from, to) ==
  \E naps \in SUBSET (0 .. Len(q)) :
    /\ 0 \in naps <=> from
    /\ Len(q) \in naps <=> to
    /\ \A i \in 1 .. Len(q) : Turns(q[i], i - 1 \in naps, i \in naps)

\* The device is unplugged before a reset only, and nothing else means it.
Unplugged ==
  /\ \A i \in Waiting : evts[i] = Device("DISCONNECT") => i + 1 \in Waiting /\ evts[i + 1] = Device("RESET")
  /\ \A i \in Waiting : evts[i] \notin {Device("L1SUSPEND"), Device("L1WAKEUP")}

PipeInv ==
  /\ EndsKnown(Now) /\ HostKnown /\ ServedKnown /\ LeftKnown /\ Unplugged
  /\ Naps(evts, usb.dev_state = "SUSPENDED", asleep)

(* What the descriptors say of themselves, and of the endpoints.            *)
Joins(a, b, c) ==
  /\ c \in Seq(Nat) /\ Len(c) = Len(a) + Len(b)
  /\ \A i \in 1 .. Len(a) + Len(b) : c[i] = IF i <= Len(a) THEN a[i] ELSE b[i - Len(a)]

LEMMA Joined ==
  ASSUME NEW a \in Seq(Nat), NEW b \in Seq(Nat), NEW c, c = a \o b
  PROVE  Joins(a, b, c)
  BY ConcatProperties DEF Joins

\* The bytes of the configuration by which a host finds its way.
LEMMA ConfigBytes ==
  LET d == msc_config_desc
  IN /\ d[1] = 9 /\ d[2] = 2 /\ d[3] = 32 /\ d[4] = 0 /\ d[10] = 9 /\ d[14] = 2
     /\ d[21] = 129 /\ d[22] = 2 /\ d[23] = 0 /\ d[24] = 2
     /\ d[28] = 1 /\ d[29] = 2 /\ d[30] = 0 /\ d[31] = 2
<1>1. PICK a : a = <<9, 2, 32, 0, 1, 1, 0, 192, 50>>
  OBVIOUS
<1>2. PICK b : b = <<9, 4, 0, 0, 2, 8, 6, 80, 0>>
  OBVIOUS
<1>3. PICK c : c = <<7, 5, 129, 2, 0, 2, 0>>
  OBVIOUS
<1>4. PICK d : d = <<7, 5, 1, 2, 0, 2, 0>>
  OBVIOUS
<1>5. /\ a \in Seq(Nat) /\ Len(a) = 9 /\ b \in Seq(Nat) /\ Len(b) = 9
      /\ c \in Seq(Nat) /\ Len(c) = 7 /\ d \in Seq(Nat) /\ Len(d) = 7
  BY <1>1, <1>2, <1>3, <1>4
<1>6. msc_config_desc = a \o b \o c \o d
  BY <1>1, <1>2, <1>3, <1>4
     DEF msc_config_desc, USB_DESC_TYPE, USBD_EP_TYPE, LOBYTE, HIBYTE, MSC_MPS_HS, MSC_EP_IN, MSC_EP_OUT
<1>7. PICK ab : ab = a \o b
  OBVIOUS
<1>8. Joins(a, b, ab)
  BY <1>5, <1>7, Joined
<1>9. ab \in Seq(Nat) /\ Len(ab) = 18 /\ \A i \in 1 .. 18 : ab[i] = IF i <= 9 THEN a[i] ELSE b[i - 9]
  BY <1>5, <1>8 DEF Joins
<1>10. PICK abc : abc = ab \o c
  OBVIOUS
<1>11. Joins(ab, c, abc)
  BY <1>5, <1>9, <1>10, Joined
<1>12. abc \in Seq(Nat) /\ Len(abc) = 25 /\ \A i \in 1 .. 25 : abc[i] = IF i <= 18 THEN ab[i] ELSE c[i - 18]
  BY <1>5, <1>9, <1>11 DEF Joins
<1>13. PICK all : all = abc \o d
  OBVIOUS
<1>14. Joins(abc, d, all)
  BY <1>5, <1>12, <1>13, Joined
<1>15. \A i \in 1 .. 32 : all[i] = IF i <= 25 THEN abc[i] ELSE d[i - 25]
  <2>1. Len(abc) = 25 /\ Len(d) = 7 /\ 25 + 7 = 32
    BY <1>5, <1>12
  <2> QED
    BY <1>14, <2>1 DEF Joins
<1>16. msc_config_desc = all
  BY <1>6, <1>7, <1>10, <1>13
<1>17. a[1] = 9 /\ a[2] = 2 /\ a[3] = 32 /\ a[4] = 0 /\ b[1] = 9 /\ b[5] = 2
  BY <1>1, <1>2
<1>18. c[3] = 129 /\ c[4] = 2 /\ c[5] = 0 /\ c[6] = 2 /\ d[3] = 1 /\ d[4] = 2 /\ d[5] = 0 /\ d[6] = 2
  BY <1>3, <1>4
<1>19. all[1] = 9 /\ all[2] = 2 /\ all[3] = 32 /\ all[4] = 0 /\ all[10] = 9 /\ all[14] = 2
  <2>1. ASSUME NEW i \in 1 .. 18 PROVE all[i] = ab[i]
    <3>1. i \in 1 .. 32 /\ i <= 25 /\ i \in 1 .. 25 /\ i <= 18
      OBVIOUS
    <3>2. all[i] = abc[i]
      BY <1>15, <3>1
    <3>3. abc[i] = ab[i]
      BY <1>12, <3>1
    <3> QED
      BY <3>2, <3>3
  <2>2. ab[1] = a[1] /\ ab[2] = a[2] /\ ab[3] = a[3] /\ ab[4] = a[4] /\ ab[10] = b[1] /\ ab[14] = b[5]
    BY <1>9
  <2>3. all[1] = ab[1] /\ all[2] = ab[2] /\ all[3] = ab[3] /\ all[4] = ab[4] /\ all[10] = ab[10] /\ all[14] = ab[14]
    BY <2>1
  <2> QED
    BY <1>17, <2>2, <2>3
<1>20. all[21] = 129 /\ all[22] = 2 /\ all[23] = 0 /\ all[24] = 2
  BY <1>12, <1>15, <1>18
<1>21. all[28] = 1 /\ all[29] = 2 /\ all[30] = 0 /\ all[31] = 2
  BY <1>15, <1>18
<1> QED
  BY <1>19, <1>20, <1>21, <1>16

\* A host reads the two bulk endpoints from the configuration, and nothing else.
LEMMA ToldIs == Told = Bulks
<1>1. PICK d : d = msc_config_desc
  OBVIOUS
<1>2. PICK at : at = {1 + d[1] + d[1 + d[1]] + 7 * k : k \in 0 .. d[1 + d[1] + 4] - 1}
  OBVIOUS
<1>3. at = {19 + 7 * k : k \in {0, 1}}
  BY <1>1, <1>2, ConfigBytes
<1>4. at = {19, 26}
  BY <1>3
<1>5. Told = {[addr |-> d[i + 2], type |-> d[i + 3] % 4, maxpacket |-> d[i + 4] + 256 * d[i + 5]] : i \in at}
  BY <1>1, <1>2 DEF Told
<1>6. Told = {[addr |-> d[21], type |-> d[22] % 4, maxpacket |-> d[23] + 256 * d[24]],
              [addr |-> d[28], type |-> d[29] % 4, maxpacket |-> d[30] + 256 * d[31]]}
  BY <1>4, <1>5
<1>7. Told = {[addr |-> 129, type |-> 2, maxpacket |-> 512], [addr |-> 1, type |-> 2, maxpacket |-> 512]}
  BY <1>1, <1>6, ConfigBytes
<1> QED
  BY <1>7 DEF Bulks, BulkEnd, MSC_EP_IN, MSC_EP_OUT, USBD_EP_TYPE, MSC_MPS_HS

LEMMA StringAnnounced ==
  ASSUME NEW chars \in Nat
  PROVE  Announced(msc_string_desc(chars)) = Len(msc_string_desc(chars))
<1>1. PICK n \in 2 .. 62 : n = IF chars < 30 THEN 2 + 2 * chars ELSE 62
  OBVIOUS
<1>2. PICK head : head = <<n, 3>>
  OBVIOUS
<1>3. PICK rest : rest = [i \in 1 .. n - 2 |-> 0]
  OBVIOUS
<1>4. head \in Seq(Nat) /\ Len(head) = 2 /\ head[1] = n /\ head[2] = 3
  BY <1>1, <1>2
<1>5. rest \in Seq(Nat) /\ Len(rest) = n - 2
  BY <1>1, <1>3
<1>6. msc_string_desc(chars) = head \o rest
  BY <1>1, <1>2, <1>3 DEF msc_string_desc, USB_DESC_TYPE
<1>7. Len(head \o rest) = n /\ (head \o rest)[1] = n /\ (head \o rest)[2] = 3
  <2>1. PICK both : both = head \o rest
    OBVIOUS
  <2>2. Joins(head, rest, both)
    BY <1>4, <1>5, <2>1, Joined
  <2>3. Len(both) = n /\ both[1] = head[1] /\ both[2] = head[2]
    BY <1>1, <1>4, <1>5, <2>2 DEF Joins
  <2> QED
    BY <1>4, <2>1, <2>3, Zenon
<1> QED
  BY <1>6, <1>7 DEF Announced, USB_DESC_TYPE

(* A descriptor announces as many bytes as it has.                          *)
LEMMA AnnouncedIsLength ==
  ASSUME NEW value, Descriptor(value) # <<>>
  PROVE  Announced(Descriptor(value)) = Len(Descriptor(value))
<1> DEFINE Honest(d) == Announced(d) = Len(d)
<1>1. Honest(msc_device_desc) /\ Honest(msc_lang_id_desc) /\ Honest(msc_qualifier_desc)
  BY DEF msc_device_desc, msc_lang_id_desc, msc_qualifier_desc, Announced, USB_DESC_TYPE
<1>2. Honest(msc_config_desc)
  BY ConfigBytes, ConfigLength DEF Announced, USB_DESC_TYPE
<1>3. /\ Honest(msc_desc.mfc) /\ Honest(msc_desc.product) /\ Honest(msc_desc.serial)
      /\ Honest(msc_desc.configuration) /\ Honest(msc_desc.interface) /\ Honest(msc_desc.usr)
  BY StringAnnounced DEF msc_desc
<1>4. Honest(msc_desc.lang_id) /\ Honest(msc_desc.device) /\ Honest(msc_desc.config) /\ Honest(msc_desc.device_qualifier)
  BY <1>1, <1>2 DEF msc_desc
<1>5. msc_desc.other_speed_config = <<>>
  BY DEF msc_desc
<1> HIDE DEF Honest
<1>6. Honest(StringDescriptor(LOBYTE(value)))
  BY <1>3, <1>4 DEF StringDescriptor
<1>7. Honest(Descriptor(value))
  BY <1>4, <1>5, <1>6 DEF Descriptor
<1> QED
  BY <1>7 DEF Honest

(* Configuring an endpoint of the device anew puts it in the place of itself. *)
LEMMA ControlConfigured ==
  ASSUME NEW is_in \in BOOLEAN, NEW action
  PROVE  Configured(dwc3_ep_configure(0, is_in, USBD_EP_TYPE.CTRL, 64, action)) = ControlEnd(IF is_in THEN EP_DIR_IN ELSE 0)
<1>1. PICK c : c = dwc3_ep_configure(0, is_in, USBD_EP_TYPE.CTRL, 64, action)
  OBVIOUS
<1>2. 2 ^ 11 = 2048
  OBVIOUS
<1>3. c.type = 0 /\ c.max_packet = 64 /\ c.ep_number = IF is_in THEN 1 ELSE 0
  BY <1>1, <1>2, Powers DEF dwc3_ep_configure, Cut, DEPCFG, USBD_EP_TYPE
<1> QED
  BY <1>1, <1>3, EndpointNumbers DEF Configured, ControlEnd, USBD_EP_TYPE, USB_MAX_EP0_SIZE, EP_DIR_IN

LEMMA BulkConfigured ==
  ASSUME NEW addr \in {MSC_EP_IN, MSC_EP_OUT}
  PROVE  Configured(dwc3_ep_configure(addr % 16, addr >= EP_DIR_IN, USBD_EP_TYPE.BULK, MSC_MPS_HS, DEPCFG_ACTION.INIT)) = BulkEnd(addr)
<1>1. (addr >= EP_DIR_IN) \in BOOLEAN
  OBVIOUS
<1>2. PICK is_in \in BOOLEAN : is_in = (addr >= EP_DIR_IN)
  BY <1>1, Zenon
<1>3. addr % 16 = 1
  BY DEF MSC_EP_IN, MSC_EP_OUT
<1>4. PICK c : c = dwc3_ep_configure(1, is_in, USBD_EP_TYPE.BULK, MSC_MPS_HS, DEPCFG_ACTION.INIT)
  OBVIOUS
<1>5. 2 ^ 11 = 2048
  OBVIOUS
<1>6. c.type = 2 /\ c.max_packet = 512 /\ c.ep_number = IF is_in THEN 3 ELSE 2
  BY <1>4, <1>5, Powers DEF dwc3_ep_configure, Cut, DEPCFG, USBD_EP_TYPE, MSC_MPS_HS
<1>7. PHYEPNUM_TO_EPADDR(3) = 129 /\ PHYEPNUM_TO_EPADDR(2) = 1
  BY DEF PHYEPNUM_TO_EPADDR, EP_DIR_IN
<1>8. Configured(c) = [addr |-> IF is_in THEN 129 ELSE 1, type |-> 2, maxpacket |-> 512]
  BY <1>6, <1>7 DEF Configured
<1>9. addr = IF is_in THEN 129 ELSE 1
  <2>1. is_in <=> addr >= EP_DIR_IN
    BY <1>2
  <2> QED
    BY <2>1 DEF MSC_EP_IN, MSC_EP_OUT, EP_DIR_IN
<1>10. Configured(c) = BulkEnd(addr)
  BY <1>8, <1>9 DEF BulkEnd, USBD_EP_TYPE, MSC_MPS_HS
<1> QED
  BY <1>2, <1>3, <1>4, <1>10

(* A descriptor that is there has a byte.                                   *)
LEMMA DescriptorShort ==
  ASSUME NEW value, Descriptor(value) # <<>>
  PROVE  Len(Descriptor(value)) \in 1 .. 62
<1> DEFINE Short(d) == d # <<>> => Len(d) \in 1 .. 62
<1>1. Short(msc_device_desc) /\ Short(msc_lang_id_desc) /\ Short(msc_qualifier_desc)
  BY DEF msc_device_desc, msc_lang_id_desc, msc_qualifier_desc
<1>2. Short(msc_config_desc)
  BY ConfigLength
<1>3. ASSUME NEW chars \in Nat PROVE Short(msc_string_desc(chars))
  <2>1. PICK d : d = msc_string_desc(chars)
    OBVIOUS
  <2>2. d \in Seq(Nat) /\ Len(d) \in 0 .. 62
    BY <2>1, StringLength
  <2>3. d # <<>> => Len(d) # 0
    BY <2>2, EmptySeq
  <2>4. Short(d)
    BY <2>2, <2>3
  <2> QED
    BY <2>1, <2>4
<1> HIDE DEF Short
<1>4. /\ Short(msc_desc.mfc) /\ Short(msc_desc.product) /\ Short(msc_desc.serial)
      /\ Short(msc_desc.configuration) /\ Short(msc_desc.interface) /\ Short(msc_desc.usr)
  BY <1>3 DEF msc_desc
<1>5. Short(msc_desc.lang_id) /\ Short(msc_desc.device) /\ Short(msc_desc.config) /\ Short(msc_desc.device_qualifier)
  BY <1>1, <1>2 DEF msc_desc
<1>6. msc_desc.other_speed_config = <<>>
  BY DEF msc_desc
<1>7. Short(StringDescriptor(LOBYTE(value)))
  BY <1>4, <1>5 DEF StringDescriptor
<1>8. Short(Descriptor(value))
  BY <1>5, <1>6, <1>7 DEF Descriptor
<1> QED
  BY <1>8 DEF Short

(* What ControlPipe says of each request.                                   *)
LEMMA RequestsUnderstood ==
  ASSUME NEW r \in Requests, Understood
  PROVE  /\ r.len \in Nat
         /\ r.name = "GET_DESCRIPTOR" =>
              /\ Pipe!Accepts(r) <=> Descriptor(r.arg) # <<>>
              /\ Pipe!After(r) = AwakeState
              /\ Pipe!Accepts(r) => Pipe!Owed(r) = Smaller(Len(Descriptor(r.arg)), r.len)
         /\ r.name = "SET_ADDRESS" =>
              /\ Pipe!Accepts(r) <=> AwakeState = "DEFAULT"
              /\ Pipe!After(r) = (IF AwakeState = "DEFAULT" THEN "ADDRESSED" ELSE AwakeState)
         /\ r.name = "GET_STATUS" =>
              /\ Pipe!Accepts(r) <=> AwakeState # "DEFAULT"
              /\ Pipe!After(r) = AwakeState /\ Pipe!Owed(r) = 2
         /\ r.name = "SET_CONFIGURATION" =>
              /\ Pipe!Accepts(r) <=> AwakeState # "DEFAULT" /\ r.arg \in {0, 1}
              /\ Pipe!Accepts(r) => Pipe!After(r) = IF r.arg = 0 THEN "ADDRESSED" ELSE "CONFIGURED"
              /\ ~Pipe!Accepts(r) => Pipe!After(r) = AwakeState
         /\ r.name \in {"GET_MAX_LUN", "BOT_RESET"} =>
              /\ Pipe!Accepts(r) <=> AwakeState = "CONFIGURED"
              /\ Pipe!After(r) = AwakeState /\ Pipe!Owed(r) = IF r.name = "GET_MAX_LUN" THEN 1 ELSE 0
         /\ r.name \notin {"GET_DESCRIPTOR", "SET_ADDRESS", "GET_STATUS", "SET_CONFIGURATION", "GET_MAX_LUN", "BOT_RESET"} =>
              ~Pipe!Accepts(r) /\ Pipe!After(r) = AwakeState
         /\ r.name \notin {"GET_DESCRIPTOR", "GET_STATUS", "GET_MAX_LUN"} => Pipe!Owed(r) = 0
         /\ r.len = 0 => r.name \notin {"GET_DESCRIPTOR", "GET_STATUS", "GET_MAX_LUN"}
<1>1. r.len \in Nat /\ r.name \in Codes /\ r.arg \in Nat
  <2>1. r \in usb_setup_req
    BY UsbControlAssumption
  <2>2. PICK word : word = 0 .. 2 ^ 16 - 1
    OBVIOUS
  <2>3. \A n \in word : n \in Nat
    BY <2>2
  <2> QED
    BY <2>1, <2>2, <2>3 DEF usb_setup_req
<1>2. PICK descriptors : descriptors = [value \in Known |-> Announced(Descriptor(value))]
  OBVIOUS
<1>3. r.name = "GET_DESCRIPTOR" => (r.arg \in Known <=> Descriptor(r.arg) # <<>>)
  BY DEF Known
<1>4. /\ DOMAIN descriptors = Known
      /\ r.name = "GET_DESCRIPTOR" /\ Descriptor(r.arg) # <<>> => descriptors[r.arg] = Len(Descriptor(r.arg))
  <2>1. DOMAIN descriptors = Known /\ \A value \in Known : descriptors[value] = Announced(Descriptor(value))
    BY <1>2
  <2>2. Descriptor(r.arg) # <<>> => Announced(Descriptor(r.arg)) = Len(Descriptor(r.arg))
    BY AnnouncedIsLength
  <2> QED
    BY <1>3, <2>1, <2>2
<1>5. r.len = 0 => r.name \notin {"GET_DESCRIPTOR", "GET_STATUS", "GET_MAX_LUN"}
  BY DEF Understood
<1>6. r.name \in {"GET_MAX_LUN", "BOT_RESET"} => r.index = 0
  BY DEF Understood
<1>7. CASE r.name = "GET_DESCRIPTOR"
  <2>1. Pipe!Accepts(r) <=> Descriptor(r.arg) # <<>>
    BY <1>2, <1>3, <1>4, <1>7 DEF Pipe!Accepts
  <2>2. Pipe!After(r) = AwakeState
    BY <1>7 DEF Pipe!After
  <2>3. Pipe!Owed(r) = IF descriptors[r.arg] < r.len THEN descriptors[r.arg] ELSE r.len
    BY <1>2, <1>7 DEF Pipe!Owed
  <2> QED
    BY <1>1, <1>4, <1>5, <1>7, <2>1, <2>2, <2>3 DEF Smaller
<1>8. CASE r.name = "SET_ADDRESS"
  <2>1. Pipe!Accepts(r) <=> AwakeState = "DEFAULT"
    BY <1>8 DEF Pipe!Accepts
  <2>2. Pipe!After(r) = (IF AwakeState = "DEFAULT" THEN "ADDRESSED" ELSE AwakeState)
    BY <1>8, <2>1 DEF Pipe!After
  <2>3. Pipe!Owed(r) = 0
    BY <1>8 DEF Pipe!Owed
  <2> QED
    BY <1>1, <1>8, <2>1, <2>2, <2>3
<1>9. CASE r.name = "GET_STATUS"
  BY <1>1, <1>5, <1>9 DEF Pipe!Accepts, Pipe!After, Pipe!Owed
<1>10. CASE r.name = "SET_CONFIGURATION"
  <2>1. Pipe!Accepts(r) <=> AwakeState # "DEFAULT" /\ r.arg \in {0, 1}
    BY <1>10 DEF Pipe!Accepts
  <2>2. /\ Pipe!Accepts(r) => Pipe!After(r) = IF r.arg = 0 THEN "ADDRESSED" ELSE "CONFIGURED"
        /\ ~Pipe!Accepts(r) => Pipe!After(r) = AwakeState
    BY <1>10 DEF Pipe!After
  <2>3. Pipe!Owed(r) = 0
    BY <1>10 DEF Pipe!Owed
  <2> QED
    BY <1>1, <1>10, <2>1, <2>2, <2>3
<1>11. CASE r.name \in {"GET_MAX_LUN", "BOT_RESET"}
  BY <1>1, <1>5, <1>6, <1>11 DEF Pipe!Accepts, Pipe!After, Pipe!Owed
<1>12. CASE r.name \notin {"GET_DESCRIPTOR", "SET_ADDRESS", "GET_STATUS", "SET_CONFIGURATION", "GET_MAX_LUN", "BOT_RESET"}
  BY <1>1, <1>12 DEF Pipe!Accepts, Pipe!After, Pipe!Owed
<1> QED
  BY <1>7, <1>8, <1>9, <1>10, <1>11, <1>12

(* An answer with data has between one byte and 62.                         *)
LEMMA OwedBytes ==
  ASSUME NEW r \in Requests, Understood
  PROVE  /\ r.len = 0 => Pipe!Owed(r) = 0
         /\ Pipe!Accepts(r) => Pipe!Owed(r) \in 0 .. 62
         /\ Pipe!Accepts(r) /\ r.len > 0 => Pipe!Owed(r) > 0
<1>1. /\ r.len \in Nat
      /\ r.len = 0 => r.name \notin {"GET_DESCRIPTOR", "GET_STATUS", "GET_MAX_LUN"}
      /\ r.name \notin {"GET_DESCRIPTOR", "GET_STATUS", "GET_MAX_LUN"} => Pipe!Owed(r) = 0
      /\ r.name = "GET_STATUS" => Pipe!Owed(r) = 2
      /\ r.name = "GET_MAX_LUN" => Pipe!Owed(r) = 1
      /\ r.name = "GET_DESCRIPTOR" /\ Pipe!Accepts(r) =>
           Descriptor(r.arg) # <<>> /\ Pipe!Owed(r) = Smaller(Len(Descriptor(r.arg)), r.len)
  BY RequestsUnderstood
<1>2. Pipe!Accepts(r) => r.name \in {"GET_DESCRIPTOR", "SET_ADDRESS", "GET_STATUS", "SET_CONFIGURATION", "GET_MAX_LUN", "BOT_RESET"}
  BY RequestsUnderstood
<1>3. r.len > 0 => r.name \notin {"SET_ADDRESS", "SET_CONFIGURATION", "BOT_RESET"}
  BY DEF Understood
<1>4. Descriptor(r.arg) # <<>> => Len(Descriptor(r.arg)) \in 1 .. 62
  BY DescriptorShort
<1>5. r.name = "GET_DESCRIPTOR" /\ Pipe!Accepts(r) =>
        Pipe!Owed(r) \in 0 .. 62 /\ (r.len > 0 => Pipe!Owed(r) > 0)
  <2>1. ASSUME r.name = "GET_DESCRIPTOR", Pipe!Accepts(r)
        PROVE  Pipe!Owed(r) \in 0 .. 62 /\ (r.len > 0 => Pipe!Owed(r) > 0)
    <3>1. PICK n \in 1 .. 62 : n = Len(Descriptor(r.arg))
      BY <1>1, <1>4, <2>1
    <3>2. Pipe!Owed(r) = IF n < r.len THEN n ELSE r.len
      BY <1>1, <2>1, <3>1 DEF Smaller
    <3>3. PICK len \in Nat : len = r.len
      BY <1>1
    <3>4. PICK owed : owed = IF n < len THEN n ELSE len
      OBVIOUS
    <3>5. owed \in 0 .. 62 /\ (len > 0 => owed > 0)
      BY <3>4
    <3> QED
      BY <3>2, <3>3, <3>4, <3>5
  <2> QED
    BY <2>1
<1> QED
  BY <1>1, <1>2, <1>3, <1>5

-----------------------------------------------------------------------------
(* What the core decides is what ControlPipe says.                          *)

\* A request is to be decided; it was, as ControlPipe says.
Asked(s) == Deciding(s) /\ EndsKnown(s) /\ s.u.dev_state = AwakeState /\ AwakeState # "SUSPENDED"
Carried(t) ==
  /\ t.u.dev_state = Pipe!After(setup) /\ t.u.dev_state # "SUSPENDED" /\ EndsKnown(t)
  /\ Pipe!Accepts(setup) => Sending(t) /\ t.u.xfer_len["IN"] = Pipe!Owed(setup)
  /\ ~Pipe!Accepts(setup) => Refused(t)

\* What leaves the device alone leaves its endpoints and its state.
LEMMA SameDeviceEnds ==
  ASSUME NEW s, NEW t, SameDevice(s, t), EndsKnown(s)
  PROVE  EndsKnown(t) /\ Awake(t) = Awake(s)
  BY DEF SameDevice, EndsKnown, Awake

\* A refusal is right where ControlPipe accepts nothing.
LEMMA RefusalCarried ==
  ASSUME NEW s, Asked(s), ~Pipe!Accepts(setup)
  PROVE  Carried(usb_core_ctl_error(s))
<1>1. PICK t : t = usb_core_ctl_error(s)
  OBVIOUS
<1>2. Deciding(s) /\ EndsKnown(s)
  BY DEF Asked
<1>3. Refuses(s, t)
  BY <1>1, <1>2, CtlError DEF Deciding
<1>4. Refused(t)
  BY <1>2, <1>3 DEF Refuses, Refused, Deciding, SameEnd, KindIn
<1>5. SameDevice(s, t) /\ t.u.dev_state = s.u.dev_state
  BY <1>3 DEF Refuses, SameDevice
<1>6. Pipe!After(setup) = AwakeState
  BY DEF Pipe!After
<1>7. EndsKnown(t)
  BY <1>2, <1>5, SameDeviceEnds
<1>8. Carried(t)
  BY <1>4, <1>5, <1>6, <1>7 DEF Carried, Asked
<1> QED
  BY <1>1, <1>8

LEMMA AnswerSent ==
  ASSUME NEW s, Deciding(s), EndsKnown(s), NEW len \in Nat, NEW t, t = usb_core_transmit_ep0(s, len)
  PROVE  t \in DriverStates /\ Sending(t) /\ t.u.xfer_len["IN"] = len /\ EndsKnown(t) /\ SameDevice(s, t)
<1>1. Transmits(s, t, len)
  BY Transmitted DEF Deciding
<1>2. SameDevice(s, t) /\ t \in DriverStates
  BY <1>1 DEF Transmits
<1>3. KindIn(t, "OUT") = "none"
  BY <1>1 DEF Transmits, Deciding, SameEnd, KindIn
<1>4. Sending(t)
  BY <1>1, <1>3 DEF Transmits, Deciding, Sending
<1> QED
  BY <1>1, <1>2, <1>4, SameDeviceEnds DEF Transmits

\* So is an answer of as many bytes as ControlPipe owes.
LEMMA AnswerCarried ==
  ASSUME NEW s, Deciding(s), EndsKnown(s), Pipe!Accepts(setup), NEW len \in Nat, len = Pipe!Owed(setup),
         s.u.dev_state = Pipe!After(setup), s.u.dev_state # "SUSPENDED"
  PROVE  Carried(usb_core_transmit_ep0(s, len))
<1>1. PICK t : t = usb_core_transmit_ep0(s, len)
  OBVIOUS
<1>2. Sending(t) /\ t.u.xfer_len["IN"] = len /\ EndsKnown(t) /\ SameDevice(s, t)
  BY <1>1, AnswerSent
<1>3. Carried(t)
  BY <1>2 DEF Carried, SameDevice
<1> QED
  BY <1>1, <1>3

\* The requests one by one.
LEMMA SetAddressCarried ==
  ASSUME NEW s, Asked(s), setup \in Requests, Understood, setup.name = "SET_ADDRESS"
  PROVE  Carried(usb_core_set_address(s))
<1>1. /\ Pipe!Accepts(setup) <=> AwakeState = "DEFAULT"
      /\ Pipe!After(setup) = (IF AwakeState = "DEFAULT" THEN "ADDRESSED" ELSE AwakeState)
      /\ Pipe!Owed(setup) = 0
  BY RequestsUnderstood
<1>2. setup.len = 0 /\ setup.index = 0 /\ setup.arg \in 1 .. 127
  BY DEF Understood
<1>3. s.u.dev_state = AwakeState
  BY DEF Asked
<1>4. CASE AwakeState # "DEFAULT"
  <2>1. usb_core_set_address(s) = usb_core_ctl_error(s)
    BY <1>3, <1>4 DEF usb_core_set_address
  <2> QED
    BY <1>1, <1>4, <2>1, RefusalCarried
<1>5. CASE AwakeState = "DEFAULT"
  <2>1. s \in DriverStates /\ s.u \in Handles /\ EndsKnown(s) /\ Deciding(s)
    BY DEF Asked, Deciding, DriverStates
  <2>2. PICK dev_addr \in 1 .. 127 : dev_addr = setup.arg % 128
    BY <1>2
  <2>3. PICK v : v = [s.u EXCEPT !.address = dev_addr]
    OBVIOUS
  <2>4. v \in Handles
    BY <2>1, <2>3 DEF Handles
  <2>5. PICK r : r = [s EXCEPT !.u.address = dev_addr]
    OBVIOUS
  <2>6. r.u = v /\ r = [s EXCEPT !.u = v]
    BY <2>1, <2>3, <2>5 DEF DriverStates
  <2>7. Alters(s, r)
    <3>1. /\ v.EP0_State = s.u.EP0_State /\ v.is_stall = s.u.is_stall /\ v.queued = s.u.queued
          /\ v.xfer_len = s.u.xfer_len /\ v.maxpacket = s.u.maxpacket /\ v.pcd_maxpacket = s.u.pcd_maxpacket
      BY <2>1, <2>3 DEF Handles
    <3> QED
      BY <2>1, <2>4, <2>6, <3>1, Altered
  <2>8. Deciding(r)
    BY <2>1, <2>7, AltersDeciding
  <2>9. v.dev_state = s.u.dev_state /\ v.dev_old_state = s.u.dev_old_state /\ v.eps = s.u.eps /\ v.pcd_maxpacket = s.u.pcd_maxpacket
    BY <2>1, <2>3 DEF Handles
  <2>10. EndsKnown(r)
    BY <2>1, <2>6, <2>9 DEF EndsKnown, Awake
  <2>11. PICK t : t = usb_core_transmit_ep0(r, 0)
    OBVIOUS
  <2>12. t \in DriverStates /\ Sending(t) /\ t.u.xfer_len["IN"] = 0 /\ EndsKnown(t)
    BY <2>8, <2>10, <2>11, AnswerSent
  <2>13. PICK w : w = [t.u EXCEPT !.dev_state = "ADDRESSED"]
    OBVIOUS
  <2>14. PICK x : x = [t EXCEPT !.u.dev_state = "ADDRESSED"]
    OBVIOUS
  <2>15. /\ x.u = w /\ x.trb = t.trb /\ x.stalled = t.stalled
         /\ w.dev_state = "ADDRESSED" /\ w.eps = t.u.eps /\ w.pcd_maxpacket = t.u.pcd_maxpacket
         /\ w.EP0_State = t.u.EP0_State /\ w.is_stall = t.u.is_stall /\ w.queued = t.u.queued /\ w.xfer_len = t.u.xfer_len
    <3>1. t.u \in Handles
      BY <2>12 DEF DriverStates
    <3> QED
      BY <2>12, <2>13, <2>14, <3>1 DEF DriverStates, Handles
  <2>16. Sending(x) /\ x.u.xfer_len["IN"] = 0
    BY <2>12, <2>15 DEF Sending, KindIn
  <2>17. EndsKnown(x)
    BY <2>12, <2>15 DEF EndsKnown, Awake
  <2>18. usb_core_set_address(s) = x
    <3>1. dev_addr # 0 /\ usb_dwc3_set_address(s, dev_addr) = r
      BY <2>2, <2>5 DEF usb_dwc3_set_address
    <3> QED
      BY <1>2, <1>3, <1>5, <2>2, <2>11, <2>14, <3>1 DEF usb_core_set_address
  <2>19. Carried(x)
    BY <1>1, <1>5, <2>15, <2>16, <2>17 DEF Carried
  <2> QED
    BY <2>18, <2>19
<1> QED
  BY <1>4, <1>5

LEMMA GetDescCarried ==
  ASSUME NEW s, Asked(s), setup \in Requests, Understood, setup.name = "GET_DESCRIPTOR"
  PROVE  Carried(usb_core_get_desc(s))
<1>1. /\ Pipe!Accepts(setup) <=> Descriptor(setup.arg) # <<>>
      /\ Pipe!After(setup) = AwakeState
      /\ Pipe!Accepts(setup) => Pipe!Owed(setup) = Smaller(Len(Descriptor(setup.arg)), setup.len)
  BY RequestsUnderstood
<1>2. setup.len > 0
  BY DEF Understood
<1>3. CASE Descriptor(setup.arg) = <<>>
  <2>1. usb_core_get_desc(s) = usb_core_ctl_error(s)
    BY <1>3 DEF usb_core_get_desc
  <2> QED
    BY <1>1, <1>3, <2>1, RefusalCarried
<1>4. CASE Descriptor(setup.arg) # <<>>
  <2>1. PICK len \in 0 .. 62 : len = Pipe!Owed(setup)
    BY <1>1, <1>4, OwedBytes
  <2>2. usb_core_get_desc(s) = usb_core_transmit_ep0(s, len)
    BY <1>1, <1>2, <1>4, <2>1 DEF usb_core_get_desc
  <2>3. Deciding(s) /\ EndsKnown(s)
    BY DEF Asked
  <2>4. s.u.dev_state = Pipe!After(setup) /\ s.u.dev_state # "SUSPENDED"
    BY <1>1 DEF Asked
  <2>5. Pipe!Accepts(setup)
    BY <1>1, <1>4
  <2>6. len \in Nat
    OBVIOUS
  <2>7. Carried(usb_core_transmit_ep0(s, len))
    BY <2>1, <2>3, <2>4, <2>5, <2>6, AnswerCarried
  <2> QED
    BY <2>2, <2>7
<1> QED
  BY <1>3, <1>4

LEMMA GetStatusCarried ==
  ASSUME NEW s, Asked(s), s \in DriverStates, setup \in Requests, Understood, setup.name = "GET_STATUS"
  PROVE  Carried(usb_core_get_status(s))
<1>1. /\ Pipe!Accepts(setup) <=> AwakeState # "DEFAULT"
      /\ Pipe!After(setup) = AwakeState /\ Pipe!Owed(setup) = 2
  BY RequestsUnderstood
<1>2. s.u.dev_state = AwakeState /\ s.u.dev_state \in DevStates /\ AwakeState # "SUSPENDED"
  BY DEF Asked, DriverStates, Handles
<1>3. CASE AwakeState = "DEFAULT"
  <2>1. usb_core_get_status(s) = usb_core_ctl_error(s)
    BY <1>2, <1>3 DEF usb_core_get_status
  <2> QED
    BY <1>1, <1>3, <2>1, RefusalCarried
<1>4. CASE AwakeState # "DEFAULT"
  <2>1. usb_core_get_status(s) = usb_core_transmit_ep0(s, 2)
    BY <1>2, <1>4 DEF usb_core_get_status, DevStates
  <2> QED
    BY <1>1, <1>2, <1>4, <2>1, AnswerCarried DEF Asked
<1> QED
  BY <1>3, <1>4

(* A configured device has the endpoints its descriptor tells of.           *)
LEMMA BulksOpened ==
  ASSUME NEW eps, eps \subseteq {ControlEnd(0), ControlEnd(EP_DIR_IN)} \cup Bulks, NEW addr \in {MSC_EP_IN, MSC_EP_OUT},
         NEW r, r = usb_dwc3_ep_open(eps, addr, USBD_EP_TYPE.BULK, MSC_MPS_HS)
  PROVE  /\ r \subseteq {ControlEnd(0), ControlEnd(EP_DIR_IN)} \cup Bulks
         /\ BulkEnd(addr) \in r
         /\ \A b \in Bulks : b \in eps => b \in r
<1>1. PICK c : c = dwc3_ep_configure(addr % 16, addr >= EP_DIR_IN, USBD_EP_TYPE.BULK, MSC_MPS_HS, DEPCFG_ACTION.INIT)
  OBVIOUS
<1>2. Configured(c) = BulkEnd(addr)
  BY <1>1, BulkConfigured
<1>3. r = {ep \in eps : ep.addr # addr} \cup {BulkEnd(addr)}
  BY <1>1, <1>2 DEF usb_dwc3_ep_open, With, BulkEnd
<1>4. BulkEnd(addr) \in Bulks
  BY DEF Bulks
<1>5. ASSUME NEW b \in Bulks, b \in eps PROVE b \in r
  <2>1. b = BulkEnd(addr) \/ b.addr # addr
    BY <1>5 DEF Bulks, BulkEnd, MSC_EP_IN, MSC_EP_OUT
  <2> QED
    BY <1>3, <1>5, <2>1
<1> QED
  BY <1>3, <1>4, <1>5

\* SET_CONFIGURATION opens the bulk endpoints, or closes them.
LEMMA Opened ==
  ASSUME NEW s \in DriverStates, EndsKnown(s), NEW cfgidx \in Nat, NEW t,
         t = msc_init([s EXCEPT !.u.dev_config = cfgidx, !.u.dev_state = "CONFIGURED"])
  PROVE  EndsKnown(t) /\ t.u.dev_state = "CONFIGURED"
<1>1. s.u \in Handles
  BY DEF DriverStates
<1>2. PICK v : v = [s.u EXCEPT !.dev_config = cfgidx, !.dev_state = "CONFIGURED"]
  OBVIOUS
<1>3. PICK r : r = [s EXCEPT !.u.dev_config = cfgidx, !.u.dev_state = "CONFIGURED"]
  OBVIOUS
<1>4. r.u = v
  BY <1>1, <1>2, <1>3 DEF DriverStates
<1>5. v.eps = s.u.eps /\ v.dev_state = "CONFIGURED" /\ v.pcd_maxpacket = s.u.pcd_maxpacket
  BY <1>1, <1>2 DEF Handles
<1>6. PICK out : out = usb_dwc3_ep_open(v.eps, MSC_EP_OUT, USBD_EP_TYPE.BULK, MSC_MPS_HS)
  OBVIOUS
<1>7. PICK in : in = usb_dwc3_ep_open(out, MSC_EP_IN, USBD_EP_TYPE.BULK, MSC_MPS_HS)
  OBVIOUS
<1>8. v.eps \subseteq {ControlEnd(0), ControlEnd(EP_DIR_IN)} \cup Bulks
  BY <1>5 DEF EndsKnown
<1>9. out \subseteq {ControlEnd(0), ControlEnd(EP_DIR_IN)} \cup Bulks /\ BulkEnd(MSC_EP_OUT) \in out
  BY <1>6, <1>8, BulksOpened
<1>10. /\ in \subseteq {ControlEnd(0), ControlEnd(EP_DIR_IN)} \cup Bulks /\ BulkEnd(MSC_EP_IN) \in in
       /\ \A b \in Bulks : b \in out => b \in in
  BY <1>7, <1>9, BulksOpened
<1>11. Bulks \subseteq in
  BY <1>9, <1>10 DEF Bulks
<1>12. t = [r EXCEPT !.u.class = TRUE, !.u.eps = in]
  BY <1>3, <1>4, <1>6, <1>7 DEF msc_init
<1>13. PICK w : w = [v EXCEPT !.class = TRUE, !.eps = in]
  OBVIOUS
<1>14. t.u = w
  BY <1>3, <1>4, <1>12, <1>13 DEF DriverStates
<1>15. w.eps = in /\ w.dev_state = "CONFIGURED" /\ w.pcd_maxpacket = s.u.pcd_maxpacket
  <2>1. v \in Handles
    BY <1>1, <1>2 DEF Handles, DevStates
  <2> QED
    BY <1>5, <1>13, <2>1 DEF Handles
<1> QED
  BY <1>10, <1>11, <1>14, <1>15 DEF EndsKnown, Awake

LEMMA Cleared ==
  ASSUME NEW s \in DriverStates, EndsKnown(s), NEW t,
         t = msc_de_init([s EXCEPT !.u.dev_config = 0, !.u.dev_state = "ADDRESSED"])
  PROVE  EndsKnown(t) /\ t.u.dev_state = "ADDRESSED"
<1>1. s.u \in Handles
  BY DEF DriverStates
<1>2. PICK w : w = [s.u EXCEPT !.dev_config = 0, !.dev_state = "ADDRESSED", !.class = FALSE]
  OBVIOUS
<1>3. t.u = w
  BY <1>1, <1>2 DEF DriverStates, msc_de_init
<1>4. w.eps = s.u.eps /\ w.dev_state = "ADDRESSED" /\ w.pcd_maxpacket = s.u.pcd_maxpacket
  BY <1>1, <1>2 DEF Handles
<1> QED
  BY <1>3, <1>4 DEF EndsKnown, Awake

LEMMA SetConfigCarried ==
  ASSUME NEW s, Asked(s), setup \in Requests, Understood, setup.name = "SET_CONFIGURATION"
  PROVE  Carried(usb_core_set_config(s))
<1>1. /\ Pipe!Accepts(setup) <=> AwakeState # "DEFAULT" /\ setup.arg \in {0, 1}
      /\ Pipe!Accepts(setup) => Pipe!After(setup) = IF setup.arg = 0 THEN "ADDRESSED" ELSE "CONFIGURED"
      /\ Pipe!Owed(setup) = 0
  BY RequestsUnderstood
<1>2. LOBYTE(setup.arg) = setup.arg /\ setup.arg \in Nat
  <2>1. PICK arg \in Nat : arg = setup.arg
    BY SetupFields
  <2>2. arg < 256
    BY <2>1 DEF Understood
  <2> QED
    BY <2>1, <2>2 DEF LOBYTE
<1>3. s.u.dev_state = AwakeState /\ AwakeState \in {"DEFAULT", "ADDRESSED", "CONFIGURED"} /\ EndsKnown(s) /\ Deciding(s)
      /\ s \in DriverStates
  BY DEF Asked, Deciding, DriverStates, Handles, DevStates
<1>4. PICK configured : configured = msc_init([s EXCEPT !.u.dev_config = setup.arg, !.u.dev_state = "CONFIGURED"])
  OBVIOUS
<1>5. PICK cleared : cleared = msc_de_init([s EXCEPT !.u.dev_config = 0, !.u.dev_state = "ADDRESSED"])
  OBVIOUS
<1>6. EndsKnown(configured) /\ configured.u.dev_state = "CONFIGURED" /\ EndsKnown(cleared) /\ cleared.u.dev_state = "ADDRESSED"
  BY <1>2, <1>3, <1>4, <1>5, Opened, Cleared
<1>7. Deciding(configured) /\ Deciding(cleared)
  BY <1>2, <1>3, <1>4, <1>5, ConfiguredAlters, AltersDeciding
<1>8. CASE ~Pipe!Accepts(setup)
  <2>1. usb_core_set_config(s) = usb_core_ctl_error(s)
    BY <1>1, <1>2, <1>3, <1>8 DEF usb_core_set_config, USBD_MAX_NUM_CONFIGURATION
  <2> QED
    BY <1>8, <2>1, RefusalCarried
<1>9. CASE Pipe!Accepts(setup)
  <2>1. setup.arg \in {0, 1} /\ AwakeState \in {"ADDRESSED", "CONFIGURED"}
        /\ Pipe!After(setup) = IF setup.arg = 0 THEN "ADDRESSED" ELSE "CONFIGURED"
    BY <1>1, <1>3, <1>9
  <2>2. PICK r : r = IF setup.arg = 1 /\ AwakeState = "ADDRESSED" THEN configured
                     ELSE IF setup.arg = 0 /\ AwakeState = "CONFIGURED" THEN cleared ELSE s
    OBVIOUS
  <2>3. usb_core_set_config(s) = usb_core_transmit_ep0(r, 0)
    <3>1. CASE setup.arg = 1 /\ AwakeState = "ADDRESSED"
      BY <1>2, <1>3, <1>4, <2>2, <3>1 DEF usb_core_set_config, USBD_MAX_NUM_CONFIGURATION
    <3>2. CASE setup.arg = 0 /\ AwakeState = "CONFIGURED"
      BY <1>2, <1>3, <1>5, <2>2, <3>2 DEF usb_core_set_config, USBD_MAX_NUM_CONFIGURATION
    <3>3. CASE setup.arg = 1 /\ AwakeState = "CONFIGURED"
      BY <1>2, <1>3, <2>2, <3>3 DEF usb_core_set_config, USBD_MAX_NUM_CONFIGURATION
    <3>4. CASE setup.arg = 0 /\ AwakeState = "ADDRESSED"
      BY <1>2, <1>3, <2>2, <3>4 DEF usb_core_set_config, USBD_MAX_NUM_CONFIGURATION
    <3> QED
      BY <2>1, <3>1, <3>2, <3>3, <3>4
  <2>4. Deciding(r) /\ EndsKnown(r) /\ r.u.dev_state = Pipe!After(setup) /\ r.u.dev_state # "SUSPENDED"
    BY <1>3, <1>6, <1>7, <2>1, <2>2
  <2>5. Carried(usb_core_transmit_ep0(r, 0))
    BY <1>1, <1>9, <2>4, AnswerCarried
  <2> QED
    BY <2>3, <2>5
<1> QED
  BY <1>8, <1>9

\* The three recipients, and all of them.
LEMMA DeviceRequestCarried ==
  ASSUME NEW s, Asked(s), setup \in Requests, Understood, setup.to = "device"
  PROVE  Carried(usb_core_dev_req(s))
<1>1. s \in DriverStates
  BY DEF Asked, Deciding
<1>2. CASE setup.name \in {"GET_DESCRIPTOR", "SET_CONFIGURATION", "GET_STATUS", "SET_ADDRESS"}
  BY <1>1, <1>2, GetDescCarried, SetConfigCarried, GetStatusCarried, SetAddressCarried DEF usb_core_dev_req
<1>3. CASE setup.name \notin {"GET_DESCRIPTOR", "SET_CONFIGURATION", "GET_STATUS", "SET_ADDRESS"}
  <2>1. usb_core_dev_req(s) = usb_core_ctl_error(s)
    BY <1>3 DEF usb_core_dev_req
  <2>2. setup.name \notin {"GET_MAX_LUN", "BOT_RESET"}
    BY DEF Understood
  <2>3. ~Pipe!Accepts(setup)
    BY <1>3, <2>2, RequestsUnderstood
  <2> QED
    BY <2>1, <2>3, RefusalCarried
<1> QED
  BY <1>2, <1>3

LEMMA InterfaceRequestCarried ==
  ASSUME NEW s, Asked(s), setup \in Requests, Understood, OneAnswer, setup.to = "interface"
  PROVE  Carried(usb_core_itf_req(s))
<1>1. s.u.dev_state = AwakeState /\ EndsKnown(s) /\ Deciding(s) /\ AwakeState # "SUSPENDED"
  BY DEF Asked
<1>2. setup.len \in Nat /\ (setup.len = 0 => setup.name = "BOT_RESET")
  BY SetupFields DEF OneAnswer
<1>3. setup.name \notin {"GET_DESCRIPTOR", "SET_CONFIGURATION", "GET_STATUS", "SET_ADDRESS"}
  BY DEF Understood
<1>4. CASE setup.name \notin {"GET_MAX_LUN", "BOT_RESET"}
  <2>1. usb_core_itf_req(s) = usb_core_ctl_error(s)
    BY <1>2, <1>4 DEF usb_core_itf_req, msc_setup
  <2>2. ~Pipe!Accepts(setup)
    BY <1>3, <1>4, RequestsUnderstood
  <2> QED
    BY <2>1, <2>2, RefusalCarried
<1>5. CASE setup.name \in {"GET_MAX_LUN", "BOT_RESET"}
  <2>1. /\ Pipe!Accepts(setup) <=> AwakeState = "CONFIGURED"
        /\ Pipe!After(setup) = AwakeState /\ Pipe!Owed(setup) = IF setup.name = "GET_MAX_LUN" THEN 1 ELSE 0
    BY <1>5, RequestsUnderstood
  <2>2. setup.index = 0 /\ (setup.name = "GET_MAX_LUN" => setup.len > 0) /\ (setup.name = "BOT_RESET" => setup.len = 0)
    BY <1>5 DEF Understood
  <2>3. LOBYTE(setup.index) = 0
    BY <2>2 DEF LOBYTE
  <2>4. CASE AwakeState # "CONFIGURED"
    <3>1. usb_core_itf_req(s) = usb_core_ctl_error(s)
      BY <1>1, <2>4 DEF usb_core_itf_req
    <3> QED
      BY <2>1, <2>4, <3>1, RefusalCarried
  <2>5. CASE AwakeState = "CONFIGURED"
    <3>1. PICK len \in Nat : len = IF setup.name = "GET_MAX_LUN" THEN 1 ELSE 0
      OBVIOUS
    <3>2. usb_core_itf_req(s) = usb_core_transmit_ep0(s, len)
      BY <1>1, <1>2, <1>5, <2>2, <2>3, <2>5, <3>1 DEF usb_core_itf_req, msc_setup, USBD_MAX_NUM_INTERFACES
    <3>3. Carried(usb_core_transmit_ep0(s, len))
      BY <1>1, <2>1, <2>5, <3>1, AnswerCarried
    <3> QED
      BY <3>2, <3>3
  <2> QED
    BY <2>4, <2>5
<1> QED
  BY <1>4, <1>5

LEMMA EndpointRequestCarried ==
  ASSUME NEW s, Asked(s), setup \in Requests, Understood, setup.to = "endpoint"
  PROVE  Carried(usb_core_set_stall(s, setup.dir))
<1>1. setup.dir = "OUT"
  BY DEF Understood
<1>2. ~Pipe!Accepts(setup) /\ Pipe!After(setup) = AwakeState
  <2>1. setup.name \notin {"GET_DESCRIPTOR", "SET_ADDRESS", "GET_STATUS", "SET_CONFIGURATION", "GET_MAX_LUN", "BOT_RESET"}
    BY DEF Understood
  <2> QED
    BY <2>1, RequestsUnderstood
<1>3. Deciding(s) /\ EndsKnown(s) /\ s.u.dev_state = AwakeState
  BY DEF Asked
<1>4. PICK t : t = usb_core_set_stall(s, "OUT")
  OBVIOUS
<1>5. t = usb_dwc3_ep0_out_start([s EXCEPT !.u.is_stall["OUT"] = TRUE, !.stalled = TRUE])
  BY <1>3, <1>4 DEF usb_core_set_stall, usb_dwc3_ep_set_stall, dwc3_ep_set_stall, Deciding, DriverStates, Handles, Ends
<1>6. Refuses(s, t)
  BY <1>3, <1>5, Stalled DEF Deciding
<1>7. Refused(t)
  BY <1>3, <1>6 DEF Refuses, Refused, Deciding, SameEnd, KindIn
<1>8. SameDevice(s, t) /\ t.u.dev_state = s.u.dev_state
  BY <1>6 DEF Refuses, SameDevice
<1>9. EndsKnown(t)
  BY <1>3, <1>8, SameDeviceEnds
<1>10. Carried(t)
  BY <1>2, <1>3, <1>7, <1>8, <1>9 DEF Carried, Asked
<1> QED
  BY <1>1, <1>4, <1>10

LEMMA SetupStageCarried ==
  ASSUME NEW s, Asked(s), setup \in Requests, OneAnswer, Understood
  PROVE  Carried(usb_core_setup_stage(s))
<1>1. PICK t : t = [s EXCEPT !.u.ep0_state = "SETUP", !.u.ep0_data_len = setup.len]
  OBVIOUS
<1>2. s \in DriverStates /\ s.u \in Handles /\ Deciding(s) /\ EndsKnown(s)
  BY DEF Asked, Deciding, DriverStates
<1>3. PICK v : v = [s.u EXCEPT !.ep0_state = "SETUP", !.ep0_data_len = setup.len]
  OBVIOUS
<1>4. v \in Handles
  BY <1>2, <1>3, SetupFields DEF Handles, Ep0States
<1>5. t.u = v /\ t = [s EXCEPT !.u = v]
  BY <1>1, <1>2, <1>3 DEF DriverStates
<1>6. /\ v.EP0_State = s.u.EP0_State /\ v.is_stall = s.u.is_stall /\ v.queued = s.u.queued
      /\ v.xfer_len = s.u.xfer_len /\ v.maxpacket = s.u.maxpacket /\ v.pcd_maxpacket = s.u.pcd_maxpacket
      /\ v.dev_state = s.u.dev_state /\ v.dev_old_state = s.u.dev_old_state /\ v.eps = s.u.eps
  BY <1>2, <1>3 DEF Handles
<1>7. Deciding(t)
  <2>1. Alters(s, t)
    BY <1>2, <1>4, <1>5, <1>6, Altered
  <2> QED
    BY <1>2, <2>1, AltersDeciding
<1>8. EndsKnown(t) /\ t.u.dev_state = s.u.dev_state
  BY <1>2, <1>5, <1>6 DEF EndsKnown, Awake
<1>9. Asked(t)
  BY <1>7, <1>8 DEF Asked
<1>10. setup.to \in Recipients
  BY SetupFields
<1> QED
  BY <1>1, <1>9, <1>10, DeviceRequestCarried, InterfaceRequestCarried, EndpointRequestCarried
     DEF usb_core_setup_stage, Recipients

-----------------------------------------------------------------------------
(* ControlPipe's variables, and what its steps ask for.                     *)

OpenOf(s) == IF Awake(s) = "CONFIGURED" THEN {ep \in s.u.eps : ep.type # USBD_EP_TYPE.CTRL} ELSE {}
AnswerNow == IF host # NONE /\ waiting = NONE THEN served ELSE "no"
GotNow == IF host # NONE /\ waiting = NONE /\ stage # "idle" THEN setup.len - left ELSE 0
LateNow == IF Unserved /\ (host = NONE \/ waiting # NONE) THEN setup ELSE NONE
PipeStep == [Pipe!Next]_(Pipe!vars)

\* The endpoints that are open are those the host was told of.
LEMMA OpenIsTold ==
  ASSUME NEW s, EndsKnown(s)
  PROVE  OpenOf(s) = IF Awake(s) = "CONFIGURED" THEN Told ELSE {}
<1>1. CASE Awake(s) = "CONFIGURED"
  <2>1. s.u.eps \subseteq {ControlEnd(0), ControlEnd(EP_DIR_IN)} \cup Bulks /\ Bulks \subseteq s.u.eps
    BY <1>1 DEF EndsKnown
  <2>2. ControlEnd(0).type = USBD_EP_TYPE.CTRL /\ ControlEnd(EP_DIR_IN).type = USBD_EP_TYPE.CTRL
    BY DEF ControlEnd
  <2>3. \A b \in Bulks : b.type # USBD_EP_TYPE.CTRL
    BY DEF Bulks, BulkEnd, USBD_EP_TYPE
  <2>4. {ep \in s.u.eps : ep.type # USBD_EP_TYPE.CTRL} = Bulks
    BY <2>1, <2>2, <2>3
  <2> QED
    BY <1>1, <2>4, ToldIs DEF OpenOf
<1>2. CASE Awake(s) # "CONFIGURED"
  BY <1>2 DEF OpenOf
<1> QED
  BY <1>1, <1>2

\* The state of ControlPipe that a state is mapped to.
LEMMA PipeVars ==
  /\ AwakeState = Awake(Now) /\ AwakeState' = Awake(Now')
  /\ Pipe!vars = <<AwakeState, OpenOf(Now), host, AnswerNow, GotNow, LateNow, ~ResetSeen>>
  /\ Pipe!vars' = <<AwakeState', OpenOf(Now'), host', AnswerNow', GotNow', LateNow', ~ResetSeen'>>
<1>1. AwakeState = Awake(Now) /\ AwakeState' = Awake(Now')
  BY DEF AwakeState, Awake, Now
<1>2. OpenOf(Now) = IF AwakeState = "CONFIGURED" THEN {ep \in usb.eps : ep.type # USBD_EP_TYPE.CTRL} ELSE {}
  BY <1>1 DEF OpenOf, Now
<1>3. OpenOf(Now') = IF AwakeState' = "CONFIGURED" THEN {ep \in usb'.eps : ep.type # USBD_EP_TYPE.CTRL} ELSE {}
  BY <1>1 DEF OpenOf, Now
<1>4. Pipe!vars = <<AwakeState, OpenOf(Now), host, AnswerNow, GotNow, LateNow, ~ResetSeen>>
  BY <1>2 DEF Pipe!vars, AnswerNow, GotNow, LateNow
<1>5. Pipe!vars' = <<AwakeState', OpenOf(Now'), host', AnswerNow', GotNow', LateNow', ~ResetSeen'>>
  BY <1>3 DEF Pipe!vars, AnswerNow, GotNow, LateNow
<1> QED
  BY <1>1, <1>4, <1>5

(* A step of which ControlPipe sees nothing.                                *)
LEMMA PipeStutters ==
  ASSUME EndsKnown(Now), EndsKnown(Now'), AwakeState' = AwakeState, host' = host, AnswerNow' = AnswerNow,
         GotNow' = GotNow, LateNow' = LateNow, ResetSeen' <=> ResetSeen
  PROVE  PipeStep
<1>1. OpenOf(Now') = OpenOf(Now)
  BY OpenIsTold, PipeVars
<1>2. Pipe!vars' = Pipe!vars
  BY <1>1, PipeVars
<1> QED
  BY <1>2 DEF PipeStep

\* A request is served, in time or late; the device starts again.
LEMMA PipeServes ==
  ASSUME EndsKnown(Now'), host # NONE, AnswerNow = "no", LateNow = NONE, AwakeState' = Pipe!After(host),
         AnswerNow' = IF Pipe!Accepts(host) THEN "OK" ELSE "STALL",
         host' = host, GotNow' = GotNow, LateNow' = LateNow, ResetSeen' <=> ResetSeen
  PROVE  PipeStep
<1>1. OpenOf(Now') = IF AwakeState' = "CONFIGURED" THEN Told ELSE {}
  BY OpenIsTold, PipeVars
<1>2. Pipe!Enter(Pipe!After(host))
  BY <1>1, PipeVars DEF Pipe!Enter, OpenOf, Now
<1>3. Pipe!Serve
  BY <1>2 DEF Pipe!Serve, AnswerNow, GotNow, LateNow
<1> QED
  BY <1>3 DEF PipeStep, Pipe!Next

LEMMA PipeServesLate ==
  ASSUME EndsKnown(Now'), LateNow # NONE, AwakeState' = Pipe!After(LateNow), LateNow' = NONE,
         AnswerNow' = AnswerNow, host' = host, GotNow' = GotNow, ResetSeen' <=> ResetSeen
  PROVE  PipeStep
<1>1. OpenOf(Now') = IF AwakeState' = "CONFIGURED" THEN Told ELSE {}
  BY OpenIsTold, PipeVars
<1>2. Pipe!Enter(Pipe!After(LateNow))
  BY <1>1, PipeVars DEF Pipe!Enter, OpenOf, Now
<1>3. Pipe!ServeLate
  BY <1>2 DEF Pipe!ServeLate, AnswerNow, GotNow, LateNow
<1> QED
  BY <1>3 DEF PipeStep, Pipe!Next

LEMMA PipeRestarts ==
  ASSUME EndsKnown(Now'), ~ResetSeen, AwakeState' = "DEFAULT",
         LateNow' = NONE \/ (~ResetSeen' /\ LateNow' = LateNow),
         AnswerNow' = AnswerNow, host' = host, GotNow' = GotNow
  PROVE  PipeStep
<1>1. OpenOf(Now') = IF AwakeState' = "CONFIGURED" THEN Told ELSE {}
  BY OpenIsTold, PipeVars
<1>2. Pipe!Enter("DEFAULT")
  BY <1>1, PipeVars DEF Pipe!Enter, OpenOf, Now
<1>3. (~ResetSeen)' \in BOOLEAN
  OBVIOUS
<1>4. Pipe!Restart
  BY <1>2, <1>3 DEF Pipe!Restart, AnswerNow, GotNow, LateNow
<1> QED
  BY <1>4 DEF PipeStep, Pipe!Next

(* What the other steps leave alone.                                        *)
LEMMA PipeAsks ==
  ASSUME EndsKnown(Now), EndsKnown(Now'), AwakeState' = AwakeState, NEW r \in Requests, host = NONE, ResetSeen,
         host' = r, AnswerNow' = "no", GotNow' = 0, LateNow' = LateNow, ResetSeen'
  PROVE  PipeStep
<1>1. OpenOf(Now') = OpenOf(Now)
  BY OpenIsTold, PipeVars
<1>2. Pipe!Ask(r)
  BY <1>1, PipeVars DEF Pipe!Ask, AnswerNow, GotNow, LateNow, OpenOf, Now
<1> QED
  BY <1>2 DEF PipeStep, Pipe!Next

LEMMA PipeAbandons ==
  ASSUME EndsKnown(Now), EndsKnown(Now'), AwakeState' = AwakeState, NEW r \in Requests, host # NONE,
         host' = r, AnswerNow' = "no", GotNow' = 0, ResetSeen' <=> ResetSeen,
         LateNow' = LateNow \/ (AnswerNow = "no" /\ LateNow' = host)
  PROVE  PipeStep
<1>1. OpenOf(Now') = OpenOf(Now)
  BY OpenIsTold, PipeVars
<1>2. Pipe!Abandon(r)
  BY <1>1, PipeVars DEF Pipe!Abandon, AnswerNow, GotNow, LateNow, OpenOf, Now
<1> QED
  BY <1>2 DEF PipeStep, Pipe!Next

LEMMA PipeResets ==
  ASSUME EndsKnown(Now), EndsKnown(Now'), AwakeState' = AwakeState,
         host' = NONE, AnswerNow' = "no", GotNow' = 0, ~ResetSeen',
         LateNow' = LateNow \/ (AnswerNow = "no" /\ LateNow' = host)
  PROVE  PipeStep
<1>1. OpenOf(Now') = OpenOf(Now)
  BY OpenIsTold, PipeVars
<1>2. (~ResetSeen)' = TRUE
  OBVIOUS
<1>3. Pipe!Reset
  BY <1>1, <1>2, PipeVars DEF Pipe!Reset, AnswerNow, GotNow, LateNow, OpenOf, Now
<1> QED
  BY <1>3 DEF PipeStep, Pipe!Next

LEMMA PipeSends ==
  ASSUME EndsKnown(Now), EndsKnown(Now'), AwakeState' = AwakeState, host # NONE, AnswerNow = "OK",
         GotNow' \in GotNow + 1 .. Pipe!Owed(host), GotNow < Pipe!Owed(host),
         host' = host, AnswerNow' = AnswerNow, LateNow' = LateNow, ResetSeen' <=> ResetSeen
  PROVE  PipeStep
<1>1. OpenOf(Now') = OpenOf(Now)
  BY OpenIsTold, PipeVars
<1>2. Pipe!Send
  BY <1>1, PipeVars DEF Pipe!Send, AnswerNow, GotNow, LateNow, OpenOf, Now
<1> QED
  BY <1>2 DEF PipeStep, Pipe!Next

LEMMA PipeAnswers ==
  ASSUME EndsKnown(Now), EndsKnown(Now'), AwakeState' = AwakeState, host # NONE,
         (AnswerNow = "OK" /\ GotNow = Pipe!Owed(host)) \/ (AnswerNow = "STALL" /\ GotNow = 0),
         host' = NONE, AnswerNow' = "no", GotNow' = 0, LateNow' = LateNow, ResetSeen' <=> ResetSeen
  PROVE  PipeStep
<1>1. OpenOf(Now') = OpenOf(Now)
  BY OpenIsTold, PipeVars
<1>2. Pipe!Answer
  BY <1>1, PipeVars DEF Pipe!Answer, AnswerNow, GotNow, LateNow, OpenOf, Now
<1> QED
  BY <1>2 DEF PipeStep, Pipe!Next

-----------------------------------------------------------------------------
(* Naps.                                                                    *)

\* One event more: the naps it allows.
LEMMA NapsLonger ==
  ASSUME NEW q \in Seq(Events), NEW r, NEW ev, Grows(q, r, {ev}), Len(r) = Len(q) + 1,
         NEW from, NEW to, NEW then, Naps(q, from, to), Turns(ev, to, then)
  PROVE  Naps(r, from, then)
<1>1. PICK n \in Nat : n = Len(q)
  BY DEF Grows
<1>2. /\ Len(r) = n + 1 /\ r[n + 1] = ev
      /\ \A i \in 1 .. n : r[i] = q[i]
  BY <1>1 DEF Grows
<1>3. PICK naps \in SUBSET (0 .. n) :
        /\ 0 \in naps <=> from
        /\ n \in naps <=> to
        /\ \A i \in 1 .. n : Turns(q[i], i - 1 \in naps, i \in naps)
  BY <1>1 DEF Naps
<1>4. PICK more \in SUBSET (0 .. n + 1) : \A i \in 0 .. n + 1 : i \in more <=> IF i <= n THEN i \in naps ELSE then
  <2>1. {i \in 0 .. n + 1 : IF i <= n THEN i \in naps ELSE then} \in SUBSET (0 .. n + 1)
    OBVIOUS
  <2> QED
    BY <2>1
<1>5. (0 \in more <=> from) /\ (n + 1 \in more <=> then)
  BY <1>3, <1>4
<1>6. ASSUME NEW i \in 1 .. n + 1 PROVE Turns(r[i], i - 1 \in more, i \in more)
  <2>1. CASE i <= n
    <3>1. Turns(q[i], i - 1 \in naps, i \in naps) /\ r[i] = q[i]
      BY <1>2, <1>3, <2>1
    <3>2. (i - 1 \in more <=> i - 1 \in naps) /\ (i \in more <=> i \in naps)
      BY <1>4, <2>1
    <3> QED
      BY <3>1, <3>2 DEF Turns
  <2>2. CASE i = n + 1
    <3>1. (i - 1 \in more <=> to) /\ (i \in more <=> then) /\ r[i] = ev
      BY <1>2, <1>3, <1>4, <2>2
    <3> QED
      BY <3>1 DEF Turns
  <2> QED
    BY <2>1, <2>2
<1> QED
  BY <1>2, <1>5, <1>6 DEF Naps

\* The first event is taken: the naps behind it stay.
LEMMA NapsShorter ==
  ASSUME NEW q \in Seq(Events), NEW r, Shrinks(q, r), NEW from, NEW to, Naps(q, from, to)
  PROVE  \/ Turns(q[1], from, TRUE) /\ Naps(r, TRUE, to)
         \/ Turns(q[1], from, FALSE) /\ Naps(r, FALSE, to)
<1>1. PICK n \in Nat : n = Len(r)
  BY DEF Shrinks
<1>2. Len(q) = n + 1 /\ \A i \in 1 .. n : r[i] = q[i + 1]
  BY <1>1 DEF Shrinks
<1>3. PICK naps \in SUBSET (0 .. n + 1) :
        /\ 0 \in naps <=> from
        /\ n + 1 \in naps <=> to
        /\ \A i \in 1 .. n + 1 : Turns(q[i], i - 1 \in naps, i \in naps)
  BY <1>2 DEF Naps
<1>4. PICK rest \in SUBSET (0 .. n) : \A i \in 0 .. n : i \in rest <=> i + 1 \in naps
  <2>1. {i \in 0 .. n : i + 1 \in naps} \in SUBSET (0 .. n)
    OBVIOUS
  <2> QED
    BY <2>1
<1>5. n \in rest <=> to
  BY <1>3, <1>4
<1>6. ASSUME NEW i \in 1 .. n PROVE Turns(r[i], i - 1 \in rest, i \in rest)
  <2>1. Turns(q[i + 1], i + 1 - 1 \in naps, i + 1 \in naps) /\ r[i] = q[i + 1]
    BY <1>2, <1>3
  <2>2. (i - 1 \in rest <=> i \in naps) /\ (i \in rest <=> i + 1 \in naps) /\ i + 1 - 1 = i
    BY <1>4
  <2> QED
    BY <2>1, <2>2 DEF Turns
<1>7. Turns(q[1], from, 1 \in naps)
  <2>1. Turns(q[1], 1 - 1 \in naps, 1 \in naps)
    BY <1>3
  <2> QED
    BY <1>3, <2>1 DEF Turns
<1>8. 0 \in rest <=> 1 \in naps
  BY <1>4
<1>9. ASSUME NEW mid \in BOOLEAN, mid <=> 1 \in naps
      PROVE  Turns(q[1], from, mid) /\ Naps(r, mid, to)
  <2>1. Turns(q[1], from, mid)
    BY <1>7, <1>9 DEF Turns
  <2>2. 0 \in rest <=> mid
    BY <1>8, <1>9
  <2> QED
    BY <1>1, <1>5, <1>6, <2>1, <2>2 DEF Naps
<1>10. CASE 1 \in naps
  BY <1>9, <1>10
<1>11. CASE 1 \notin naps
  BY <1>9, <1>11
<1> QED
  BY <1>10, <1>11

-----------------------------------------------------------------------------
(* The state of endpoint 0, now and after a step.                           *)

LEMMA ModesApart ==
  ASSUME NEW s
  PROVE  ~(Armed(s) /\ Taken(s)) /\ ~(Armed(s) /\ Working(s)) /\ ~(Taken(s) /\ Working(s))
  BY DEF Armed, Taken, Working

\* The mode of endpoint 0 tells what may wait.
LEMMA ModeIs ==
  ASSUME IInv, up = "running"
  PROVE  /\ Armed(Now) => WhenArmed
         /\ Taken(Now) => WhenTaken
         /\ Working(Now) => WhenWorking
         /\ Armed(Now) \/ Taken(Now) \/ Working(Now)
<1>1. WhenArmed \/ WhenTaken \/ WhenWorking
  BY DEF IInv
<1>2. (WhenArmed => Armed(Now)) /\ (WhenTaken => Taken(Now)) /\ (WhenWorking => Working(Now))
  BY DEF WhenArmed, WhenTaken, WhenWorking
<1> QED
  BY <1>1, <1>2, ModesApart

LEMMA NextNow ==
  /\ Armed(Now)' <=> Armed(Now')
  /\ Taken(Now)' <=> Taken(Now')
  /\ setup' = setup => (Working(Now)' <=> Working(Now'))
  /\ Working(Now)' => usb'.EP0_State = "SETUP_COMPLETED"
  /\ Deciding(Now)' <=> Deciding(Now')
  /\ EndsKnown(Now)' <=> EndsKnown(Now')
  /\ \A e \in Ends : KindIn(Now, e)' = KindIn(Now', e)
  /\ Pipe!Owed(setup)' = Pipe!Owed(setup')
<1>1. (Armed(Now)' <=> Armed(Now')) /\ (Taken(Now)' <=> Taken(Now')) /\ \A e \in Ends : KindIn(Now, e)' = KindIn(Now', e)
  BY DEF Armed, Taken, KindIn
<1>2. /\ setup' = setup => (Working(Now)' <=> Working(Now'))
      /\ Working(Now)' => usb'.EP0_State = "SETUP_COMPLETED"
  BY DEF Working, KindIn, StageKind, Now
<1>3. Deciding(Now)' <=> Deciding(Now')
  BY DEF Deciding, KindIn
<1>4. EndsKnown(Now)' <=> EndsKnown(Now')
  BY DEF EndsKnown, Awake
<1>5. Pipe!Owed(setup)' = Pipe!Owed(setup')
  BY DEF Pipe!Owed
<1> QED
  BY <1>1, <1>2, <1>3, <1>4, <1>5

-----------------------------------------------------------------------------
(* The steps of the host and of the bus.                                    *)

LEMMA Sames ==
  ASSUME IInv, usb' = usb, trb' = trb, stalled' = stalled
  PROVE  Now' = Now /\ AwakeState' = AwakeState
  BY DEF Now, AwakeState

(* Events that do not ask for a request to be decided.                      *)
LEMMA ServedStays ==
  ASSUME IInv, ServedKnown, Now' = Now, usb' = usb, up' = up, setup' = setup, served' = served,
         NEW new, Grows(evts, evts', new), \A ev \in new : ev \notin Completions,
         stage' = "idle" \/ (stage' = stage /\ (raised => raised')),
         Working(Now) /\ served = "OK" /\ setup.len = 0 => \A ev \in new : ev \notin AskedStatus
  PROVE  ServedKnown'
<1>1. /\ Armed(Now)' <=> Armed(Now)
      /\ Taken(Now)' <=> Taken(Now)
      /\ Working(Now)' <=> Working(Now)
      /\ Deciding(Now)' <=> Deciding(Now)
  BY NextNow
<1>2. ASSUME NEW i \in Waiting' PROVE (i \in Waiting /\ evts'[i] = evts[i]) \/ evts'[i] \in new
  BY DEF Waiting, Grows
<1>3. up # "running" => served' = "OK" /\ usb'.dev_state = "DEFAULT"
  BY DEF ServedKnown
<1>4. Armed(Now) => served \in {"OK", "STALL"} /\ (stage' # "idle" => served = "STALL")
  BY DEF ServedKnown
<1>5. (Taken(Now) => served = "no") /\ (Working(Now) => served \in {"no", "OK"})
  BY DEF ServedKnown
<1>6. ASSUME Working(Now), served = "no"
      PROVE  setup.len = 0 /\ Deciding(Now) /\ \A i \in Waiting' : evts'[i] \notin Completions
  BY <1>2, <1>6 DEF ServedKnown
<1>7. ASSUME Working(Now), served = "OK", setup.len = 0
      PROVE  (stage' = "status" => raised') /\ \A i \in Waiting' : evts'[i] \notin AskedStatus
  BY <1>2, <1>7 DEF ServedKnown
<1>8. (Completions' = Completions) /\ (AskedStatus' = AskedStatus)
  BY DEF Completions, Completes, AskedStatus
<1> QED
  BY <1>1, <1>3, <1>4, <1>5, <1>6, <1>7, <1>8 DEF ServedKnown

\* Nothing moved: as many bytes are left.
LEMMA LeftStays ==
  ASSUME LeftKnown, Now' = Now, usb' = usb, setup' = setup, served' = served,
         ResetSeen' => ResetSeen,
         \/ stage' = stage /\ left' = left
         \/ stage' = "idle" /\ (~ResetSeen' \/ KindIn(Now, "IN") # "data")
  PROVE  LeftKnown'
<1>1. KindIn(Now, "IN")' = KindIn(Now, "IN") /\ Pipe!Owed(setup)' = Pipe!Owed(setup)
  BY NextNow DEF Ends
<1> QED
  BY <1>1 DEF LeftKnown

LEMMA UnpluggedStays ==
  ASSUME Unplugged, NEW new, Grows(evts, evts', new),
         \A ev \in new : ev \notin {Device("DISCONNECT"), Device("L1SUSPEND"), Device("L1WAKEUP")}
  PROVE  Unplugged'
<1>1. ASSUME NEW i \in Waiting' PROVE (i \in Waiting /\ evts'[i] = evts[i]) \/ evts'[i] \in new
  BY DEF Waiting, Grows
<1>2. \A i \in Waiting : i \in Waiting' /\ evts'[i] = evts[i]
  BY DEF Waiting, Grows
<1>3. ASSUME NEW i \in Waiting', evts'[i] = Device("DISCONNECT")
      PROVE  i + 1 \in Waiting' /\ evts'[i + 1] = Device("RESET")
  BY <1>1, <1>2, <1>3 DEF Unplugged
<1>4. ASSUME NEW i \in Waiting' PROVE evts'[i] \notin {Device("L1SUSPEND"), Device("L1WAKEUP")}
  BY <1>1 DEF Unplugged
<1> QED
  BY <1>3, <1>4 DEF Unplugged

(* Of the device's events only one is each.                                 *)
LEMMA DevicesApart ==
  ASSUME NEW a \in DOMAIN DEVICE_EVENT,
         NEW b \in {"EOPF", "WAKEUP", "RESET", "DISCONNECT", "L1SUSPEND", "L1WAKEUP"}, Device(a) = Device(b)
  PROVE  a = b
<1>1. PICK m \in 0 .. 15 : m = DEVICE_EVENT[a]
  BY DEF DEVICE_EVENT
<1>2. PICK n \in 0 .. 15 : n = DEVICE_EVENT[b]
  BY DEF DEVICE_EVENT
<1>3. DeviceEvent(m) = DeviceEvent(n)
  BY <1>1, <1>2 DEF Device
<1>4. m = n
  BY <1>3, DeviceWords
<1>5. DEVICE_EVENT[a] = DEVICE_EVENT[b]
  BY <1>1, <1>2, <1>4
<1>6. /\ DEVICE_EVENT[a] = 6 => a = "EOPF"
      /\ DEVICE_EVENT[a] = 4 => a = "WAKEUP"
      /\ DEVICE_EVENT[a] = 1 => a = "RESET"
      /\ DEVICE_EVENT[a] = 0 => a = "DISCONNECT"
      /\ DEVICE_EVENT[a] = 8 => a = "L1SUSPEND"
      /\ DEVICE_EVENT[a] = 14 => a = "L1WAKEUP"
  BY DEF DEVICE_EVENT
<1>7. /\ DEVICE_EVENT["EOPF"] = 6 /\ DEVICE_EVENT["WAKEUP"] = 4 /\ DEVICE_EVENT["RESET"] = 1
      /\ DEVICE_EVENT["DISCONNECT"] = 0 /\ DEVICE_EVENT["L1SUSPEND"] = 8 /\ DEVICE_EVENT["L1WAKEUP"] = 14
  BY DEF DEVICE_EVENT
<1> QED
  BY <1>5, <1>6, <1>7

LEMMA NoCompletion ==
  ASSUME NEW ev \in DeviceEvents
  PROVE  ev \in Events /\ ev \notin Completions /\ ev \notin AskedStatus /\ ev \notin NotReadys
  BY Kinds

\* Which request is in memory when none waits to be stored.
LEMMA Late ==
  ASSUME PipeInv
  PROVE  (host # NONE /\ waiting = NONE => setup = host /\ stage # "idle")
  BY DEF PipeInv, HostKnown

\* Ask, and Abandon.
LEMMA HostAsksPipe ==
  ASSUME IInv, PipeInv, NEW r \in Requests, HostAsks(r)
  PROVE  PipeInv' /\ PipeStep
<1>1. /\ up = "running" /\ host = NONE /\ ResetSeen /\ ~asleep /\ host' = r /\ waiting' = r
      /\ up' = up /\ usb' = usb /\ trb' = trb /\ stalled' = stalled /\ stage' = stage /\ left' = left /\ raised' = raised
      /\ evts' = evts /\ setup' = setup /\ served' = served /\ asleep' = asleep
  BY DEF HostAsks, wire
<1>2. EndsKnown(Now) /\ HostKnown /\ ServedKnown /\ LeftKnown /\ Unplugged /\ Naps(evts, usb.dev_state = "SUSPENDED", asleep)
  BY DEF PipeInv
<1>3. r # NONE /\ evts \in Seq(Events)
  BY UsbControlAssumption DEF IInv, Typed
<1>4. Now' = Now /\ AwakeState' = AwakeState
  BY <1>1, Sames
<1>5. Grows(evts, evts', {}) /\ (ResetSeen' <=> ResetSeen)
  BY <1>1, <1>3, GrowsNot DEF ResetSeen
<1>6. ServedKnown' /\ LeftKnown' /\ Unplugged'
  BY <1>1, <1>2, <1>4, <1>5, ServedStays, LeftStays, UnpluggedStays
<1>7. HostKnown'
  BY <1>1, <1>2, <1>3 DEF HostKnown
<1>8. Naps(evts, usb.dev_state = "SUSPENDED", asleep)'
  BY <1>1, <1>2 DEF Naps, Turns, Turning
<1>9. EndsKnown(Now)' /\ EndsKnown(Now')
  BY <1>2, <1>4, NextNow
<1>10. PipeInv'
  BY <1>6, <1>7, <1>8, <1>9 DEF PipeInv
<1>11. AnswerNow' = "no" /\ GotNow' = 0 /\ LateNow' = LateNow
  BY <1>1, <1>3 DEF AnswerNow, GotNow, LateNow, Unserved
<1>12. PipeStep
  BY <1>1, <1>2, <1>4, <1>5, <1>9, <1>11, PipeAsks
<1> QED
  BY <1>10, <1>12

LEMMA HostAbandonsPipe ==
  ASSUME IInv, PipeInv, NEW r \in Requests, HostAbandons(r)
  PROVE  PipeInv' /\ PipeStep
<1>1. /\ host # NONE /\ host' = r /\ waiting' = r
      /\ up' = up /\ usb' = usb /\ trb' = trb /\ stalled' = stalled /\ stage' = stage /\ left' = left /\ raised' = raised
      /\ evts' = evts /\ setup' = setup /\ served' = served /\ asleep' = asleep
  BY DEF HostAbandons, wire
<1>2. EndsKnown(Now) /\ HostKnown /\ ServedKnown /\ LeftKnown /\ Unplugged /\ Naps(evts, usb.dev_state = "SUSPENDED", asleep)
  BY DEF PipeInv
<1>3. r # NONE /\ evts \in Seq(Events)
  BY UsbControlAssumption DEF IInv, Typed
<1>4. Now' = Now /\ AwakeState' = AwakeState
  BY <1>1, Sames
<1>5. Grows(evts, evts', {}) /\ (ResetSeen' <=> ResetSeen)
  BY <1>1, <1>3, GrowsNot DEF ResetSeen
<1>6. ServedKnown' /\ LeftKnown' /\ Unplugged'
  BY <1>1, <1>2, <1>4, <1>5, ServedStays, LeftStays, UnpluggedStays
<1>7. HostKnown'
  BY <1>1, <1>2, <1>3 DEF HostKnown
<1>8. Naps(evts, usb.dev_state = "SUSPENDED", asleep)'
  BY <1>1, <1>2 DEF Naps, Turns, Turning
<1>9. EndsKnown(Now)' /\ EndsKnown(Now')
  BY <1>2, <1>4, NextNow
<1>10. PipeInv'
  BY <1>6, <1>7, <1>8, <1>9 DEF PipeInv
<1>11. AnswerNow' = "no" /\ GotNow' = 0 /\ LateNow' = IF Unserved THEN setup ELSE NONE
  BY <1>1, <1>3 DEF AnswerNow, GotNow, LateNow, Unserved
<1>12. LateNow' = LateNow \/ (AnswerNow = "no" /\ LateNow' = host)
  <2>1. CASE waiting # NONE \/ ~Unserved
    BY <1>1, <1>11, <2>1 DEF LateNow
  <2>2. CASE waiting = NONE /\ Unserved
    BY <1>1, <1>11, <2>2, Late DEF AnswerNow, Unserved
  <2> QED
    BY <2>1, <2>2
<1>13. PipeStep
  BY <1>1, <1>2, <1>4, <1>5, <1>9, <1>11, <1>12, PipeAbandons
<1> QED
  BY <1>10, <1>13

(* One event of the device more.                                            *)
LEMMA NapsAdded ==
  ASSUME IInv, PipeInv, usb' = usb, NEW ev \in Events, evts' = Append(evts, ev), Turns(ev, asleep, asleep')
  PROVE  Naps(evts, usb.dev_state = "SUSPENDED", asleep)'
<1>1. Naps(evts, usb.dev_state = "SUSPENDED", asleep) /\ evts \in Seq(Events)
  BY DEF PipeInv, IInv, Typed
<1>2. Grows(evts, evts', {ev}) /\ Len(evts') = Len(evts) + 1
  BY <1>1, Appended
<1>3. Naps(evts', usb.dev_state = "SUSPENDED", asleep')
  BY <1>1, <1>2, NapsLonger
<1> QED
  BY <1>3 DEF Naps, Turns, Turning

\* Which events turn the core: of the device, and of endpoint 0.
LEMMA DeviceTurns ==
  ASSUME NEW what \in DOMAIN DEVICE_EVENT, what \notin {"EOPF", "WAKEUP", "RESET", "DISCONNECT"}, NEW now
  PROVE  Turns(Device(what), now, now)
<1>1. Device(what) \notin Turning /\ Device(what) \in DeviceEvents
  <2>1. Device(what) \in DeviceEvents
    BY DEF DeviceEvents
  <2>2. ASSUME NEW b \in {"EOPF", "WAKEUP", "RESET", "DISCONNECT"} PROVE Device(what) # Device(b)
    BY DevicesApart
  <2> QED
    BY <2>1, <2>2 DEF Turning
<1>2. /\ Device("EOPF") \in Turning /\ Device("WAKEUP") \in Turning /\ Device("RESET") \in Turning
      /\ Device("DISCONNECT") \in Turning
  BY DEF Turning
<1> QED
  BY <1>1, <1>2 DEF Turns

LEMMA EndTurns ==
  ASSUME NEW ev, ev \in Completions \/ ev \in NotReadys, NEW now, ~now
  PROVE  Turns(ev, now, now)
<1>1. ev \notin DeviceEvents
  BY Kinds
<1>2. /\ Device("EOPF") \in DeviceEvents /\ Device("WAKEUP") \in DeviceEvents /\ Device("RESET") \in DeviceEvents
      /\ Device("DISCONNECT") \in DeviceEvents
  BY DEF DeviceEvents, DEVICE_EVENT
<1>3. ev \notin Turning
  BY <1>1, <1>2 DEF Turning
<1> QED
  BY <1>1, <1>2, <1>3 DEF Turns

LEMMA TurnsApart ==
  /\ Turns(Device("EOPF"), FALSE, TRUE) /\ Turns(Device("WAKEUP"), TRUE, FALSE)
  /\ \A before \in BOOLEAN : Turns(Device("RESET"), before, FALSE) /\ Turns(Device("DISCONNECT"), before, FALSE)
<1>1. /\ Device("EOPF") \in Turning /\ Device("WAKEUP") \in Turning /\ Device("RESET") \in Turning
      /\ Device("DISCONNECT") \in Turning
  BY DEF Turning
<1>2. /\ Device("EOPF") \in DeviceEvents /\ Device("WAKEUP") \in DeviceEvents /\ Device("RESET") \in DeviceEvents
      /\ Device("DISCONNECT") \in DeviceEvents
  BY DEF DeviceEvents, DEVICE_EVENT
<1>3. /\ Device("EOPF") # Device("WAKEUP") /\ Device("EOPF") # Device("RESET") /\ Device("EOPF") # Device("DISCONNECT")
      /\ Device("WAKEUP") # Device("RESET") /\ Device("WAKEUP") # Device("DISCONNECT")
  <2>1. "EOPF" \in DOMAIN DEVICE_EVENT /\ "WAKEUP" \in DOMAIN DEVICE_EVENT
    BY DEF DEVICE_EVENT
  <2> QED
    BY <2>1, DevicesApart
<1> QED
  BY <1>1, <1>2, <1>3 DEF Turns

(* The mapped state while the device does nothing.                          *)
LEMMA Unmoved ==
  ASSUME IInv, PipeInv, usb' = usb, trb' = trb, setup' = setup, served' = served, host' = host, waiting' = waiting,
         stage' = stage, left' = left, ResetSeen' <=> ResetSeen
  PROVE  PipeStep
<1>1. AwakeState' = AwakeState
  BY DEF AwakeState
<1>2. EndsKnown(Now) /\ EndsKnown(Now')
  <2>1. EndsKnown(Now) /\ Now.u = usb /\ Now'.u = usb
    BY DEF PipeInv, Now
  <2> QED
    BY <2>1 DEF EndsKnown, Awake
<1>3. AnswerNow' = AnswerNow /\ GotNow' = GotNow /\ LateNow' = LateNow
  BY DEF AnswerNow, GotNow, LateNow, Unserved
<1> QED
  BY <1>1, <1>2, <1>3, PipeStutters

\* Suspends and other events of the link: ControlPipe stutters.
LEMMA LinkEventPipe ==
  ASSUME IInv, PipeInv, QuietLink, LinkEvent \/ BusResume
  PROVE  PipeInv' /\ PipeStep
<1>1. /\ up' = up /\ usb' = usb /\ trb' = trb /\ stalled' = stalled /\ stage' = stage /\ left' = left /\ raised' = raised
      /\ setup' = setup /\ served' = served /\ host' = host /\ waiting' = waiting
  BY DEF LinkEvent, BusResume, wire
<1>2. EndsKnown(Now) /\ HostKnown /\ ServedKnown /\ LeftKnown /\ Unplugged /\ evts \in Seq(Events)
  BY DEF PipeInv, IInv, Typed
<1>3. PICK what \in DOMAIN DEVICE_EVENT :
        /\ what \notin {"RESET", "DISCONNECT", "L1SUSPEND", "L1WAKEUP"}
        /\ evts' = Append(evts, Device(what))
        /\ \/ what = "EOPF" /\ host = NONE /\ ~asleep /\ asleep' = TRUE
           \/ what = "WAKEUP" /\ asleep /\ asleep' = FALSE
           \/ what \notin {"EOPF", "WAKEUP"} /\ asleep' = asleep
  <2>1. CASE host = NONE /\ ~asleep /\ Event(Device("EOPF")) /\ asleep' = TRUE
    <3>1. "EOPF" \in DOMAIN DEVICE_EVENT
      BY DEF DEVICE_EVENT
    <3> QED
      BY <2>1, <3>1 DEF Event
  <2>2. CASE BusResume
    <3>1. "WAKEUP" \in DOMAIN DEVICE_EVENT
      BY DEF DEVICE_EVENT
    <3> QED
      BY <2>2, <3>1 DEF BusResume, Event
  <2>3. ASSUME NEW link \in LinkEvents, Event(Device(link)), asleep' = asleep
        PROVE  /\ link \in DOMAIN DEVICE_EVENT /\ evts' = Append(evts, Device(link))
               /\ link \notin {"RESET", "DISCONNECT", "L1SUSPEND", "L1WAKEUP", "EOPF", "WAKEUP"}
    BY <2>3, UsbControlAssumption DEF QuietLink, Event
  <2>4. CASE \E link \in LinkEvents : Event(Device(link)) /\ UNCHANGED asleep
    <3>1. PICK link \in LinkEvents : Event(Device(link)) /\ asleep' = asleep
      BY <2>4
    <3> QED
      BY <2>3, <3>1
  <2> QED
    BY <2>1, <2>2, <2>4 DEF LinkEvent
<1>4. PICK ev : ev = Device(what)
  OBVIOUS
<1>5. ev \in DeviceEvents /\ ev \in Events /\ ev \notin Completions /\ ev \notin AskedStatus
  BY <1>4, NoCompletion DEF DeviceEvents
<1>6. ev # Device("RESET") /\ ev \notin {Device("DISCONNECT"), Device("L1SUSPEND"), Device("L1WAKEUP")}
  BY <1>3, <1>4, DevicesApart
<1>7. Grows(evts, evts', {ev})
  BY <1>2, <1>3, <1>4, <1>5, Appended
<1>8. ResetSeen' <=> ResetSeen
  BY <1>2, <1>6, <1>7, OtherEventAdded
<1>9. Now' = Now
  BY <1>1, Sames
<1>10. ServedKnown' /\ LeftKnown' /\ Unplugged'
  BY <1>1, <1>2, <1>5, <1>6, <1>7, <1>8, <1>9, ServedStays, LeftStays, UnpluggedStays
<1>11. HostKnown'
  BY <1>1, <1>2, <1>3 DEF HostKnown
<1>12. Turns(ev, asleep, asleep')
  BY <1>3, <1>4, TurnsApart, DeviceTurns DEF Turns
<1>13. Naps(evts, usb.dev_state = "SUSPENDED", asleep)'
  BY <1>1, <1>3, <1>4, <1>5, <1>12, NapsAdded
<1>14. EndsKnown(Now)'
  BY <1>2, <1>9, NextNow
<1>15. PipeInv'
  BY <1>10, <1>11, <1>13, <1>14 DEF PipeInv
<1> QED
  BY <1>1, <1>8, <1>15, Unmoved

LEMMA BusResetLength ==
  ASSUME BusReset, evts \in Seq(Events)
  PROVE  Len(evts') <= Len(evts) + 2
<1>1. CASE evts' = evts \o <<Device("RESET")>>
  BY <1>1
<1>2. CASE evts' = evts \o <<Device("DISCONNECT"), Device("RESET")>>
  BY <1>2
<1> QED
  BY <1>1, <1>2 DEF BusReset

\* Reset: the request the host waited for is gone, or late.
LEMMA BusResetPipe ==
  ASSUME IInv, IInv', PipeInv, BusReset
  PROVE  PipeInv' /\ PipeStep
<1>1. /\ up' = up /\ usb' = usb /\ trb' = trb /\ stalled' = stalled /\ setup' = setup /\ served' = served
      /\ stage' = "idle" /\ left' = 0 /\ host' = NONE /\ waiting' = NONE /\ asleep' = FALSE
  BY DEF BusReset
<1>2. EndsKnown(Now) /\ HostKnown /\ ServedKnown /\ LeftKnown /\ Unplugged /\ evts \in Seq(Events)
      /\ Naps(evts, usb.dev_state = "SUSPENDED", asleep)
  BY DEF PipeInv, IInv, Typed
<1>3. Device("RESET") \in DeviceEvents /\ Device("DISCONNECT") \in DeviceEvents
  BY ReportKinds DEF DEVICE_EVENT
<1>4. Device("RESET") \in Events /\ Device("DISCONNECT") \in Events
  BY <1>3, NoCompletion
<1>5. Device("RESET") \notin {Device("DISCONNECT"), Device("L1SUSPEND"), Device("L1WAKEUP")}
  <2>1. "RESET" \in DOMAIN DEVICE_EVENT
    BY DEF DEVICE_EVENT
  <2> QED
    BY <2>1, DevicesApart
<1>6. Device("DISCONNECT") \notin {Device("L1SUSPEND"), Device("L1WAKEUP")}
  <2>1. "DISCONNECT" \in DOMAIN DEVICE_EVENT
    BY DEF DEVICE_EVENT
  <2> QED
    BY <2>1, DevicesApart
<1>7. ASSUME NEW now PROVE Turns(Device("RESET"), now, FALSE) /\ Turns(Device("DISCONNECT"), now, FALSE)
  BY TurnsApart DEF Turns
<1>8. PICK n \in Nat : n = Len(evts)
  BY <1>2
<1>9. /\ Grows(evts, evts', DeviceEvents) /\ evts'[Len(evts')] = Device("RESET") /\ Len(evts') > n
      /\ \A i \in 1 .. Len(evts') : i > n /\ i # Len(evts') => evts'[i] = Device("DISCONNECT")
      /\ Naps(evts', usb.dev_state = "SUSPENDED", FALSE)
  <2>1. ASSUME NEW q \in Seq(Events), evts' = Append(q, Device("RESET")), Grows(evts, q, {Device("DISCONNECT")}),
               NEW to, Naps(q, usb.dev_state = "SUSPENDED", to)
        PROVE  /\ Grows(evts, evts', DeviceEvents) /\ evts'[Len(evts')] = Device("RESET") /\ Len(evts') > n
               /\ \A i \in 1 .. Len(evts') : i > n /\ i # Len(evts') => evts'[i] = Device("DISCONNECT")
               /\ Naps(evts', usb.dev_state = "SUSPENDED", FALSE)
    <3>1. Grows(q, evts', {Device("RESET")}) /\ Len(evts') = Len(q) + 1
      BY <1>4, <2>1, Appended
    <3>2. Grows(evts, q, DeviceEvents) /\ Grows(q, evts', DeviceEvents)
      BY <1>3, <2>1, <3>1, GrowsMore
    <3>3. Grows(evts, evts', DeviceEvents)
      BY <3>2, GrowsTwice
    <3>4. Naps(evts', usb.dev_state = "SUSPENDED", FALSE)
      BY <1>7, <2>1, <3>1, NapsLonger
    <3>5. evts'[Len(evts')] = Device("RESET") /\ Len(evts') > n
      BY <1>8, <2>1, <3>1 DEF Grows
    <3>6. \A i \in 1 .. Len(evts') : i > n /\ i # Len(evts') => evts'[i] = Device("DISCONNECT")
      BY <1>8, <2>1, <3>1 DEF Grows
    <3> QED
      BY <3>3, <3>4, <3>5, <3>6
  <2>2. CASE evts' = evts \o <<Device("RESET")>>
    <3>1. evts' = Append(evts, Device("RESET"))
      BY <1>2, <1>4, <2>2
    <3>2. Grows(evts, evts, {Device("DISCONNECT")})
      BY <1>2, GrowsNot
    <3> QED
      BY <1>2, <2>1, <3>1, <3>2
  <2>3. CASE evts' = evts \o <<Device("DISCONNECT"), Device("RESET")>>
    <3>1. PICK q : q = Append(evts, Device("DISCONNECT"))
      OBVIOUS
    <3>2. q \in Seq(Events) /\ evts' = Append(q, Device("RESET"))
      BY <1>2, <1>4, <2>3, <3>1
    <3>3. Grows(evts, q, {Device("DISCONNECT")}) /\ Len(q) = Len(evts) + 1
      BY <1>2, <1>4, <3>1, Appended
    <3>4. Naps(q, usb.dev_state = "SUSPENDED", FALSE)
      BY <1>2, <1>7, <3>3, NapsLonger
    <3> QED
      BY <2>1, <3>2, <3>3, <3>4
  <2> QED
    BY <2>2, <2>3 DEF BusReset
<1>10. ~ResetSeen'
  BY <1>9, SeenAtNext DEF Grows, Waiting
<1>11. Now' = Now
  BY <1>1, Sames
<1>12. \A ev \in DeviceEvents : ev \notin Completions /\ ev \notin AskedStatus
  BY NoCompletion
<1>13. ServedKnown' /\ LeftKnown'
  BY <1>1, <1>2, <1>9, <1>10, <1>11, <1>12, ServedStays, LeftStays
<1>14. HostKnown'
  BY <1>1 DEF HostKnown
<1>15. Unplugged'
  <2>1. /\ Waiting = 1 .. n /\ Waiting' = 1 .. Len(evts') /\ Len(evts') \in Nat /\ Len(evts') > n
        /\ \A i \in 1 .. n : evts'[i] = evts[i]
    BY <1>8, <1>9 DEF Waiting, Grows
  <2>2. ASSUME NEW i \in Waiting', evts'[i] = Device("DISCONNECT")
        PROVE  i + 1 \in Waiting' /\ evts'[i + 1] = Device("RESET")
    <3>1. CASE i <= n
      <4>1. i \in Waiting /\ evts[i] = Device("DISCONNECT")
        BY <2>1, <2>2, <3>1
      <4>2. i + 1 \in Waiting /\ evts[i + 1] = Device("RESET")
        BY <1>2, <4>1 DEF Unplugged
      <4> QED
        BY <2>1, <4>2
    <3>2. CASE i > n
      <4>1. i # Len(evts')
        BY <1>5, <1>9, <2>2
      <4>2. i + 1 \in Waiting' /\ i + 1 > n
        BY <2>1, <3>2, <4>1
      <4>3. evts'[i + 1] # Device("DISCONNECT") => evts'[i + 1] = Device("RESET")
        BY <1>9, <2>1, <4>2
      <4>4. i + 1 = Len(evts')
        <5>1. Len(evts') <= n + 2
          BY <1>2, <1>8, BusResetLength
        <5> QED
          BY <2>1, <3>2, <4>1, <5>1
      <4> QED
        BY <1>9, <4>2, <4>4
    <3> QED
      BY <2>1, <3>1, <3>2
  <2>3. ASSUME NEW i \in Waiting' PROVE evts'[i] \notin {Device("L1SUSPEND"), Device("L1WAKEUP")}
    <3>1. CASE i <= n
      BY <1>2, <2>1, <3>1 DEF Unplugged
    <3>2. CASE i > n
      BY <1>5, <1>6, <1>9, <2>1, <3>2
    <3> QED
      BY <2>1, <3>1, <3>2
  <2> QED
    BY <2>2, <2>3 DEF Unplugged
<1>16. Naps(evts, usb.dev_state = "SUSPENDED", asleep)'
  <2>1. Naps(evts', usb'.dev_state = "SUSPENDED", asleep')
    BY <1>1, <1>9 DEF Naps
  <2> QED
    BY <2>1 DEF Naps, Turns, Turning
<1>17. EndsKnown(Now)' /\ EndsKnown(Now')
  BY <1>2, <1>11, NextNow
<1>18. PipeInv'
  BY <1>13, <1>14, <1>15, <1>16, <1>17 DEF PipeInv
<1>19. AnswerNow' = "no" /\ GotNow' = 0 /\ LateNow' = IF Unserved THEN setup ELSE NONE
  BY <1>1 DEF AnswerNow, GotNow, LateNow, Unserved
<1>20. LateNow' = LateNow \/ (AnswerNow = "no" /\ LateNow' = host)
  <2>1. CASE waiting # NONE \/ host = NONE \/ ~Unserved
    BY <1>19, <2>1 DEF LateNow
  <2>2. CASE waiting = NONE /\ host # NONE /\ Unserved
    BY <1>19, <2>2, Late DEF AnswerNow, Unserved
  <2> QED
    BY <2>1, <2>2
<1>21. AwakeState' = AwakeState
  BY <1>1, Sames
<1>22. PipeStep
  BY <1>1, <1>2, <1>10, <1>17, <1>19, <1>20, <1>21, PipeResets
<1> QED
  BY <1>18, <1>22

-----------------------------------------------------------------------------
(* The bring-up.                                                            *)

LEMMA NoNaps == Naps(<<>>, FALSE, FALSE)
<1>1. {} \in SUBSET (0 .. 0) /\ Len(<<>>) = 0
  OBVIOUS
<1>2. 0 \notin {} /\ \A i \in 1 .. 0 : Turns(<<>>[i], i - 1 \in {}, i \in {})
  OBVIOUS
<1>3. \E naps \in SUBSET (0 .. 0) :
        /\ 0 \in naps <=> FALSE
        /\ 0 \in naps <=> FALSE
        /\ \A i \in 1 .. 0 : Turns(<<>>[i], i - 1 \in naps, i \in naps)
  BY <1>1, <1>2
<1> QED
  BY <1>1, <1>3 DEF Naps

\* Endpoint 0 is configured anew; the others stay.
LEMMA ControlsConfigured ==
  ASSUME NEW eps, eps \subseteq {ControlEnd(0), ControlEnd(EP_DIR_IN)} \cup Bulks,
         NEW c, Configured(c) = ControlEnd(0), NEW d, Configured(d) = ControlEnd(EP_DIR_IN)
  PROVE  /\ With(With(eps, c), d) \subseteq {ControlEnd(0), ControlEnd(EP_DIR_IN)} \cup Bulks
         /\ Bulks \subseteq eps => Bulks \subseteq With(With(eps, c), d)
<1>1. ASSUME NEW b \in Bulks PROVE b.addr # ControlEnd(0).addr /\ b.addr # ControlEnd(EP_DIR_IN).addr
  BY DEF Bulks, BulkEnd, ControlEnd, MSC_EP_IN, MSC_EP_OUT, EP_DIR_IN
<1>2. With(eps, c) = {ep \in eps : ep.addr # ControlEnd(0).addr} \cup {ControlEnd(0)}
  BY DEF With
<1>3. With(With(eps, c), d) =
        {ep \in With(eps, c) : ep.addr # ControlEnd(EP_DIR_IN).addr} \cup {ControlEnd(EP_DIR_IN)}
  BY DEF With
<1> QED
  BY <1>1, <1>2, <1>3

Controls(eps, mps, action) ==
  With(With(eps, dwc3_ep_configure(0, FALSE, USBD_EP_TYPE.CTRL, mps, action)),
       dwc3_ep_configure(0, TRUE, USBD_EP_TYPE.CTRL, mps, action))

LEMMA ControlsKept ==
  ASSUME NEW eps, eps \subseteq {ControlEnd(0), ControlEnd(EP_DIR_IN)} \cup Bulks, NEW mps, mps = 64, NEW action,
         NEW in, in = Controls(eps, mps, action)
  PROVE  /\ in \subseteq {ControlEnd(0), ControlEnd(EP_DIR_IN)} \cup Bulks
         /\ Bulks \subseteq eps => Bulks \subseteq in
         /\ in \in SUBSET Endpoint
<1>1. PICK c : c = dwc3_ep_configure(0, FALSE, USBD_EP_TYPE.CTRL, mps, action)
  OBVIOUS
<1>2. PICK d : d = dwc3_ep_configure(0, TRUE, USBD_EP_TYPE.CTRL, mps, action)
  OBVIOUS
<1>3. Configured(c) = ControlEnd(0)
  <2>1. FALSE \in BOOLEAN
    OBVIOUS
  <2> QED
    BY <1>1, <2>1, ControlConfigured
<1>4. Configured(d) = ControlEnd(EP_DIR_IN)
  <2>1. TRUE \in BOOLEAN
    OBVIOUS
  <2> QED
    BY <1>2, <2>1, ControlConfigured
<1>5. in = With(With(eps, c), d)
  BY <1>1, <1>2 DEF Controls
<1>6. /\ in \subseteq {ControlEnd(0), ControlEnd(EP_DIR_IN)} \cup Bulks
      /\ Bulks \subseteq eps => Bulks \subseteq in
  BY <1>3, <1>4, <1>5, ControlsConfigured
<1>7. \A b \in Bulks : b \in Endpoint
  BY DEF Bulks, BulkEnd, Endpoint, USBD_EP_TYPE, MSC_MPS_HS, MSC_EP_IN, MSC_EP_OUT
<1>8. ControlEnd(0) \in Endpoint /\ ControlEnd(EP_DIR_IN) \in Endpoint
  BY DEF ControlEnd, Endpoint, USBD_EP_TYPE, USB_MAX_EP0_SIZE, EP_DIR_IN
<1> QED
  BY <1>6, <1>7, <1>8

\* The initial states.
LEMMA InitPipe ==
  ASSUME Init
  PROVE  PipeInv /\ Pipe!Init
<1>1. /\ up = "off" /\ usb = usb_handle /\ trb = [e \in Ends |-> 0] /\ stage = "idle" /\ evts = <<>>
      /\ setup = NONE /\ served = "OK" /\ host = NONE /\ waiting = NONE /\ asleep = FALSE
  BY DEF Init
<1>2. Now.u = usb /\ Now.trb = trb
  BY DEF Now
<1>3. /\ usb.eps = {} /\ usb.pcd_maxpacket = USB_MAX_EP0_SIZE /\ usb.dev_state = "DEFAULT" /\ usb.EP0_State = "RESET"
  BY <1>1 DEF usb_handle
<1>4. EndsKnown(Now)
  BY <1>2, <1>3 DEF EndsKnown, Awake
<1>5. HostKnown
  BY <1>1 DEF HostKnown
<1>6. ServedKnown
  BY <1>1, <1>2, <1>3 DEF ServedKnown, Armed, Taken, Working
<1>7. KindIn(Now, "IN") = "none"
  BY <1>1, <1>2, TrbKinds DEF KindIn, Ends
<1>8. LeftKnown
  BY <1>1, <1>7 DEF LeftKnown
<1>9. Unplugged /\ ResetSeen
  BY <1>1 DEF Unplugged, Waiting, ResetSeen
<1>10. Naps(evts, usb.dev_state = "SUSPENDED", asleep)
  <2>1. (usb.dev_state = "SUSPENDED") = FALSE
    BY <1>3
  <2> QED
    BY <1>1, <2>1, NoNaps
<1>11. Pipe!Init
  BY <1>1, <1>3, <1>9 DEF Pipe!Init, AwakeState, Unserved
<1> QED
  BY <1>4, <1>5, <1>6, <1>8, <1>9, <1>10, <1>11 DEF PipeInv

LEMMA BringUpEnds ==
  ASSUME IInv, EndsKnown(Now), usb.dev_state = "DEFAULT", BringUp
  PROVE  EndsKnown(Now') /\ usb'.dev_state = "DEFAULT"
<1>1. Now \in DriverStates /\ usb \in Handles /\ trb \in [Ends -> Nat] /\ stalled \in BOOLEAN /\ Now.u = usb /\ Now'.u = usb'
      /\ Now = [u |-> usb, trb |-> trb, stalled |-> stalled]
  BY DEF IInv, Typed, Now, DriverStates
<1>2. usb.pcd_maxpacket = 64 /\ usb.eps \subseteq {ControlEnd(0), ControlEnd(EP_DIR_IN)} \cup Bulks
  BY <1>1 DEF EndsKnown, USB_MAX_EP0_SIZE
<1>3. ASSUME NEW v, v.dev_state = "DEFAULT", v.pcd_maxpacket = 64,
             v.eps \subseteq {ControlEnd(0), ControlEnd(EP_DIR_IN)} \cup Bulks, usb' = v
      PROVE  EndsKnown(Now') /\ usb'.dev_state = "DEFAULT"
  BY <1>1, <1>3 DEF EndsKnown, Awake, USB_MAX_EP0_SIZE
<1>4. CASE usb' = usb
  BY <1>2, <1>3, <1>4
<1>5. CASE dwc3_dev_init /\ ~Panic
  <2> DEFINE ctrl(is_in) == dwc3_ep_configure(0, is_in, USBD_EP_TYPE.CTRL, usb.pcd_maxpacket, DEPCFG_ACTION.INIT)
  <2>1. PICK mps : mps = usb.pcd_maxpacket
    OBVIOUS
  <2>2. PICK action : action = DEPCFG_ACTION.INIT
    OBVIOUS
  <2>3. PICK eps : eps = Controls(usb.eps, mps, action)
    OBVIOUS
  <2>4. eps \subseteq {ControlEnd(0), ControlEnd(EP_DIR_IN)} \cup Bulks /\ eps \in SUBSET Endpoint
    BY <1>2, <2>1, <2>3, ControlsKept
  <2>5. PICK v : v = [usb EXCEPT !.eps = eps]
    OBVIOUS
  <2>6. v \in Handles /\ v.eps = eps /\ v.dev_state = "DEFAULT" /\ v.pcd_maxpacket = 64
    BY <1>1, <1>2, <2>4, <2>5 DEF Handles
  <2>7. PICK s : s = [Now EXCEPT !.u = v]
    OBVIOUS
  <2>8. s \in DriverStates /\ s.u = v /\ s.trb = trb
    BY <1>1, <2>6, <2>7 DEF DriverStates
  <2>9. PICK t : t = usb_dwc3_ep0_out_start(s)
    OBVIOUS
  <2>10. s = [Now EXCEPT !.u.eps = With(With(usb.eps, ctrl(FALSE)), ctrl(TRUE))]
    BY <1>1, <2>1, <2>2, <2>3, <2>5, <2>7 DEF Controls
  <2>11. up = "core" /\ usb' = t.u
    BY <1>5, <2>9, <2>10 DEF dwc3_dev_init
  <2>12. KindIn(s, "OUT") = "none"
    <3>1. trb["OUT"] = 0
      BY <2>11 DEF IInv, BringingUp, Ends
    <3> QED
      BY <2>8, <3>1, TrbKinds DEF KindIn
  <2>13. Readies(s, t)
    BY <2>8, <2>9, <2>12, OutStarted
  <2>14. t.u.eps = eps /\ t.u.dev_state = "DEFAULT" /\ t.u.pcd_maxpacket = 64
    BY <2>6, <2>8, <2>13 DEF Readies, SameDevice
  <2> QED
    BY <1>3, <2>4, <2>11, <2>14
<1>6. CASE register_usb_driver
  <2>1. PICK v : v = [usb EXCEPT !.dev_state = "DEFAULT", !.ep0_state = "IDLE", !.maxpacket = usb.pcd_maxpacket]
    OBVIOUS
  <2>2. v.dev_state = "DEFAULT" /\ v.pcd_maxpacket = 64 /\ v.eps = usb.eps
    BY <1>1, <1>2, <2>1 DEF Handles
  <2> QED
    BY <1>2, <1>3, <1>6, <2>1, <2>2 DEF register_usb_driver
<1>7. CASE usb_dwc3_start_device
  <2>1. Armed(Now)
    BY <1>7 DEF usb_dwc3_start_device, IInv, BringingUp
  <2>2. usb' = usb
    BY <1>1, <1>7, <2>1 DEF usb_dwc3_start_device, Armed
  <2> QED
    BY <1>4, <2>2
<1>8. dwc3_core_init \/ Panic => usb' = usb
  BY DEF dwc3_core_init, Panic
<1> QED
  BY <1>4, <1>5, <1>6, <1>7, <1>8 DEF BringUp

\* No step of the bring-up is one of ControlPipe.
LEMMA BringUpPipe ==
  ASSUME IInv, IInv', PipeInv, BringUp
  PROVE  PipeInv' /\ PipeStep
<1>1. /\ stalled' = stalled /\ stage' = stage /\ left' = left /\ raised' = raised /\ evts' = evts /\ setup' = setup
      /\ served' = served /\ host' = host /\ waiting' = waiting /\ asleep' = asleep /\ up # "running"
  BY DEF BringUp, dwc3_core_init, dwc3_dev_init, register_usb_driver, usb_dwc3_start_device, wire
<1>2. evts = <<>> /\ stage = "idle" /\ host = NONE /\ ~asleep
  BY <1>1 DEF IInv, BringingUp
<1>3. EndsKnown(Now) /\ HostKnown /\ ServedKnown /\ LeftKnown /\ Unplugged
  BY DEF PipeInv
<1>4. served = "OK" /\ usb.dev_state = "DEFAULT"
  BY <1>1, <1>3 DEF ServedKnown
<1>5. EndsKnown(Now') /\ usb'.dev_state = "DEFAULT"
  BY <1>3, <1>4, BringUpEnds
<1>6. Armed(Now') \/ (usb'.EP0_State = "RESET" /\ KindIn(Now', "IN") = "none")
  <2>1. CASE up' \in {"off", "core", "panic"}
    <3>1. usb'.EP0_State = "RESET" /\ trb'["IN"] = 0
      BY <2>1 DEF IInv, BringingUp, Ends
    <3>2. Now'.trb = trb'
      BY DEF Now
    <3> QED
      BY <3>1, <3>2, TrbKinds DEF KindIn
  <2>2. CASE up' \in {"device", "ready"}
    BY <2>2, NextNow DEF IInv, BringingUp
  <2>3. CASE up' = "running"
    <3>1. usb_dwc3_start_device /\ up = "ready"
      BY <1>1, <2>3 DEF BringUp, dwc3_core_init, dwc3_dev_init, register_usb_driver, usb_dwc3_start_device, Panic
    <3>2. Armed(Now) /\ Now.u = usb
      BY <3>1 DEF IInv, BringingUp, Now
    <3>3. usb' = usb /\ trb' = trb
      BY <3>1, <3>2 DEF usb_dwc3_start_device, Armed, Now
    <3>4. Now' = Now
      BY <1>1, <3>3 DEF Now
    <3> QED
      BY <3>2, <3>4
  <2> QED
    BY <2>1, <2>2, <2>3 DEF IInv, Typed
<1>7. ~Taken(Now)' /\ ~Working(Now)' /\ KindIn(Now, "IN")' # "data"
  BY <1>6, NextNow DEF Armed, Taken, Now, Ends
<1>8. ServedKnown'
  BY <1>1, <1>2, <1>4, <1>5, <1>7 DEF ServedKnown
<1>9. LeftKnown'
  BY <1>1, <1>2, <1>7 DEF LeftKnown
<1>10. HostKnown' /\ Unplugged' /\ (ResetSeen' <=> ResetSeen)
  BY <1>1, <1>3 DEF HostKnown, Unplugged, Waiting, ResetSeen
<1>11. Naps(evts, usb.dev_state = "SUSPENDED", asleep)'
  <2>1. (usb'.dev_state = "SUSPENDED") = FALSE /\ asleep' = FALSE
    <3>1. asleep = FALSE
      BY <1>2, <1>3 DEF PipeInv
    <3> QED
      BY <1>1, <1>5, <3>1
  <2>2. Naps(evts', usb'.dev_state = "SUSPENDED", asleep')
    BY <1>1, <1>2, <2>1, NoNaps
  <2> QED
    BY <2>2 DEF Naps, Turns, Turning
<1>12. PipeInv'
  BY <1>5, <1>8, <1>9, <1>10, <1>11, NextNow DEF PipeInv
<1>13. AwakeState' = AwakeState
  BY <1>4, <1>5 DEF AwakeState
<1>14. AnswerNow' = AnswerNow /\ GotNow' = GotNow /\ LateNow' = LateNow
  BY <1>1 DEF AnswerNow, GotNow, LateNow, Unserved
<1>15. PipeStep
  BY <1>1, <1>3, <1>5, <1>10, <1>13, <1>14, PipeStutters
<1> QED
  BY <1>12, <1>15

-----------------------------------------------------------------------------
(* The steps of the controller.                                             *)

\* The controller does not change the device.
LEMMA DeviceKept ==
  ASSUME PipeInv, usb' = usb
  PROVE  EndsKnown(Now) /\ EndsKnown(Now') /\ EndsKnown(Now)' /\ AwakeState' = AwakeState
<1>1. EndsKnown(Now) /\ Now.u = usb /\ Now'.u = usb
  BY DEF PipeInv, Now
<1>2. EndsKnown(Now')
  BY <1>1 DEF EndsKnown, Awake
<1> QED
  BY <1>1, <1>2, NextNow DEF AwakeState

(* An event of endpoint 0 more.                                             *)
LEMMA EndEventAdded ==
  ASSUME IInv, PipeInv, usb' = usb, asleep' = asleep, host # NONE,
         NEW ev, ev \in Completions \/ ev \in NotReadys, evts' = Append(evts, ev)
  PROVE  /\ Unplugged' /\ Naps(evts, usb.dev_state = "SUSPENDED", asleep)' /\ (ResetSeen' <=> ResetSeen)
         /\ Grows(evts, evts', {ev})
<1>1. ev \in Events /\ ev \notin DeviceEvents
  BY Kinds
<1>2. ev # Device("RESET") /\ ev \notin {Device("DISCONNECT"), Device("L1SUSPEND"), Device("L1WAKEUP")}
  <2>1. /\ Device("RESET") \in DeviceEvents /\ Device("DISCONNECT") \in DeviceEvents
        /\ Device("L1SUSPEND") \in DeviceEvents /\ Device("L1WAKEUP") \in DeviceEvents
    BY DEF DeviceEvents, DEVICE_EVENT
  <2> QED
    BY <1>1, <2>1
<1>3. evts \in Seq(Events) /\ Unplugged /\ ~asleep
  BY DEF IInv, Typed, PipeInv, HostKnown
<1>4. Grows(evts, evts', {ev})
  BY <1>1, <1>3, Appended
<1>5. ResetSeen' <=> ResetSeen
  BY <1>2, <1>3, <1>4, OtherEventAdded
<1>6. Unplugged'
  BY <1>2, <1>3, <1>4, UnpluggedStays
<1>7. Turns(ev, asleep, asleep')
  BY <1>3, EndTurns
<1> QED
  BY <1>1, <1>4, <1>5, <1>6, <1>7, NapsAdded

\* The SETUP is stored: from now on the request can be late.
LEMMA TakeSetupPipe ==
  ASSUME IInv, IInv', PipeInv, Understood, TakeSetup
  PROVE  PipeInv' /\ PipeStep
<1>1. /\ waiting # NONE /\ Kind("OUT") = "setup"
      /\ trb' = [trb EXCEPT !["OUT"] = 0] /\ stalled' = FALSE
      /\ setup' = waiting /\ waiting' = NONE /\ served' = "no" /\ left' = waiting.len
      /\ stage' = (IF waiting.len = 0 THEN "status" ELSE "data")
      /\ evts' = Append(evts, Complete("OUT", 0)) /\ host' = host /\ usb' = usb /\ up' = up /\ asleep' = asleep
  BY DEF TakeSetup, Event, Given
<1>2. HostKnown /\ ServedKnown
  BY DEF PipeInv
<1>3. up = "running" /\ host = waiting /\ host # NONE /\ host \in Requests
  BY <1>1, <1>2, AskedOnTheBus DEF HostKnown
<1>4. host.len \in Nat
  BY <1>3, RequestsUnderstood
<1>5. Armed(Now)
  <2>1. KindIn(Now, "OUT") = "setup"
    BY <1>1 DEF Kind, KindIn, Now
  <2> QED
    BY <1>3, <2>1, ModeIs DEF Taken, Working
<1>6. served \in {"OK", "STALL"}
  BY <1>2, <1>5 DEF ServedKnown
<1>7. KindIn(Now', "OUT") = "none" /\ KindIn(Now', "IN") = "none"
  <2>1. stalled' \in BOOLEAN /\ Now \in DriverStates
    BY <1>1, Bools DEF IInv, Typed
  <2>2. KindIn(Now', "OUT") = "none" /\ KindIn(Now', "IN") = KindIn(Now, "IN")
    BY <1>1, <2>1, TrbFreed DEF Ends
  <2> QED
    BY <1>5, <2>2 DEF Armed
<1>8. usb'.EP0_State = "SETUP_QUEUED"
  BY <1>1, <1>5 DEF Armed, Now
<1>9. ~Armed(Now)' /\ ~Working(Now)'
  BY <1>7, <1>8, NextNow DEF Armed
<1>10. ServedKnown'
  BY <1>1, <1>3, <1>9 DEF ServedKnown
<1>11. HostKnown'
  BY <1>1, <1>2, <1>3 DEF HostKnown
<1>12. KindIn(Now, "IN")' = "none" /\ Pipe!Owed(setup)' = Pipe!Owed(host)
  BY <1>1, <1>3, <1>7, NextNow DEF Ends
<1>13. LeftKnown'
  <2>1. stage' = "data" => left' = setup'.len
    BY <1>1
  <2>2. stage' = "status" => setup'.len - left' = Pipe!Owed(host) /\ ~(setup'.len > 0)
    <3>1. stage' = "status" => host.len = 0
      BY <1>1, <1>3
    <3>2. host.len = 0 => Pipe!Owed(host) = 0
      BY <1>3, OwedBytes
    <3> QED
      BY <1>1, <1>3, <3>1, <3>2
  <2> QED
    BY <1>12, <2>1, <2>2 DEF LeftKnown
<1>14. PICK ev : ev = Complete("OUT", 0) /\ ev \in Completions
  BY ReportKinds, Kinds DEF Ends
<1>15. Unplugged' /\ Naps(evts, usb.dev_state = "SUSPENDED", asleep)' /\ (ResetSeen' <=> ResetSeen)
  BY <1>1, <1>3, <1>14, EndEventAdded
<1>16. EndsKnown(Now) /\ EndsKnown(Now') /\ EndsKnown(Now)' /\ AwakeState' = AwakeState
  BY <1>1, DeviceKept
<1>17. PipeInv'
  BY <1>10, <1>11, <1>13, <1>15, <1>16 DEF PipeInv
<1>18. AnswerNow = "no" /\ GotNow = 0 /\ LateNow = NONE
  BY <1>1, <1>6 DEF AnswerNow, GotNow, LateNow, Unserved
<1>19. AnswerNow' = "no" /\ GotNow' = 0 /\ LateNow' = NONE
  BY <1>1, <1>3, <1>4 DEF AnswerNow, GotNow, LateNow, Unserved
<1> QED
  BY <1>1, <1>15, <1>16, <1>17, <1>18, <1>19, PipeStutters

(* The end of a transfer of a request that was carried out.                 *)
LEMMA TransferServed ==
  ASSUME IInv, ServedKnown, up = "running", NEW e \in Ends, Kind(e) \in {"data", "status2", "status3"}
  PROVE  /\ WhenWorking /\ Working(Now) /\ KindIn(Now, e) = Kind(e) /\ served = "OK"
         /\ Kind(e) = "data" => e = "IN"
         /\ \A d \in Ends : d # e => KindIn(Now, d) = "none"
<1>1. WhenWorking /\ KindIn(Now, e) = Kind(e)
  BY StageIsWorking
<1>2. Working(Now)
  BY <1>1 DEF WhenWorking
<1>3. ~Deciding(Now)
  BY <1>1 DEF Deciding, Ends
<1>4. served = "OK"
  BY <1>2, <1>3 DEF ServedKnown
<1> QED
  BY <1>1, <1>2, <1>4 DEF Working, Ends

LEMMA StillServed ==
  ASSUME IInv, ServedKnown, up = "running", Working(Now), served = "OK",
         up' = up, usb' = usb, setup' = setup, served' = served,
         NEW ev \in Completions, Grows(evts, evts', {ev}), stage' = "status" => setup.len > 0
  PROVE  ServedKnown'
<1>1. usb'.EP0_State = "SETUP_COMPLETED"
  BY DEF Working, Now
<1>2. ~Armed(Now)' /\ ~Taken(Now)'
  BY <1>1 DEF Armed, Taken, Now
<1>3. ASSUME NEW i \in Waiting' PROVE (i \in Waiting /\ evts'[i] = evts[i]) \/ evts'[i] = ev
  BY DEF Waiting, Grows
<1>4. ev \notin AskedStatus
  BY Kinds
<1>5. ASSUME setup.len = 0 PROVE \A i \in Waiting' : evts'[i] \notin AskedStatus
  BY <1>3, <1>4, <1>5 DEF ServedKnown
<1>6. setup.len = 0 => ~(setup.len > 0)
  OBVIOUS
<1>7. AskedStatus' = AskedStatus
  BY DEF AskedStatus
<1> QED
  BY <1>2, <1>5, <1>6, <1>7 DEF ServedKnown

\* A transfer is given up for a new SETUP.
LEMMA SetupPendingPipe ==
  ASSUME IInv, IInv', PipeInv, NEW e \in Ends, SetupPending(e)
  PROVE  PipeInv' /\ PipeStep
<1>1. /\ waiting # NONE /\ Kind(e) \in {"data", "status2", "status3"} /\ trb' = [trb EXCEPT ![e] = 0]
      /\ stage' = "idle" /\ left' = 0 /\ stalled' = stalled /\ setup' = setup /\ served' = served
      /\ host' = host /\ waiting' = waiting /\ usb' = usb /\ up' = up /\ asleep' = asleep
  BY DEF SetupPending, Given
<1>2. PICK ev \in Completions : evts' = Append(evts, ev)
  <2>1. \A trbsts \in {0, 2} : Complete(e, trbsts) \in Completions
    BY ReportKinds, Kinds DEF Ends
  <2> QED
    BY <2>1 DEF SetupPending, Event
<1>3. HostKnown /\ ServedKnown
  BY DEF PipeInv
<1>4. up = "running" /\ host # NONE /\ ResetSeen
  BY <1>1, <1>3, AskedOnTheBus DEF IInv, OnTheBus
<1>5. Working(Now) /\ served = "OK" /\ \A d \in Ends : d # e => KindIn(Now, d) = "none"
  BY <1>1, <1>3, <1>4, TransferServed
<1>6. Unplugged' /\ Naps(evts, usb.dev_state = "SUSPENDED", asleep)' /\ (ResetSeen' <=> ResetSeen) /\ Grows(evts, evts', {ev})
  BY <1>1, <1>2, <1>4, EndEventAdded
<1>7. ServedKnown'
  BY <1>1, <1>2, <1>3, <1>4, <1>5, <1>6, StillServed
<1>8. KindIn(Now', "IN") = "none"
  <2>1. stalled' \in BOOLEAN /\ Now \in DriverStates
    BY <1>1 DEF IInv, Typed, DriverStates, Now
  <2>2. KindIn(Now', e) = "none" /\ \A d \in Ends : d # e => KindIn(Now', d) = KindIn(Now, d)
    BY <1>1, <2>1, TrbFreed
  <2> QED
    BY <1>5, <2>2 DEF Ends
<1>9. LeftKnown'
  BY <1>1, <1>8, NextNow DEF LeftKnown, Ends
<1>10. HostKnown'
  BY <1>1, <1>3 DEF HostKnown
<1>11. EndsKnown(Now) /\ EndsKnown(Now') /\ EndsKnown(Now)' /\ AwakeState' = AwakeState
  BY <1>1, DeviceKept
<1>12. PipeInv'
  BY <1>6, <1>7, <1>9, <1>10, <1>11 DEF PipeInv
<1>13. AnswerNow' = AnswerNow /\ GotNow' = GotNow /\ LateNow' = LateNow
  BY <1>1 DEF AnswerNow, GotNow, LateNow, Unserved
<1> QED
  BY <1>1, <1>6, <1>11, <1>12, <1>13, PipeStutters

\* Send.
LEMMA MovesPipe ==
  ASSUME IInv, IInv', PipeInv, Moves
  PROVE  PipeInv' /\ PipeStep
<1>1. stage = "data" /\ waiting = NONE /\ Kind(Data) = "data" /\ Data = setup.dir
  BY DEF Moves, At, Data
<1>2. HostKnown /\ ServedKnown /\ LeftKnown
  BY DEF PipeInv
<1>3. up = "running" /\ ResetSeen /\ host # NONE /\ setup = host /\ setup \in Requests
  BY <1>1, <1>2, AskedOnTheBus DEF HostKnown
<1>4. Data \in Ends /\ setup.len \in Nat
  BY <1>1, <1>3, SetupFields
<1>5. WhenWorking /\ Working(Now) /\ KindIn(Now, Data) = "data" /\ served = "OK" /\ Data = "IN"
  BY <1>1, <1>2, <1>3, <1>4, TransferServed
<1>6. setup.len > 0
  BY <1>1, <1>5 DEF WhenWorking
<1>7. PICK n : n = usb.xfer_len["IN"]
  OBVIOUS
<1>8. n \in Nat /\ n < 64 /\ n = Pipe!Owed(setup) /\ left = setup.len
  <2>1. usb.xfer_len \in [Ends -> Nat]
    BY DEF IInv, Typed, DriverStates, Handles, Now
  <2> QED
    BY <1>1, <1>2, <1>3, <1>5, <1>7, <2>1 DEF LeftKnown, Ends
<1>9. n > 0
  <2>1. StageKind(usb.xfer_len["IN"]) = "data"
    BY <1>5 DEF Working, Now
  <2> QED
    BY <1>7, <1>8, <2>1 DEF StageKind
<1>10. PICK ep \in usb.eps :
         /\ ep.addr = EP_DIR_IN
         /\ stage' = (IF n % ep.maxpacket # 0 \/ n >= left THEN "status" ELSE stage) /\ left' = left - n
  BY <1>5, <1>7 DEF Moves
<1>11. ep.maxpacket = 64
  <2>1. usb.eps \subseteq {ControlEnd(0), ControlEnd(EP_DIR_IN)} \cup Bulks
    BY DEF PipeInv, EndsKnown, Now
  <2>2. ep = ControlEnd(EP_DIR_IN)
    BY <1>10, <2>1 DEF ControlEnd, Bulks, BulkEnd, EP_DIR_IN, MSC_EP_IN, MSC_EP_OUT
  <2> QED
    BY <2>2 DEF ControlEnd, USB_MAX_EP0_SIZE
<1>12. stage' = "status" /\ left' = setup.len - n
  <2>1. n % 64 = n
    BY <1>8
  <2> QED
    BY <1>8, <1>9, <1>10, <1>11, <2>1
<1>13. /\ trb' = [trb EXCEPT !["IN"] = 0] /\ evts' = Append(evts, Complete("IN", 0)) /\ stalled' = stalled /\ setup' = setup
       /\ served' = served /\ host' = host /\ waiting' = waiting /\ usb' = usb /\ up' = up /\ asleep' = asleep
  BY <1>5 DEF Moves, Event, Given
<1>14. PICK ev : ev = Complete("IN", 0) /\ ev \in Completions
  BY ReportKinds, Kinds DEF Ends
<1>15. Unplugged' /\ Naps(evts, usb.dev_state = "SUSPENDED", asleep)' /\ (ResetSeen' <=> ResetSeen) /\ Grows(evts, evts', {ev})
  BY <1>3, <1>13, <1>14, EndEventAdded
<1>16. ServedKnown'
  BY <1>2, <1>3, <1>5, <1>6, <1>13, <1>14, <1>15, StillServed
<1>17. KindIn(Now', "IN") = "none"
  <2>1. stalled' \in BOOLEAN /\ Now \in DriverStates
    BY <1>13 DEF IInv, Typed, DriverStates, Now
  <2> QED
    BY <1>13, <2>1, TrbFreed DEF Ends
<1>18. Pipe!Owed(setup)' = n /\ setup.len - left' = n
  BY <1>4, <1>8, <1>12, <1>13, NextNow
<1>19. LeftKnown'
  BY <1>5, <1>12, <1>13, <1>17, <1>18, NextNow DEF LeftKnown, Ends
<1>20. HostKnown'
  BY <1>2, <1>3, <1>12, <1>13 DEF HostKnown
<1>21. EndsKnown(Now) /\ EndsKnown(Now') /\ EndsKnown(Now)' /\ AwakeState' = AwakeState
  BY <1>13, DeviceKept
<1>22. PipeInv'
  BY <1>15, <1>16, <1>19, <1>20, <1>21 DEF PipeInv
<1>23. AnswerNow = "OK" /\ GotNow = 0 /\ LateNow = NONE
  BY <1>1, <1>3, <1>4, <1>5, <1>8 DEF AnswerNow, GotNow, LateNow, Unserved
<1>24. AnswerNow' = "OK" /\ GotNow' = n /\ LateNow' = NONE
  BY <1>1, <1>3, <1>5, <1>12, <1>13, <1>18 DEF AnswerNow, GotNow, LateNow, Unserved
<1>25. Pipe!Owed(host) = n
  BY <1>3, <1>8
<1>26. GotNow' \in GotNow + 1 .. Pipe!Owed(host) /\ GotNow < Pipe!Owed(host)
  BY <1>8, <1>9, <1>23, <1>24, <1>25
<1>27. PipeStep
  BY <1>3, <1>13, <1>15, <1>21, <1>23, <1>24, <1>26, PipeSends
<1> QED
  BY <1>22, <1>27

\* Answer, with the status stage that ends the request.
LEMMA EndsPipe ==
  ASSUME IInv, IInv', PipeInv, Ends_ok
  PROVE  PipeInv' /\ PipeStep
<1>1. stage = "status" /\ waiting = NONE /\ Kind(Status) \in {"status2", "status3"} /\ Status \in Ends
  BY DEF Ends_ok, At, StatusTrb, Status, Ends
<1>2. HostKnown /\ ServedKnown /\ LeftKnown
  BY DEF PipeInv
<1>3. up = "running" /\ ResetSeen /\ host # NONE /\ setup = host /\ setup \in Requests
  BY <1>1, <1>2, AskedOnTheBus DEF HostKnown
<1>4. Working(Now) /\ served = "OK" /\ \A d \in Ends : d # Status => KindIn(Now, d) = "none"
  BY <1>1, <1>2, <1>3, TransferServed
<1>5. PICK e \in Ends : e = Status
  BY <1>1
<1>6. /\ trb' = [trb EXCEPT ![e] = 0] /\ stage' = "idle" /\ left' = 0 /\ host' = NONE /\ stalled' = stalled
      /\ setup' = setup /\ served' = served /\ waiting' = waiting /\ usb' = usb /\ up' = up /\ asleep' = asleep
      /\ evts' = Append(evts, Complete(e, 0))
  BY <1>5 DEF Ends_ok, Event
<1>7. PICK ev : ev = Complete(e, 0) /\ ev \in Completions
  <2>1. Complete(e, 0) \in Completions
    BY ReportKinds, Kinds DEF Ends
  <2> QED
    BY <2>1
<1>8. Unplugged' /\ Naps(evts, usb.dev_state = "SUSPENDED", asleep)' /\ (ResetSeen' <=> ResetSeen) /\ Grows(evts, evts', {ev})
  BY <1>3, <1>6, <1>7, EndEventAdded
<1>9. ServedKnown'
  BY <1>2, <1>3, <1>4, <1>6, <1>7, <1>8, StillServed
<1>10. KindIn(Now', "IN") = "none"
  <2>1. stalled' \in BOOLEAN /\ Now \in DriverStates
    BY <1>6 DEF IInv, Typed, DriverStates, Now
  <2>2. KindIn(Now', e) = "none" /\ \A d \in Ends : d # e => KindIn(Now', d) = KindIn(Now, d)
    BY <1>6, <2>1, TrbFreed
  <2> QED
    BY <1>4, <1>5, <2>2 DEF Ends
<1>11. LeftKnown'
  BY <1>6, <1>10, NextNow DEF LeftKnown, Ends
<1>12. HostKnown'
  BY <1>1, <1>6 DEF HostKnown
<1>13. EndsKnown(Now) /\ EndsKnown(Now') /\ EndsKnown(Now)' /\ AwakeState' = AwakeState
  BY <1>6, DeviceKept
<1>14. PipeInv'
  BY <1>8, <1>9, <1>11, <1>12, <1>13 DEF PipeInv
<1>15. AnswerNow = "OK" /\ GotNow = Pipe!Owed(host) /\ LateNow = NONE
  BY <1>1, <1>2, <1>3, <1>4 DEF AnswerNow, GotNow, LateNow, Unserved, LeftKnown
<1>16. AnswerNow' = "no" /\ GotNow' = 0 /\ LateNow' = NONE
  BY <1>4, <1>6 DEF AnswerNow, GotNow, LateNow, Unserved
<1>17. PipeStep
  BY <1>3, <1>6, <1>8, <1>13, <1>15, <1>16, PipeAnswers
<1> QED
  BY <1>14, <1>17

\* Answer, with the refusal that ends the request.
LEMMA StallsPipe ==
  ASSUME IInv, IInv', PipeInv, Understood, Stalls
  PROVE  PipeInv' /\ PipeStep
<1>1. /\ stalled /\ waiting = NONE /\ stage # "idle" /\ stage' = "idle" /\ host' = NONE
      /\ trb' = trb /\ stalled' = stalled /\ evts' = evts /\ setup' = setup /\ served' = served /\ waiting' = waiting
      /\ usb' = usb /\ up' = up /\ asleep' = asleep
  BY DEF Stalls, Given
<1>2. HostKnown /\ ServedKnown /\ LeftKnown /\ Unplugged /\ evts \in Seq(Events) /\ stage \in {"idle", "data", "status"}
      /\ Naps(evts, usb.dev_state = "SUSPENDED", asleep)
  BY DEF PipeInv, IInv, Typed
<1>3. up = "running" /\ host # NONE /\ setup = host /\ setup \in Requests
  BY <1>1, <1>2, AskedOnTheBus DEF HostKnown
<1>4. Armed(Now)
  BY <1>1, <1>3, StalledIsArmed DEF WhenArmed
<1>5. served = "STALL"
  BY <1>1, <1>2, <1>4 DEF ServedKnown
<1>6. setup.len \in Nat
  BY <1>3, SetupFields
<1>7. setup.len - left = 0
  <2>1. CASE stage = "data"
    BY <1>2, <1>6, <2>1 DEF LeftKnown
  <2>2. CASE stage = "status"
    <3>1. setup.len = 0
      BY <1>2, <1>5, <1>6, <2>2 DEF LeftKnown
    <3> QED
      BY <1>2, <1>3, <2>2, <3>1, OwedBytes DEF LeftKnown
  <2> QED
    BY <1>1, <1>2, <2>1, <2>2
<1>8. Now' = Now
  BY <1>1, Sames
<1>9. Grows(evts, evts', {}) /\ (ResetSeen' <=> ResetSeen)
  BY <1>1, <1>2, GrowsNot DEF ResetSeen
<1>10. KindIn(Now, "IN") # "data"
  BY <1>4 DEF Armed
<1>11. ServedKnown' /\ LeftKnown' /\ Unplugged'
  BY <1>1, <1>2, <1>8, <1>9, <1>10, ServedStays, LeftStays, UnpluggedStays
<1>12. HostKnown'
  BY <1>1 DEF HostKnown
<1>13. Naps(evts, usb.dev_state = "SUSPENDED", asleep)'
  BY <1>1, <1>2 DEF Naps, Turns, Turning
<1>14. EndsKnown(Now) /\ EndsKnown(Now') /\ EndsKnown(Now)' /\ AwakeState' = AwakeState
  BY <1>1, DeviceKept
<1>15. PipeInv'
  BY <1>11, <1>12, <1>13, <1>14 DEF PipeInv
<1>16. AnswerNow = "STALL" /\ GotNow = 0 /\ LateNow = NONE
  BY <1>1, <1>3, <1>5, <1>7 DEF AnswerNow, GotNow, LateNow, Unserved
<1>17. AnswerNow' = "no" /\ GotNow' = 0 /\ LateNow' = NONE
  BY <1>1, <1>5 DEF AnswerNow, GotNow, LateNow, Unserved
<1>18. PipeStep
  BY <1>1, <1>3, <1>9, <1>14, <1>16, <1>17, PipeAnswers
<1> QED
  BY <1>15, <1>18

\* A report moves nothing.
LEMMA ReportsPipe ==
  ASSUME IInv, IInv', PipeInv, Reports
  PROVE  PipeInv' /\ PipeStep
<1>1. ~raised /\ raised' /\ stage \in {"data", "status"}
  BY DEF Reports, At
<1>2. /\ up' = up /\ usb' = usb /\ trb' = trb /\ stalled' = stalled /\ stage' = stage /\ left' = left /\ served' = served
      /\ setup' = setup /\ host' = host /\ waiting' = waiting /\ asleep' = asleep
  BY DEF Reports, Given
<1>3. HostKnown /\ ServedKnown /\ LeftKnown
  BY DEF PipeInv
<1>4. up = "running" /\ ResetSeen /\ host # NONE
  BY <1>1, <1>3, AskedOnTheBus DEF HostKnown
<1>5. setup \in Requests
  <2>1. ~WhenArmed
    BY <1>1 DEF Reports, WhenArmed
  <2> QED
    BY <1>4, <2>1 DEF IInv, WhenTaken, WhenWorking
<1>6. setup.dir \in Ends /\ Status \in Ends
  BY <1>5, SetupFields DEF Status, Ends
<1>7. PICK ev : /\ evts' = Append(evts, ev)
                /\ \/ stage = "data" /\ ev \in AskedData
                   \/ stage = "status" /\ ev \in AskedStatus
  BY <1>6, ReportKinds DEF Reports, Event, Data, At
<1>8. ev \in NotReadys /\ ev \notin Completions /\ (stage = "data" => ev \notin AskedStatus)
  BY <1>7, Kinds
<1>9. Unplugged' /\ Naps(evts, usb.dev_state = "SUSPENDED", asleep)' /\ (ResetSeen' <=> ResetSeen) /\ Grows(evts, evts', {ev})
  BY <1>2, <1>4, <1>7, <1>8, EndEventAdded
<1>10. Now' = Now
  BY <1>2, Sames
<1>11. Working(Now) /\ served = "OK" /\ setup.len = 0 => stage # "status"
  BY <1>1, <1>3 DEF ServedKnown
<1>12. ServedKnown'
  BY <1>1, <1>2, <1>3, <1>7, <1>8, <1>9, <1>10, <1>11, ServedStays
<1>13. LeftKnown'
  BY <1>2, <1>3, <1>9, <1>10, LeftStays
<1>14. HostKnown'
  BY <1>2, <1>3 DEF HostKnown
<1>15. EndsKnown(Now)'
  BY <1>2, DeviceKept
<1>16. PipeInv'
  BY <1>9, <1>12, <1>13, <1>14, <1>15 DEF PipeInv
<1> QED
  BY <1>2, <1>9, <1>16, Unmoved

-----------------------------------------------------------------------------
(* The driver takes an event: what is common to all of them.                *)

LEMMA EventType ==
  ASSUME NEW what \in DOMAIN DEVICE_EVENT, what \notin {"L1SUSPEND", "L1WAKEUP"}
  PROVE  dwc3_read_dev_evt_type(Device(what).word) = DEVICE_EVENT[what]
<1>1. PICK type \in 0 .. 15 : type = DEVICE_EVENT[what]
  BY DEF DEVICE_EVENT
<1>2. Device(what).word = DeviceEvent(type)
  BY <1>1 DEF Device
<1>3. Get(Device(what).word, DEVEVT_TYPE) = type
  BY <1>2, DeviceWords
<1>4. PICK listed : listed = {DEVICE_EVENT[d] : d \in DOMAIN DEVICE_EVENT \ {"L1SUSPEND", "L1WAKEUP"}}
  OBVIOUS
<1>5. type \in listed
  BY <1>1, <1>4
<1> QED
  BY <1>1, <1>3, <1>4, <1>5 DEF dwc3_read_dev_evt_type

(* What the core decides, by the event.                                     *)
LEMMA PollServes ==
  ASSUME IInv, Poll
  PROVE  /\ evts[1] \in DeviceEvents => ~Serves(evts[1])
         /\ evts[1] = Device("RESET") => served' = "OK"
         /\ evts[1] # Device("RESET") /\ ~Serves(evts[1]) => served' = served
         /\ Serves(evts[1]) => served' = IF usb'.EP0_State = "SETUP_QUEUED" THEN "STALL" ELSE "OK"
         /\ evts[1] \in DeviceEvents =>
              \E s \in dwc3_handle_dev_event(dwc3_read_dev_evt_type(evts[1].word)) : Becomes(s)
<1>1. evts \in Seq(Events) /\ evts # <<>>
  BY DEF IInv, Typed, Poll
<1>2. Head(evts) = evts[1]
  BY <1>1, HeadTaken
<1>3. PICK event : event = evts[1]
  OBVIOUS
<1>4. PICK after : after = IF dwc3_is_dev_event(event.word)
                           THEN dwc3_handle_dev_event(dwc3_read_dev_evt_type(event.word))
                           ELSE {dwc3_handle_ep_event(event)}
  OBVIOUS
<1>5. PICK s \in after :
        /\ usb' = s.u /\ trb' = s.trb /\ stalled' = s.stalled
        /\ served' = CASE event = Device("RESET") -> "OK"
                       [] Serves(event) -> IF s.u.EP0_State = "SETUP_QUEUED" THEN "STALL" ELSE "OK"
                       [] OTHER -> served
  BY <1>2, <1>3, <1>4 DEF Poll
<1>6. Becomes(s)
  BY <1>5 DEF Becomes, Now, DriverStates
<1>7. event \in DeviceEvents => ~Serves(event)
  BY EventKinds DEF Serves
<1>8. event = Device("RESET") => event \in DeviceEvents
  BY Kinds
<1>9. event = Device("RESET") => served' = "OK"
  BY <1>5, <1>7, <1>8
<1>10. event # Device("RESET") /\ ~Serves(event) => served' = served
  BY <1>5
<1>11. Serves(event) => served' = IF usb'.EP0_State = "SETUP_QUEUED" THEN "STALL" ELSE "OK"
  BY <1>5, <1>7, <1>8
<1>12. event \in DeviceEvents => s \in dwc3_handle_dev_event(dwc3_read_dev_evt_type(event.word))
  BY <1>4, <1>5, EventKinds
<1> QED
  BY <1>3, <1>6, <1>7, <1>9, <1>10, <1>11, <1>12

(* The events that are left.                                                *)
LEMMA UnpluggedShifted ==
  ASSUME Unplugged, Shrinks(evts, evts')
  PROVE  Unplugged'
<1>1. /\ \A i \in Waiting' : i \in Nat /\ i + 1 \in Waiting /\ i + 1 > 1 /\ evts'[i] = evts[i + 1]
      /\ \A i \in Waiting : i \in Nat /\ i >= 1 /\ (i # 1 => i - 1 \in Waiting' /\ evts[i] = evts'[i - 1])
  BY Shifted
<1>2. ASSUME NEW i \in Waiting', evts'[i] = Device("DISCONNECT")
      PROVE  i + 1 \in Waiting' /\ evts'[i + 1] = Device("RESET")
  <2>1. PICK n \in Waiting : n = i + 1 /\ n > 1 /\ i \in Nat /\ evts[n] = Device("DISCONNECT")
    BY <1>1, <1>2
  <2>2. PICK m \in Waiting : m = n + 1 /\ evts[m] = Device("RESET")
    BY <2>1 DEF Unplugged
  <2>3. m # 1 /\ m - 1 \in Waiting' /\ evts'[m - 1] = Device("RESET")
    BY <1>1, <2>1, <2>2
  <2> QED
    BY <2>1, <2>2, <2>3
<1>3. ASSUME NEW i \in Waiting' PROVE evts'[i] \notin {Device("L1SUSPEND"), Device("L1WAKEUP")}
  BY <1>1 DEF Unplugged
<1> QED
  BY <1>2, <1>3 DEF Unplugged

\* The core is suspended after the event just as the naps say.
LEMMA NapsPolled ==
  ASSUME IInv, PipeInv, Poll
  PROVE  /\ evts[1] \notin DeviceEvents =>
              usb.dev_state # "SUSPENDED" /\ (usb'.dev_state # "SUSPENDED" => Naps(evts, usb.dev_state = "SUSPENDED", asleep)')
         /\ evts[1] = Device("EOPF") =>
              usb.dev_state # "SUSPENDED" /\ (usb'.dev_state = "SUSPENDED" => Naps(evts, usb.dev_state = "SUSPENDED", asleep)')
         /\ evts[1] = Device("WAKEUP") =>
              usb.dev_state = "SUSPENDED" /\ (usb'.dev_state # "SUSPENDED" => Naps(evts, usb.dev_state = "SUSPENDED", asleep)')
         /\ evts[1] \in {Device("RESET"), Device("DISCONNECT")} =>
              (usb'.dev_state # "SUSPENDED" => Naps(evts, usb.dev_state = "SUSPENDED", asleep)')
         /\ evts[1] \notin Turning =>
              ((usb'.dev_state = "SUSPENDED" <=> usb.dev_state = "SUSPENDED") => Naps(evts, usb.dev_state = "SUSPENDED", asleep)')
<1>1. Naps(evts, usb.dev_state = "SUSPENDED", asleep) /\ evts \in Seq(Events) /\ Shrinks(evts, evts') /\ asleep' = asleep
  BY PollStep DEF PipeInv, IInv, Typed
<1>2. PICK before \in BOOLEAN : before = (usb.dev_state = "SUSPENDED")
  OBVIOUS
<1>3. \E after \in BOOLEAN : Turns(evts[1], before, after) /\ Naps(evts', after, asleep)
  BY <1>1, <1>2, NapsShorter
<1>4. PICK after \in BOOLEAN : Turns(evts[1], before, after) /\ Naps(evts', after, asleep)
  BY <1>3
<1>5. ASSUME usb'.dev_state = "SUSPENDED" <=> after
      PROVE  Naps(evts, usb.dev_state = "SUSPENDED", asleep)'
  <2>1. after = (usb'.dev_state = "SUSPENDED")
    BY <1>5
  <2>2. Naps(evts', usb'.dev_state = "SUSPENDED", asleep')
    BY <1>1, <1>4, <2>1
  <2> QED
    BY <2>2 DEF Naps, Turns, Turning
<1>6. /\ Device("EOPF") \in DeviceEvents /\ Device("WAKEUP") \in DeviceEvents /\ Device("RESET") \in DeviceEvents
      /\ Device("DISCONNECT") \in DeviceEvents
  BY DEF DeviceEvents, DEVICE_EVENT
<1>7. evts[1] \notin DeviceEvents => evts[1] \notin Turning /\ ~before /\ ~after
  <2>1. evts[1] \notin DeviceEvents => evts[1] \notin Turning
    BY <1>6 DEF Turning
  <2> QED
    BY <1>4, <2>1 DEF Turns
<1>8. /\ evts[1] = Device("EOPF") => ~before /\ after
      /\ evts[1] = Device("WAKEUP") => before /\ ~after
      /\ evts[1] \in {Device("RESET"), Device("DISCONNECT")} => ~after
      /\ evts[1] \notin Turning => (after <=> before)
  BY <1>4 DEF Turns
<1> QED
  BY <1>2, <1>5, <1>7, <1>8

(* PipeInv after an event, but for what endpoint 0 and the device became.   *)
LEMMA PolledPipe ==
  ASSUME IInv, PipeInv, Poll, EndsKnown(Now'), ServedKnown', LeftKnown', Naps(evts, usb.dev_state = "SUSPENDED", asleep)'
  PROVE  PipeInv'
<1>1. /\ stage' = stage /\ setup' = setup /\ host' = host /\ waiting' = waiting /\ asleep' = asleep
      /\ Shrinks(evts, evts')
  BY PollStep
<1>2. HostKnown /\ Unplugged
  BY DEF PipeInv
<1>3. HostKnown'
  BY <1>1, <1>2 DEF HostKnown
<1>4. Unplugged'
  BY <1>1, <1>2, UnpluggedShifted
<1>5. EndsKnown(Now)'
  BY NextNow
<1> QED
  BY <1>3, <1>4, <1>5 DEF PipeInv

-----------------------------------------------------------------------------
(* Events nothing comes of, and those of the device.                        *)

\* What is decided, and what is under way, after an event that changed neither.
LEMMA WorkStays ==
  ASSUME IInv, PipeInv, Poll, SameWork(Now, Now'), served' = served, ResetSeen' => ResetSeen
  PROVE  ServedKnown' /\ LeftKnown'
<1>1. /\ up = "running" /\ up' = up /\ stage' = stage /\ left' = left /\ raised' = raised /\ setup' = setup
      /\ Shrinks(evts, evts')
  BY PollStep
<1>2. ServedKnown /\ LeftKnown
  BY DEF PipeInv
<1>3. /\ Armed(Now) => Armed(Now')
      /\ Taken(Now) => Taken(Now')
      /\ Working(Now) => Working(Now')
      /\ KindIn(Now', "IN") = KindIn(Now, "IN") /\ KindIn(Now', "OUT") = KindIn(Now, "OUT")
  BY SameWorkKeeps
<1>4. Armed(Now) \/ Taken(Now) \/ Working(Now)
  BY <1>1, ModeIs
<1>5. (Armed(Now') <=> Armed(Now)) /\ (Taken(Now') <=> Taken(Now)) /\ (Working(Now') <=> Working(Now))
  BY <1>3, <1>4, ModesApart
<1>6. /\ Armed(Now)' <=> Armed(Now)
      /\ Taken(Now)' <=> Taken(Now)
      /\ Working(Now)' <=> Working(Now)
  BY <1>1, <1>5, NextNow
<1>7. Deciding(Now) => Deciding(Now)'
  <2>1. Deciding(Now) => Deciding(Now')
    BY <1>3 DEF Deciding, SameWork
  <2> QED
    BY <2>1, NextNow
<1>8. \A i \in Waiting' : \E j \in Waiting : evts'[i] = evts[j]
  BY <1>1, Shifted
<1>9. (Completions' = Completions) /\ (AskedStatus' = AskedStatus)
  BY DEF Completions, Completes, AskedStatus
<1>10. ServedKnown'
  <2>1. Armed(Now) => served \in {"OK", "STALL"} /\ (stage # "idle" => served = "STALL")
    BY <1>2 DEF ServedKnown
  <2>2. (Taken(Now) => served = "no") /\ (Working(Now) => served \in {"no", "OK"})
    BY <1>2 DEF ServedKnown
  <2>3. ASSUME Working(Now), served = "no"
        PROVE  setup.len = 0 /\ Deciding(Now) /\ \A i \in Waiting' : evts'[i] \notin Completions
    BY <1>2, <1>8, <2>3 DEF ServedKnown
  <2>4. ASSUME Working(Now), served = "OK", setup.len = 0
        PROVE  (stage = "status" => raised) /\ \A i \in Waiting' : evts'[i] \notin AskedStatus
    BY <1>2, <1>8, <2>4 DEF ServedKnown
  <2> QED
    BY <1>1, <1>6, <1>7, <1>9, <2>1, <2>2, <2>3, <2>4 DEF ServedKnown
<1>11. LeftKnown'
  <2>1. KindIn(Now, "IN")' = KindIn(Now, "IN") /\ Pipe!Owed(setup)' = Pipe!Owed(setup)
    BY <1>1, <1>3, NextNow DEF Ends
  <2>2. usb'.xfer_len = usb.xfer_len
    BY DEF SameWork, Now
  <2> QED
    BY <1>1, <1>2, <2>1, <2>2 DEF LeftKnown
<1> QED
  BY <1>10, <1>11

\* What the mapping makes of an event with which nothing is decided.
LEMMA SameAnswer ==
  ASSUME IInv, Poll, served' = served
  PROVE  host' = host /\ AnswerNow' = AnswerNow /\ GotNow' = GotNow /\ LateNow' = LateNow
<1>1. stage' = stage /\ left' = left /\ setup' = setup /\ host' = host /\ waiting' = waiting
  BY PollStep
<1> QED
  BY <1>1 DEF AnswerNow, GotNow, LateNow, Unserved

\* ControlPipe stutters.
LEMMA SkippedPipe ==
  ASSUME IInv, PipeInv, Poll, SameWork(Now, Now'), served' = served, evts[1] # Device("RESET"),
         EndsKnown(Now'), Awake(Now') = Awake(Now), Naps(evts, usb.dev_state = "SUSPENDED", asleep)'
  PROVE  PipeInv' /\ PipeStep
<1>1. ResetSeen' <=> ResetSeen
  BY PollStep, SeenShifted DEF IInv, Typed
<1>2. PipeInv'
  BY <1>1, WorkStays, PolledPipe
<1>3. EndsKnown(Now) /\ AwakeState' = AwakeState
  BY PipeVars DEF PipeInv
<1>4. host' = host /\ AnswerNow' = AnswerNow /\ GotNow' = GotNow /\ LateNow' = LateNow
  BY SameAnswer
<1>5. PipeStep
  BY <1>1, <1>3, <1>4, PipeStutters
<1> QED
  BY <1>2, <1>5

\* What the device is after an event of the bus.
LEMMA DeviceEventEnds ==
  ASSUME Now \in DriverStates, EndsKnown(Now), NEW type, NEW s \in dwc3_handle_dev_event(type)
  PROVE  /\ type = DEVICE_EVENT.DISCONNECT => EndsKnown(s) /\ s.u.dev_state = "DEFAULT"
         /\ type = DEVICE_EVENT.EOPF /\ usb.dev_state # "SUSPENDED" =>
              EndsKnown(s) /\ Awake(s) = Awake(Now) /\ s.u.dev_state = "SUSPENDED"
         /\ type = DEVICE_EVENT.WAKEUP /\ usb.dev_state = "SUSPENDED" =>
              EndsKnown(s) /\ Awake(s) = Awake(Now) /\ s.u.dev_state # "SUSPENDED"
         /\ type \notin {DEVICE_EVENT.RESET, DEVICE_EVENT.DISCONNECT, DEVICE_EVENT.EOPF, DEVICE_EVENT.WAKEUP} =>
              EndsKnown(s) /\ Awake(s) = Awake(Now) /\ s.u.dev_state = usb.dev_state
<1>1. usb \in Handles /\ Now.u = usb
  BY DEF Now, DriverStates
<1>2. /\ usb.eps \subseteq {ControlEnd(0), ControlEnd(EP_DIR_IN)} \cup Bulks /\ usb.pcd_maxpacket = USB_MAX_EP0_SIZE
      /\ Awake(Now) # "SUSPENDED" /\ (Awake(Now) = "CONFIGURED" => Bulks \subseteq usb.eps)
      /\ Awake(Now) = IF usb.dev_state = "SUSPENDED" THEN usb.dev_old_state ELSE usb.dev_state
  BY <1>1 DEF EndsKnown, Awake
<1>3. /\ DEVICE_EVENT.DISCONNECT = 0 /\ DEVICE_EVENT.RESET = 1 /\ DEVICE_EVENT.CONNECT_DONE = 2
      /\ DEVICE_EVENT.WAKEUP = 4 /\ DEVICE_EVENT.EOPF = 6
  BY DEF DEVICE_EVENT
<1>4. CASE type = 0
  <2>1. s = usb_core_disconnect
    BY <1>3, <1>4 DEF dwc3_handle_dev_event
  <2>2. PICK v : v = [usb EXCEPT !.dev_state = "DEFAULT", !.class = FALSE]
    OBVIOUS
  <2>3. s.u = v
    BY <1>1, <2>1, <2>2 DEF usb_core_disconnect, Now
  <2>4. v.dev_state = "DEFAULT" /\ v.eps = usb.eps /\ v.pcd_maxpacket = usb.pcd_maxpacket
    BY <1>1, <2>2 DEF Handles
  <2>5. EndsKnown(s)
    BY <1>2, <2>3, <2>4 DEF EndsKnown, Awake
  <2> QED
    BY <1>3, <1>4, <2>3, <2>4, <2>5
<1>5. CASE type = 6
  <2>1. s = usb_core_suspend
    BY <1>3, <1>5 DEF dwc3_handle_dev_event
  <2>2. PICK v : v = [usb EXCEPT !.dev_old_state = usb.dev_state, !.dev_state = "SUSPENDED"]
    OBVIOUS
  <2>3. s.u = v
    BY <1>1, <2>1, <2>2 DEF usb_core_suspend, Now
  <2>4. /\ v.dev_state = "SUSPENDED" /\ v.dev_old_state = usb.dev_state /\ v.eps = usb.eps
        /\ v.pcd_maxpacket = usb.pcd_maxpacket
    BY <1>1, <2>2 DEF Handles
  <2>5. usb.dev_state # "SUSPENDED" => Awake(s) = Awake(Now)
    BY <1>2, <2>3, <2>4 DEF Awake
  <2>6. usb.dev_state # "SUSPENDED" => EndsKnown(s)
    BY <1>2, <2>3, <2>4, <2>5 DEF EndsKnown
  <2> QED
    BY <1>3, <1>5, <2>3, <2>4, <2>5, <2>6
<1>6. CASE type = 4
  <2>1. s = usb_core_resume
    BY <1>3, <1>6 DEF dwc3_handle_dev_event
  <2>2. PICK v : v = [usb EXCEPT !.dev_state = usb.dev_old_state]
    OBVIOUS
  <2>3. s.u = v
    BY <1>1, <2>1, <2>2 DEF usb_core_resume, Now
  <2>4. v.dev_state = usb.dev_old_state /\ v.eps = usb.eps /\ v.pcd_maxpacket = usb.pcd_maxpacket
    BY <1>1, <2>2 DEF Handles
  <2>5. usb.dev_state = "SUSPENDED" => Awake(s) = Awake(Now) /\ s.u.dev_state # "SUSPENDED"
    BY <1>2, <2>3, <2>4 DEF Awake
  <2>6. usb.dev_state = "SUSPENDED" => EndsKnown(s)
    BY <1>2, <2>3, <2>4, <2>5 DEF EndsKnown
  <2> QED
    BY <1>3, <1>6, <2>5, <2>6
<1>7. CASE type = 2
  <2>1. PICK dsts \in ConnectSpeeds : s = ConnectDone(dsts)
    BY <1>3, <1>7 DEF dwc3_handle_dev_event
  <2>2. PICK mps : mps = ep0_mps(dwc3_get_dev_speed(dsts))
    OBVIOUS
  <2>3. mps = 64
    BY <2>1, <2>2 DEF ep0_mps, dwc3_get_dev_speed, ConnectSpeeds
  <2>4. PICK action : action = DEPCFG_ACTION.MODIFY
    OBVIOUS
  <2>5. PICK in : in = Controls(usb.eps, mps, action)
    OBVIOUS
  <2>6. in \subseteq {ControlEnd(0), ControlEnd(EP_DIR_IN)} \cup Bulks /\ (Bulks \subseteq usb.eps => Bulks \subseteq in)
    BY <1>2, <2>3, <2>5, ControlsKept
  <2>7. PICK v : v = [usb EXCEPT !.eps = in, !.pcd_maxpacket = mps]
    OBVIOUS
  <2>8. s.u = v
    BY <1>1, <2>1, <2>2, <2>4, <2>5, <2>7 DEF ConnectDone, Controls, Now
  <2>9. /\ v.eps = in /\ v.pcd_maxpacket = USB_MAX_EP0_SIZE /\ v.dev_state = usb.dev_state
        /\ v.dev_old_state = usb.dev_old_state
    BY <1>1, <2>3, <2>7 DEF Handles, USB_MAX_EP0_SIZE
  <2>10. Awake(s) = Awake(Now)
    BY <1>2, <2>8, <2>9 DEF Awake
  <2>11. EndsKnown(s)
    BY <1>2, <2>6, <2>8, <2>9, <2>10 DEF EndsKnown
  <2> QED
    BY <1>3, <1>7, <2>8, <2>9, <2>10, <2>11
<1>8. CASE type \notin {0, 1, 2, 4, 6}
  <2>1. s = Now
    BY <1>3, <1>8 DEF dwc3_handle_dev_event
  <2> QED
    BY <1>1, <1>3, <1>8, <2>1
<1>9. CASE type = 1
  BY <1>3, <1>9
<1> QED
  BY <1>4, <1>5, <1>6, <1>7, <1>8, <1>9

\* Suspend, resume and unplugging: the state behind them is the one before.
LEMMA DevicePolledPipe ==
  ASSUME IInv, PipeInv, Poll, evts[1] \in DeviceEvents, evts[1] # Device("RESET")
  PROVE  PipeInv' /\ PipeStep
<1>1. Now \in DriverStates /\ evts \in Seq(Events) /\ EndsKnown(Now) /\ Unplugged
  BY DEF IInv, Typed, PipeInv
<1>2. Shrinks(evts, evts') /\ SameWork(Now, Now')
  BY PollStep
<1>3. 1 \in Waiting
  BY <1>2, Shifted
<1>4. PICK what \in DOMAIN DEVICE_EVENT : evts[1] = Device(what)
  BY DEF DeviceEvents
<1>5. what \notin {"L1SUSPEND", "L1WAKEUP", "RESET"}
  BY <1>1, <1>3, <1>4 DEF Unplugged
<1>6. PICK type : type = DEVICE_EVENT[what]
  OBVIOUS
<1>7. dwc3_read_dev_evt_type(evts[1].word) = type
  BY <1>4, <1>5, <1>6, EventType
<1>8. PICK s \in dwc3_handle_dev_event(type) : Becomes(s)
  BY <1>7, PollServes
<1>9. type # DEVICE_EVENT.RESET
  BY <1>5, <1>6 DEF DEVICE_EVENT
<1>10. s \in DriverStates
  BY <1>1, <1>8, <1>9, DeviceEventHandled DEF SameWork
<1>11. Now' = s /\ usb'.dev_state = s.u.dev_state
  <2>1. Now' = s
    BY <1>8, <1>10 DEF Becomes
  <2>2. Now'.u = usb'
    BY DEF Now
  <2> QED
    BY <2>1, <2>2
<1>12. served' = served
  BY PollServes
<1>13. CASE what = "DISCONNECT"
  <2>1. EndsKnown(Now') /\ usb'.dev_state = "DEFAULT"
    BY <1>1, <1>6, <1>8, <1>11, <1>13, DeviceEventEnds
  <2>2. ResetSeen' <=> ResetSeen
    BY <1>1, <1>2, SeenShifted
  <2>3. ~ResetSeen
    <3>1. 1 + 1 \in Waiting /\ evts[1 + 1] = Device("RESET")
      BY <1>1, <1>3, <1>4, <1>13 DEF Unplugged
    <3> QED
      BY <1>1, <3>1, SeenAt
  <2>4. ServedKnown' /\ LeftKnown'
    BY <1>2, <1>12, <2>2, WorkStays
  <2>5. Naps(evts, usb.dev_state = "SUSPENDED", asleep)'
    BY <1>4, <1>13, <2>1, NapsPolled
  <2>6. PipeInv'
    BY <2>1, <2>4, <2>5, PolledPipe
  <2>7. AwakeState' = "DEFAULT"
    BY <2>1 DEF AwakeState
  <2>8. host' = host /\ AnswerNow' = AnswerNow /\ GotNow' = GotNow /\ LateNow' = LateNow
    BY <1>12, SameAnswer
  <2>9. PipeStep
    BY <2>1, <2>2, <2>3, <2>7, <2>8, PipeRestarts
  <2> QED
    BY <2>6, <2>9
<1>14. CASE what = "EOPF"
  <2>1. usb.dev_state # "SUSPENDED"
    BY <1>4, <1>14, NapsPolled
  <2>2. EndsKnown(Now') /\ Awake(Now') = Awake(Now) /\ usb'.dev_state = "SUSPENDED"
    BY <1>1, <1>6, <1>8, <1>11, <1>14, <2>1, DeviceEventEnds
  <2>3. Naps(evts, usb.dev_state = "SUSPENDED", asleep)'
    BY <1>4, <1>14, <2>2, NapsPolled
  <2> QED
    BY <1>2, <1>12, <2>2, <2>3, SkippedPipe
<1>15. CASE what = "WAKEUP"
  <2>1. usb.dev_state = "SUSPENDED"
    BY <1>4, <1>15, NapsPolled
  <2>2. EndsKnown(Now') /\ Awake(Now') = Awake(Now) /\ usb'.dev_state # "SUSPENDED"
    BY <1>1, <1>6, <1>8, <1>11, <1>15, <2>1, DeviceEventEnds
  <2>3. Naps(evts, usb.dev_state = "SUSPENDED", asleep)'
    BY <1>4, <1>15, <2>2, NapsPolled
  <2> QED
    BY <1>2, <1>12, <2>2, <2>3, SkippedPipe
<1>16. CASE what \notin {"DISCONNECT", "EOPF", "WAKEUP"}
  <2>1. type \notin {DEVICE_EVENT.RESET, DEVICE_EVENT.DISCONNECT, DEVICE_EVENT.EOPF, DEVICE_EVENT.WAKEUP}
    BY <1>5, <1>6, <1>16 DEF DEVICE_EVENT
  <2>2. EndsKnown(Now') /\ Awake(Now') = Awake(Now) /\ usb'.dev_state = usb.dev_state
    BY <1>1, <1>8, <1>11, <2>1, DeviceEventEnds
  <2>3. evts[1] \notin Turning
    <3>1. ASSUME NEW b \in {"EOPF", "WAKEUP", "RESET", "DISCONNECT"} PROVE Device(what) # Device(b)
      BY <1>5, <1>16, DevicesApart
    <3> QED
      BY <1>4, <3>1 DEF Turning
  <2>4. Naps(evts, usb.dev_state = "SUSPENDED", asleep)'
    BY <2>2, <2>3, NapsPolled
  <2> QED
    BY <1>2, <1>12, <2>2, <2>4, SkippedPipe
<1> QED
  BY <1>13, <1>14, <1>15, <1>16

(* A transfer that is stopped leaves the device alone.                      *)
LEMMA StoppedDevice ==
  ASSUME NEW s \in DriverStates, NEW e \in Ends
  PROVE  SameDevice(s, dwc3_ep_stop_xfer(s, e))
<1>1. PICK t : t = dwc3_ep_stop_xfer(s, e)
  OBVIOUS
<1>2. s.u \in Handles
  BY DEF DriverStates
<1>3. CASE ~s.u.queued[e]
  BY <1>3 DEF dwc3_ep_stop_xfer, SameDevice
<1>4. CASE s.u.queued[e]
  <2>1. PICK q : q = [s.u.queued EXCEPT ![e] = FALSE]
    OBVIOUS
  <2>2. PICK v : v = IF e = "OUT" THEN [s.u EXCEPT !.queued = q, !.EP0_State = "SETUP_COMPLETED"] ELSE [s.u EXCEPT !.queued = q]
    OBVIOUS
  <2>3. t.u = v
    <3>1. CASE e = "OUT"
      BY <1>1, <1>2, <1>4, <2>1, <2>2, <3>1 DEF dwc3_ep_stop_xfer, DriverStates, Handles
    <3>2. CASE e # "OUT"
      BY <1>1, <1>2, <1>4, <2>1, <2>2, <3>2 DEF dwc3_ep_stop_xfer, DriverStates, Handles
    <3> QED
      BY <3>1, <3>2
  <2>4. /\ v.maxpacket = s.u.maxpacket /\ v.pcd_maxpacket = s.u.pcd_maxpacket
        /\ v.dev_state = s.u.dev_state /\ v.dev_old_state = s.u.dev_old_state
        /\ v.eps = s.u.eps /\ v.address = s.u.address
    BY <1>2, <2>2 DEF Handles
  <2>5. SameDevice(s, t)
    BY <2>3, <2>4 DEF SameDevice
  <2> QED
    BY <1>1, <2>5
<1> QED
  BY <1>3, <1>4

\* A reset of the bus, handled: Restart.
LEMMA ResetEnds ==
  ASSUME Now \in DriverStates, EndsKnown(Now), Armed(Now) \/ Working(Now)
  PROVE  EndsKnown(DeviceReset) /\ DeviceReset.u.dev_state = "DEFAULT"
<1>1. PICK r : r = IF usb.EP0_State # "SETUP_QUEUED" THEN dwc3_epaddr_set_stall(dwc3_ep_stop_xfer(Now, "OUT")) ELSE Now
  OBVIOUS
<1>2. Now.u = usb
  BY DEF Now
<1>3. r \in DriverStates /\ EndsKnown(r)
  <2>1. CASE Armed(Now)
    BY <1>1, <1>2, <2>1 DEF Armed
  <2>2. CASE Working(Now)
    <3>1. PICK p : p = dwc3_ep_stop_xfer(Now, "OUT")
      OBVIOUS
    <3>2. Stops(Now, p, "OUT") /\ SameDevice(Now, p)
      BY <3>1, Stopped, StoppedDevice DEF Ends
    <3>3. p \in DriverStates /\ KindIn(p, "OUT") = "none" /\ ~p.u.is_stall["OUT"]
      BY <2>2, <3>2 DEF Stops, Working, Ends
    <3>4. r = dwc3_epaddr_set_stall(p)
      BY <1>1, <1>2, <2>2, <3>1 DEF Working
    <3>5. Refuses(p, r)
      BY <3>3, <3>4, EpaddrStalled
    <3>6. EndsKnown(p)
      BY <3>2, SameDeviceEnds
    <3>7. r \in DriverStates /\ SameDevice(p, r)
      BY <3>5 DEF Refuses
    <3> QED
      BY <3>6, <3>7, SameDeviceEnds
  <2> QED
    BY <2>1, <2>2
<1>4. PICK q : q = dwc3_ep_stop_xfer(r, "IN")
  OBVIOUS
<1>5. q \in DriverStates /\ EndsKnown(q)
  <2>1. q \in DriverStates /\ SameDevice(r, q)
    BY <1>3, <1>4, Stopped, StoppedDevice DEF Stops, Ends
  <2> QED
    BY <1>3, <2>1, SameDeviceEnds
<1>6. PICK t : t = DeviceReset
  OBVIOUS
<1>7. t = [usb_dwc3_set_address(q, 0) EXCEPT !.u.dev_state = "DEFAULT"]
  BY <1>1, <1>4, <1>6 DEF DeviceReset
<1>8. PICK v : v = [q.u EXCEPT !.address = 0, !.dev_state = "DEFAULT"]
  OBVIOUS
<1>9. q.u \in Handles
  BY <1>5 DEF DriverStates
<1>10. t.u = v
  BY <1>5, <1>7, <1>8, <1>9 DEF usb_dwc3_set_address, DriverStates
<1>11. v.dev_state = "DEFAULT" /\ v.eps = q.u.eps /\ v.pcd_maxpacket = q.u.pcd_maxpacket
  BY <1>8, <1>9 DEF Handles
<1>12. EndsKnown(t)
  BY <1>5, <1>10, <1>11 DEF EndsKnown, Awake
<1> QED
  BY <1>6, <1>10, <1>11, <1>12

LEMMA ResetPolledPipe ==
  ASSUME IInv, PipeInv, Poll, evts[1] = Device("RESET")
  PROVE  PipeInv' /\ PipeStep
<1>1. Now \in DriverStates /\ evts \in Seq(Events) /\ EndsKnown(Now)
  BY DEF IInv, Typed, PipeInv
<1>2. /\ up = "running" /\ up' = up /\ stage' = stage /\ setup' = setup /\ host' = host /\ waiting' = waiting
      /\ Shrinks(evts, evts') /\ Becomes(DeviceReset)
  BY PollStep
<1>3. 1 \in Waiting /\ \A j \in Waiting : j > 1 => evts[j] \in DeviceEvents
  BY <1>2, Shifted DEF IInv, OnTheBus, ResetsLast
<1>4. ~ResetSeen
  BY <1>1, <1>3, SeenAt
<1>5. stage = "idle" /\ host = NONE
  BY <1>4 DEF IInv, OnTheBus
<1>6. ~WhenTaken
  <2> SUFFICES ASSUME WhenTaken PROVE FALSE
    OBVIOUS
  <2>1. PICK k \in Waiting : evts[k] \in Completes("OUT")
    BY DEF WhenTaken, SetupWaits
  <2>2. k # 1 /\ k \in Nat /\ k >= 1
    BY <1>2, <2>1, Kinds, Shifted
  <2>3. evts[k] \in DeviceEvents
    BY <1>3, <2>2
  <2> QED
    BY <2>1, <2>3, Kinds
<1>7. Armed(Now) \/ Working(Now)
  BY <1>2, <1>6 DEF IInv, WhenArmed, WhenWorking
<1>8. DeviceReset \in DriverStates /\ Armed(DeviceReset)
  BY <1>1, <1>7, ResetHandled, SameWorkKeeps DEF Restarts, SameWork
<1>9. Now' = DeviceReset
  BY <1>2, <1>8 DEF Becomes
<1>10. EndsKnown(Now') /\ Now'.u.dev_state = "DEFAULT" /\ Armed(Now')
  BY <1>1, <1>7, <1>8, <1>9, ResetEnds
<1>11. usb'.dev_state = "DEFAULT"
  BY <1>10 DEF Now
<1>12. served' = "OK"
  BY PollServes
<1>13. Armed(Now)' /\ ~Taken(Now)' /\ ~Working(Now)' /\ KindIn(Now, "IN")' # "data"
  <2>1. ~Taken(Now') /\ ~Working(Now')
    BY <1>10, ModesApart
  <2>2. KindIn(Now', "IN") = "none"
    BY <1>10 DEF Armed
  <2> QED
    BY <1>2, <1>10, <2>1, <2>2, NextNow DEF Ends
<1>14. ServedKnown'
  BY <1>2, <1>5, <1>12, <1>13 DEF ServedKnown
<1>15. LeftKnown'
  BY <1>2, <1>5, <1>13 DEF LeftKnown
<1>16. Naps(evts, usb.dev_state = "SUSPENDED", asleep)'
  BY <1>11, NapsPolled
<1>17. PipeInv'
  BY <1>10, <1>14, <1>15, <1>16, PolledPipe
<1>18. AnswerNow' = AnswerNow /\ GotNow' = GotNow /\ LateNow' = NONE
  BY <1>2, <1>5, <1>12 DEF AnswerNow, GotNow, LateNow, Unserved
<1>19. AwakeState' = "DEFAULT"
  BY <1>11 DEF AwakeState
<1>20. PipeStep
  BY <1>2, <1>4, <1>10, <1>18, <1>19, PipeRestarts
<1> QED
  BY <1>17, <1>20

-----------------------------------------------------------------------------
(* A request is decided.                                                    *)

\* How endpoint 0 is left by a request that was decided.
LEMMA CarriedOut ==
  ASSUME setup \in Requests, Understood, NEW t, t \in DriverStates, Carried(t)
  PROVE  /\ Pipe!Accepts(setup) => Working(t) /\ t.u.EP0_State = "SETUP_COMPLETED"
         /\ ~Pipe!Accepts(setup) => Armed(t) /\ t.u.EP0_State = "SETUP_QUEUED"
         /\ KindIn(t, "IN") = "data" => setup.len > 0 /\ t.u.xfer_len["IN"] = Pipe!Owed(setup) /\ t.u.xfer_len["IN"] < 64
<1>1. CASE Pipe!Accepts(setup)
  <2>1. Sending(t) /\ t.u.xfer_len["IN"] = Pipe!Owed(setup)
    BY <1>1 DEF Carried
  <2>2. GoesOn(t)
    BY <2>1, SendingGoesOn
  <2>3. PICK n \in 0 .. 62 : n = Pipe!Owed(setup)
    BY <1>1, OwedBytes
  <2>4. KindIn(t, "IN") = StageKind(n)
    BY <2>1, <2>3 DEF Sending
  <2>5. KindIn(t, "IN") = "data" => n > 0
    BY <2>4 DEF StageKind
  <2>6. setup.len \in Nat /\ (setup.len = 0 => n = 0)
    BY <2>3, OwedBytes, SetupFields
  <2> QED
    BY <1>1, <2>1, <2>2, <2>3, <2>5, <2>6 DEF GoesOn, Sending
<1>2. CASE ~Pipe!Accepts(setup)
  <2>1. Refused(t)
    BY <1>2 DEF Carried
  <2> QED
    BY <1>2, <2>1 DEF Refused, Armed
<1> QED
  BY <1>1, <1>2

\* Serve, or ServeLate if the host has given the request up.
LEMMA DecidedPipe ==
  ASSUME IInv, PipeInv, Poll, Understood, setup \in Requests, Now' \in DriverStates, Carried(Now'), served = "no",
         served' = IF usb'.EP0_State = "SETUP_QUEUED" THEN "STALL" ELSE "OK", ResetSeen' <=> ResetSeen,
         stage = "idle" => ~ResetSeen, stage = "status" => setup.len = 0,
         setup.len = 0 => (stage = "status" => raised) /\ \A i \in Waiting' : evts'[i] \notin AskedStatus,
         Naps(evts, usb.dev_state = "SUSPENDED", asleep)'
  PROVE  PipeInv' /\ PipeStep
<1>1. /\ up = "running" /\ up' = up /\ stage' = stage /\ left' = left /\ raised' = raised /\ setup' = setup
      /\ host' = host /\ waiting' = waiting
  BY PollStep
<1>2. HostKnown /\ LeftKnown /\ stage \in {"idle", "data", "status"}
  BY DEF PipeInv, IInv, Typed
<1>3. Now'.u = usb'
  BY DEF Now
<1>4. /\ Pipe!Accepts(setup) => Working(Now') /\ served' = "OK"
      /\ ~Pipe!Accepts(setup) => Armed(Now') /\ served' = "STALL"
  BY <1>3, CarriedOut
<1>5. KindIn(Now', "IN") = "data" => setup.len > 0 /\ usb'.xfer_len["IN"] = Pipe!Owed(setup) /\ usb'.xfer_len["IN"] < 64
  BY <1>3, CarriedOut
<1>6. /\ Pipe!Accepts(setup) => ~Armed(Now') /\ ~Taken(Now')
      /\ ~Pipe!Accepts(setup) => ~Working(Now') /\ ~Taken(Now')
  BY <1>4, ModesApart
<1>7. /\ Armed(Now)' <=> Armed(Now')
      /\ Taken(Now)' <=> Taken(Now')
      /\ Working(Now)' <=> Working(Now')
      /\ KindIn(Now, "IN")' = KindIn(Now', "IN") /\ Pipe!Owed(setup)' = Pipe!Owed(setup)
  BY <1>1, NextNow DEF Ends
<1>8. AskedStatus' = AskedStatus
  BY DEF AskedStatus
<1>9. ServedKnown'
  BY <1>1, <1>4, <1>6, <1>7, <1>8 DEF ServedKnown
<1>10. setup.len \in Nat
  BY SetupFields
<1>11. LeftKnown'
  BY <1>1, <1>2, <1>5, <1>7, <1>10 DEF LeftKnown
<1>12. EndsKnown(Now') /\ AwakeState' = Pipe!After(setup)
  BY <1>3 DEF Carried, AwakeState
<1>13. PipeInv'
  BY <1>9, <1>11, <1>12, PolledPipe
<1>14. GotNow' = GotNow /\ host' = host
  BY <1>1 DEF GotNow
<1>15. setup # NONE
  BY UsbControlAssumption
<1>16. served' # "no" /\ served' = IF Pipe!Accepts(setup) THEN "OK" ELSE "STALL"
  BY <1>4
<1>17. CASE host # NONE /\ waiting = NONE
  <2>1. setup = host
    BY <1>2, <1>17 DEF HostKnown
  <2>2. AnswerNow = "no" /\ LateNow = NONE
    BY <1>17 DEF AnswerNow, LateNow
  <2>3. AnswerNow' = (IF Pipe!Accepts(host) THEN "OK" ELSE "STALL") /\ LateNow' = LateNow
    BY <1>1, <1>16, <1>17, <2>1, <2>2 DEF AnswerNow, LateNow, Unserved
  <2>4. AwakeState' = Pipe!After(host)
    BY <1>12, <2>1
  <2>5. PipeStep
    BY <1>12, <1>14, <1>17, <2>2, <2>3, <2>4, PipeServes
  <2> QED
    BY <1>13, <2>5
<1>18. CASE host = NONE \/ waiting # NONE
  <2>1. LateNow = setup /\ AnswerNow = "no"
    BY <1>15, <1>18 DEF AnswerNow, LateNow, Unserved
  <2>2. LateNow' = NONE /\ AnswerNow' = "no"
    BY <1>1, <1>16, <1>18 DEF AnswerNow, LateNow, Unserved
  <2>3. AwakeState' = Pipe!After(LateNow) /\ LateNow # NONE
    BY <1>12, <1>15, <2>1
  <2>4. PipeStep
    BY <1>12, <1>14, <2>1, <2>2, <2>3, PipeServesLate
  <2> QED
    BY <1>13, <2>4
<1> QED
  BY <1>17, <1>18

-----------------------------------------------------------------------------
(* The SETUP, and the ends of transfers.                                    *)

LEMMA UnqueuedDevice ==
  ASSUME NEW s \in DriverStates, NEW e \in Ends, NEW t, t = [s EXCEPT !.u.queued[e] = FALSE]
  PROVE  SameDevice(s, t)
<1>1. s.u \in Handles
  BY DEF DriverStates
<1>2. PICK q : q = [s.u.queued EXCEPT ![e] = FALSE]
  OBVIOUS
<1>3. PICK v : v = [s.u EXCEPT !.queued = q]
  OBVIOUS
<1>4. t.u = v
  BY <1>1, <1>2, <1>3 DEF DriverStates, Handles
<1>5. /\ v.maxpacket = s.u.maxpacket /\ v.pcd_maxpacket = s.u.pcd_maxpacket
      /\ v.dev_state = s.u.dev_state /\ v.dev_old_state = s.u.dev_old_state
      /\ v.eps = s.u.eps /\ v.address = s.u.address
  BY <1>1, <1>3 DEF Handles
<1> QED
  BY <1>4, <1>5 DEF SameDevice

\* A request with data is decided when its SETUP arrives, one without waits.
LEMMA SetupCarried ==
  ASSUME Now \in DriverStates, Taken(Now), EndsKnown(Now), usb.dev_state # "SUSPENDED", setup \in Requests,
         OneAnswer, Understood, NEW event \in Completes("OUT"), NEW t, t = OutComplete(event)
  PROVE  /\ setup.len > 0 => Serves(event) /\ Carried(t)
         /\ setup.len = 0 => ~Serves(event) /\ Deciding(t) /\ EndsKnown(t) /\ SameDevice(Now, t)
<1>1. PICK r : r = [Now EXCEPT !.u.queued["OUT"] = FALSE]
  OBVIOUS
<1>2. /\ r \in DriverStates /\ r.trb = Now.trb /\ r.stalled = Now.stalled /\ r.u.queued["IN"] = Now.u.queued["IN"]
      /\ SameDevice(Now, r)
  BY <1>1, Unqueued, UnqueuedDevice DEF Ends
<1>3. PICK q : q = [r EXCEPT !.u.EP0_State = "SETUP_COMPLETED", !.u.is_stall["OUT"] = FALSE]
  OBVIOUS
<1>4. PICK m : m = [r.u.is_stall EXCEPT !["OUT"] = FALSE]
  OBVIOUS
<1>5. r.u \in Handles
  BY <1>2 DEF DriverStates
<1>6. r.u.is_stall \in [Ends -> BOOLEAN]
  BY <1>5 DEF Handles
<1>7. m \in [Ends -> BOOLEAN] /\ m["OUT"] = FALSE
  BY <1>4, <1>6, Bools DEF Ends
<1>8. PICK v : v = [r.u EXCEPT !.EP0_State = "SETUP_COMPLETED", !.is_stall = m]
  OBVIOUS
<1>9. v \in Handles /\ v.EP0_State = "SETUP_COMPLETED" /\ v.is_stall = m
  BY <1>5, <1>7, <1>8 DEF Handles
<1>10. q = [r EXCEPT !.u = v]
  BY <1>2, <1>3, <1>4, <1>5, <1>8 DEF DriverStates, Handles
<1>11. q \in DriverStates /\ q.u = v /\ q.trb = r.trb /\ q.stalled = r.stalled
  BY <1>2, <1>9, <1>10 DEF DriverStates
<1>12. v.queued = r.u.queued /\ v.maxpacket = r.u.maxpacket /\ v.pcd_maxpacket = r.u.pcd_maxpacket
       /\ v.dev_state = r.u.dev_state /\ v.dev_old_state = r.u.dev_old_state
       /\ v.eps = r.u.eps /\ v.address = r.u.address
  BY <1>5, <1>8 DEF Handles
<1>13. SameDevice(Now, q)
  BY <1>2, <1>11, <1>12 DEF SameDevice
<1>14. ~q.u.is_stall["OUT"]
  BY <1>7, <1>9, <1>11
<1>15. Deciding(q)
  BY <1>2, <1>9, <1>11, <1>12, <1>14 DEF Taken, Deciding, KindIn
<1>16. EndsKnown(q)
  BY <1>13, SameDeviceEnds
<1>17. Now.u = usb
  BY DEF Now
<1>18. Asked(q)
  BY <1>13, <1>15, <1>16, <1>17 DEF Asked, SameDevice, AwakeState
<1>19. Is(event, "XFERCOMPLETE") /\ ~Is(event, "XFERNOTREADY") /\ EpOf(event) = "OUT"
  BY EventKinds DEF Ends
<1>20. usb.EP0_State = "SETUP_QUEUED" /\ (Serves(event) <=> setup.len > 0)
  BY <1>17, <1>19 DEF Taken, Serves
<1>21. ASSUME setup.len > 0 PROVE Serves(event) /\ Carried(t)
  <2>1. t = usb_core_setup_stage(q)
    BY <1>1, <1>3, <1>20, <1>21 DEF OutComplete
  <2> QED
    BY <1>18, <1>20, <1>21, <2>1, SetupStageCarried
<1>22. ASSUME setup.len = 0 PROVE ~Serves(event) /\ t = q
  <2>1. ~(setup.len > 0)
    BY <1>22
  <2> QED
    BY <1>1, <1>3, <1>20, <2>1 DEF OutComplete
<1> QED
  BY <1>13, <1>15, <1>16, <1>21, <1>22

(* The end of a transfer leaves the device alone.                           *)
LEMMA OutDevice ==
  ASSUME Now \in DriverStates, Working(Now), Free(Now), usb.xfer_len["OUT"] = 0, NEW event \in Completes("OUT")
  PROVE  SameDevice(Now, OutComplete(event)) /\ ~Serves(event)
<1>1. PICK r : r = [Now EXCEPT !.u.queued["OUT"] = FALSE]
  OBVIOUS
<1>2. r \in DriverStates /\ r.trb = Now.trb /\ SameDevice(Now, r)
  BY <1>1, Unqueued, UnqueuedDevice DEF Ends
<1>3. Now.u = usb
  BY DEF Now
<1>4. Is(event, "XFERCOMPLETE") /\ ~Is(event, "XFERNOTREADY") /\ EpOf(event) = "OUT"
  BY EventKinds DEF Ends
<1>5. usb.EP0_State # "SETUP_QUEUED" /\ ~Serves(event)
  BY <1>3, <1>4 DEF Working, Serves
<1>6. PICK t : t = usb_dwc3_ep0_out_start(r)
  OBVIOUS
<1>7. OutComplete(event) = t
  BY <1>1, <1>5, <1>6 DEF OutComplete
<1>8. KindIn(r, "OUT") = "none"
  BY <1>2 DEF Free, KindIn
<1>9. SameDevice(r, t)
  BY <1>2, <1>6, <1>8, OutStarted DEF Readies
<1> QED
  BY <1>2, <1>5, <1>7, <1>9 DEF SameDevice

LEMMA InDevice ==
  ASSUME Now \in DriverStates, Working(Now), Free(Now), DataKnown(Now), NEW event \in Completes("IN"),
         event.trbsts = 2 => usb.xfer_len["IN"] # 0
  PROVE  SameDevice(Now, InComplete(event)) /\ ~Serves(event)
<1>1. PICK r : r = [Now EXCEPT !.u.queued["IN"] = FALSE]
  OBVIOUS
<1>2. /\ r \in DriverStates /\ r.trb = Now.trb /\ r.u.xfer_len = Now.u.xfer_len /\ r.u.is_stall = Now.u.is_stall
      /\ SameData(Now, r) /\ SameDevice(Now, r)
  BY <1>1, Unqueued, UnqueuedDevice DEF Ends
<1>3. Now.u = usb
  BY DEF Now
<1>4. Is(event, "XFERCOMPLETE") /\ ~Is(event, "XFERNOTREADY") /\ EpOf(event) = "IN"
  BY EventKinds DEF Ends
<1>5. ~Serves(event)
  BY <1>4 DEF Serves
<1>6. KindIn(r, "OUT") = "none" /\ ~r.u.is_stall["OUT"]
  BY <1>2 DEF Free, KindIn, Working
<1>7. PICK t : t = InComplete(event)
  OBVIOUS
<1>8. CASE event.trbsts = 2
  <2>1. t = dwc3_epaddr_set_stall(r)
    BY <1>1, <1>7, <1>8 DEF InComplete
  <2>2. SameDevice(r, t)
    BY <1>2, <1>6, <2>1, EpaddrStalled DEF Refuses
  <2> QED
    BY <1>2, <1>5, <1>7, <2>2 DEF SameDevice
<1>9. CASE event.trbsts # 2 /\ usb.xfer_len["IN"] = 0
  <2>1. PICK q : q = usb_dwc3_ep0_out_start(r)
    OBVIOUS
  <2>2. Readies(r, q)
    BY <1>2, <1>6, <2>1, OutStarted
  <2>3. q.u.ep0_state # "DATA_IN"
    BY <1>2, <1>3, <1>9, <2>2 DEF Readies, SameData, DataKnown
  <2>4. t = q
    BY <1>1, <1>7, <1>9, <2>1, <2>3 DEF InComplete, usb_core_data_in
  <2>5. SameDevice(r, t)
    BY <2>2, <2>4 DEF Readies
  <2> QED
    BY <1>2, <1>5, <1>7, <2>5 DEF SameDevice
<1>10. CASE event.trbsts # 2 /\ usb.xfer_len["IN"] # 0
  <2>1. t = r
    BY <1>1, <1>7, <1>10 DEF InComplete
  <2> QED
    BY <1>2, <1>5, <1>7, <2>1
<1> QED
  BY <1>8, <1>9, <1>10

\* After the end of a transfer endpoint 0 is ready again, or waits for the
\* next stage of a request that was carried out.
LEMMA EndedPipe ==
  ASSUME IInv, PipeInv, Poll, evts[1] \in Completions, Working(Now), ~Serves(evts[1]), SameDevice(Now, Now'),
         (Armed(Now') /\ stage = "idle") \/ Deciding(Now')
  PROVE  PipeInv' /\ PipeStep
<1>1. /\ up = "running" /\ up' = up /\ stage' = stage /\ left' = left /\ raised' = raised /\ setup' = setup
      /\ Shrinks(evts, evts') /\ evts \in Seq(Events)
  BY PollStep DEF IInv, Typed
<1>2. ServedKnown /\ LeftKnown /\ EndsKnown(Now)
  BY DEF PipeInv
<1>3. 1 \in Waiting /\ \A i \in Waiting' : \E j \in Waiting : evts'[i] = evts[j]
  BY <1>1, Shifted
<1>4. evts[1] # Device("RESET") /\ evts[1] \notin DeviceEvents
  BY Kinds
<1>5. served = "OK" /\ served' = served
  <2>1. served = "OK"
    BY <1>2, <1>3 DEF ServedKnown
  <2>2. served' = served
    BY <1>4, PollServes
  <2> QED
    BY <2>1, <2>2
<1>6. ResetSeen' <=> ResetSeen
  BY <1>1, <1>4, SeenShifted
<1>7. EndsKnown(Now') /\ Awake(Now') = Awake(Now)
  BY <1>2, SameDeviceEnds
<1>8. AwakeState' = AwakeState
  BY <1>7, PipeVars
<1>9. Naps(evts, usb.dev_state = "SUSPENDED", asleep)'
  <2>1. usb'.dev_state = usb.dev_state
    BY DEF SameDevice, Now
  <2> QED
    BY <1>4, <2>1, NapsPolled
<1>10. KindIn(Now', "IN") = "none"
  BY DEF Armed, Deciding
<1>11. KindIn(Now, "IN")' = "none" /\ Pipe!Owed(setup)' = Pipe!Owed(setup)
  BY <1>1, <1>10, NextNow DEF Ends
<1>12. LeftKnown'
  BY <1>1, <1>2, <1>5, <1>11 DEF LeftKnown
<1>13. /\ Armed(Now)' <=> Armed(Now')
       /\ Taken(Now)' <=> Taken(Now')
       /\ Working(Now)' <=> Working(Now')
  BY <1>1, NextNow
<1>14. AskedStatus' = AskedStatus
  BY DEF AskedStatus
<1>15. ServedKnown'
  <2>1. CASE Armed(Now') /\ stage = "idle"
    <3>1. ~Taken(Now') /\ ~Working(Now')
      BY <2>1, ModesApart
    <3> QED
      BY <1>1, <1>5, <1>13, <2>1, <3>1 DEF ServedKnown
  <2>2. CASE Deciding(Now')
    <3>1. ~Taken(Now') /\ ~Armed(Now')
      BY <2>2 DEF Deciding, Taken, Armed
    <3>2. setup.len = 0 => (stage = "status" => raised) /\ \A i \in Waiting' : evts'[i] \notin AskedStatus
      BY <1>2, <1>3, <1>5 DEF ServedKnown
    <3> QED
      BY <1>1, <1>5, <1>13, <1>14, <3>1, <3>2 DEF ServedKnown
  <2> QED
    BY <2>1, <2>2
<1>16. PipeInv'
  BY <1>7, <1>9, <1>12, <1>15, PolledPipe
<1>17. host' = host /\ AnswerNow' = AnswerNow /\ GotNow' = GotNow /\ LateNow' = LateNow
  BY <1>5, SameAnswer
<1>18. PipeStep
  BY <1>2, <1>6, <1>7, <1>8, <1>17, PipeStutters
<1> QED
  BY <1>16, <1>18

\* The event of a SETUP, or of the end of a transfer.
LEMMA CompletionPolledPipe ==
  ASSUME IInv, PipeInv, Poll, OneAnswer, Understood, evts[1] \in Completions
  PROVE  PipeInv' /\ PipeStep
<1>1. /\ Now \in DriverStates /\ evts \in Seq(Events) /\ DataKnown(Now) /\ up = "running" /\ Shrinks(evts, evts')
      /\ Now.u = usb /\ Now'.u = usb'
  BY PollStep DEF IInv, Typed, BringingUp, Now
<1>2. 1 \in Waiting /\ \A i \in Waiting : i \in Nat /\ i >= 1
  BY <1>1, Shifted
<1>3. PICK event : event = evts[1]
  OBVIOUS
<1>4. /\ event \in Completes("OUT") \/ event \in Completes("IN")
      /\ ~(event \in Completes("OUT") /\ event \in Completes("IN"))
      /\ event # Device("RESET") /\ event \notin DeviceEvents
  BY <1>3, Kinds
<1>5. ~WhenArmed
  BY <1>2 DEF WhenArmed, Stale
<1>6. usb.dev_state # "SUSPENDED" /\ (usb'.dev_state # "SUSPENDED" => Naps(evts, usb.dev_state = "SUSPENDED", asleep)')
  BY <1>3, <1>4, NapsPolled
<1>7. CASE WhenTaken
  <2>1. PICK k \in Waiting : SetupWaits(k)
    BY <1>7 DEF WhenTaken
  <2>2. k = 1
    <3>1. ~(1 < k)
      BY <1>2, <2>1 DEF SetupWaits, Stale
    <3> QED
      BY <1>2, <3>1
  <2>3. event \in Completes("OUT") /\ Taken(Now) /\ setup \in Requests
    BY <1>3, <1>7, <2>1, <2>2 DEF SetupWaits, WhenTaken
  <2>4. EndsKnown(Now) /\ ServedKnown /\ LeftKnown
    BY DEF PipeInv
  <2>5. served = "no"
    BY <2>3, <2>4 DEF ServedKnown
  <2>6. PICK t : t = OutComplete(event)
    OBVIOUS
  <2>7. t \in DriverStates
    BY <1>1, <2>3, <2>6, SetupTaken
  <2>8. Now' = t
    BY <1>3, <2>3, <2>6, <2>7, PollStep DEF Becomes
  <2>9. /\ setup.len > 0 => Serves(event) /\ Carried(t)
        /\ setup.len = 0 => ~Serves(event) /\ Deciding(t) /\ EndsKnown(t) /\ SameDevice(Now, t)
    BY <1>1, <1>6, <2>3, <2>4, <2>6, SetupCarried
  <2>10. setup.len \in Nat
    BY <2>3, SetupFields
  <2>11. ResetSeen' <=> ResetSeen
    BY <1>1, <1>3, <1>4, SeenShifted
  <2>12. CASE setup.len > 0
    <3>1. Carried(Now') /\ Now' \in DriverStates
      BY <2>7, <2>8, <2>9, <2>12
    <3>2. usb'.dev_state # "SUSPENDED"
      BY <1>1, <3>1 DEF Carried
    <3>3. served' = IF usb'.EP0_State = "SETUP_QUEUED" THEN "STALL" ELSE "OK"
      BY <1>3, <2>9, <2>12, PollServes
    <3>4. setup.len # 0
      BY <2>10, <2>12
    <3>5. (stage = "idle" => ~ResetSeen) /\ (stage = "status" => setup.len = 0)
      BY <1>7 DEF WhenTaken
    <3> QED
      BY <1>6, <2>3, <2>5, <2>11, <3>1, <3>2, <3>3, <3>4, <3>5, DecidedPipe
  <2>13. CASE setup.len = 0
    <3>1. Deciding(Now') /\ EndsKnown(Now') /\ SameDevice(Now, Now')
      BY <2>8, <2>9, <2>13
    <3>2. usb'.dev_state = usb.dev_state /\ Awake(Now') = Awake(Now)
      BY <1>1, <2>4, <3>1, SameDeviceEnds DEF SameDevice
    <3>3. served' = served
      BY <1>3, <1>4, <2>9, <2>13, PollServes
    <3>4. /\ up' = up /\ stage' = stage /\ left' = left /\ raised' = raised /\ setup' = setup
      BY PollStep
    <3>5. Working(Now') /\ ~Taken(Now') /\ ~Armed(Now') /\ KindIn(Now', "IN") = "none"
      <4>1. Working(Now')
        BY <3>1, SendingGoesOn DEF GoesOn, Deciding
      <4> QED
        BY <3>1, <4>1, ModesApart DEF Deciding
    <3>6. /\ ~Armed(Now)' /\ ~Taken(Now)' /\ Deciding(Now)'
          /\ KindIn(Now, "IN")' = "none" /\ Pipe!Owed(setup)' = Pipe!Owed(setup)
      BY <3>1, <3>4, <3>5, NextNow DEF Ends
    <3>7. \A i \in Waiting' : evts'[i] \notin Completions
      <4>1. \A i \in Waiting' : i + 1 \in Waiting /\ i + 1 > 1 /\ evts'[i] = evts[i + 1]
        BY <1>1, Shifted
      <4> QED
        BY <2>1, <2>2, <4>1 DEF SetupWaits
    <3>8. Completions' = Completions
      BY DEF Completions, Completes
    <3>9. ServedKnown'
      BY <1>1, <2>5, <2>13, <3>3, <3>4, <3>6, <3>7, <3>8 DEF ServedKnown
    <3>10. LeftKnown'
      BY <2>4, <2>13, <3>3, <3>4, <3>6 DEF LeftKnown
    <3>11. Naps(evts, usb.dev_state = "SUSPENDED", asleep)'
      BY <1>6, <3>2
    <3>12. PipeInv'
      BY <3>1, <3>9, <3>10, <3>11, PolledPipe
    <3>13. host' = host /\ AnswerNow' = AnswerNow /\ GotNow' = GotNow /\ LateNow' = LateNow
      BY <3>3, SameAnswer
    <3>14. AwakeState' = AwakeState
      BY <3>2, PipeVars
    <3>15. PipeStep
      BY <2>4, <2>11, <3>1, <3>13, <3>14, PipeStutters
    <3> QED
      BY <3>12, <3>15
  <2> QED
    BY <2>10, <2>12, <2>13
<1>8. CASE WhenWorking
  <2>1. Pending(1) /\ Working(Now) /\ setup \in Requests
    BY <1>2, <1>8 DEF WhenWorking
  <2>2. /\ Free(Now) /\ (event \in Completes("OUT") => usb.xfer_len["OUT"] = 0)
        /\ (event \in Completes("IN") /\ event.trbsts = 2 => usb.xfer_len["IN"] # 0)
        /\ (Final(event) => stage = "idle" /\ \A j \in Waiting : j > 1 => evts[j] \in DeviceEvents)
    BY <1>3, <2>1, Kinds DEF Pending, Final
  <2>3. CASE event \in Completes("OUT")
    <3>1. Final(event)
      BY <2>3 DEF Final
    <3>2. ~usb.queued["IN"]
      <4>1. \A i \in Waiting : evts[i] \notin Completes("IN")
        BY <1>2, <1>3, <1>4, <2>2, <2>3, <3>1, Kinds
      <4> QED
        BY <1>8, <2>2, <4>1 DEF WhenWorking, Free
    <3>3. Restarts(Now, OutComplete(event))
      BY <1>1, <2>1, <2>2, <2>3, <3>2, OutCompleted
    <3>4. Now' = OutComplete(event)
      BY <1>3, <2>3, <3>3, PollStep DEF Becomes, Restarts
    <3>5. Armed(Now') /\ SameDevice(Now, Now') /\ ~Serves(event)
      BY <1>1, <2>1, <2>2, <2>3, <3>3, <3>4, OutDevice DEF Restarts
    <3> QED
      BY <1>3, <2>1, <2>2, <3>1, <3>5, EndedPipe
  <2>4. CASE event \in Completes("IN")
    <3>1. SameDevice(Now, InComplete(event)) /\ ~Serves(event)
      BY <1>1, <2>1, <2>2, <2>4, InDevice
    <3>2. CASE event.trbsts = 2 \/ usb.xfer_len["IN"] = 0
      <4>1. Final(event)
        BY <2>4, <3>2 DEF Final
      <4>2. Restarts(Now, InComplete(event))
        BY <1>1, <2>1, <2>2, <2>4, <3>2, InCompleted
      <4>3. Now' = InComplete(event)
        BY <1>3, <2>4, <4>2, PollStep DEF Becomes, Restarts
      <4>4. Armed(Now')
        BY <4>2, <4>3 DEF Restarts
      <4> QED
        BY <1>3, <2>1, <2>2, <3>1, <4>1, <4>3, <4>4, EndedPipe
    <3>3. CASE ~(event.trbsts = 2 \/ usb.xfer_len["IN"] = 0)
      <4>1. Sent(Now, InComplete(event))
        BY <1>1, <2>1, <2>2, <2>4, <3>3, InCompleted
      <4>2. Now' = InComplete(event)
        BY <1>3, <2>4, <4>1, PollStep DEF Becomes, Sent
      <4>3. Deciding(Now')
        BY <4>1, <4>2 DEF Sent
      <4> QED
        BY <1>3, <2>1, <3>1, <4>2, <4>3, EndedPipe
    <3> QED
      BY <3>2, <3>3
  <2> QED
    BY <1>4, <2>3, <2>4
<1> QED
  BY <1>1, <1>5, <1>7, <1>8 DEF IInv

-----------------------------------------------------------------------------
(* A stage for which there is no transfer.                                  *)

\* The status stage of a request with data.
LEMMA ReceiveDevice ==
  ASSUME NEW s, Deciding(s), NEW t, t = usb_core_receive_ep0(s)
  PROVE  SameDevice(s, t) /\ KindIn(t, "IN") = "none"
<1>1. s \in DriverStates /\ s.u \in Handles
  BY DEF Deciding, DriverStates
<1>2. PICK v : v = [s.u EXCEPT !.ep0_state = "STATUS_OUT"]
  OBVIOUS
<1>3. v \in Handles
  BY <1>1, <1>2 DEF Handles, Ep0States
<1>4. /\ v.maxpacket = s.u.maxpacket /\ v.pcd_maxpacket = s.u.pcd_maxpacket
      /\ v.dev_state = s.u.dev_state /\ v.dev_old_state = s.u.dev_old_state
      /\ v.eps = s.u.eps /\ v.address = s.u.address
  BY <1>1, <1>2 DEF Handles
<1>5. PICK r : r = [s EXCEPT !.u = v]
  OBVIOUS
<1>6. r \in DriverStates /\ r.u = v /\ r.trb = s.trb
  BY <1>1, <1>3, <1>5 DEF DriverStates
<1>7. r = [s EXCEPT !.u.ep0_state = "STATUS_OUT"]
  BY <1>1, <1>2, <1>5 DEF DriverStates
<1>8. t = usb_dwc3_ep_start_xfer(r, "OUT", 0)
  BY <1>7 DEF usb_core_receive_ep0, usb_core_receive
<1>9. KindIn(r, "OUT") = "none" /\ KindIn(r, "IN") = "none"
  BY <1>6 DEF Deciding, KindIn
<1>10. StartsStage(r, t, "OUT", 0)
  BY <1>6, <1>8, <1>9, StageStarted DEF Ends
<1>11. SameEnd(r, t, "IN") /\ SameDevice(r, t)
  BY <1>10 DEF StartsStage, Ends
<1>12. SameDevice(s, t)
  BY <1>4, <1>6, <1>11 DEF SameDevice
<1> QED
  BY <1>9, <1>11, <1>12 DEF SameEnd, KindIn

\* A request without data is decided when the host asks for the status.
LEMMA StatusCarried ==
  ASSUME Now \in DriverStates, Deciding(Now), EndsKnown(Now), DataKnown(Now), usb.maxpacket = 64,
         usb.dev_state # "SUSPENDED", setup \in Requests, OneAnswer, Understood,
         NEW event \in AskedStatus, NEW t, t = XferNotReady(event)
  PROVE  /\ setup.len = 0 => Serves(event) /\ Carried(t)
         /\ setup.len # 0 => /\ ~Serves(event) /\ GoesOn(t) /\ KindIn(t, "IN") = "none" /\ SameDevice(Now, t)
<1>1. Now.u = usb
  BY DEF Now
<1>2. setup.dir \in Ends /\ setup.len \in Nat
  BY SetupFields
<1>3. At_status(event) /\ ~At_data(event) /\ Is(event, "XFERNOTREADY") /\ ~Is(event, "XFERCOMPLETE")
  BY EventKinds DEF NotReadys
<1>4. usb.EP0_State # "SETUP_QUEUED" /\ (Serves(event) <=> setup.len = 0)
  BY <1>1, <1>3 DEF Serves, Deciding
<1>5. t = dwc3_handle_ep0_xfernotready_event(event)
  BY <1>4 DEF XferNotReady
<1>6. ASSUME setup.len = 0 PROVE Carried(t)
  <2>1. t = usb_core_setup_stage(Now)
    BY <1>2, <1>3, <1>4, <1>5, <1>6 DEF dwc3_handle_ep0_xfernotready_event
  <2>2. Asked(Now)
    BY <1>1 DEF Asked, AwakeState
  <2> QED
    BY <2>1, <2>2, SetupStageCarried
<1>7. ASSUME setup.len # 0 PROVE t = Now \/ t = usb_core_receive_ep0(Now)
  <2>1. t = usb_core_data_in(Now) \/ t = Now
    BY <1>2, <1>3, <1>4, <1>5, <1>7 DEF dwc3_handle_ep0_xfernotready_event
  <2>2. CASE t = usb_core_data_in(Now) /\ usb.ep0_state = "DATA_IN"
    <3>1. usb.rem < 64 /\ usb.total < 64
      BY <1>1, <2>2 DEF DataKnown
    <3>2. usb.rem \in Nat /\ usb.total \in Nat
      BY <1>1 DEF DriverStates, Handles
    <3>3. ~(usb.rem > usb.maxpacket) /\ ~(usb.total >= usb.maxpacket)
      BY <3>1, <3>2
    <3> QED
      BY <1>1, <2>2, <3>3 DEF usb_core_data_in
  <2>3. CASE t = usb_core_data_in(Now) /\ usb.ep0_state # "DATA_IN"
    BY <1>1, <2>3 DEF usb_core_data_in
  <2> QED
    BY <2>1, <2>2, <2>3
<1>8. ASSUME setup.len # 0 PROVE GoesOn(t) /\ KindIn(t, "IN") = "none" /\ SameDevice(Now, t)
  <2>1. CASE t = Now
    BY <2>1, SendingGoesOn DEF Deciding, SameDevice
  <2>2. CASE t = usb_core_receive_ep0(Now)
    BY <1>8, <2>2, ReceiveStarted, ReceiveDevice
  <2> QED
    BY <1>7, <1>8, <2>1, <2>2
<1> QED
  BY <1>4, <1>6, <1>8

\* The event that says that the host asks for a stage.
LEMMA NotReadyPolledPipe ==
  ASSUME IInv, PipeInv, Poll, OneAnswer, Understood, evts[1] \in NotReadys
  PROVE  PipeInv' /\ PipeStep
<1>1. /\ Now \in DriverStates /\ evts \in Seq(Events) /\ DataKnown(Now) /\ up = "running" /\ Shrinks(evts, evts')
      /\ usb.maxpacket = 64 /\ Now.u = usb /\ Now'.u = usb'
  BY PollStep DEF IInv, Typed, BringingUp, Now
<1>2. 1 \in Waiting /\ \A i \in Waiting : i \in Nat /\ i >= 1
  BY <1>1, Shifted
<1>3. PICK event : event = evts[1]
  OBVIOUS
<1>4. /\ event \notin Completions /\ event # Device("RESET") /\ event \notin DeviceEvents
      /\ event \in AskedData \/ event \in AskedStatus
  BY <1>3, Kinds
<1>5. Becomes(XferNotReady(event))
  BY <1>3, PollStep
<1>6. usb.dev_state # "SUSPENDED" /\ (usb'.dev_state # "SUSPENDED" => Naps(evts, usb.dev_state = "SUSPENDED", asleep)')
  BY <1>3, <1>4, NapsPolled
<1>7. EndsKnown(Now) /\ ServedKnown /\ LeftKnown
  BY DEF PipeInv
<1>8. ~Is(event, "XFERCOMPLETE") /\ (event \in AskedData => ~At_status(event))
  BY <1>3, EventKinds DEF NotReadys
<1>9. ASSUME XferNotReady(event) = Now, ~Serves(event) PROVE PipeInv' /\ PipeStep
  <2>1. Now' = Now
    BY <1>1, <1>5, <1>9 DEF Becomes
  <2>2. SameWork(Now, Now') /\ EndsKnown(Now') /\ Awake(Now') = Awake(Now)
    BY <1>1, <1>7, <2>1, SameWorkRefl
  <2>3. served' = served
    BY <1>3, <1>4, <1>9, PollServes
  <2>4. Naps(evts, usb.dev_state = "SUSPENDED", asleep)'
    BY <1>1, <1>6, <2>1
  <2> QED
    BY <1>3, <1>4, <2>2, <2>3, <2>4, SkippedPipe
<1>10. ASSUME usb.EP0_State = "SETUP_QUEUED", usb.is_stall["OUT"] PROVE PipeInv' /\ PipeStep
  <2>1. ~Serves(event)
    BY <1>8, <1>10 DEF Serves
  <2> QED
    BY <1>9, <1>10, <2>1, StallRepeated
<1>11. CASE WhenArmed
  BY <1>1, <1>2, <1>10, <1>11 DEF WhenArmed, Armed, Stale
<1>12. CASE WhenTaken
  <2>1. PICK k \in Waiting : SetupWaits(k)
    BY <1>12 DEF WhenTaken
  <2>2. k # 1
    BY <2>1, Kinds DEF SetupWaits
  <2>3. Stale(evts[1])
    BY <1>2, <2>1, <2>2 DEF SetupWaits
  <2> QED
    BY <1>1, <1>10, <1>12, <2>3 DEF WhenTaken, Taken, Stale
<1>13. CASE WhenWorking
  <2>1. Pending(1) /\ Working(Now) /\ setup \in Requests
    BY <1>2, <1>13 DEF WhenWorking
  <2>2. usb.EP0_State # "SETUP_QUEUED"
    BY <1>1, <2>1 DEF Working
  <2>3. CASE event \in AskedData
    <3>1. setup.len > 0 /\ event = NotReady(setup.dir, CTRL_DATA)
      BY <1>3, <2>1, <2>3 DEF Pending, OfRequest
    <3>2. ~Serves(event)
      BY <1>8, <2>3 DEF Serves
    <3> QED
      BY <1>9, <2>1, <2>2, <2>3, <3>1, <3>2, DataAsked
  <2>4. CASE event \in AskedStatus
    <3>1. /\ Free(Now) /\ \A j \in Waiting : j > 1 => evts[j] \notin AskedStatus /\ evts[j] \notin Completions
          /\ (stage = "status" /\ raised) \/ ~ResetSeen
      BY <1>3, <2>1, <2>4 DEF Pending, OfRequest
    <3>2. \A i \in Waiting : evts[i] \notin Completions
      BY <1>2, <1>3, <1>4, <3>1
    <3>3. \A i \in Waiting : evts[i] \notin Completes("IN") /\ ~Final(evts[i])
      BY <3>2, Kinds DEF Final
    <3>4. ~usb.queued["IN"]
      BY <1>13, <3>1, <3>3 DEF WhenWorking, Free
    <3>5. Deciding(Now)
      BY <1>1, <2>1, <3>1, <3>4 DEF Deciding, Working, Free
    <3>6. PICK t : t = XferNotReady(event)
      OBVIOUS
    <3>7. t \in DriverStates
      BY <1>1, <2>1, <2>4, <3>5, <3>6, StatusAsked
    <3>8. Now' = t
      BY <1>5, <3>6, <3>7 DEF Becomes
    <3>9. /\ setup.len = 0 => Serves(event) /\ Carried(t)
          /\ setup.len # 0 => /\ ~Serves(event) /\ GoesOn(t) /\ KindIn(t, "IN") = "none" /\ SameDevice(Now, t)
      BY <1>1, <1>6, <1>7, <2>1, <2>4, <3>5, <3>6, StatusCarried
    <3>10. (stage = "idle" => ~ResetSeen) /\ (stage = "status" => raised)
      BY <1>13, <3>1, <3>3 DEF WhenWorking, IInv, OnTheBus
    <3>11. ResetSeen' <=> ResetSeen
      BY <1>1, <1>3, <1>4, SeenShifted
    <3>12. served \in {"no", "OK"} /\ (served = "no" => setup.len = 0) /\ (setup.len = 0 => served = "no")
      BY <1>1, <1>2, <1>3, <1>7, <2>1, <2>4 DEF ServedKnown
    <3>13. CASE setup.len = 0
      <4>1. Carried(Now') /\ Now' \in DriverStates
        BY <3>7, <3>8, <3>9, <3>13
      <4>2. usb'.dev_state # "SUSPENDED"
        BY <1>1, <4>1 DEF Carried
      <4>3. served' = IF usb'.EP0_State = "SETUP_QUEUED" THEN "STALL" ELSE "OK"
        BY <1>3, <3>9, <3>13, PollServes
      <4>4. \A i \in Waiting' : evts'[i] \notin AskedStatus
        <5>1. \A i \in Waiting' : i + 1 \in Waiting /\ i + 1 > 1 /\ evts'[i] = evts[i + 1]
          BY <1>1, Shifted
        <5> QED
          BY <3>1, <5>1
      <4> QED
        BY <1>6, <2>1, <3>10, <3>11, <3>12, <3>13, <4>1, <4>2, <4>3, <4>4, DecidedPipe
    <3>14. CASE setup.len # 0
      <4>1. served = "OK" /\ served' = served
        BY <1>3, <1>4, <3>9, <3>12, <3>14, PollServes
      <4>2. GoesOn(Now') /\ KindIn(Now', "IN") = "none" /\ SameDevice(Now, Now')
        BY <3>8, <3>9, <3>14
      <4>3. EndsKnown(Now') /\ Awake(Now') = Awake(Now) /\ usb'.dev_state = usb.dev_state
        BY <1>1, <1>7, <4>2, SameDeviceEnds DEF SameDevice
      <4>4. /\ up' = up /\ stage' = stage /\ left' = left /\ raised' = raised /\ setup' = setup
        BY PollStep
      <4>5. ~Taken(Now') /\ ~Armed(Now')
        BY <4>2, ModesApart DEF GoesOn
      <4>6. /\ ~Armed(Now)' /\ ~Taken(Now)'
            /\ KindIn(Now, "IN")' = "none" /\ Pipe!Owed(setup)' = Pipe!Owed(setup)
        BY <4>2, <4>4, <4>5, NextNow DEF Ends
      <4>7. ServedKnown'
        BY <1>1, <3>14, <4>1, <4>4, <4>6 DEF ServedKnown
      <4>8. LeftKnown'
        BY <1>7, <4>1, <4>4, <4>6 DEF LeftKnown
      <4>9. Naps(evts, usb.dev_state = "SUSPENDED", asleep)'
        BY <1>6, <4>3
      <4>10. PipeInv'
        BY <4>3, <4>7, <4>8, <4>9, PolledPipe
      <4>11. host' = host /\ AnswerNow' = AnswerNow /\ GotNow' = GotNow /\ LateNow' = LateNow
        BY <4>1, SameAnswer
      <4>12. AwakeState' = AwakeState
        BY <4>3, PipeVars
      <4>13. PipeStep
        BY <1>7, <3>11, <4>3, <4>11, <4>12, PipeStutters
      <4> QED
        BY <4>10, <4>13
    <3> QED
      BY <3>13, <3>14
  <2> QED
    BY <1>4, <2>3, <2>4
<1> QED
  BY <1>1, <1>11, <1>12, <1>13 DEF IInv

-----------------------------------------------------------------------------
(* Every step is one of ControlPipe's, or none of its own.                  *)

LEMMA PolledStepPipe ==
  ASSUME IInv, PipeInv, Poll, OneAnswer, Understood
  PROVE  PipeInv' /\ PipeStep
<1>1. evts[1] \in Completions \/ evts[1] \in NotReadys \/ evts[1] \in DeviceEvents
  BY PollStep, Kinds
<1> QED
  BY <1>1, CompletionPolledPipe, NotReadyPolledPipe, DevicePolledPipe, ResetPolledPipe

LEMMA StepPipe ==
  ASSUME IInv, PipeInv, OneAnswer, Understood, QuietLink, [Next]_vars
  PROVE  PipeInv' /\ PipeStep
<1>1. IInv'
  BY StepInv
<1>2. CASE UNCHANGED vars
  <2>1. /\ up' = up /\ usb' = usb /\ trb' = trb /\ stalled' = stalled /\ stage' = stage /\ left' = left
        /\ raised' = raised /\ evts' = evts /\ setup' = setup /\ served' = served /\ host' = host
        /\ waiting' = waiting /\ asleep' = asleep
    BY <1>2 DEF vars, wire
  <2>2. ResetSeen' <=> ResetSeen
    BY <2>1 DEF ResetSeen
  <2>3. Now' = Now
    BY <2>1, Sames
  <2>4. EndsKnown(Now) /\ HostKnown /\ ServedKnown /\ LeftKnown /\ Unplugged /\ evts \in Seq(Events)
        /\ Naps(evts, usb.dev_state = "SUSPENDED", asleep)
    BY DEF PipeInv, IInv, Typed
  <2>5. Grows(evts, evts', {})
    BY <2>1, <2>4, GrowsNot
  <2>6. ServedKnown' /\ LeftKnown' /\ Unplugged'
    BY <2>1, <2>2, <2>3, <2>4, <2>5, ServedStays, LeftStays, UnpluggedStays
  <2>7. HostKnown'
    BY <2>1, <2>4 DEF HostKnown
  <2>8. Naps(evts, usb.dev_state = "SUSPENDED", asleep)'
    BY <2>1, <2>4 DEF Naps, Turns, Turning
  <2>9. EndsKnown(Now)'
    BY <2>3, <2>4, NextNow
  <2>10. PipeInv'
    BY <2>6, <2>7, <2>8, <2>9 DEF PipeInv
  <2> QED
    BY <2>1, <2>2, <2>10, Unmoved
<1>3. CASE Controller
  BY <1>1, <1>3, TakeSetupPipe, SetupPendingPipe, MovesPipe, EndsPipe, StallsPipe, ReportsPipe DEF Controller
<1>4. CASE \E r \in Requests : HostAsks(r) \/ HostAbandons(r)
  BY <1>1, <1>4, HostAsksPipe, HostAbandonsPipe
<1>5. CASE BringUp
  BY <1>1, <1>5, BringUpPipe
<1>6. CASE Poll
  BY <1>6, PolledStepPipe
<1>7. CASE BusReset
  BY <1>1, <1>7, BusResetPipe
<1>8. CASE LinkEvent \/ BusResume
  BY <1>8, LinkEventPipe
<1> QED
  BY <1>2, <1>3, <1>4, <1>5, <1>6, <1>7, <1>8 DEF Next

(* ImplementsPipe: whatever the controller, the link and the polling do in  *)
(* between, a request that is answered is answered once, as ControlPipe     *)
(* says, with the device and its endpoints in the state the request leaves. *)
THEOREM Refinement ==
  ASSUME OneAnswer, Understood, QuietLink
  PROVE  Spec => ImplementsPipe
<1>1. Init => PipeInv /\ Pipe!Init
  BY InitPipe
<1>2. IInv /\ PipeInv /\ [Next]_vars => PipeInv' /\ [Pipe!Next]_(Pipe!vars)
  BY StepPipe DEF PipeStep
<1>3. Spec => []IInv
  BY InvariantHolds
<1>4. Spec => Pipe!Init /\ [][Pipe!Next]_(Pipe!vars)
  BY <1>1, <1>2, <1>3, PTL DEF Spec
<1> QED
  BY <1>4 DEF ImplementsPipe, Pipe!Spec
=============================================================================
