------------------------------ MODULE UsbControl ------------------------------
(***************************************************************************)
(* Endpoint 0: the control transfers of the device core (usb_device.c) on   *)
(* the DWC3 driver (usb_dwc3.c), from the bring-up of the controller to the *)
(* end of a request, with resets and requests the host gives up.            *)
(*                                                                         *)
(* The driver has a TRB for each direction of endpoint 0.  A SETUP packet   *)
(* needs a setup TRB; the stages that follow need a data or status TRB in   *)
(* their direction, and where there is none the controller reports "not     *)
(* ready".  One event is taken from the event buffer at a time, and the     *)
(* host goes on while events wait.                                          *)
(***************************************************************************)
EXTENDS Integers, Sequences, UsbDescriptors, UsbEndpoints

CONSTANTS
  Requests,    \* records [name, arg, index, to, dir, len]
  NONE,
  MaxAbandons, \* bound: so many requests the host gives up
  LinkEvents,  \* what else the controller reports of the link: names of DEVICE_EVENT
  MaxSignals   \* bound: so many resets, unpluggings, suspends and link events

Ends == {"OUT", "IN"}

(* The requests the core tells apart, and whom they are for.                *)
Codes ==
  {"GET_STATUS", "CLEAR_FEATURE", "SET_FEATURE", "SET_ADDRESS", "GET_DESCRIPTOR", "SET_DESCRIPTOR",
   "GET_CONFIGURATION", "SET_CONFIGURATION", "GET_INTERFACE", "SET_INTERFACE", "SYNCH_FRAME",
   "GET_MAX_LUN", "BOT_RESET"}
Recipients == {"device", "interface", "endpoint"}

usb_setup_req ==
  [name : Codes, arg : 0 .. 2 ^ 16 - 1, index : 0 .. 2 ^ 16 - 1, to : Recipients, dir : Ends, len : 0 .. 2 ^ 16 - 1]

ASSUME UsbControlAssumption ==
  /\ MaxAbandons \in Nat /\ MaxSignals \in Nat /\ LinkEvents \subseteq DOMAIN DEVICE_EVENT \ {"RESET"}
  /\ Requests \subseteq usb_setup_req /\ NONE \notin Requests

(* An interface gets no request without data but the reset of the class.    *)
(* usb_core_itf_req() starts a status stage also for one the class refuses, *)
(* and then both directions of endpoint 0 are busy.                         *)
OneAnswer == \A r \in Requests : r.to = "interface" /\ r.len = 0 => r.name = "BOT_RESET"

(* What ControlPipe knows of the requests: their recipients and lengths, an *)
(* address that is one, and a configuration in the low byte.  A request of  *)
(* an endpoint that asks for data is neither answered nor refused.          *)
Understood ==
  \A r \in Requests :
    /\ r.name \in {"GET_DESCRIPTOR", "GET_STATUS"} => r.to = "device" /\ r.len > 0
    /\ r.name = "SET_ADDRESS" => r.to = "device" /\ r.len = 0 /\ r.index = 0 /\ r.arg \in 1 .. 127
    /\ r.name = "SET_CONFIGURATION" => r.to = "device" /\ r.len = 0 /\ r.arg < 256
    /\ r.name = "GET_MAX_LUN" => r.to = "interface" /\ r.len > 0 /\ r.index = 0
    /\ r.name = "BOT_RESET" => r.to = "interface" /\ r.len = 0 /\ r.index = 0
    /\ r.to = "endpoint" => r.dir = "OUT"

(* No event of the link is taken for one that the host causes.              *)
QuietLink == LinkEvents \cap {"DISCONNECT", "EOPF", "WAKEUP", "L1SUSPEND", "L1WAKEUP"} = {}

VARIABLES
  up,       \* the bring-up: "off", "core", "device", "ready", "running" or "panic"
  usb,      \* device core and driver: a record, see Init
  trb,      \* the control word of the TRB of each direction; its owner bit is set
            \* while the controller works on it
  stalled,  \* the controller answers with STALL, until the next SETUP
  stage,    \* the control transfer on the wire: idle, data or status
  left,     \* bytes the host has not got of those it asked for
  raised,   \* "not ready" was reported in this stage
  evts,     \* the event buffer
  setup,    \* the SETUP packet in memory
  served,   \* what the core decided about it: "no", "OK" or "STALL"
  host,     \* the request the host waits for, or NONE
  waiting,  \* a SETUP packet the controller has not stored yet, or NONE
  address,  \* the address the host uses
  asleep,   \* the host has suspended the bus
  abandons, signals

wire == <<stage, left, raised>>
bounds == <<abandons, signals>>
vars == <<up, usb, trb, stalled, wire, evts, setup, served, host, waiting, address, asleep, bounds>>

(* Before the bring-up: zeroed memory, and the packet size the class sets.  *)
usb_handle ==
  [EP0_State |-> "RESET", is_stall |-> [e \in Ends |-> FALSE],
   queued |-> [e \in Ends |-> FALSE], xfer_len |-> [e \in Ends |-> 0], address |-> 0,
   dev_state |-> "DEFAULT", dev_old_state |-> "DEFAULT", dev_config |-> 0, ep0_state |-> "IDLE",
   total |-> 0, rem |-> 0, ep0_data_len |-> 0, class |-> FALSE,
   eps |-> {}, pcd_maxpacket |-> USB_MAX_EP0_SIZE, maxpacket |-> 0]

DevStates == {"DEFAULT", "ADDRESSED", "CONFIGURED", "SUSPENDED"}
Ep0States == {"IDLE", "SETUP", "DATA_IN", "DATA_OUT", "STATUS_IN", "STATUS_OUT", "STALL"}

Init ==
  /\ up = "off" /\ usb = usb_handle
  /\ trb = [e \in Ends |-> 0] /\ stalled = FALSE
  /\ stage = "idle" /\ left = 0 /\ raised = FALSE /\ evts = <<>>
  /\ setup = NONE /\ served = "OK" /\ host = NONE /\ waiting = NONE /\ address = 0
  /\ asleep = FALSE /\ abandons = 0 /\ signals = 0

-----------------------------------------------------------------------------
(* The driver, as steps of a state s = [u, trb, stalled].                   *)

Now == [u |-> usb, trb |-> trb, stalled |-> stalled]

(* A transfer is refused while another is under way.                        *)
dwc3_ep_start_xfer(s, e, kind, len) ==
  IF TrbKind(s.trb[e]) = "none"
  THEN [s EXCEPT !.u.xfer_len[e] = len, !.u.queued[e] = TRUE, !.trb[e] = TrbControl(kind, 0)]
  ELSE [s EXCEPT !.u.xfer_len[e] = len, !.u.queued[e] = FALSE]

usb_dwc3_ep_start_xfer(s, e, len) ==
  dwc3_ep_start_xfer(s, e, IF len > 0 THEN "data" ELSE IF setup.len = 0 THEN "status2" ELSE "status3", len)

\* Wrong variant: the state of endpoint 0 is not set with the transfer.
usb_dwc3_ep0_out_start_state_kept(s) == dwc3_ep_start_xfer(s, "OUT", "setup", 8)

usb_dwc3_ep0_out_start(s) ==
  dwc3_ep_start_xfer([s EXCEPT !.u.EP0_State = "SETUP_QUEUED"], "OUT", "setup", 8)

dwc3_ep_stop_xfer(s, e) ==
  IF ~s.u.queued[e] THEN s
  ELSE LET t == [s EXCEPT !.u.queued[e] = FALSE, !.trb[e] = 0]
       IN IF e = "OUT" THEN [t EXCEPT !.u.EP0_State = "SETUP_COMPLETED"] ELSE t

(* Only the OUT direction stalls the control endpoint (usb_dwc3.c:1122).    *)
dwc3_ep_set_stall(s) == [s EXCEPT !.stalled = TRUE]

usb_dwc3_ep_set_stall(s, e) ==
  LET t == [s EXCEPT !.u.is_stall[e] = TRUE]
  IN IF s.u.is_stall[e] THEN s ELSE IF e = "OUT" THEN dwc3_ep_set_stall(t) ELSE t

dwc3_epaddr_set_stall(s) ==
  IF s.u.is_stall["OUT"] THEN s
  ELSE usb_dwc3_ep0_out_start(dwc3_ep_set_stall([s EXCEPT !.u.is_stall["OUT"] = TRUE]))

usb_dwc3_set_address(s, dev_addr) == [s EXCEPT !.u.address = dev_addr]

-----------------------------------------------------------------------------
(* The device core.                                                         *)

usb_core_set_stall(s, e) ==
  LET t == usb_dwc3_ep_set_stall(s, e) IN IF e = "OUT" THEN usb_dwc3_ep0_out_start(t) ELSE t

usb_core_ctl_error(s) == usb_core_set_stall(usb_core_set_stall(s, "IN"), "OUT")

usb_core_receive(s, len) == usb_dwc3_ep_start_xfer(s, "OUT", len)
usb_core_transmit(s, len) == usb_dwc3_ep_start_xfer(s, "IN", len)

usb_core_receive_ep0(s) == usb_core_receive([s EXCEPT !.u.ep0_state = "STATUS_OUT"], 0)

usb_core_transmit_ep0(s, len) ==
  usb_core_transmit([s EXCEPT !.u.ep0_state = IF len = 0 THEN "STATUS_IN" ELSE "DATA_IN",
                              !.u.total = len, !.u.rem = len], len)

Smaller(a, b) == IF a < b THEN a ELSE b

(* A request for no byte is neither answered nor refused.                   *)
usb_core_get_desc(s) ==
  LET d == Descriptor(setup.arg)
  IN CASE d = <<>> -> usb_core_ctl_error(s)
       [] d # <<>> /\ setup.len > 0 -> usb_core_transmit_ep0(s, Smaller(Len(d), setup.len))
       [] OTHER -> s

usb_core_get_status(s) ==
  IF s.u.dev_state \in {"ADDRESSED", "CONFIGURED"} THEN usb_core_transmit_ep0(s, 2)
                                                   ELSE usb_core_ctl_error(s)

\* Wrong variant: an address is accepted in every state.
usb_core_set_address_always(s) ==
  LET dev_addr == setup.arg % 128
      t == usb_core_transmit_ep0(usb_dwc3_set_address(s, dev_addr), 0)
  IN [t EXCEPT !.u.dev_state = IF dev_addr = 0 THEN "DEFAULT" ELSE "ADDRESSED"]

usb_core_set_address(s) ==
  LET dev_addr == setup.arg % 128
      t == usb_core_transmit_ep0(usb_dwc3_set_address(s, dev_addr), 0)
  IN IF setup.index # 0 \/ setup.len # 0 \/ s.u.dev_state # "DEFAULT" THEN usb_core_ctl_error(s)
     ELSE [t EXCEPT !.u.dev_state = IF dev_addr = 0 THEN "DEFAULT" ELSE "ADDRESSED"]

(* msc_init() reports no error; what its endpoints receive is in UsbMsc.    *)
msc_init(s) ==
  LET out == usb_dwc3_ep_open(s.u.eps, MSC_EP_OUT, USBD_EP_TYPE.BULK, MSC_MPS_HS)
  IN [s EXCEPT !.u.class = TRUE, !.u.eps = usb_dwc3_ep_open(out, MSC_EP_IN, USBD_EP_TYPE.BULK, MSC_MPS_HS)]

(* The endpoints stay open.                                                 *)
msc_de_init(s) == [s EXCEPT !.u.class = FALSE]

usb_core_set_config(s) ==
  LET u == s.u
      cfgidx == LOBYTE(setup.arg)
      configured == msc_init([s EXCEPT !.u.dev_config = cfgidx, !.u.dev_state = "CONFIGURED"])
      cleared == msc_de_init([s EXCEPT !.u.dev_config = 0, !.u.dev_state = "ADDRESSED"])
  IN CASE cfgidx > USBD_MAX_NUM_CONFIGURATION \/ u.dev_state \notin {"ADDRESSED", "CONFIGURED"} ->
            usb_core_ctl_error(s)
       [] cfgidx = 1 /\ u.dev_state = "ADDRESSED" -> usb_core_transmit_ep0(configured, 0)
       [] cfgidx = 0 /\ u.dev_state = "CONFIGURED" -> usb_core_transmit_ep0(cleared, 0)
       [] OTHER -> usb_core_transmit_ep0(s, 0)

usb_core_dev_req(s) ==
  CASE setup.name = "GET_DESCRIPTOR" -> usb_core_get_desc(s)
    [] setup.name = "SET_CONFIGURATION" -> usb_core_set_config(s)
    [] setup.name = "GET_STATUS" -> usb_core_get_status(s)
    [] setup.name = "SET_ADDRESS" -> usb_core_set_address(s)
    [] OTHER -> usb_core_ctl_error(s)

(* msc_setup(): its own transfers on the bulk endpoints are in UsbMsc.      *)
msc_setup(s) ==
  CASE setup.name = "GET_MAX_LUN" -> usb_core_transmit_ep0(s, 1)
    [] setup.name = "BOT_RESET" -> s
    [] OTHER -> usb_core_ctl_error(s)

usb_core_itf_req(s) ==
  IF s.u.dev_state # "CONFIGURED" \/ LOBYTE(setup.index) > USBD_MAX_NUM_INTERFACES THEN usb_core_ctl_error(s)
  ELSE IF setup.len = 0 THEN usb_core_transmit_ep0(msc_setup(s), 0) ELSE msc_setup(s)

usb_core_setup_stage(s) ==
  LET t == [s EXCEPT !.u.ep0_state = "SETUP", !.u.ep0_data_len = setup.len]
  IN CASE setup.to = "device" -> usb_core_dev_req(t)
       [] setup.to = "interface" -> usb_core_itf_req(t)
       [] OTHER -> usb_core_set_stall(t, setup.dir)

(* USB_DATA_IN on endpoint 0: more to send, a packet of no bytes, or the    *)
(* status stage.                                                            *)
usb_core_data_in(s) ==
  LET u == s.u
      MPS == u.maxpacket
  IN CASE u.ep0_state # "DATA_IN" -> s
       [] u.ep0_state = "DATA_IN" /\ u.rem > MPS ->
            usb_core_receive(usb_core_transmit([s EXCEPT !.u.rem = u.rem - MPS], u.rem - MPS), 0)
       [] u.ep0_state = "DATA_IN" /\ u.rem <= MPS /\ u.total % MPS = 0 /\ u.total >= MPS /\ u.total < u.ep0_data_len ->
            usb_core_receive([usb_core_transmit(s, 0) EXCEPT !.u.ep0_data_len = 0], 0)
       [] OTHER -> usb_core_receive_ep0(s)

-----------------------------------------------------------------------------
(* One event of the controller.                                             *)

(* A word of the event buffer, with what the TRB says when it is complete:  *)
(* 2 is USB_DWC3_TRBSTS_SETUP_PENDING.                                      *)
Phys(e) == EPADDR_TO_PHYEPNUM(IF e = "IN" THEN EP_DIR_IN ELSE 0)
Complete(e, trbsts) == [word |-> EpEvent(DEPEVT.XFERCOMPLETE, Phys(e), 0), trbsts |-> trbsts]
NotReady(e, status) == [word |-> EpEvent(DEPEVT.XFERNOTREADY, Phys(e), status), trbsts |-> 0]
Device(what) == [word |-> DeviceEvent(DEVICE_EVENT[what]), trbsts |-> 0]

Is(event, type) == dwc3_is_ep_event(event.word) /\ dwc3_read_ep_evt_type(event.word) = DEPEVT[type]
EpOf(event) == IF PHYEPNUM_TO_EPADDR(dwc3_read_ep_evt_epnum(event.word)) >= EP_DIR_IN THEN "IN" ELSE "OUT"
At_data(event) == dwc3_read_ep_evt_status(event.word) = CTRL_DATA
At_status(event) == dwc3_read_ep_evt_status(event.word) = CTRL_STATUS

(* The chain of calls that decides about a request.                         *)
Serves(event) ==
  \/ Is(event, "XFERCOMPLETE") /\ EpOf(event) = "OUT" /\ usb.EP0_State = "SETUP_QUEUED" /\ setup.len > 0
  \/ /\ Is(event, "XFERNOTREADY") /\ At_status(event)
     /\ usb.EP0_State # "SETUP_QUEUED" /\ setup.len = 0

InComplete(event) ==
  LET sent == [Now EXCEPT !.u.queued["IN"] = FALSE]
      t == IF event.trbsts = 2 THEN dwc3_epaddr_set_stall(sent) ELSE sent
  IN IF usb.xfer_len["IN"] = 0 THEN usb_core_data_in(usb_dwc3_ep0_out_start(t)) ELSE t

OutComplete(event) ==
  LET t == [Now EXCEPT !.u.queued["OUT"] = FALSE]
      taken == [t EXCEPT !.u.EP0_State = "SETUP_COMPLETED", !.u.is_stall["OUT"] = FALSE]
  IN CASE Serves(event) -> usb_core_setup_stage(taken)
       [] ~Serves(event) /\ usb.EP0_State = "SETUP_QUEUED" -> taken
       [] usb.EP0_State # "SETUP_QUEUED" /\ usb.xfer_len["OUT"] = 0 -> usb_dwc3_ep0_out_start(t)
       [] OTHER -> t

Opposite(e) == CHOOSE d \in Ends : d # e

dwc3_handle_ep0_xfernotready_event(event) ==
  CASE Serves(event) -> usb_core_setup_stage(Now)
    [] setup.len = 0 /\ At_data(event) -> dwc3_epaddr_set_stall(Now)
    [] setup.len > 0 /\ At_status(event) /\ EpOf(event) = "OUT" -> usb_core_data_in(Now)
    [] setup.len > 0 /\ At_data(event) /\ EpOf(event) # setup.dir ->
         dwc3_epaddr_set_stall(dwc3_ep_stop_xfer(Now, Opposite(EpOf(event))))
    [] OTHER -> Now

XferNotReady(event) ==
  IF usb.EP0_State = "SETUP_QUEUED" THEN dwc3_epaddr_set_stall(Now)
                                    ELSE dwc3_handle_ep0_xfernotready_event(event)

\* Wrong variant: a reset does not end what endpoint 0 has to send.
DeviceReset_keeps_in ==
  LET s == IF usb.EP0_State # "SETUP_QUEUED"
           THEN dwc3_epaddr_set_stall(dwc3_ep_stop_xfer(Now, "OUT")) ELSE Now
  IN [usb_dwc3_set_address(s, 0) EXCEPT !.u.dev_state = "DEFAULT"]

DeviceReset ==
  LET s == IF usb.EP0_State # "SETUP_QUEUED"
           THEN dwc3_epaddr_set_stall(dwc3_ep_stop_xfer(Now, "OUT")) ELSE Now
  IN [usb_dwc3_set_address(dwc3_ep_stop_xfer(s, "IN"), 0) EXCEPT !.u.dev_state = "DEFAULT"]

(* Endpoint 0 is configured anew for the speed of the bus; the core keeps   *)
(* the packet size it read when the driver was registered.                  *)
ConnectDone(dsts) ==
  LET mps == ep0_mps(dwc3_get_dev_speed(dsts))
      out == With(usb.eps, dwc3_ep_configure(0, FALSE, USBD_EP_TYPE.CTRL, mps, DEPCFG_ACTION.MODIFY))
      in == With(out, dwc3_ep_configure(0, TRUE, USBD_EP_TYPE.CTRL, mps, DEPCFG_ACTION.MODIFY))
  IN [Now EXCEPT !.u.eps = in, !.u.pcd_maxpacket = mps]

usb_core_disconnect == [Now EXCEPT !.u.dev_state = "DEFAULT", !.u.class = FALSE]

usb_core_suspend == [Now EXCEPT !.u.dev_old_state = usb.dev_state, !.u.dev_state = "SUSPENDED"]
usb_core_resume == [Now EXCEPT !.u.dev_state = usb.dev_old_state]

(* The state after a device event; most are only logged.                    *)
dwc3_handle_dev_event(type) ==
  CASE type = DEVICE_EVENT.RESET -> {DeviceReset}
    [] type = DEVICE_EVENT.DISCONNECT -> {usb_core_disconnect}
    [] type = DEVICE_EVENT.CONNECT_DONE -> {ConnectDone(dsts) : dsts \in ConnectSpeeds}
    [] type = DEVICE_EVENT.EOPF -> {usb_core_suspend}
    [] type = DEVICE_EVENT.WAKEUP -> {usb_core_resume}
    [] OTHER -> {Now}

dwc3_handle_ep_event(event) ==
  CASE Is(event, "XFERCOMPLETE") /\ EpOf(event) = "IN" -> InComplete(event)
    [] Is(event, "XFERCOMPLETE") /\ EpOf(event) = "OUT" -> OutComplete(event)
    [] OTHER -> XferNotReady(event)

(* usb_core_handle_it() with usb_dwc3_it_handler(): one event a turn.       *)
Poll ==
  /\ up = "running" /\ evts # <<>>
  /\ LET event == Head(evts)
         after == IF dwc3_is_dev_event(event.word)
                  THEN dwc3_handle_dev_event(dwc3_read_dev_evt_type(event.word))
                  ELSE {dwc3_handle_ep_event(event)}
     IN \E s \in after :
        /\ usb' = s.u /\ trb' = s.trb /\ stalled' = s.stalled
        /\ served' = CASE event = Device("RESET") -> "OK"
                       [] Serves(event) -> IF s.u.EP0_State = "SETUP_QUEUED" THEN "STALL" ELSE "OK"
                       [] OTHER -> served
  /\ evts' = Tail(evts)
  /\ UNCHANGED <<up, wire, setup, host, waiting, address, asleep, bounds>>

-----------------------------------------------------------------------------
(* The bring-up.  A poll that times out, or a command that fails, panics.   *)

Panic == up' = "panic" /\ UNCHANGED <<usb, trb>>

dwc3_core_init ==
  /\ up = "off" /\ (up' = "core" \/ up' = "panic")
  /\ UNCHANGED <<usb, trb, stalled, wire, evts, setup, served, host, waiting, address, asleep, bounds>>

(* The first setup TRB is started before endpoint 0 is enabled.             *)
dwc3_dev_init ==
  /\ up = "core"
  /\ \/ /\ up' = "device"
        /\ LET ctrl(is_in) == dwc3_ep_configure(0, is_in, USBD_EP_TYPE.CTRL, usb.pcd_maxpacket, DEPCFG_ACTION.INIT)
               s == usb_dwc3_ep0_out_start([Now EXCEPT !.u.eps = With(With(usb.eps, ctrl(FALSE)), ctrl(TRUE))])
           IN usb' = s.u /\ trb' = s.trb
     \/ Panic
  /\ UNCHANGED <<stalled, wire, evts, setup, served, host, waiting, address, asleep, bounds>>

register_usb_driver ==
  /\ up = "device" /\ up' = "ready"
  /\ usb' = [usb EXCEPT !.dev_state = "DEFAULT", !.ep0_state = "IDLE", !.maxpacket = usb.pcd_maxpacket]
  /\ UNCHANGED <<trb, stalled, wire, evts, setup, served, host, waiting, address, asleep, bounds>>

usb_dwc3_start_device ==
  /\ up = "ready" /\ up' = "running"
  /\ LET s == IF usb.EP0_State # "SETUP_QUEUED" THEN usb_dwc3_ep0_out_start(Now) ELSE Now
     IN usb' = s.u /\ trb' = s.trb
  /\ UNCHANGED <<stalled, wire, evts, setup, served, host, waiting, address, asleep, bounds>>

-----------------------------------------------------------------------------
(* The controller and the host.                                             *)

Event(event) == evts' = Append(evts, event)
Given == UNCHANGED <<up, usb, address, asleep, bounds>>

\* The stages of the request that is on the wire.
Data == setup.dir
Status == IF setup.len = 0 \/ setup.dir = "OUT" THEN "IN" ELSE "OUT"
StatusTrb == IF setup.len = 0 THEN "status2" ELSE "status3"
Kind(e) == TrbKind(trb[e])
At(s) == stage = s /\ ~stalled /\ waiting = NONE

(* A SETUP packet is stored where the setup TRB says, once no transfer of   *)
(* the request before is left.                                              *)
TakeSetup ==
  /\ waiting # NONE /\ usb.address = address
  /\ Kind("OUT") = "setup" /\ Kind("IN") = "none"
  /\ trb' = [trb EXCEPT !["OUT"] = 0] /\ stalled' = FALSE
  /\ setup' = waiting /\ waiting' = NONE /\ served' = "no"
  /\ stage' = (IF waiting.len = 0 THEN "status" ELSE "data") /\ left' = waiting.len /\ raised' = FALSE
  /\ Event(Complete("OUT", 0))
  /\ UNCHANGED host /\ Given

(* A transfer that is under way ends when a SETUP arrives.                  *)
SetupPending(e) ==
  /\ waiting # NONE /\ Kind(e) \in {"data", "status2", "status3"}
  /\ trb' = [trb EXCEPT ![e] = 0]
  /\ Event(Complete(e, IF Kind(e) = "data" THEN 2 ELSE 0))
  /\ stage' = "idle" /\ left' = 0 /\ raised' = FALSE
  /\ UNCHANGED <<stalled, setup, served, host, waiting>> /\ Given

(* As many packets as the driver gave; a short one ends the stage.          *)
Moves ==
  /\ At("data") /\ Kind(Data) = "data"
  /\ trb' = [trb EXCEPT ![Data] = 0]
  /\ \E ep \in usb.eps :
       /\ ep.addr = IF Data = "IN" THEN EP_DIR_IN ELSE 0
       /\ LET n == usb.xfer_len[Data]
          IN stage' = (IF n % ep.maxpacket # 0 \/ n >= left THEN "status" ELSE stage) /\ left' = left - n
  /\ raised' = FALSE
  /\ Event(Complete(Data, 0))
  /\ UNCHANGED <<stalled, setup, served, host, waiting>> /\ Given

Ends_ok ==
  /\ At("status") /\ Kind(Status) = StatusTrb
  /\ trb' = [trb EXCEPT ![Status] = 0]
  /\ stage' = "idle" /\ left' = 0 /\ raised' = FALSE /\ host' = NONE
  /\ address' = IF setup.name = "SET_ADDRESS" THEN setup.arg ELSE address
  /\ Event(Complete(Status, 0))
  /\ UNCHANGED <<up, usb, stalled, setup, served, waiting, asleep, bounds>>

(* No transfer for the stage the host is in; reported once.  A host that    *)
(* has gone on still waits for the status stage the driver owes.            *)
Reports ==
  /\ ~raised /\ ~stalled /\ raised' = TRUE
  /\ \/ At("data") /\ Kind(Data) # "data" /\ Event(NotReady(Data, CTRL_DATA))
     \/ stage = "status" /\ Kind(Status) # StatusTrb /\ Event(NotReady(Status, CTRL_STATUS))
  /\ UNCHANGED <<trb, stalled, stage, left, setup, served, host, waiting>> /\ Given

Stalls ==
  /\ stalled /\ waiting = NONE /\ stage # "idle"
  /\ stage' = "idle" /\ left' = 0 /\ raised' = FALSE /\ host' = NONE
  /\ UNCHANGED <<trb, stalled, evts, setup, served, waiting>> /\ Given

ResetSeen == \A i \in DOMAIN evts : evts[i] # Device("RESET")

HostAsks(r) ==
  /\ up = "running" /\ host = NONE /\ ResetSeen /\ ~asleep
  /\ host' = r /\ waiting' = r
  /\ UNCHANGED <<up, usb, trb, stalled, wire, evts, setup, served, address, asleep, bounds>>

(* The host gives up a request and sends the next one; only after a failed  *)
(* SET_ADDRESS it has to reset the bus.                                     *)
HostAbandons(r) ==
  /\ host # NONE /\ host.name # "SET_ADDRESS" /\ abandons < MaxAbandons
  /\ abandons' = abandons + 1
  /\ host' = r /\ waiting' = r
  /\ UNCHANGED <<up, usb, trb, stalled, wire, evts, setup, served, address, asleep, signals>>

Signals == up = "running" /\ signals < MaxSignals /\ signals' = signals + 1

BusReset ==
  /\ Signals
  /\ evts' = evts \o <<Device("RESET")>> \/ evts' = evts \o <<Device("DISCONNECT"), Device("RESET")>>
  /\ host' = NONE /\ waiting' = NONE /\ address' = 0 /\ asleep' = FALSE
  /\ stage' = "idle" /\ left' = 0 /\ raised' = FALSE
  /\ UNCHANGED <<up, usb, trb, stalled, setup, served, abandons>>

LinkEvent ==
  /\ Signals
  /\ \/ host = NONE /\ ~asleep /\ ResetSeen /\ Event(Device("EOPF")) /\ asleep' = TRUE
     \/ \E what \in LinkEvents : Event(Device(what)) /\ UNCHANGED asleep
  /\ UNCHANGED <<up, usb, trb, stalled, wire, setup, served, host, waiting, address, abandons>>

BusResume ==
  /\ asleep /\ asleep' = FALSE /\ Event(Device("WAKEUP"))
  /\ UNCHANGED <<up, usb, trb, stalled, wire, setup, served, host, waiting, address, bounds>>

Controller == TakeSetup \/ (\E e \in Ends : SetupPending(e)) \/ Moves \/ Ends_ok \/ Reports \/ Stalls

BringUp == dwc3_core_init \/ dwc3_dev_init \/ register_usb_driver \/ usb_dwc3_start_device

Next ==
  \/ BringUp
  \/ Poll
  \/ Controller
  \/ \E r \in Requests : HostAsks(r) \/ HostAbandons(r)
  \/ BusReset \/ LinkEvent \/ BusResume

(* cmd_usb() polls until a key is pressed; controller and host go on by     *)
(* themselves.  Requests, resets and the bring-up may stop.                 *)
Spec == Init /\ [][Next]_vars /\ WF_vars(Poll) /\ WF_vars(Controller)

-----------------------------------------------------------------------------
TypeOK ==
  /\ up \in {"off", "core", "device", "ready", "running", "panic"}
  /\ Kind("OUT") \in {"none", "setup", "data", "status2", "status3"}
  /\ Kind("IN") \in {"none", "data", "status2", "status3"}
  /\ usb.EP0_State \in {"RESET", "SETUP_QUEUED", "SETUP_COMPLETED"}
  /\ usb.dev_state \in DevStates /\ usb.ep0_state \in Ep0States
  /\ stage \in {"idle", "data", "status"} /\ left \in Int
  /\ evts \in Seq([word : Nat, trbsts : {0, 2}])

(* When nothing is under way the device can take the next SETUP: a setup    *)
(* TRB is with the controller, the driver knows it, and nothing else is,    *)
(* whatever request, refusal, abandoned request or reset was last.          *)
ReadyForSetup ==
  up = "running" /\ evts = <<>> /\ stage = "idle" =>
    /\ Kind("OUT") = "setup" /\ Kind("IN") = "none"
    /\ usb.EP0_State = "SETUP_QUEUED" /\ ~usb.queued["IN"]

(* The host gets an answer, a status stage or a STALL, also to the request  *)
(* that follows one it gave up, and after a reset.                          *)
Answered == host # NONE ~> host = NONE

(* The requests are served as ControlPipe says: each once, in order, not    *)
(* after a reset, and answered with what was decided, a descriptor with as  *)
(* many bytes as it announces; and a configured device has the endpoints    *)
(* its configuration descriptor tells of.                                   *)
Known == {r.arg : r \in {q \in Requests : q.name = "GET_DESCRIPTOR" /\ Descriptor(q.arg) # <<>>}}
Unserved == served = "no" /\ setup # NONE
AwakeState == IF usb.dev_state = "SUSPENDED" THEN usb.dev_old_state ELSE usb.dev_state
Pipe == INSTANCE ControlPipe WITH
  Descriptors <- [value \in Known |-> Announced(Descriptor(value))],
  Endpoints <- Told,
  state <- AwakeState, asked <- host,
  open <- IF AwakeState = "CONFIGURED" THEN {ep \in usb.eps : ep.type # USBD_EP_TYPE.CTRL} ELSE {},
  answer <- IF host # NONE /\ waiting = NONE THEN served ELSE "no",
  got <- IF host # NONE /\ waiting = NONE /\ stage # "idle" THEN setup.len - left ELSE 0,
  late <- IF Unserved /\ (host = NONE \/ waiting # NONE) THEN setup ELSE NONE,
  reset <- ~ResetSeen
ImplementsPipe == Pipe!Spec
=============================================================================
