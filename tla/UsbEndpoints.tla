---------------------------- MODULE UsbEndpoints ----------------------------
(***************************************************************************)
(* What driver and controller (usb_dwc3.c) tell each other: the numbers of  *)
(* endpoints, the words of commands, transfer descriptors (TRBs) and        *)
(* events, the speed of the bus, and where all this lies in memory.         *)
(***************************************************************************)
EXTENDS Integers, FiniteSets

(* A field f = [len, pos] of a word: written, and read back.                *)
Put(n, f) == (n % 2 ^ f.len) * 2 ^ f.pos
Get(word, f) == (word \div 2 ^ f.pos) % 2 ^ f.len
Field(len, pos) == [len |-> len, pos |-> pos]

-----------------------------------------------------------------------------
(* Endpoints.  The address of an IN endpoint has bit 7 set.                 *)

USBD_EP_NB == 15
EP_DIR_IN == 128
EPADDR_TO_PHYEPNUM(addr) == 2 * (addr % 128) + (IF addr >= EP_DIR_IN THEN 1 ELSE 0)
PHYEPNUM_TO_EPADDR(phy) == phy \div 2 + (IF phy % 2 = 1 THEN EP_DIR_IN ELSE 0)

Physical == 0 .. 2 * USBD_EP_NB - 1

(* An event names the endpoint that was configured.                         *)
ASSUME NumbersAgree == \A phy \in Physical : EPADDR_TO_PHYEPNUM(PHYEPNUM_TO_EPADDR(phy)) = phy

(* The widths of its parameters' fields.                                    *)
DEPCFG == [EP_TYPE |-> 2, MAX_PACKET_SIZE |-> 11, FIFO_NUMBER |-> 5, EP_NUMBER |-> 5]
Cut(n, width) == n % 2 ^ width

DEPCFG_ACTION == [INIT |-> 0, RESTORE |-> 1, MODIFY |-> 2]

(* The command that configures an endpoint, field by field of its two       *)
(* parameters, and what the controller takes it to be.                      *)
dwc3_ep_configure(epnum, is_in, type, max_packet, action) ==
  [type |-> Cut(type, DEPCFG.EP_TYPE), max_packet |-> Cut(max_packet, DEPCFG.MAX_PACKET_SIZE),
   action |-> action, fifo |-> IF is_in THEN Cut(epnum, DEPCFG.FIFO_NUMBER) ELSE 0,
   ep_number |-> Cut(2 * epnum + (IF is_in THEN 1 ELSE 0), DEPCFG.EP_NUMBER)]

Configured(c) == [addr |-> PHYEPNUM_TO_EPADDR(c.ep_number), type |-> c.type, maxpacket |-> c.max_packet]

(* eps with one endpoint (re)configured.                                    *)
With(eps, c) == {ep \in eps : ep.addr # Configured(c).addr} \cup {Configured(c)}

usb_dwc3_ep_open(eps, addr, type, maxpacket) ==
  With(eps, dwc3_ep_configure(addr % 16, addr >= EP_DIR_IN, type, maxpacket, DEPCFG_ACTION.INIT))

-----------------------------------------------------------------------------
(* The speed: the controller's two bits, and the packets of endpoint 0.     *)

dwc3_get_dev_speed(dsts) ==
  CASE dsts = 4 -> "SUPER" [] dsts = 0 -> "HIGH" [] dsts = 3 -> "FULL_48" [] dsts = 1 -> "FULL"
    [] dsts = 2 -> "LOW" [] OTHER -> "INVALID"

ep0_mps(speed) ==
  CASE speed \in {"HIGH", "FULL", "FULL_48"} -> 64 [] speed = "LOW" -> 8 [] OTHER -> 512

(* A controller that was set to high speed connects at high or full speed.  *)
ConnectSpeeds == {0, 1}

-----------------------------------------------------------------------------
(* A TRB: its control word, and whether the controller owns it.             *)

TRB_CTRL_TRBCTL == Field(6, 4)
TRBCTL == [normal |-> 1, setup |-> 2, status2 |-> 3, status3 |-> 4, data |-> 5]

dwc3_get_trb_ctltype(flag) == IF flag \in 1 .. 8 THEN Put(flag, TRB_CTRL_TRBCTL) ELSE 0

HWO == 1
LST == 2
ISP_IMI == 1024
IOC == 2048

(* Endpoint 0 is also told of a short packet; only the last TRB of a        *)
(* transfer that is not isochronous ends it, and each is the last.          *)
TrbControl(kind, num) ==
  dwc3_get_trb_ctltype(TRBCTL[kind]) + (IF num = 0 THEN ISP_IMI ELSE 0) + IOC + LST + HWO

TrbKind(ctrl) ==
  IF ctrl % 2 = 0 THEN "none" ELSE CHOOSE kind \in DOMAIN TRBCTL : TRBCTL[kind] = Get(ctrl, TRB_CTRL_TRBCTL)

-----------------------------------------------------------------------------
(* Events: words of 32 bits, of an endpoint or, with bit 0 set, of the      *)
(* device.                                                                  *)

DEPEVT == [XFERCOMPLETE |-> 1, XFERINPROGRESS |-> 2, XFERNOTREADY |-> 3, RXTXFIFOEVT |-> 4,
           STREAMEVT |-> 6, EPCMDCMPLT |-> 7]
CTRL_DATA == 1
CTRL_STATUS == 2

DEVICE_EVENT == [DISCONNECT |-> 0, RESET |-> 1, CONNECT_DONE |-> 2, LINK_STATUS_CHANGE |-> 3, WAKEUP |-> 4,
                 HIBER_REQ |-> 5, EOPF |-> 6, SOF |-> 7, L1SUSPEND |-> 8, ERRATIC_ERROR |-> 9,
                 CMD_CMPL |-> 10, OVERFLOW |-> 11, L1WAKEUP |-> 14]

EVT_TYPE == Field(1, 0)
DEPEVT_TYPE == Field(4, 6)
DEPEVT_EPNUM == Field(5, 1)
DEPEVT_STATUS == Field(4, 12)
DEVEVT_TYPE == Field(4, 8)

dwc3_is_ep_event(event) == Get(event, EVT_TYPE) = 0
dwc3_is_dev_event(event) == Get(event, EVT_TYPE) = 1
dwc3_read_ep_evt_type(event) == Get(event, DEPEVT_TYPE)
dwc3_read_ep_evt_epnum(event) == Get(event, DEPEVT_EPNUM)
dwc3_read_ep_evt_status(event) == Get(event, DEPEVT_STATUS)

(* A type the driver does not list is read as 0, which is DISCONNECT.       *)
dwc3_read_dev_evt_type(event) ==
  LET type == Get(event, DEVEVT_TYPE)
      listed == {DEVICE_EVENT[d] : d \in DOMAIN DEVICE_EVENT \ {"L1SUSPEND", "L1WAKEUP"}}
  IN IF type \in listed THEN type ELSE 0

(* What the controller writes.                                              *)
EpEvent(type, phy, status) == Put(type, DEPEVT_TYPE) + Put(phy, DEPEVT_EPNUM) + Put(status, DEPEVT_STATUS)
DeviceEvent(type) == Put(type, DEVEVT_TYPE) + Put(1, EVT_TYPE)

-----------------------------------------------------------------------------
(* The page shared with the controller: [from, size] of each part, as an    *)
(* offset; its address is aligned to 64 bytes.                              *)

Page == 4096
SizeofTrb == 16
EVENT_BUFFER_SIZE == 2048

EvtBufArea == [from |-> 0, size |-> EVENT_BUFFER_SIZE]
TrbOutArea == [from |-> EVENT_BUFFER_SIZE, size |-> SizeofTrb]
TrbInArea == [from |-> EVENT_BUFFER_SIZE + SizeofTrb, size |-> SizeofTrb]
SetupArea == [from |-> EVENT_BUFFER_SIZE + 2 * SizeofTrb, size |-> 12]

TrbSlot(phy) ==
  LET trb_area == ((EVENT_BUFFER_SIZE + 2 * SizeofTrb + 64 + 63) \div 64) * 64
  IN [from |-> trb_area + phy * SizeofTrb, size |-> SizeofTrb]

Areas == {EvtBufArea, TrbOutArea, TrbInArea, SetupArea} \cup {TrbSlot(phy) : phy \in Physical \ {0, 1}}

(* No part of the page lies over another, and none leaves it.               *)
ASSUME AreasApart ==
  /\ Cardinality(Areas) = 4 + Cardinality(Physical \ {0, 1})
  /\ \A a, b \in Areas : a # b => a.from + a.size <= b.from \/ b.from + b.size <= a.from
  /\ \A a \in Areas : a.from + a.size <= Page
=============================================================================
