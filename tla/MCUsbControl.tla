---------------------------- MODULE MCUsbControl ----------------------------
(***************************************************************************)
(* The requests of an enumeration, with those that are refused.             *)
(***************************************************************************)
EXTENDS UsbControl

In(name, arg, to, index, len) == [name |-> name, arg |-> arg, index |-> index, to |-> to, dir |-> "IN", len |-> len]
Out(name, arg, to, index, len) == [name |-> name, arg |-> arg, index |-> index, to |-> to, dir |-> "OUT", len |-> len]
Ask(type, index, len) == In("GET_DESCRIPTOR", 256 * type + index, "device", 0, len)

MCRequests ==
  {Ask(2, 0, 9), Ask(2, 0, 255),
   In("GET_STATUS", 0, "device", 0, 2), In("GET_MAX_LUN", 0, "interface", 0, 1),
   Out("SET_ADDRESS", 1, "device", 0, 0), Out("SET_CONFIGURATION", 0, "device", 0, 0),
   Out("SET_CONFIGURATION", 1, "device", 0, 0), Out("BOT_RESET", 0, "interface", 0, 0),
   Out("CLEAR_FEATURE", 0, "endpoint", 0, 0), Out("SET_DESCRIPTOR", 0, "device", 0, 2)}

ASSUME HostAssumption == OneAnswer /\ Understood /\ QuietLink
=============================================================================
