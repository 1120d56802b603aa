----------------------------- MODULE ControlPipe -----------------------------
(***************************************************************************)
(* What a USB device promises on its default control pipe: each request of  *)
(* the host is carried out once, in the state the device is in, and only    *)
(* then answered; a request the host gave up may still be carried out, but  *)
(* not after a bus reset, which puts the device in its default state.       *)
(***************************************************************************)
EXTENDS Integers

CONSTANTS
  Requests, NONE,
  Descriptors, \* the length of each descriptor the device has, by the value that asks for it
  Endpoints    \* what the configuration tells the host of

VARIABLES
  state,  \* DEFAULT, ADDRESSED or CONFIGURED
  open,   \* the endpoints the host can use, beside endpoint 0
  asked,  \* the request the host waits for, or NONE
  answer, \* what the device decided about it: "no" (nothing yet), "OK", "STALL"
  got,    \* bytes of the answer the host has
  late,   \* a request the host gave up, not carried out yet, or NONE
  reset   \* the bus was reset, and the device has still to act upon it

vars == <<state, open, asked, answer, got, late, reset>>

Init ==
  /\ state = "DEFAULT" /\ open = {} /\ asked = NONE /\ answer = "no" /\ got = 0
  /\ late = NONE /\ reset = FALSE

Accepts(r) ==
  CASE r.name = "GET_DESCRIPTOR" -> r.arg \in DOMAIN Descriptors
    [] r.name = "SET_ADDRESS" -> state = "DEFAULT"
    [] r.name = "GET_STATUS" -> state # "DEFAULT"
    [] r.name = "SET_CONFIGURATION" -> state # "DEFAULT" /\ r.arg \in {0, 1}
    [] r.name \in {"GET_MAX_LUN", "BOT_RESET"} -> state = "CONFIGURED" /\ r.index = 0
    [] OTHER -> FALSE

Owed(r) ==
  CASE r.name = "GET_DESCRIPTOR" -> IF Descriptors[r.arg] < r.len THEN Descriptors[r.arg] ELSE r.len
    [] r.name = "GET_STATUS" -> 2
    [] r.name = "GET_MAX_LUN" -> 1
    [] OTHER -> 0

After(r) ==
  CASE Accepts(r) /\ r.name = "SET_ADDRESS" -> "ADDRESSED"
    [] Accepts(r) /\ r.name = "SET_CONFIGURATION" -> IF r.arg = 0 THEN "ADDRESSED" ELSE "CONFIGURED"
    [] OTHER -> state

Enter(s) == state' = s /\ open' = IF s = "CONFIGURED" THEN Endpoints ELSE {}

Ask(r) ==
  /\ asked = NONE /\ ~reset
  /\ asked' = r /\ answer' = "no" /\ got' = 0 /\ UNCHANGED <<state, open, late, reset>>

Serve ==
  /\ asked # NONE /\ answer = "no" /\ late = NONE
  /\ Enter(After(asked)) /\ answer' = IF Accepts(asked) THEN "OK" ELSE "STALL"
  /\ UNCHANGED <<asked, got, late, reset>>

Send ==
  /\ asked # NONE /\ answer = "OK" /\ got < Owed(asked)
  /\ got' \in got + 1 .. Owed(asked) /\ UNCHANGED <<state, open, asked, answer, late, reset>>

Answer ==
  /\ asked # NONE
  /\ \/ answer = "OK" /\ got = Owed(asked)
     \/ answer = "STALL" /\ got = 0
  /\ asked' = NONE /\ answer' = "no" /\ got' = 0 /\ UNCHANGED <<state, open, late, reset>>

Abandon(r) ==
  /\ asked # NONE
  /\ asked' = r /\ answer' = "no" /\ got' = 0
  /\ late' \in {late} \cup (IF answer = "no" THEN {asked} ELSE {})
  /\ UNCHANGED <<state, open, reset>>

ServeLate ==
  /\ late # NONE
  /\ Enter(After(late)) /\ late' = NONE /\ UNCHANGED <<asked, answer, got, reset>>

Forget == late # NONE /\ late' = NONE /\ UNCHANGED <<state, open, asked, answer, got, reset>>

Reset ==
  /\ reset' = TRUE /\ asked' = NONE /\ answer' = "no" /\ got' = 0
  /\ late' \in {late} \cup (IF answer = "no" THEN {asked} ELSE {})
  /\ UNCHANGED <<state, open>>

Restart ==
  /\ reset /\ reset' \in BOOLEAN
  /\ Enter("DEFAULT") /\ late' \in (IF reset' THEN {late, NONE} ELSE {NONE})
  /\ UNCHANGED <<asked, answer, got>>

Next ==
  \/ \E r \in Requests : Ask(r) \/ Abandon(r)
  \/ Serve \/ Send \/ Answer \/ ServeLate \/ Forget \/ Reset \/ Restart

Spec == Init /\ [][Next]_vars
=============================================================================
