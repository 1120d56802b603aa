------------------------------ MODULE CpuPower ------------------------------
(***************************************************************************)
(* What the monitor promises of the secondary core (psci.c:8-11): it is on  *)
(* or off; turning it on makes it enter the kernel once, with exactly the   *)
(* entry and context asked for; turning it off takes it out of the kernel.  *)
(***************************************************************************)
CONSTANTS Pair, NULL

VARIABLES
  on,       \* does the core count as on?
  due,      \* the pair an accepted request still owes, or NULL
  running   \* the pair the core runs with, or NULL

cpVars == <<on, due, running>>

CPInit == on = FALSE /\ due = NULL /\ running = NULL

TurnOn(p) ==
  /\ ~on
  /\ due = NULL /\ running = NULL
  /\ on' = TRUE
  /\ due' = p
  /\ UNCHANGED running

EnterWith(p) ==
  /\ due = p
  /\ running' = p
  /\ due' = NULL
  /\ UNCHANGED on

TurnOff ==
  /\ running # NULL
  /\ on' = FALSE
  /\ running' = NULL
  /\ UNCHANGED due

CPNext == (\E p \in Pair : TurnOn(p) \/ EnterWith(p)) \/ TurnOff

CPSafe == CPInit /\ [][CPNext]_cpVars

CPSpec == CPSafe /\ \A p \in Pair : WF_cpVars(EnterWith(p))
=============================================================================
