-------------------------------- MODULE Psci --------------------------------
(***************************************************************************)
(* The EL3-resident PSCI monitor (drivers/psci.c) and the holding pen of    *)
(* the secondary core (drivers/startup.S).  Two cores run; each memory      *)
(* access of the monitor and of the pen is one step, so every interleaving  *)
(* of the two cores is explored.  With the MMU off at EL3 all data accesses *)
(* are device accesses, hence in program order.                             *)
(*                                                                         *)
(* The kernel above (external) is modelled by the order in which it makes   *)
(* its SMCs: it never offlines the last core, and turns a core on again     *)
(* only after AFFINITY_INFO reported that core OFF.                         *)
(***************************************************************************)
EXTENDS Naturals

CONSTANTS
  Entry,        \* the non-zero entry points a caller passes to CPU_ON
  Context,      \* the context values it passes
  NULL,         \* the zero mailbox, and "nothing yet"
  HotUnplug,    \* the cores the kernel may take offline
  OnAfterPark   \* TRUE: the kernel is slow enough for the parting core to reach the pen

Core == {0, 1}
Other(c) == 1 - c

ASSUME PsciAssumption ==
  /\ NULL \notin Entry
  /\ HotUnplug \subseteq Core
  /\ OnAfterPark \in BOOLEAN

VARIABLES
  at,              \* what each core executes
  core1_on,        \* psci.c: non-zero while core 1 counts as on
  psci_pen_entry,  \* startup.S mailbox: entry point, NULL is 0
  psci_pen_ctx,    \* startup.S mailbox: context
  event,           \* the event register wfe waits for
  arg,             \* registers of a core: the <<entry, context>> it works with
  el2,             \* the <<entry, context>> a core last entered EL2 with
  accepted,        \* history: the pair of the CPU_ON that was last accepted
  ret,             \* the result of a core's last SMC
  os               \* the kernel's view of a core: up, dying or down

psciVars == <<at, core1_on, psci_pen_entry, psci_pen_ctx, event, arg, el2,
              accepted, ret, os>>

Pair == Entry \X Context
Success == "SUCCESS"
NotSupported == "NOT_SUPPORTED"
Results == {Success, NotSupported, "INVALID_PARAMS", "ALREADY_ON", "ON", "OFF",
            "VERSION_1_0", "NO_TRUSTED_OS"}

\* The functions a caller may name; the last two are not served.
Served == {"VERSION", "CPU_OFF", "CPU_ON", "AFFINITY_INFO", "MIG_INFO_TYPE", "FEATURES",
           "SET_SUSPEND_MODE"}
Function == Served \cup {"CPU_SUSPEND", "SYSTEM_RESET"}
Mode == {"PLATFORM_COORDINATED", "OS_INITIATED"}
InCpuOn == {"on_ctx", "on_entry", "on_flag", "on_sev"}
InPen == {"reset", "wfe", "load", "ctx"}
Locations == {"fsbl", "ns", "off_clear"} \cup InCpuOn \cup InPen

(* Types: in particular the mailbox holds an entry and a context a caller   *)
(* passed, never one in the place of the other.                             *)
PsciTypeOK ==
  /\ at \in [Core -> Locations]
  /\ core1_on \in BOOLEAN
  /\ psci_pen_entry \in Entry \cup {NULL}
  /\ psci_pen_ctx \in Context \cup {NULL}
  /\ event \in [Core -> BOOLEAN]
  /\ arg \in [Core -> (Entry \cup {NULL}) \X (Context \cup {NULL})]
  /\ el2 \in [Core -> ((Entry \cup {NULL}) \X (Context \cup {NULL}))]
  /\ accepted \in Pair \cup {<<NULL, NULL>>}
  /\ ret \in [Core -> Results]
  /\ os \in [Core -> {"up", "dying", "down"}]

PsciInit ==
  /\ at = [c \in Core |-> IF c = 0 THEN "fsbl" ELSE "reset"]
  /\ core1_on = FALSE
  /\ psci_pen_entry = NULL
  /\ psci_pen_ctx = NULL
  /\ event \in [Core -> BOOLEAN]
  /\ arg = [c \in Core |-> <<NULL, NULL>>]
  /\ el2 = [c \in Core |-> <<NULL, NULL>>]
  /\ accepted = <<NULL, NULL>>
  /\ ret = [c \in Core |-> Success]
  /\ os = [c \in Core |-> IF c = 0 THEN "up" ELSE "down"]

Goto(c, from, to) ==
  /\ at[c] = from
  /\ at' = [at EXCEPT ![c] = to]

mailbox == <<psci_pen_entry, psci_pen_ctx>>

-----------------------------------------------------------------------------
(* Wrong variants of the definitions below, for the sensitivity checks.     *)

\* The mailbox zeroed by the pen itself instead of by the loaded image.
ResetToPenZeroing ==
  /\ Goto(1, "reset", "wfe")
  /\ psci_pen_entry' = NULL
  /\ UNCHANGED <<core1_on, psci_pen_ctx, event, arg, el2, accepted, ret, os>>

\* The context of the previous call left in place.
CpuOnWriteCtxOnce(c) ==
  /\ Goto(c, "on_ctx", "on_entry")
  /\ psci_pen_ctx' = IF psci_pen_ctx = NULL THEN arg[c][2] ELSE psci_pen_ctx
  /\ UNCHANGED <<core1_on, psci_pen_entry, event, arg, el2, accepted, ret, os>>

\* No sev after the release.
CpuOnNoSev(c) ==
  /\ Goto(c, "on_sev", "ns")
  /\ ret' = [ret EXCEPT ![c] = Success]
  /\ os' = [os EXCEPT ![1] = "up"]
  /\ UNCHANGED <<core1_on, mailbox, event, arg, el2, accepted>>

\* CPU_OFF that parks without clearing the mailbox.
CpuOffKeepsEntry(c) ==
  /\ Goto(c, "off_clear", "wfe")
  /\ UNCHANGED <<core1_on, mailbox, event, arg, el2, accepted, ret, os>>

\* CPU_OFF that clears the context instead of the entry.
CpuOffClearsCtx(c) ==
  /\ Goto(c, "off_clear", "wfe")
  /\ psci_pen_ctx' = NULL
  /\ UNCHANGED <<core1_on, psci_pen_entry, event, arg, el2, accepted, ret, os>>

-----------------------------------------------------------------------------
(* The two reset paths of startup.S. *)

\* Core 0 runs main() and, on "boot", drops to EL2 with the kernel image.
EnterKernel ==
  /\ Goto(0, "fsbl", "ns")
  /\ UNCHANGED <<core1_on, mailbox, event, arg, el2, accepted, ret, os>>

\* Every other core goes to the pen.
ResetToPen ==
  /\ Goto(1, "reset", "wfe")
  /\ UNCHANGED <<core1_on, mailbox, event, arg, el2, accepted, ret, os>>

(* psci_pen_wait. *)

\* wfe completes because the event register is set, and clears it.
PenWake(c) ==
  /\ event[c]
  /\ Goto(c, "wfe", "load")
  /\ event' = [event EXCEPT ![c] = FALSE]
  /\ UNCHANGED <<core1_on, mailbox, arg, el2, accepted, ret, os>>

\* The architecture lets wfe complete without an event as well.
PenSpurious(c) ==
  /\ Goto(c, "wfe", "load")
  /\ UNCHANGED <<core1_on, mailbox, event, arg, el2, accepted, ret, os>>

PenLoad(c) ==
  /\ Goto(c, "load", IF psci_pen_entry = NULL THEN "wfe" ELSE "ctx")
  /\ arg' = [arg EXCEPT ![c] = <<psci_pen_entry, @[2]>>]
  /\ UNCHANGED <<core1_on, mailbox, event, el2, accepted, ret, os>>

\* The context is read after the entry; then drop_to_el2.
PenRelease(c) ==
  /\ Goto(c, "ctx", "ns")
  /\ el2' = [el2 EXCEPT ![c] = <<arg[c][1], psci_pen_ctx>>]
  /\ UNCHANGED <<core1_on, mailbox, event, arg, accepted, ret, os>>

-----------------------------------------------------------------------------
(* psci_smc() *)

Answer(c, r) == ret' = [ret EXCEPT ![c] = r]

\* cpu_on(): the two checks.
CpuOnRefused(c, t) ==
  /\ at[c] = "ns"
  /\ os[t] # "dying"
  /\ t # 1 \/ core1_on
  /\ Answer(c, IF t # 1 THEN "INVALID_PARAMS" ELSE "ALREADY_ON")
  /\ UNCHANGED <<at, core1_on, mailbox, event, arg, el2, accepted, os>>

\* Both checks passed: the target is core 1, and no core turns itself on.
CpuOn(c, e, x) ==
  /\ c # 1 /\ os[1] = "down"
  /\ OnAfterPark => at[1] \in InPen
  /\ ~core1_on
  /\ Goto(c, "ns", "on_ctx")
  /\ arg' = [arg EXCEPT ![c] = <<e, x>>]
  /\ accepted' = <<e, x>>
  /\ UNCHANGED <<core1_on, mailbox, event, el2, ret, os>>

CpuOnWriteCtx(c) ==
  /\ Goto(c, "on_ctx", "on_entry")
  /\ psci_pen_ctx' = arg[c][2]
  /\ UNCHANGED <<core1_on, psci_pen_entry, event, arg, el2, accepted, ret, os>>

CpuOnWriteEntry(c) ==
  /\ Goto(c, "on_entry", "on_flag")
  /\ psci_pen_entry' = arg[c][1]
  /\ UNCHANGED <<core1_on, psci_pen_ctx, event, arg, el2, accepted, ret, os>>

CpuOnSetFlag(c) ==
  /\ Goto(c, "on_flag", "on_sev")
  /\ core1_on' = TRUE
  /\ UNCHANGED <<mailbox, event, arg, el2, accepted, ret, os>>

\* dsb; sev; return.  The kernel now counts core 1 as up.
CpuOnSev(c) ==
  /\ Goto(c, "on_sev", "ns")
  /\ event' = [d \in Core |-> TRUE]
  /\ Answer(c, Success)
  /\ os' = [os EXCEPT ![1] = "up"]
  /\ UNCHANGED <<core1_on, mailbox, arg, el2, accepted>>

\* CPU_OFF by any core clears core1_on, then psci_pen_return clears the entry.
CpuOff(c) ==
  /\ c \in HotUnplug
  /\ os[c] = "up"
  /\ os[Other(c)] = "up" /\ at[Other(c)] = "ns"
  /\ Goto(c, "ns", "off_clear")
  /\ core1_on' = FALSE
  /\ os' = [os EXCEPT ![c] = "dying"]
  /\ UNCHANGED <<mailbox, event, arg, el2, accepted, ret>>

CpuOffClear(c) ==
  /\ Goto(c, "off_clear", "wfe")
  /\ psci_pen_entry' = NULL
  /\ UNCHANGED <<core1_on, psci_pen_ctx, event, arg, el2, accepted, ret, os>>

\* affinity_info(): core 0 is always ON, core 1 is what core1_on says.
AffinityInfo(c, t) ==
  LET off == t = 1 /\ ~core1_on
  IN  /\ at[c] = "ns" /\ t = Other(c)
      /\ Answer(c, IF off THEN "OFF" ELSE "ON")
      /\ os' = [os EXCEPT ![t] = IF off /\ @ = "dying" THEN "down" ELSE @]
      /\ UNCHANGED <<at, core1_on, mailbox, event, arg, el2, accepted>>

\* affinity_info() of a core that does not exist.
AffinityUnknown(c) ==
  /\ at[c] = "ns"
  /\ Answer(c, "INVALID_PARAMS")
  /\ UNCHANGED <<at, core1_on, mailbox, event, arg, el2, accepted, os>>

features(fid) == IF fid \in Served THEN Success ELSE NotSupported

\* The calls of psci_smc() that only answer, in the order of its cases.
Query(c) ==
  /\ at[c] = "ns"
  /\ \/ Answer(c, "VERSION_1_0")
     \/ Answer(c, "NO_TRUSTED_OS")
     \/ \E mode \in Mode :
          Answer(c, IF mode = "PLATFORM_COORDINATED" THEN Success ELSE NotSupported)
     \/ \E fid \in Function : Answer(c, features(fid))
     \/ Answer(c, NotSupported)
  /\ UNCHANGED <<at, core1_on, mailbox, event, arg, el2, accepted, os>>

-----------------------------------------------------------------------------
Pen(c) == PenWake(c) \/ PenLoad(c) \/ PenRelease(c)

Monitor(c) ==
  \/ CpuOnWriteCtx(c) \/ CpuOnWriteEntry(c) \/ CpuOnSetFlag(c) \/ CpuOnSev(c)
  \/ CpuOffClear(c)

Kernel(c) ==
  \/ \E t \in Core : CpuOnRefused(c, t) \/ AffinityInfo(c, t)
  \/ \E e \in Entry, x \in Context : CpuOn(c, e, x)
  \/ CpuOff(c) \/ AffinityUnknown(c) \/ Query(c)

PsciNext ==
  \/ EnterKernel
  \/ ResetToPen
  \/ \E c \in Core : Pen(c) \/ PenSpurious(c) \/ Monitor(c) \/ Kernel(c)

PsciSpec == PsciInit /\ [][PsciNext]_psciVars

\* A core that can execute its next instruction does; the kernel need not call.
Fairness ==
  /\ WF_psciVars(ResetToPen)
  /\ \A c \in Core : WF_psciVars(Pen(c)) /\ WF_psciVars(Monitor(c))

PsciFairSpec == PsciSpec /\ Fairness

-----------------------------------------------------------------------------
CpuOnInFlight == \E c \in Core : at[c] \in InCpuOn

(* Core 1 never enters the non-secure world with the entry of one CPU_ON    *)
(* and the context of another (or with none): cpu_on() writes the context   *)
(* before the entry that releases the pen.                                  *)
EnteredAsAsked == at[1] = "ns" => el2[1] = accepted

(* "CPU_ON releases core 1 from the startup.S holding pen" (psci.c:8-9): a  *)
(* core that counts as on and is not mid-call is running or about to run;   *)
(* it is never parked on an empty mailbox with nobody left to release it.   *)
NotStranded ==
  core1_on /\ ~CpuOnInFlight /\ at[1] \in InPen \ {"ctx"} => psci_pen_entry # NULL

(* AFFINITY_INFO never calls core 1 OFF while core 1 executes the kernel    *)
(* (psci.c:72): between calls core1_on = 0 means core 1 has left it.        *)
OffMeansLeft == ~core1_on /\ ~CpuOnInFlight => at[1] # "ns"

(* A CPU_ON that returned success is followed by core 1 in the kernel: the  *)
(* sev cannot be lost between the pen's test of the mailbox and its wfe.    *)
TurnedOnRuns == (os[1] = "up" /\ core1_on) ~> (at[1] = "ns" \/ os[1] # "up")

(* Why these hold: how the kernel's view, the flag, the mailbox and the     *)
(* place of core 1 fit together.  Inductive when core 0 is never offlined.  *)
Roles ==
  /\ at[0] \notin InPen \cup {"off_clear"}
  /\ at[1] \notin InCpuOn \cup {"fsbl"}
  /\ os[0] = "up"

CallAgreement ==
  /\ core1_on <=> os[1] = "up" \/ at[0] = "on_sev"
  /\ at[0] \in InCpuOn => os[1] = "down" /\ arg[0] = accepted /\ accepted \in Pair
  /\ at[0] = "on_entry" => psci_pen_ctx = arg[0][2]

MailboxAgreement ==
  /\ at[1] \in InPen /\ psci_pen_entry # NULL => mailbox = accepted
  /\ at[1] = "ctx" => psci_pen_entry # NULL /\ arg[1][1] = psci_pen_entry
  /\ at[1] = "ns" => el2[1] = accepted /\ accepted \in Pair /\ psci_pen_entry # NULL
  /\ os[1] # "up" /\ at[0] \notin {"on_flag", "on_sev"} =>
       \/ at[1] = "off_clear"
       \/ at[1] \in InPen /\ psci_pen_entry = NULL

ParkAgreement ==
  OnAfterPark =>
    /\ at[0] \in InCpuOn \/ os[1] = "up" => at[1] # "off_clear"
    /\ os[1] = "up" \/ at[0] \in {"on_flag", "on_sev"} => psci_pen_entry # NULL

(* All of it together: the inductive invariant of the monitor.              *)
PsciInv ==
  PsciTypeOK /\ Roles /\ CallAgreement /\ MailboxAgreement /\ ParkAgreement

(* The monitor implements CpuPower: a request is accepted, for the caller,  *)
(* when its entry reaches the mailbox, and is owed until core 1 leaves the  *)
(* pen with it.                                                            *)
Power == INSTANCE CpuPower WITH
  NULL <- <<NULL, NULL>>,
  on <- core1_on \/ at[0] = "on_flag",
  due <- IF at[1] \in InPen /\ psci_pen_entry # NULL THEN mailbox ELSE <<NULL, NULL>>,
  running <- IF at[1] = "ns" THEN el2[1] ELSE <<NULL, NULL>>

\* Refinement of CpuPower, with its liveness: an owed entry is taken.
ImplementsPower == Power!CPSpec

\* The safety part of that refinement.
PowerSafety == Power!CPSafe
=============================================================================
