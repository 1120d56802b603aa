-------------------------------- MODULE Pmic --------------------------------
(***************************************************************************)
(* pmic_init_rails() over i2c.c: every rail is a read-modify-write of a     *)
(* register of the STPMIC2, a read and a write transfer on the bus, and     *)
(* each transfer polls the flags of the controller.                         *)
(*                                                                         *)
(* The driver and the bus run side by side: a slow device makes the driver  *)
(* give up while the transfer goes on, a byte may not be acknowledged, and  *)
(* what a transfer leaves behind (NACKF, STOPF, a byte in RXDR, a bus that  *)
(* waits for a byte) meets the next one.                                    *)
(***************************************************************************)
EXTENDS Integers, Sequences, FiniteSets, Functions

CONSTANTS
  AlwaysOn,   \* the always-on rails, in the order of the table
  Bucks,      \* which of them are bucks: MAIN_CR1 has the voltage, MAIN_CR2 the enable bit
  MaxFaults   \* bound: so many bytes not acknowledged, so many waits given up early

ASSUME PmicAssumption ==
  /\ AlwaysOn \in Seq(STRING) /\ {"ldo3", "buck6"} \cap Range(AlwaysOn) = {}
  /\ Bucks \subseteq Range(AlwaysOn) /\ MaxFaults \in Nat

VARIABLES
  regs,    \* the registers of the PMIC: enable bit and voltage
  bus,     \* what the controller does on the bus
  pending, \* a START written while the bus was busy, with its CR2, or NONE
  flags,   \* NACKF and STOPF as far as they are set
  rxdr,    \* the byte received and not yet read (RXNE), or NONE
  ptr,     \* the register the PMIC was last pointed at
  k,       \* the update pmic_init_rails() is at
  stage,   \* where in it
  v,       \* the value read
  err,     \* its err, or of the two reads that probe the PMIC
  nacks, slow

driver == <<k, stage, v, err>>
wires == <<regs, bus, pending, flags, rxdr, ptr>>
PmicVars == <<wires, driver, nacks, slow>>

NONE == [st |-> "none"]
Id == <<"pmic", "ID">>
Set == <<"pmic", "mV">>
Junk == <<"pmic", "junk">>

(* The registers, named by the rail; a buck has two.                        *)
VoltReg(r) == <<r, "CR1">>
EnReg(r) == IF r \in Bucks \cup {"buck6"} THEN <<r, "CR2">> ELSE <<r, "CR1">>
Rails == Range(AlwaysOn) \cup {"ldo3", "buck6"}
Reg == {VoltReg(r) : r \in Rails} \cup {EnReg(r) : r \in Rails} \cup {Id}

(* The updates, in order; update 0 is the probe in main().                  *)
pmic_init_rails ==
  [i \in DOMAIN AlwaysOn |-> [reg |-> EnReg(AlwaysOn[i]), field |-> "en", val |-> 1]] \o
  <<[reg |-> VoltReg("ldo3"), field |-> "volt", val |-> Set],
    [reg |-> VoltReg("buck6"), field |-> "volt", val |-> Set],
    [reg |-> EnReg("ldo3"), field |-> "en", val |-> 1],
    [reg |-> EnReg("buck6"), field |-> "en", val |-> 1]>>

Updates == Len(pmic_init_rails)

(* pmic_print_rails() reads two registers of every rail.                    *)
Table == AlwaysOn \o <<"ldo3", "buck6">>
Rows == Len(Table)
pmic_print_rails ==
  [i \in 1 .. 2 * Rows |->
     LET r == Table[(i + 1) \div 2] IN IF i % 2 = 1 THEN VoltReg(r) ELSE EnReg(r)]

Asked == CASE k = 0 -> Id
           [] k \in 1 .. Updates -> pmic_init_rails[k].reg
           [] k > Updates -> pmic_print_rails[k - Updates]

(* The voltage a register starts with is its own default, in the NVM.       *)
PmicInit ==
  /\ regs = [r \in Reg |-> [en |-> 0, volt |-> r]]
  /\ bus = [st |-> "idle"] /\ pending = NONE /\ flags = {} /\ rxdr = NONE /\ ptr = Id
  /\ k = 0 /\ stage = "read" /\ v = NONE /\ err = FALSE /\ nacks = 0 /\ slow = 0

-----------------------------------------------------------------------------
(* The controller and the PMIC.                                             *)

Nacked ==
  /\ nacks < MaxFaults /\ nacks' = nacks + 1
  /\ flags' = flags \cup {"NACKF"} /\ bus' = [bus EXCEPT !.st = "stop"]
  /\ UNCHANGED <<regs, pending, rxdr, ptr, driver, slow>>

(* The address is on the bus.                                               *)
Addressed ==
  /\ bus.st = "addr"
  /\ \/ /\ bus' = [bus EXCEPT !.st = IF bus.read THEN "rx" ELSE "txis"]
        /\ UNCHANGED <<regs, pending, flags, rxdr, ptr, driver, nacks, slow>>
     \/ Nacked

(* After the last byte: STOP with AUTOEND, else the START that waits or TC. *)
AfterLast ==
  CASE bus.autoend -> bus' = [bus EXCEPT !.st = "stop"] /\ UNCHANGED pending
    [] ~bus.autoend /\ pending # NONE -> bus' = pending /\ pending' = NONE
    [] OTHER -> bus' = [bus EXCEPT !.st = "tc"] /\ UNCHANGED pending

(* A byte is a register and a value: the one it was meant as, and whatever  *)
(* it reads as in the other role when driver and bus are out of step.       *)
AsRegister(r) == {[reg |-> r, val |-> [en |-> e, volt |-> Junk]] : e \in {0, 1}}
AsValue(x) == {[reg |-> r, val |-> x] : r \in Reg}

(* A byte of the driver goes out: first the register, then its value.       *)
ByteSent ==
  /\ bus.st = "byte"
  /\ \/ /\ IF bus.sent = 0
           THEN (\E b \in bus.tx : ptr' = b.reg) /\ UNCHANGED regs
           ELSE (\E b \in bus.tx : regs' = [regs EXCEPT ![ptr] = b.val]) /\ UNCHANGED ptr
        /\ IF bus.sent + 1 = bus.nbytes THEN AfterLast
           ELSE bus' = [bus EXCEPT !.st = "txis", !.sent = 1] /\ UNCHANGED pending
        /\ UNCHANGED <<flags, rxdr, driver, nacks, slow>>
     \/ Nacked

ByteReceived ==
  /\ bus.st = "rx" /\ rxdr' = regs[ptr]
  /\ AfterLast
  /\ UNCHANGED <<regs, flags, ptr, driver, nacks, slow>>

Stopped ==
  /\ bus.st = "stop" /\ flags' = flags \cup {"STOPF"}
  /\ bus' = (IF pending = NONE THEN [st |-> "idle"] ELSE pending) /\ pending' = NONE
  /\ UNCHANGED <<regs, rxdr, ptr, driver, nacks, slow>>

-----------------------------------------------------------------------------
(* The driver.                                                              *)

(* A START: at once on a bus that is idle or held after TC.                 *)
Started(cr2) ==
  IF bus.st \in {"idle", "tc"} THEN bus' = cr2 /\ UNCHANGED pending
                               ELSE pending' = cr2 /\ UNCHANGED bus

Cr2(read, nbytes, autoend) ==
  [st |-> "addr", read |-> read, nbytes |-> nbytes, autoend |-> autoend, sent |-> 0, tx |-> {}]

Present(flag) ==
  CASE flag = "TXIS" -> bus.st = "txis"
    [] flag = "TC" -> bus.st = "tc"
    [] flag = "RXNE" -> rxdr # NONE
    [] flag = "STOPF" -> "STOPF" \in flags

(* Without an answer the wait ends by its count: because the bus waits for  *)
(* the driver, which waits for another flag, or because a device is slow.   *)
TimedOut(flag) ==
  /\ ~Present(flag)
  /\ IF bus.st \in {"txis", "tc", "idle"} THEN UNCHANGED slow
                                          ELSE slow < MaxFaults /\ slow' = slow + 1

(* What follows a transfer.  An update that failed does not stop the next   *)
(* one; a rail that cannot be read is left out of the print.                *)
Next_k(failed) ==
  CASE k = 0 -> IF failed THEN 0 ELSE 1
    [] k \in 1 .. Updates -> IF k = Updates /\ (err \/ failed) THEN 0 ELSE k + 1
    [] k > Updates -> LET row == k - Updates
                          to == IF failed /\ row % 2 = 1 THEN k + 2 ELSE k + 1
                      IN IF to > Updates + 2 * Rows THEN 0 ELSE to

NextUpdate(failed) ==
  /\ err' = (err \/ (failed /\ k <= Updates))
  /\ k' = Next_k(failed)
  /\ stage' = IF k' = 0 THEN "done" ELSE "read"

(* The command pmic; its own probe reads like a row.                        *)
cmd_pmic ==
  /\ stage = "done" /\ stage' = "read" /\ k' = Updates + 1
  /\ UNCHANGED <<wires, v, err, nacks, slow>>

\* Wrong variant: NACKF is cleared together with STOPF.
wait_stop_clears_nack(after) ==
  /\ (Present("STOPF") /\ UNCHANGED slow) \/ TimedOut("STOPF")
  /\ flags' = {}
  /\ after

\* wait_stop() looks at STOPF alone, and clears it.
wait_stop(after) ==
  /\ (Present("STOPF") /\ UNCHANGED slow) \/ TimedOut("STOPF")
  /\ flags' = flags \ {"STOPF"}
  /\ after

wait_flag(flag, next) ==
  \/ /\ "NACKF" \in flags /\ flags' = flags \ {"NACKF"}
     /\ NextUpdate(TRUE) /\ UNCHANGED <<bus, pending, rxdr, v, slow>>
  \/ /\ "NACKF" \notin flags /\ Present(flag) /\ next /\ UNCHANGED <<flags, slow>>
  \/ /\ "NACKF" \notin flags /\ TimedOut(flag)
     /\ NextUpdate(TRUE) /\ UNCHANGED <<bus, pending, flags, rxdr, v>>

Proceed(step) == stage' = step /\ UNCHANGED <<k, err>>
Transmit(byte) == bus' = [bus EXCEPT !.st = "byte", !.tx = byte]

ReadPhase1 ==
  /\ stage = "read" /\ Started(Cr2(FALSE, 1, FALSE)) /\ Proceed("reg")
  /\ UNCHANGED <<regs, flags, rxdr, ptr, v, nacks, slow>>

ReadRegister ==
  /\ stage = "reg"
  /\ wait_flag("TXIS", Transmit(AsRegister(Asked)) /\ Proceed("tc") /\ UNCHANGED <<pending, rxdr, v>>)
  /\ UNCHANGED <<regs, ptr, nacks>>

ReadPhase2 ==
  /\ stage = "tc"
  /\ wait_flag("TC", Started(Cr2(TRUE, 1, TRUE)) /\ Proceed("rx") /\ UNCHANGED <<rxdr, v>>)
  /\ UNCHANGED <<regs, ptr, nacks>>

ReadValue ==
  /\ stage = "rx"
  /\ wait_flag("RXNE", v' = rxdr /\ rxdr' = NONE /\ Proceed("read_stop") /\ UNCHANGED <<bus, pending>>)
  /\ UNCHANGED <<regs, ptr, nacks>>

(* pmic_read() succeeded: an update goes on to its write.                   *)
ReadDone ==
  /\ stage = "read_stop"
  /\ wait_stop(IF k \in 1 .. Updates THEN Proceed("write") ELSE NextUpdate(FALSE))
  /\ UNCHANGED <<regs, bus, pending, rxdr, ptr, v, nacks>>

WriteStart ==
  /\ stage = "write" /\ Started(Cr2(FALSE, 2, TRUE)) /\ Proceed("write_reg")
  /\ UNCHANGED <<regs, flags, rxdr, ptr, v, nacks, slow>>

WriteRegister ==
  /\ stage = "write_reg"
  /\ wait_flag("TXIS", Transmit(AsRegister(Asked)) /\ Proceed("write_val") /\ UNCHANGED <<pending, rxdr, v>>)
  /\ UNCHANGED <<regs, ptr, nacks>>

\* Wrong variant: the bits outside the mask are not kept.
Updated_plain ==
  [[en |-> 0, volt |-> Junk] EXCEPT ![pmic_init_rails[k].field] = pmic_init_rails[k].val]

Updated == [v EXCEPT ![pmic_init_rails[k].field] = pmic_init_rails[k].val]

WriteValue ==
  /\ stage = "write_val"
  /\ wait_flag("TXIS", Transmit(AsValue(Updated)) /\ Proceed("write_stop") /\ UNCHANGED <<pending, rxdr, v>>)
  /\ UNCHANGED <<regs, ptr, nacks>>

(* i2c_write_reg() returns 0 whatever became of the value.                  *)
WriteDone ==
  /\ stage = "write_stop"
  /\ wait_stop(NextUpdate(FALSE))
  /\ UNCHANGED <<regs, bus, pending, rxdr, ptr, v, nacks>>

PmicNext ==
  \/ Addressed \/ ByteSent \/ ByteReceived \/ Stopped
  \/ ReadPhase1 \/ ReadRegister \/ ReadPhase2 \/ ReadValue \/ ReadDone
  \/ WriteStart \/ WriteRegister \/ WriteValue \/ WriteDone
  \/ cmd_pmic

PmicSpec == PmicInit /\ [][PmicNext]_PmicVars

-----------------------------------------------------------------------------
RailsOk == (k > Updates \/ stage = "done") /\ ~err

(* After RAILS OK every update is in the PMIC, but perhaps the last, which  *)
(* enables vdd2: the NACK of a value is not seen by its own transfer, and   *)
(* makes the next one fail.                                                 *)
RailsOkMeansSet ==
  RailsOk =>
    \A i \in 1 .. Updates - 1 : regs[pmic_init_rails[i].reg][pmic_init_rails[i].field] = pmic_init_rails[i].val

(* What a read returned is what the register holds, for the updates and for *)
(* what pmic prints: no NACK, no stale STOPF and no transfer left half done *)
(* shifts the bytes.                                                        *)
ReadsTrue == stage \in {"read_stop", "write"} => v = regs[Asked]

(* pmic.c:122 "voltages stay at the NVM defaults".                          *)
VoltagesKept ==
  \A r \in Range(AlwaysOn) : regs[VoltReg(r)].volt = VoltReg(r) /\ regs[EnReg(r)].volt = EnReg(r)

(* Driver and PMIC stay in step whatever is not acknowledged, as long as no *)
(* wait is given up while the transfer goes on.  After one that is, neither *)
(* part holds: a late byte is taken for the value of another register, and  *)
(* its bits are written back.                                               *)
InStep == slow = 0 => ReadsTrue /\ VoltagesKept

(* pmic.c:129 "enable vdd1 before vdd2/vddq".  It does not hold: vdd2 is    *)
(* enabled also when the update that enables vdd1 failed.                   *)
Vdd1First == regs[EnReg("buck6")].en = 1 => regs[EnReg("ldo3")].en = 1
=============================================================================
