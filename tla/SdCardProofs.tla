---------------------------- MODULE SdCardProofs ----------------------------
(***************************************************************************)
(* What mmc.c and stm32_sdmmc2.c guarantee for every card, every transfer   *)
(* and every fault of the bus, proved with TLAPS.                           *)
(***************************************************************************)
EXTENDS SdCard, SequenceTheorems, TLAPS

-----------------------------------------------------------------------------
(* Types.                                                                   *)

CardRecord ==
  [state : CardStates, app : BOOLEAN, wide : BOOLEAN, type : {"SD", "SD_HC"}, burst : {"one", "many"}]
CtrlRecord == [dir : {"OFF", "READ", "WRITE"}, active : BOOLEAN, wide : BOOLEAN]
MmcRecord ==
  [type : {"SD", "SD_HC"}, ocr : {"BYTE", "SECTOR"}, size : {0, NumBlocks},
   vddio1 : BOOLEAN, next_cmd_is_acmd : BOOLEAN, write_pending : BOOLEAN]
Rounds == IF OpCondTries > MaxRetries THEN OpCondTries ELSE MaxRetries
RunRecord ==
  [pc : Nat, tries : 1 .. CmdTries, loops : 0 .. Rounds, polls : 0 .. MaxRetries,
   stop : 0 .. CmdTries, then : {"NONE", "RETRY", "FAIL", "RESULT"}, got : Seq(Data)]

(* At a step of a script a run may stand at.                                *)
Placed(r) ==
  /\ r.pc \in 1 .. Len(Script)
  /\ r.stop > 0 /\ Script[r.pc] = "WAIT" => r.polls > 0
  /\ r.stop > 0 /\ r.then = "RESULT" => Script[r.pc] = "DATA"
  /\ job = SdInit /\ r.pc \in {3, 4} => r.loops < OpCondTries

Types ==
  /\ card \in CardRecord
  /\ disk \in [Blocks -> Data]
  /\ ctrl \in CtrlRecord
  /\ mmc \in MmcRecord
  /\ job \in Request \cup {SdInit, NULL}
  /\ run \in RunRecord
  /\ up \in BOOLEAN
  /\ trouble \subseteq {"FAULT", "BUSY"}
  /\ faults \in Nat
  /\ job # NULL => Placed(run)

LEMMA Sizes ==
  /\ NumBlocks \in Nat \ {0} /\ MaxCount \in Nat \ {0} /\ MaxFaults \in Nat /\ OpCondTries \in Nat \ {0}
  /\ CmdTries = 3 /\ MaxRetries = 5 /\ Rounds \in Nat /\ 5 <= Rounds /\ OpCondTries <= Rounds
  /\ NULL \notin Data /\ NULL \notin Request /\ NULL # SdInit
BY SdAssumption, NullAssumption DEF CmdTries, MaxRetries, Rounds

LEMMA RequestIs ==
  ASSUME NEW r \in Request
  PROVE  /\ r # NULL /\ r # SdInit /\ r.op \in {"READ10", "WRITE10"} /\ r.op # "INIT"
         /\ r.lba \in Nat /\ r.cnt \in Nat \ {0} /\ r.lba + r.cnt <= NumBlocks
         /\ r.op = "WRITE10" => r.val \in Data
BY Sizes DEF Request, SdInit, Blocks

(* The scripts.                                                             *)
Steps == Commands \cup {"DATA", "WAIT"}

LEMMA InitScript ==
  ASSUME job = SdInit
  PROVE  /\ job.op = "INIT" /\ Len(Script) = 16
         /\ Script[1] = "CMD0" /\ Script[2] = "CMD8" /\ Script[3] = "CMD55" /\ Script[4] = "ACMD41"
         /\ Script[5] = "CMD2" /\ Script[6] = "CMD3" /\ Script[7] = "CMD9" /\ Script[8] = "CMD7"
         /\ Script[9] = "WAIT" /\ Script[10] = "CMD16" /\ Script[11] = "CMD55" /\ Script[12] = "ACMD51"
         /\ Script[13] = "DATA" /\ Script[14] = "CMD55" /\ Script[15] = "ACMD6" /\ Script[16] = "WAIT"
         /\ Script \in Seq(Steps)
<1>1. PICK a : a = <<"CMD0", "CMD8", "CMD55", "ACMD41", "CMD2", "CMD3", "CMD9", "CMD7", "WAIT">>
  OBVIOUS
<1>2. PICK b : b = mmc_sd_switch
  OBVIOUS
<1>3. job.op = "INIT" /\ Script = a \o b
  BY <1>1, <1>2 DEF SdInit, Script, mmc_enumerate
<1>4. a \in Seq(Steps) /\ Len(a) = 9
  BY <1>1 DEF Steps, Commands
<1>5. b \in Seq(Steps) /\ Len(b) = 7
  BY <1>2 DEF mmc_sd_switch, Steps, Commands
<1>6. /\ a[1] = "CMD0" /\ a[2] = "CMD8" /\ a[3] = "CMD55" /\ a[4] = "ACMD41" /\ a[5] = "CMD2"
      /\ a[6] = "CMD3" /\ a[7] = "CMD9" /\ a[8] = "CMD7" /\ a[9] = "WAIT"
  BY <1>1
<1>7. /\ b[1] = "CMD16" /\ b[2] = "CMD55" /\ b[3] = "ACMD51" /\ b[4] = "DATA" /\ b[5] = "CMD55"
      /\ b[6] = "ACMD6" /\ b[7] = "WAIT"
  BY <1>2 DEF mmc_sd_switch
<1>8. PICK S : S = Steps
  OBVIOUS
<1>9. a \in Seq(S) /\ b \in Seq(S)
  BY <1>4, <1>5, <1>8
<1>10. /\ a \o b \in Seq(S)
       /\ Len(a \o b) = Len(a) + Len(b)
       /\ \A i \in 1 .. Len(a) + Len(b) : (a \o b)[i] = IF i <= Len(a) THEN a[i] ELSE b[i - Len(a)]
  BY <1>9, ConcatProperties
<1>11. /\ Len(Script) = 16
       /\ \A i \in 1 .. 9 : Script[i] = a[i]
       /\ \A i \in 10 .. 16 : Script[i] = b[i - 9]
  <2>1. Len(a) = 9 /\ Len(b) = 7 /\ Script = a \o b
    BY <1>3, <1>4, <1>5
  <2>2. PICK s : s = a \o b
    OBVIOUS
  <2>3. Len(s) = 9 + 7 /\ \A i \in 1 .. 9 + 7 : s[i] = IF i <= 9 THEN a[i] ELSE b[i - 9]
    BY <1>10, <2>1, <2>2
  <2>4. Len(s) = 16 /\ (\A i \in 1 .. 9 : s[i] = a[i]) /\ (\A i \in 10 .. 16 : s[i] = b[i - 9])
    BY <2>3
  <2> QED BY <2>1, <2>2, <2>4
<1>12. /\ Script[1] = "CMD0" /\ Script[2] = "CMD8" /\ Script[3] = "CMD55" /\ Script[4] = "ACMD41"
       /\ Script[5] = "CMD2" /\ Script[6] = "CMD3" /\ Script[7] = "CMD9" /\ Script[8] = "CMD7"
       /\ Script[9] = "WAIT"
  BY <1>6, <1>11
<1>13. /\ Script[10] = "CMD16" /\ Script[11] = "CMD55" /\ Script[12] = "ACMD51" /\ Script[13] = "DATA"
       /\ Script[14] = "CMD55" /\ Script[15] = "ACMD6" /\ Script[16] = "WAIT"
  BY <1>7, <1>11
<1>14. Script \in Seq(Steps)
  BY <1>3, <1>8, <1>10
<1> QED BY <1>3, <1>11, <1>12, <1>13, <1>14

LEMMA RequestScript ==
  ASSUME job \in Request
  PROVE  /\ Len(Script) = (IF job.cnt > 1 THEN 5 ELSE 4) /\ Script \in Seq(Steps)
         /\ Script[1] = "CMD16" /\ Script[3] = "DATA" /\ Script[4] = "WAIT"
         /\ job.cnt > 1 => Script[5] = "CMD12"
         /\ Script[2] = IF job.op = "READ10" THEN (IF job.cnt > 1 THEN "CMD18" ELSE "CMD17")
                                             ELSE (IF job.cnt > 1 THEN "CMD25" ELSE "CMD24")
<1>1. job.op = "READ10" \/ job.op = "WRITE10"
  BY RequestIs
<1>2. CASE job.op = "READ10"
  <2>1. CASE job.cnt > 1
    <3>1. Script = <<"CMD16", "CMD18", "DATA", "WAIT", "CMD12">>
      BY <1>2, <2>1 DEF Script, mmc_read_blocks
    <3>2. Script \in Seq(Steps)
      BY <3>1 DEF Steps, Commands
    <3> QED BY <1>2, <2>1, <3>1, <3>2
  <2>2. CASE ~(job.cnt > 1)
    <3>1. Script = <<"CMD16", "CMD17", "DATA", "WAIT">>
      BY <1>2, <2>2 DEF Script, mmc_read_blocks
    <3>2. Script \in Seq(Steps)
      BY <3>1 DEF Steps, Commands
    <3> QED BY <1>2, <2>2, <3>1, <3>2
  <2> QED BY <2>1, <2>2
<1>3. CASE job.op = "WRITE10"
  <2>1. CASE job.cnt > 1
    <3>1. Script = <<"CMD16", "CMD25", "DATA", "WAIT", "CMD12">>
      BY <1>3, <2>1 DEF Script, mmc_write_blocks
    <3>2. Script \in Seq(Steps)
      BY <3>1 DEF Steps, Commands
    <3> QED BY <1>3, <2>1, <3>1, <3>2
  <2>2. CASE ~(job.cnt > 1)
    <3>1. Script = <<"CMD16", "CMD24", "DATA", "WAIT">>
      BY <1>3, <2>2 DEF Script, mmc_write_blocks
    <3>2. Script \in Seq(Steps)
      BY <3>1 DEF Steps, Commands
    <3> QED BY <1>3, <2>2, <3>1, <3>2
  <2> QED BY <2>1, <2>2
<1> QED BY <1>1, <1>2, <1>3

LEMMA StartIs ==
  ASSUME NEW pc \in Nat
  PROVE  /\ Start(pc) \in RunRecord /\ Start(pc).pc = pc /\ Start(pc).stop = 0 /\ Start(pc).then = "NONE"
         /\ Start(pc).tries = CmdTries /\ Start(pc).polls = MaxRetries /\ Start(pc).loops = 0
         /\ Start(pc).got = <<>>
<1>1. <<>> \in Seq(Data)
  OBVIOUS
<1> QED BY <1>1, Sizes DEF Start, RunRecord

-----------------------------------------------------------------------------
(* How the card takes a command: its answer, field by field.                *)

Same(a) == a.card \in CardRecord /\ a.card.type = card.type

LEMMA NewCard ==
  ASSUME card \in CardRecord, NEW s \in CardStates, NEW b \in {"one", "many"}
  PROVE  /\ [card EXCEPT !.state = s] \in CardRecord
         /\ [card EXCEPT !.state = s, !.app = FALSE] \in CardRecord
         /\ [card EXCEPT !.state = s, !.app = FALSE, !.burst = b] \in CardRecord
         /\ [card EXCEPT !.state = s, !.app = FALSE, !.wide = FALSE] \in CardRecord
<1>1. FALSE \in BOOLEAN
  OBVIOUS
<1> QED BY <1>1 DEF CardRecord

LEMMA NewCardApp ==
  ASSUME card \in CardRecord
  PROVE  /\ [card EXCEPT !.app = FALSE] \in CardRecord
         /\ [card EXCEPT !.app = TRUE] \in CardRecord
         /\ [card EXCEPT !.app = FALSE, !.wide = TRUE] \in CardRecord
<1>1. FALSE \in BOOLEAN /\ TRUE \in BOOLEAN
  OBVIOUS
<1> QED BY <1>1 DEF CardRecord

LEMMA AnswerCMD0 ==
  ASSUME card \in CardRecord, NEW a \in Answers("CMD0")
  PROVE  /\ Same(a)
         /\ a.card.burst = card.burst
         /\ a.ok
         /\ a.card.state = "idle" /\ ~a.card.app /\ ~a.card.wide
<1>1. a = [card |-> [card EXCEPT !.state = "idle", !.app = FALSE, !.wide = FALSE], ok |-> TRUE]
  BY DEF Answers
<1>2. a.card \in CardRecord
  BY <1>1, NewCard, NewCardApp DEF CardStates
<1> QED BY <1>1, <1>2 DEF Same, CardRecord

LEMMA AnswerCMD8 ==
  ASSUME card \in CardRecord, NEW a \in Answers("CMD8")
  PROVE  /\ Same(a)
         /\ a.card.burst = card.burst
         /\ a.card.wide = card.wide
         /\ a.card.state = card.state
         /\ card.state = "idle" => a.ok
<1>1. CASE card.state = "idle"
  <2>1. a = [card |-> [card EXCEPT !.state = "idle", !.app = FALSE], ok |-> TRUE]
    BY <1>1 DEF Answers
  <2>2. a.card \in CardRecord
    BY <2>1, NewCard, NewCardApp DEF CardStates
  <2> QED BY <1>1, <2>1, <2>2 DEF Same, CardRecord
<1>2. CASE card.state # "idle"
  <2>1. a = [card |-> [card EXCEPT !.app = FALSE], ok |-> FALSE]
    BY <1>2 DEF Answers
  <2>2. a.card \in CardRecord
    BY <2>1, NewCard, NewCardApp DEF CardStates
  <2> QED BY <1>2, <2>1, <2>2 DEF Same, CardRecord
<1> QED BY <1>1, <1>2

LEMMA AnswerCMD55 ==
  ASSUME card \in CardRecord, NEW a \in Answers("CMD55")
  PROVE  /\ Same(a)
         /\ a.card.burst = card.burst
         /\ a.card.wide = card.wide
         /\ a.card.state = card.state
         /\ card.state \notin {"ready", "ident"} => a.ok
         /\ a.ok => a.card.app
<1>1. CASE card.state \notin {"ready", "ident"}
  <2>1. a = [card |-> [card EXCEPT !.app = TRUE], ok |-> TRUE]
    BY <1>1 DEF Answers
  <2>2. a.card \in CardRecord
    BY <2>1, NewCard, NewCardApp DEF CardStates
  <2> QED BY <1>1, <2>1, <2>2 DEF Same, CardRecord
<1>2. CASE card.state \in {"ready", "ident"}
  <2>1. a = [card |-> [card EXCEPT !.app = FALSE], ok |-> FALSE]
    BY <1>2 DEF Answers
  <2>2. a.card \in CardRecord
    BY <2>1, NewCard, NewCardApp DEF CardStates
  <2> QED BY <1>2, <2>1, <2>2 DEF Same, CardRecord
<1> QED BY <1>1, <1>2

LEMMA AnswerACMD41 ==
  ASSUME card \in CardRecord, NEW a \in Answers("ACMD41")
  PROVE  /\ Same(a)
         /\ a.card.burst = card.burst
         /\ a.card.wide = card.wide
         /\ a.ok => a.card.state \in {"ready", "idle"}
         /\ ~a.ok => a.card.state = card.state
         /\ card.app /\ card.state = "idle" => a.ok
<1>1. CASE card.app /\ card.state = "idle"
  <2>1. \/ a = [card |-> [card EXCEPT !.state = "ready", !.app = FALSE], ok |-> TRUE]
        \/ a = [card |-> [card EXCEPT !.state = "idle", !.app = FALSE], ok |-> TRUE]
    BY <1>1 DEF Answers
  <2>2. a.card \in CardRecord
    BY <2>1, NewCard, NewCardApp DEF CardStates
  <2>3. CASE a = [card |-> [card EXCEPT !.state = "ready", !.app = FALSE], ok |-> TRUE]
    BY <1>1, <2>2, <2>3 DEF Same, CardRecord
  <2>4. CASE a = [card |-> [card EXCEPT !.state = "idle", !.app = FALSE], ok |-> TRUE]
    BY <1>1, <2>2, <2>4 DEF Same, CardRecord
  <2> QED BY <2>1, <2>3, <2>4
<1>2. CASE ~(card.app /\ card.state = "idle")
  <2>1. a = [card |-> [card EXCEPT !.app = FALSE], ok |-> FALSE]
    BY <1>2 DEF Answers
  <2>2. a.card \in CardRecord
    BY <2>1, NewCard, NewCardApp DEF CardStates
  <2> QED BY <1>2, <2>1, <2>2 DEF Same, CardRecord
<1> QED BY <1>1, <1>2

LEMMA AnswerCMD2 ==
  ASSUME card \in CardRecord, NEW a \in Answers("CMD2")
  PROVE  /\ Same(a)
         /\ a.card.burst = card.burst
         /\ a.card.wide = card.wide
         /\ card.state = "ready" => a.ok
         /\ a.ok => a.card.state = "ident"
<1>1. CASE card.state = "ready"
  <2>1. a = [card |-> [card EXCEPT !.state = "ident", !.app = FALSE], ok |-> TRUE]
    BY <1>1 DEF Answers
  <2>2. a.card \in CardRecord
    BY <2>1, NewCard, NewCardApp DEF CardStates
  <2> QED BY <1>1, <2>1, <2>2 DEF Same, CardRecord
<1>2. CASE card.state # "ready"
  <2>1. a = [card |-> [card EXCEPT !.app = FALSE], ok |-> FALSE]
    BY <1>2 DEF Answers
  <2>2. a.card \in CardRecord
    BY <2>1, NewCard, NewCardApp DEF CardStates
  <2> QED BY <1>2, <2>1, <2>2 DEF Same, CardRecord
<1> QED BY <1>1, <1>2

LEMMA AnswerCMD3 ==
  ASSUME card \in CardRecord, NEW a \in Answers("CMD3")
  PROVE  /\ Same(a)
         /\ a.card.burst = card.burst
         /\ a.card.wide = card.wide
         /\ card.state = "ident" => a.ok
         /\ a.ok => a.card.state = "stby"
<1>1. CASE card.state \in {"ident", "stby"}
  <2>1. a = [card |-> [card EXCEPT !.state = "stby", !.app = FALSE], ok |-> TRUE]
    BY <1>1 DEF Answers
  <2>2. a.card \in CardRecord
    BY <2>1, NewCard, NewCardApp DEF CardStates
  <2> QED BY <1>1, <2>1, <2>2 DEF Same, CardRecord
<1>2. CASE card.state \notin {"ident", "stby"}
  <2>1. a = [card |-> [card EXCEPT !.app = FALSE], ok |-> FALSE]
    BY <1>2 DEF Answers
  <2>2. a.card \in CardRecord
    BY <2>1, NewCard, NewCardApp DEF CardStates
  <2> QED BY <1>2, <2>1, <2>2 DEF Same, CardRecord
<1> QED BY <1>1, <1>2

LEMMA AnswerCMD9 ==
  ASSUME card \in CardRecord, NEW a \in Answers("CMD9")
  PROVE  /\ Same(a)
         /\ a.card.burst = card.burst
         /\ a.card.wide = card.wide
         /\ a.card.state = card.state
         /\ card.state = "stby" => a.ok
<1>1. CASE card.state = "stby"
  <2>1. a = [card |-> [card EXCEPT !.state = "stby", !.app = FALSE], ok |-> TRUE]
    BY <1>1 DEF Answers
  <2>2. a.card \in CardRecord
    BY <2>1, NewCard, NewCardApp DEF CardStates
  <2> QED BY <1>1, <2>1, <2>2 DEF Same, CardRecord
<1>2. CASE card.state # "stby"
  <2>1. a = [card |-> [card EXCEPT !.app = FALSE], ok |-> FALSE]
    BY <1>2 DEF Answers
  <2>2. a.card \in CardRecord
    BY <2>1, NewCard, NewCardApp DEF CardStates
  <2> QED BY <1>2, <2>1, <2>2 DEF Same, CardRecord
<1> QED BY <1>1, <1>2

LEMMA AnswerCMD7 ==
  ASSUME card \in CardRecord, NEW a \in Answers("CMD7")
  PROVE  /\ Same(a)
         /\ a.card.burst = card.burst
         /\ a.card.wide = card.wide
         /\ card.state = "stby" => a.ok
         /\ a.ok => a.card.state = "tran"
<1>1. CASE card.state = "stby"
  <2>1. a = [card |-> [card EXCEPT !.state = "tran", !.app = FALSE], ok |-> TRUE]
    BY <1>1 DEF Answers
  <2>2. a.card \in CardRecord
    BY <2>1, NewCard, NewCardApp DEF CardStates
  <2> QED BY <1>1, <2>1, <2>2 DEF Same, CardRecord
<1>2. CASE card.state # "stby"
  <2>1. a = [card |-> [card EXCEPT !.app = FALSE], ok |-> FALSE]
    BY <1>2 DEF Answers
  <2>2. a.card \in CardRecord
    BY <2>1, NewCard, NewCardApp DEF CardStates
  <2> QED BY <1>2, <2>1, <2>2 DEF Same, CardRecord
<1> QED BY <1>1, <1>2

LEMMA AnswerCMD13 ==
  ASSUME card \in CardRecord, NEW a \in Answers("CMD13")
  PROVE  /\ Same(a)
         /\ a.card.burst = card.burst
         /\ a.card.wide = card.wide
         /\ a.card.state = card.state
         /\ card.state \in {"stby", "tran", "data", "rcv", "prg"} => a.ok
<1>1. CASE card.state \in {"stby", "tran", "data", "rcv", "prg"}
  <2>1. a = [card |-> [card EXCEPT !.state = card.state, !.app = FALSE], ok |-> TRUE]
    BY <1>1 DEF Answers
  <2>2. a.card \in CardRecord
    BY <2>1, NewCard, NewCardApp DEF CardStates
  <2> QED BY <1>1, <2>1, <2>2 DEF Same, CardRecord
<1>2. CASE card.state \notin {"stby", "tran", "data", "rcv", "prg"}
  <2>1. a = [card |-> [card EXCEPT !.app = FALSE], ok |-> FALSE]
    BY <1>2 DEF Answers
  <2>2. a.card \in CardRecord
    BY <2>1, NewCard, NewCardApp DEF CardStates
  <2> QED BY <1>2, <2>1, <2>2 DEF Same, CardRecord
<1> QED BY <1>1, <1>2

LEMMA AnswerCMD16 ==
  ASSUME card \in CardRecord, NEW a \in Answers("CMD16")
  PROVE  /\ Same(a)
         /\ a.card.burst = card.burst
         /\ a.card.wide = card.wide
         /\ a.card.state = card.state
         /\ a.ok <=> card.state = "tran"
<1>1. CASE card.state = "tran"
  <2>1. a = [card |-> [card EXCEPT !.state = "tran", !.app = FALSE], ok |-> TRUE]
    BY <1>1 DEF Answers
  <2>2. a.card \in CardRecord
    BY <2>1, NewCard, NewCardApp DEF CardStates
  <2> QED BY <1>1, <2>1, <2>2 DEF Same, CardRecord
<1>2. CASE card.state # "tran"
  <2>1. a = [card |-> [card EXCEPT !.app = FALSE], ok |-> FALSE]
    BY <1>2 DEF Answers
  <2>2. a.card \in CardRecord
    BY <2>1, NewCard, NewCardApp DEF CardStates
  <2> QED BY <1>2, <2>1, <2>2 DEF Same, CardRecord
<1> QED BY <1>1, <1>2

LEMMA AnswerACMD51 ==
  ASSUME card \in CardRecord, NEW a \in Answers("ACMD51")
  PROVE  /\ Same(a)
         /\ a.card.wide = card.wide
         /\ a.ok <=> (card.app /\ card.state = "tran")
         /\ a.ok => a.card.state = "data" /\ a.card.burst = "one"
         /\ ~a.ok => a.card.state = card.state /\ a.card.burst = card.burst
<1>1. CASE card.app /\ card.state = "tran"
  <2>1. a = [card |-> [card EXCEPT !.state = "data", !.app = FALSE, !.burst = "one"], ok |-> TRUE]
    BY <1>1 DEF Answers
  <2>2. a.card \in CardRecord
    BY <2>1, NewCard, NewCardApp DEF CardStates
  <2> QED BY <1>1, <2>1, <2>2 DEF Same, CardRecord
<1>2. CASE ~(card.app /\ card.state = "tran")
  <2>1. a = [card |-> [card EXCEPT !.app = FALSE], ok |-> FALSE]
    BY <1>2 DEF Answers
  <2>2. a.card \in CardRecord
    BY <2>1, NewCard, NewCardApp DEF CardStates
  <2> QED BY <1>2, <2>1, <2>2 DEF Same, CardRecord
<1> QED BY <1>1, <1>2

LEMMA AnswerACMD6 ==
  ASSUME card \in CardRecord, NEW a \in Answers("ACMD6")
  PROVE  /\ Same(a)
         /\ card.wide => a.card.wide
         /\ a.ok <=> card.state = "tran"
         /\ a.ok /\ card.app => a.card.wide /\ a.card.state = "tran" /\ a.card.burst = card.burst
         /\ a.ok /\ ~card.app => a.card.state = "data" /\ a.card.burst = "one"
         /\ ~a.ok => a.card.state = card.state /\ a.card.burst = card.burst
<1>1. CASE card.app /\ card.state = "tran"
  <2>1. a = [card |-> [card EXCEPT !.app = FALSE, !.wide = TRUE], ok |-> TRUE]
    BY <1>1 DEF Answers
  <2>2. a.card \in CardRecord
    BY <2>1, NewCard, NewCardApp DEF CardStates
  <2> QED BY <1>1, <2>1, <2>2 DEF Same, CardRecord
<1>2. CASE ~card.app /\ card.state = "tran"
  <2>1. a = [card |-> [card EXCEPT !.state = "data", !.app = FALSE, !.burst = "one"], ok |-> TRUE]
    BY <1>2 DEF Answers
  <2>2. a.card \in CardRecord
    BY <2>1, NewCard, NewCardApp DEF CardStates
  <2> QED BY <1>2, <2>1, <2>2 DEF Same, CardRecord
<1>3. CASE card.state # "tran"
  <2>1. a = [card |-> [card EXCEPT !.app = FALSE], ok |-> FALSE]
    BY <1>3 DEF Answers
  <2>2. a.card \in CardRecord
    BY <2>1, NewCard, NewCardApp DEF CardStates
  <2> QED BY <1>3, <2>1, <2>2 DEF Same, CardRecord
<1> QED BY <1>1, <1>2, <1>3

LEMMA AnswerCMD12 ==
  ASSUME card \in CardRecord, NEW a \in Answers("CMD12")
  PROVE  /\ Same(a)
         /\ a.card.burst = card.burst
         /\ a.card.wide = card.wide
         /\ a.ok <=> card.state \in {"data", "rcv"}
         /\ card.state = "data" => a.card.state = "tran"
         /\ card.state = "rcv" => a.card.state = "prg"
         /\ ~a.ok => a.card.state = card.state
<1>1. CASE card.state = "data"
  <2>1. a = [card |-> [card EXCEPT !.state = "tran", !.app = FALSE], ok |-> TRUE]
    BY <1>1 DEF Answers
  <2>2. a.card \in CardRecord
    BY <2>1, NewCard, NewCardApp DEF CardStates
  <2> QED BY <1>1, <2>1, <2>2 DEF Same, CardRecord
<1>2. CASE card.state = "rcv"
  <2>1. a = [card |-> [card EXCEPT !.state = "prg", !.app = FALSE], ok |-> TRUE]
    BY <1>2 DEF Answers
  <2>2. a.card \in CardRecord
    BY <2>1, NewCard, NewCardApp DEF CardStates
  <2> QED BY <1>2, <2>1, <2>2 DEF Same, CardRecord
<1>3. CASE card.state \notin {"data", "rcv"}
  <2>1. a = [card |-> [card EXCEPT !.app = FALSE], ok |-> FALSE]
    BY <1>3 DEF Answers
  <2>2. a.card \in CardRecord
    BY <2>1, NewCard, NewCardApp DEF CardStates
  <2> QED BY <1>3, <2>1, <2>2 DEF Same, CardRecord
<1> QED BY <1>1, <1>2, <1>3

ReadCommand == IF job.cnt > 1 THEN "CMD18" ELSE "CMD17"
WriteCommand == IF job.cnt > 1 THEN "CMD25" ELSE "CMD24"
Burst == IF job.cnt > 1 THEN "many" ELSE "one"

LEMMA AnswerRead ==
  ASSUME card \in CardRecord, NEW a \in Answers(ReadCommand)
  PROVE  /\ Same(a)
         /\ a.card.wide = card.wide
         /\ a.ok <=> card.state = "tran"
         /\ \/ a.card.state = card.state /\ a.card.burst = card.burst
            \/ card.state = "tran" /\ a.card.state = "data" /\ a.card.burst = Burst
         /\ a.ok /\ Addressed(ReadUnit) => a.card.state = "data" /\ a.card.burst = Burst
<1>1. CASE card.state = "tran" /\ Addressed(ReadUnit)
  <2>1. a = [card |-> [card EXCEPT !.state = "data", !.app = FALSE, !.burst = Burst], ok |-> TRUE]
    BY <1>1 DEF Answers, ReadCommand, Burst
  <2>2. a.card \in CardRecord
    BY <2>1, NewCard, NewCardApp DEF CardStates, Burst
  <2> QED BY <1>1, <2>1, <2>2 DEF Same, CardRecord
<1>2. CASE card.state = "tran" /\ ~Addressed(ReadUnit)
  <2>1. a = [card |-> [card EXCEPT !.state = "tran", !.app = FALSE], ok |-> TRUE]
    BY <1>2 DEF Answers, ReadCommand, Burst
  <2>2. a.card \in CardRecord
    BY <2>1, NewCard, NewCardApp DEF CardStates
  <2> QED BY <1>2, <2>1, <2>2 DEF Same, CardRecord
<1>3. CASE card.state # "tran"
  <2>1. a = [card |-> [card EXCEPT !.app = FALSE], ok |-> FALSE]
    BY <1>3 DEF Answers, ReadCommand, Burst
  <2>2. a.card \in CardRecord
    BY <2>1, NewCard, NewCardApp DEF CardStates
  <2> QED BY <1>3, <2>1, <2>2 DEF Same, CardRecord
<1> QED BY <1>1, <1>2, <1>3

LEMMA AnswerWrite ==
  ASSUME card \in CardRecord, NEW a \in Answers(WriteCommand)
  PROVE  /\ Same(a)
         /\ a.card.wide = card.wide
         /\ a.ok <=> card.state = "tran"
         /\ \/ a.card.state = card.state /\ a.card.burst = card.burst
            \/ card.state = "tran" /\ a.card.state = "rcv" /\ a.card.burst = Burst
         /\ a.ok /\ Addressed(WriteUnit) => a.card.state = "rcv" /\ a.card.burst = Burst
<1>1. CASE card.state = "tran" /\ Addressed(WriteUnit)
  <2>1. a = [card |-> [card EXCEPT !.state = "rcv", !.app = FALSE, !.burst = Burst], ok |-> TRUE]
    BY <1>1 DEF Answers, WriteCommand, Burst
  <2>2. a.card \in CardRecord
    BY <2>1, NewCard, NewCardApp DEF CardStates, Burst
  <2> QED BY <1>1, <2>1, <2>2 DEF Same, CardRecord
<1>2. CASE card.state = "tran" /\ ~Addressed(WriteUnit)
  <2>1. a = [card |-> [card EXCEPT !.state = "tran", !.app = FALSE], ok |-> TRUE]
    BY <1>2 DEF Answers, WriteCommand, Burst
  <2>2. a.card \in CardRecord
    BY <2>1, NewCard, NewCardApp DEF CardStates
  <2> QED BY <1>2, <2>1, <2>2 DEF Same, CardRecord
<1>3. CASE card.state # "tran"
  <2>1. a = [card |-> [card EXCEPT !.app = FALSE], ok |-> FALSE]
    BY <1>3 DEF Answers, WriteCommand, Burst
  <2>2. a.card \in CardRecord
    BY <2>1, NewCard, NewCardApp DEF CardStates
  <2> QED BY <1>3, <2>1, <2>2 DEF Same, CardRecord
<1> QED BY <1>1, <1>2, <1>3

-----------------------------------------------------------------------------
(* What the bus does to a command, and what follows an attempt.             *)

LEMMA SentIs ==
  ASSUME ctrl \in CtrlRecord, NEW cmd
  PROVE  /\ Sent(cmd) \in CtrlRecord /\ Sent(cmd).wide = ctrl.wide
         /\ cmd = "CMD12" => ~Sent(cmd).active
         /\ DataCommand(cmd) /\ cmd # "CMD12" => Sent(cmd).active
         /\ ~DataCommand(cmd) /\ cmd # "CMD12" => Sent(cmd).active = ctrl.active
         /\ DataCommand(cmd) \/ cmd = "CMD55" => Sent(cmd).dir = ctrl.dir
<1>1. PICK on : on = CASE cmd = "CMD12" -> FALSE [] DataCommand(cmd) -> TRUE [] OTHER -> ctrl.active
  OBVIOUS
<1>2. PICK dir : dir = IF DataCommand(cmd) \/ cmd = "CMD55" THEN ctrl.dir ELSE "OFF"
  OBVIOUS
<1>3. ctrl.active \in BOOLEAN /\ ctrl.dir \in {"OFF", "READ", "WRITE"}
  BY DEF CtrlRecord
<1>4. ~("CMD12" \in {"CMD17", "CMD18", "CMD24", "CMD25", "ACMD51"}) /\ "CMD12" # "ACMD6"
  OBVIOUS
<1>5. cmd = "CMD12" => ~DataCommand(cmd)
  BY <1>4 DEF DataCommand
<1>6. on \in BOOLEAN
  BY <1>1, <1>3, <1>5, Zenon
<1>7. dir \in {"OFF", "READ", "WRITE"}
  BY <1>2, <1>3
<1>8. Sent(cmd) = [ctrl EXCEPT !.dir = dir, !.active = on]
  BY <1>1, <1>2 DEF Sent
<1>9. /\ Sent(cmd) \in CtrlRecord /\ Sent(cmd).wide = ctrl.wide
      /\ Sent(cmd).dir = dir /\ Sent(cmd).active = on
  BY <1>6, <1>7, <1>8 DEF CtrlRecord
<1>10. /\ cmd = "CMD12" => ~on
       /\ DataCommand(cmd) /\ cmd # "CMD12" => on
       /\ ~DataCommand(cmd) /\ cmd # "CMD12" => on = ctrl.active
  BY <1>1, <1>5, Zenon
<1> QED BY <1>2, <1>9, <1>10

LEMMA NotedIs ==
  ASSUME mmc \in MmcRecord, NEW cmd
  PROVE  /\ Noted(cmd) \in MmcRecord /\ Noted(cmd).type = mmc.type /\ Noted(cmd).ocr = mmc.ocr
         /\ Noted(cmd).write_pending = mmc.write_pending
         /\ cmd = "CMD55" => Noted(cmd).next_cmd_is_acmd
<1>1. (cmd = "CMD55") \in BOOLEAN
  OBVIOUS
<1> QED BY <1>1 DEF Noted, MmcRecord

LEMMA FaultIs ==
  ASSUME faults \in Nat, NEW kinds, NEW f \in Fault(kinds)
  PROVE  /\ f = "NONE" \/ (f \in kinds /\ faults < MaxFaults)
         /\ f \in kinds => f \in kinds
BY DEF Fault

LEMMA BlameIs ==
  ASSUME faults \in Nat, trouble \subseteq {"FAULT", "BUSY"}, NEW f, NEW met \in BOOLEAN, Blame(f, met)
  PROVE  /\ faults' \in Nat /\ trouble' \subseteq {"FAULT", "BUSY"}
         /\ f = "NONE" => faults' = faults
         /\ f # "NONE" => faults' = faults + 1
         /\ trouble' = {} => trouble = {} /\ f = "NONE" /\ ~met
BY DEF Blame

(* The outcomes of an attempt that failed.                                  *)
Stays(c, m) ==
  /\ UNCHANGED <<job, ans, up>>
  /\ ctrl' = c /\ mmc' = m
  /\ run' \in RunRecord /\ run'.pc = run.pc /\ run'.got = run.got

Halts(c, m) ==
  /\ Stays(c, m) /\ c.active
  /\ run'.stop = CmdTries /\ run'.then = "RETRY" /\ run'.polls = run.polls
  /\ run'.loops = run.loops

Repeats(c, m) ==
  /\ Stays(c, m)
  /\ run'.stop = 0 /\ run'.then = "NONE"
  /\ Step # "ACMD51" => run'.loops = run.loops
  /\ IF Step = "WAIT" THEN run'.polls = run.polls - 1
     ELSE /\ run'.polls = run.polls
          /\ (run.tries > 1 /\ run'.tries = run.tries - 1) \/ Step = "ACMD51"

GivesUp(c, m) == Step # "WAIT" /\ (run.tries = 1 \/ Step = "ACMD51") /\ Return("FAIL", c, m, <<>>)

Advances(c, m, got) ==
  /\ UNCHANGED <<job, ans, up>>
  /\ ctrl' = c /\ mmc' = m
  /\ run.pc < Len(Script)
  /\ run' = [Start(run.pc + 1) EXCEPT !.got = got]

LEMMA RunIs ==
  ASSUME run \in RunRecord
  PROVE  /\ run.pc \in Nat /\ run.tries \in 1 .. CmdTries /\ run.loops \in 0 .. Rounds
         /\ run.polls \in 0 .. MaxRetries /\ run.stop \in 0 .. CmdTries
         /\ run.then \in {"NONE", "RETRY", "FAIL", "RESULT"} /\ run.got \in Seq(Data)
BY DEF RunRecord

LEMMA AttemptIs ==
  ASSUME run \in RunRecord, Step = "WAIT" => run.polls > 0, NEW c, NEW m, AttemptFailed(c, m)
  PROVE  Repeats(c, m) \/ GivesUp(c, m)
<1>1. CASE Step = "WAIT"
  <2>1. Continue([run EXCEPT !.stop = 0, !.then = "NONE", !.polls = run.polls - 1], c, m)
    BY <1>1 DEF AttemptFailed
  <2>2. run.polls - 1 \in 0 .. MaxRetries
    BY <1>1, RunIs, Sizes
  <2>3. 0 \in 0 .. CmdTries /\ CmdTries \in 1 .. CmdTries /\ "NONE" \in {"NONE", "RETRY", "FAIL", "RESULT"}
    BY Sizes
  <2>4. run' \in RunRecord
    BY <2>1, <2>2, <2>3 DEF Continue, RunRecord
  <2>5. /\ run'.pc = run.pc /\ run'.got = run.got /\ run'.stop = 0 /\ run'.then = "NONE"
        /\ run'.polls = run.polls - 1 /\ run'.loops = run.loops
    BY <2>1 DEF Continue, RunRecord
  <2> QED BY <1>1, <2>1, <2>4, <2>5 DEF Continue, Repeats, Stays
<1>2. CASE Step # "WAIT" /\ run.tries > 1
  <2>1. Continue([run EXCEPT !.stop = 0, !.then = "NONE", !.tries = run.tries - 1], c, m)
    BY <1>2 DEF AttemptFailed
  <2>2. run.tries - 1 \in 1 .. CmdTries
    BY <1>2, RunIs, Sizes
  <2>3. 0 \in 0 .. CmdTries /\ CmdTries \in 1 .. CmdTries /\ "NONE" \in {"NONE", "RETRY", "FAIL", "RESULT"}
    BY Sizes
  <2>4. run' \in RunRecord
    BY <2>1, <2>2, <2>3 DEF Continue, RunRecord
  <2>5. /\ run'.pc = run.pc /\ run'.got = run.got /\ run'.stop = 0 /\ run'.then = "NONE"
        /\ run'.polls = run.polls /\ run'.tries = run.tries - 1 /\ run'.loops = run.loops
    BY <2>1 DEF Continue, RunRecord
  <2> QED BY <1>2, <2>1, <2>4, <2>5 DEF Continue, Repeats, Stays
<1>3. CASE Step = "ACMD51" /\ run.tries = 1 /\ run.loops < MaxRetries
  <2>1. Continue([run EXCEPT !.stop = 0, !.then = "NONE", !.tries = CmdTries, !.loops = run.loops + 1], c, m)
    BY <1>3 DEF AttemptFailed
  <2>2. run.loops + 1 \in 0 .. Rounds
    BY <1>3, RunIs, Sizes
  <2>3. 0 \in 0 .. CmdTries /\ CmdTries \in 1 .. CmdTries /\ "NONE" \in {"NONE", "RETRY", "FAIL", "RESULT"}
    BY Sizes
  <2>4. run' \in RunRecord
    BY <2>1, <2>2, <2>3 DEF Continue, RunRecord
  <2>5. /\ run'.pc = run.pc /\ run'.got = run.got /\ run'.stop = 0 /\ run'.then = "NONE"
        /\ run'.polls = run.polls
    BY <2>1 DEF Continue, RunRecord
  <2> QED BY <1>3, <2>1, <2>4, <2>5 DEF Continue, Repeats, Stays
<1>4. CASE Step # "WAIT" /\ ~(run.tries > 1) /\ ~(Step = "ACMD51" /\ run.tries = 1 /\ run.loops < MaxRetries)
  <2>1. Return("FAIL", c, m, <<>>)
    BY <1>4, Zenon DEF AttemptFailed
  <2>2. run.tries = 1
    BY <1>4, RunIs, Sizes
  <2> QED BY <1>4, <2>1, <2>2 DEF GivesUp
<1>5. run.tries > 1 \/ run.tries = 1
  BY RunIs, Sizes
<1> QED BY <1>1, <1>2, <1>3, <1>4, <1>5

LEMMA FailedIs ==
  ASSUME run \in RunRecord, Step = "WAIT" => run.polls > 0, NEW c, NEW m, CommandFailed(c, m)
  PROVE  Halts(c, m) \/ (~c.active /\ (Repeats(c, m) \/ GivesUp(c, m)))
<1>1. CASE c.active
  <2>1. Continue([run EXCEPT !.stop = CmdTries, !.then = "RETRY"], c, m)
    BY <1>1 DEF CommandFailed
  <2>2. CmdTries \in 0 .. CmdTries /\ "RETRY" \in {"NONE", "RETRY", "FAIL", "RESULT"}
    BY Sizes
  <2>3. run' \in RunRecord
    BY <2>1, <2>2 DEF Continue, RunRecord
  <2>4. /\ run'.pc = run.pc /\ run'.got = run.got /\ run'.polls = run.polls
        /\ run'.stop = CmdTries /\ run'.then = "RETRY" /\ run'.loops = run.loops
    BY <2>1 DEF Continue, RunRecord
  <2> QED BY <1>1, <2>1, <2>3, <2>4 DEF Continue, Halts, Stays
<1>2. CASE ~c.active
  BY <1>2, AttemptIs DEF CommandFailed
<1> QED BY <1>1, <1>2

LEMMA DoneIs ==
  ASSUME run \in RunRecord, run.pc \in 1 .. Len(Script), Len(Script) \in Nat, NEW c, NEW m,
         NEW got \in Seq(Data), StepDone(c, m, got)
  PROVE  \/ /\ Advances(c, m, got) /\ run' \in RunRecord /\ run'.pc = run.pc + 1 /\ run'.stop = 0
            /\ run'.then = "NONE" /\ run'.tries = CmdTries /\ run'.polls = MaxRetries /\ run'.got = got
         \/ run.pc = Len(Script) /\ Return("PASS", c, m, got)
<1>1. CASE run.pc = Len(Script)
  BY <1>1 DEF StepDone
<1>2. CASE run.pc < Len(Script)
  <2>1. Advances(c, m, got)
    BY <1>2 DEF StepDone, Continue, Advances
  <2>2. run' = [Start(run.pc + 1) EXCEPT !.got = got]
    BY <2>1 DEF Advances
  <2>3. run.pc + 1 \in Nat
    BY RunIs
  <2>4. Start(run.pc + 1) \in RunRecord
    BY <2>3, StartIs
  <2> QED BY <2>1, <2>2, <2>3, <2>4, StartIs DEF RunRecord
<1> QED BY <1>1, <1>2

LEMMA ReturnInit ==
  ASSUME job = SdInit, NEW c \in CtrlRecord, NEW m \in MmcRecord, NEW status, NEW got,
         Return(status, c, m, got)
  PROVE  /\ job' = NULL /\ run' = Start(1) /\ ans' = ans /\ up' = (status = "PASS")
         /\ ctrl' \in CtrlRecord /\ mmc' \in MmcRecord
         /\ up' => ctrl'.wide
         /\ mmc'.type = m.type /\ mmc'.ocr = m.ocr /\ mmc'.write_pending = m.write_pending
<1>1. job.op = "INIT"
  BY DEF SdInit
<1>2. /\ job' = NULL /\ run' = Start(1) /\ ans' = ans /\ up' = (status = "PASS")
      /\ ctrl' = (IF up' THEN stm32_sdmmc2_set_ios(c) ELSE c)
      /\ mmc' = (IF up' THEN [m EXCEPT !.size = NumBlocks] ELSE m)
  BY <1>1 DEF Return
<1>3. CASE up'
  <2>1. ctrl' = [c EXCEPT !.wide = TRUE] /\ mmc' = [m EXCEPT !.size = NumBlocks]
    BY <1>2, <1>3 DEF stm32_sdmmc2_set_ios
  <2>2. TRUE \in BOOLEAN
    OBVIOUS
  <2>3. ctrl' \in CtrlRecord /\ ctrl'.wide
    BY <2>1, <2>2 DEF CtrlRecord
  <2>4. /\ mmc' \in MmcRecord
        /\ mmc'.type = m.type /\ mmc'.ocr = m.ocr /\ mmc'.write_pending = m.write_pending
    BY <2>1 DEF MmcRecord
  <2> QED BY <1>2, <2>3, <2>4
<1>4. CASE ~up'
  BY <1>2, <1>4
<1> QED BY <1>3, <1>4

LEMMA ReturnRequest ==
  ASSUME job \in Request, NEW c \in CtrlRecord, NEW m \in MmcRecord, NEW status, NEW got,
         Return(status, c, m, got)
  PROVE  /\ job' = NULL /\ run' = Start(1) /\ up' = up /\ ctrl' = c
         /\ ans' = [status |-> status, data |-> IF status = "PASS" THEN got ELSE <<>>]
         /\ mmc' \in MmcRecord
         /\ mmc'.type = m.type /\ mmc'.ocr = m.ocr /\ ~mmc'.write_pending
<1>1. job.op # "INIT"
  BY RequestIs
<1>2. /\ job' = NULL /\ run' = Start(1) /\ up' = up /\ ctrl' = c
      /\ ans' = [status |-> status, data |-> IF status = "PASS" THEN got ELSE <<>>]
      /\ mmc' = [m EXCEPT !.write_pending = FALSE]
  BY <1>1 DEF Return
<1>3. FALSE \in BOOLEAN
  OBVIOUS
<1>4. /\ mmc' \in MmcRecord
      /\ mmc'.type = m.type /\ mmc'.ocr = m.ocr /\ ~mmc'.write_pending
  BY <1>2, <1>3 DEF MmcRecord
<1> QED BY <1>2, <1>4

-----------------------------------------------------------------------------
(* Types are kept.                                                          *)

World == card \in CardRecord /\ disk \in [Blocks -> Data] /\ trouble \subseteq {"FAULT", "BUSY"} /\ faults \in Nat

LEMMA ReturnTypes ==
  ASSUME Types, job # NULL, World', NEW c \in CtrlRecord, NEW m \in MmcRecord, NEW status, NEW got,
         Return(status, c, m, got)
  PROVE  Types'
<1>1. up' \in BOOLEAN
  <2>1. CASE job = SdInit
    <3>1. up' = (status = "PASS")
      BY <2>1, ReturnInit
    <3> QED BY <3>1, Zenon
  <2>2. CASE job \in Request
    BY <2>2, ReturnRequest DEF Types
  <2> QED BY <2>1, <2>2 DEF Types
<1>2. job' = NULL /\ run' = Start(1) /\ ctrl' \in CtrlRecord /\ mmc' \in MmcRecord
  <2>1. CASE job = SdInit
    BY <2>1, ReturnInit
  <2>2. CASE job \in Request
    BY <2>2, ReturnRequest
  <2> QED BY <2>1, <2>2 DEF Types
<1>3. run' \in RunRecord
  BY <1>2, StartIs
<1> QED BY <1>1, <1>2, <1>3 DEF Types, World

LEMMA ContinueTypes ==
  ASSUME Types, job # NULL, World', job' = job, up' = up, ctrl' \in CtrlRecord, mmc' \in MmcRecord,
         run' \in RunRecord, run'.pc \in 1 .. Len(Script),
         run'.stop > 0 /\ Script[run'.pc] = "WAIT" => run'.polls > 0,
         run'.stop > 0 /\ run'.then = "RESULT" => Script[run'.pc] = "DATA",
         job = SdInit /\ run'.pc \in {3, 4} => run'.loops < OpCondTries
  PROVE  Types'
<1>1. Script' = Script
  BY DEF Script, mmc_read_blocks, mmc_write_blocks
<1>2. Placed(run)'
  BY <1>1 DEF Placed
<1> QED BY <1>2 DEF Types, World

LEMMA ScriptIs ==
  ASSUME Types, job # NULL
  PROVE  /\ Len(Script) \in Nat /\ run.pc \in 1 .. Len(Script)
         /\ job = SdInit \/ job \in Request
         /\ \A i \in 1 .. Len(Script) : Script[i] \in {"CMD55", "ACMD41"} => job = SdInit /\ 1 < i /\ i < 16
<1>1. job = SdInit \/ job \in Request
  BY DEF Types
<1>2. CASE job = SdInit
  <2>1. Len(Script) = 16 /\ run.pc \in 1 .. Len(Script)
    BY <1>2, InitScript, Sizes DEF Types, Placed
  <2>2. Script[1] = "CMD0" /\ Script[16] = "WAIT"
    BY <1>2, InitScript
  <2>3. ASSUME NEW i \in 1 .. Len(Script), Script[i] \in {"CMD55", "ACMD41"} PROVE 1 < i /\ i < 16
    BY <2>1, <2>2, <2>3
  <2> QED BY <1>2, <2>1, <2>3
<1>3. CASE job \in Request
  <2>1. job.cnt \in Nat /\ Len(Script) \in Nat /\ run.pc \in 1 .. Len(Script)
    BY <1>3, RequestIs, RequestScript DEF Types, Placed
  <2>2. ASSUME NEW i \in 1 .. Len(Script) PROVE Script[i] \notin {"CMD55", "ACMD41"}
    BY <1>3, RequestScript
  <2> QED BY <1>1, <2>1, <2>2
<1> QED BY <1>1, <1>2, <1>3

LEMMA InitStep ==
  ASSUME Types, job = SdInit
  PROVE  /\ run.pc \in 1 .. 16 /\ Len(Script) = 16
         /\ run.pc = 1 => Step = "CMD0"
         /\ run.pc = 2 => Step = "CMD8"
         /\ run.pc = 3 => Step = "CMD55"
         /\ run.pc = 4 => Step = "ACMD41"
         /\ run.pc = 5 => Step = "CMD2"
         /\ run.pc = 6 => Step = "CMD3"
         /\ run.pc = 7 => Step = "CMD9"
         /\ run.pc = 8 => Step = "CMD7"
         /\ run.pc = 9 => Step = "WAIT"
         /\ run.pc = 10 => Step = "CMD16"
         /\ run.pc = 11 => Step = "CMD55"
         /\ run.pc = 12 => Step = "ACMD51"
         /\ run.pc = 13 => Step = "DATA"
         /\ run.pc = 14 => Step = "CMD55"
         /\ run.pc = 15 => Step = "ACMD6"
         /\ run.pc = 16 => Step = "WAIT"
BY InitScript, Sizes DEF Types, Placed, Step

\* Whatever follows a failed attempt keeps the types.
LEMMA FailureTypes ==
  ASSUME Types, job # NULL, World', NEW c \in CtrlRecord, NEW m \in MmcRecord,
         Step = "WAIT" => run.polls > 0,
         Halts(c, m) \/ Repeats(c, m) \/ GivesUp(c, m)
  PROVE  Types'
<1>1. CASE GivesUp(c, m)
  BY <1>1, ReturnTypes DEF GivesUp
<1>2. job = SdInit /\ run.pc \in {3, 4} => run.loops < OpCondTries /\ Step # "ACMD51"
  BY InitStep DEF Types, Placed
<1>3. CASE Halts(c, m)
  <2>1. /\ job' = job /\ up' = up /\ ctrl' \in CtrlRecord /\ mmc' \in MmcRecord
        /\ run' \in RunRecord /\ run'.pc = run.pc /\ run'.then = "RETRY" /\ run'.polls = run.polls
        /\ run'.loops = run.loops
    BY <1>3 DEF Halts, Stays
  <2>2. job = SdInit /\ run'.pc \in {3, 4} => run'.loops < OpCondTries
    BY <1>2, <2>1
  <2>3. run'.stop > 0 /\ Script[run'.pc] = "WAIT" => run'.polls > 0
    BY <2>1 DEF Step
  <2>4. run'.pc \in 1 .. Len(Script) /\ ~(run'.stop > 0 /\ run'.then = "RESULT")
    BY <2>1, ScriptIs
  <2> QED BY <2>1, <2>2, <2>3, <2>4, ContinueTypes
<1>4. CASE Repeats(c, m)
  <2>1. /\ job' = job /\ up' = up /\ ctrl' \in CtrlRecord /\ mmc' \in MmcRecord
        /\ run' \in RunRecord /\ run'.pc = run.pc /\ run'.stop = 0
        /\ Step # "ACMD51" => run'.loops = run.loops
    BY <1>4 DEF Repeats, Stays
  <2>2. job = SdInit /\ run'.pc \in {3, 4} => run'.loops < OpCondTries
    BY <1>2, <2>1
  <2>3. ~(run'.stop > 0) /\ run'.pc \in 1 .. Len(Script)
    BY <2>1, ScriptIs
  <2> QED BY <2>1, <2>2, <2>3, ContinueTypes
<1> QED BY <1>1, <1>3, <1>4

LEMMA DoneTypes ==
  ASSUME Types, job # NULL, World', NEW c \in CtrlRecord, NEW m \in MmcRecord, NEW got \in Seq(Data),
         StepDone(c, m, got)
  PROVE  Types'
<1>0. run \in RunRecord /\ run.pc \in 1 .. Len(Script) /\ Len(Script) \in Nat
  BY ScriptIs DEF Types
<1>1. CASE Advances(c, m, got) /\ run' \in RunRecord /\ run'.pc = run.pc + 1 /\ run'.stop = 0
  <2>1. /\ job' = job /\ up' = up /\ ctrl' \in CtrlRecord /\ mmc' \in MmcRecord
        /\ run' \in RunRecord /\ run'.pc \in 1 .. Len(Script) /\ ~(run'.stop > 0)
        /\ run' = [Start(run.pc + 1) EXCEPT !.got = got]
    BY <1>0, <1>1 DEF Advances
  <2>2. run'.loops < OpCondTries
    BY <2>1, Sizes DEF Start
  <2> QED BY <2>1, <2>2, ContinueTypes
<1>2. CASE Return("PASS", c, m, got)
  BY <1>2, ReturnTypes
<1> QED BY <1>0, <1>1, <1>2, DoneIs

LEMMA RequestStep ==
  ASSUME Types, job \in Request
  PROVE  /\ run.pc \in 1 .. 5
         /\ run.pc = 1 => Step = "CMD16"
         /\ run.pc = 2 => Step = IF job.op = "READ10" THEN ReadCommand ELSE WriteCommand
         /\ run.pc = 3 => Step = "DATA"
         /\ run.pc = 4 => Step = "WAIT"
         /\ run.pc = 5 => Step = "CMD12" /\ job.cnt > 1
         /\ Len(Script) = IF job.cnt > 1 THEN 5 ELSE 4
BY RequestScript, RequestIs, Sizes DEF Types, Placed, Step, ReadCommand, WriteCommand

LEMMA RequestLength ==
  ASSUME Types, job \in Request
  PROVE  Len(Script) \in Nat /\ 4 <= Len(Script) /\ (job.cnt > 1 <=> Len(Script) = 5)
<1>1. Len(Script) = (IF job.cnt > 1 THEN 5 ELSE 4) /\ job.cnt \in Nat
  BY RequestStep, RequestIs
<1> QED BY <1>1

LEMMA DoneMore ==
  ASSUME Types, job # NULL, run.pc < Len(Script), NEW c, NEW m, NEW got \in Seq(Data), StepDone(c, m, got)
  PROVE  /\ job' = job /\ up' = up /\ ans' = ans /\ ctrl' = c /\ mmc' = m
         /\ run' \in RunRecord /\ run'.pc = run.pc + 1 /\ run'.stop = 0
         /\ run'.then = "NONE" /\ run'.tries = CmdTries /\ run'.polls = MaxRetries /\ run'.got = got
<1>1. run \in RunRecord /\ run.pc \in 1 .. Len(Script) /\ Len(Script) \in Nat
  BY ScriptIs DEF Types
<1>2. run.pc # Len(Script)
  BY <1>1
<1>3. /\ Advances(c, m, got) /\ run' \in RunRecord /\ run'.pc = run.pc + 1 /\ run'.stop = 0
      /\ run'.then = "NONE" /\ run'.tries = CmdTries /\ run'.polls = MaxRetries /\ run'.got = got
  BY <1>1, <1>2, DoneIs
<1> QED BY <1>3 DEF Advances

LEMMA DataPlace ==
  ASSUME Types, job # NULL, Step = "DATA"
  PROVE  /\ run.pc < Len(Script)
         /\ job = SdInit => run.pc = 13
         /\ job \in Request => run.pc = 3
<1>1. CASE job = SdInit
  <2>1. run.pc \in 1 .. 16 /\ Len(Script) = 16
    BY <1>1, InitStep
  <2>2. CASE run.pc \in 1 .. 12
    <3>1. CASE run.pc \in 1 .. 6
      BY <1>1, <3>1, InitStep
    <3>2. CASE run.pc \in 7 .. 12
      BY <1>1, <3>2, InitStep
    <3> QED BY <2>2, <3>1, <3>2
  <2>3. CASE run.pc \in 14 .. 16
    BY <1>1, <2>3, InitStep
  <2>4. CASE run.pc = 13
    BY <1>1, <2>1, <2>4, RequestIs
  <2> QED BY <2>1, <2>2, <2>3, <2>4
<1>2. CASE job \in Request
  <2>1. run.pc \in 1 .. 5 /\ job.cnt \in Nat /\ Len(Script) = IF job.cnt > 1 THEN 5 ELSE 4
    BY <1>2, RequestStep, RequestIs
  <2>2. CASE run.pc = 2
    BY <1>2, <2>2, RequestStep DEF ReadCommand, WriteCommand
  <2>3. run.pc # 1 /\ run.pc # 4 /\ run.pc # 5
    BY <1>2, RequestStep
  <2>4. CASE run.pc = 3
    BY <1>2, <2>1, <2>4, RequestIs
  <2> QED BY <2>1, <2>2, <2>3, <2>4
<1> QED BY <1>1, <1>2, ScriptIs

LEMMA AnswerSame ==
  ASSUME Types, job # NULL, Step \in Commands, NEW a \in Answers(Step)
  PROVE  Same(a)
<1>1. card \in CardRecord
  BY DEF Types
<1>2. CASE job = SdInit
  <2>1. Step \in {"CMD0", "CMD8", "CMD55", "ACMD41", "CMD2", "CMD3", "CMD9", "CMD7", "CMD16", "ACMD51", "ACMD6"}
    <3>1. CASE run.pc \in 1 .. 8
      BY <1>2, <3>1, InitStep
    <3>2. CASE run.pc \in 9 .. 16
      BY <1>2, <3>2, InitStep DEF Commands
    <3> QED BY <1>2, <3>1, <3>2, InitStep
  <2>2. CASE Step \in {"CMD0", "CMD8", "CMD55", "ACMD41"}
    BY <1>1, <2>2, AnswerCMD0, AnswerCMD8, AnswerCMD55, AnswerACMD41
  <2>3. CASE Step \in {"CMD2", "CMD3", "CMD9", "CMD7"}
    BY <1>1, <2>3, AnswerCMD2, AnswerCMD3, AnswerCMD9, AnswerCMD7
  <2>4. CASE Step \in {"CMD16", "ACMD51", "ACMD6"}
    BY <1>1, <2>4, AnswerCMD16, AnswerACMD51, AnswerACMD6
  <2> QED BY <2>1, <2>2, <2>3, <2>4
<1>3. CASE job \in Request
  <2>1. Step \in {"CMD16", "CMD12", ReadCommand, WriteCommand}
    BY <1>3, RequestStep DEF Commands
  <2> QED BY <1>1, <2>1, AnswerCMD16, AnswerCMD12, AnswerRead, AnswerWrite
<1> QED BY <1>2, <1>3, ScriptIs

(* One command: its fault, its answer and what follows.                     *)
Accepted(f, a) == Step = "CMD0" \/ (f = "NONE" /\ a.ok)
CommandOf(f, a) ==
  /\ f = "NONE" \/ (f \in {"CMD_LOST", "RESP_LOST"} /\ faults < MaxFaults)
  /\ a \in Answers(Step) /\ Same(a)
  /\ disk' = disk /\ card' = (IF f = "CMD_LOST" THEN card ELSE a.card)
  /\ f = "NONE" => faults' = faults
  /\ f # "NONE" => faults' = faults + 1
  /\ trouble' = {} => /\ trouble = {} /\ f = "NONE"
                      /\ ~(~Accepted(f, a) /\ LeftBusy)
                      /\ ~(Step = "ACMD41" /\ Accepted(f, a) /\ a.card.state = "idle")

LEMMA CommandIs ==
  ASSUME Types, Command
  PROVE  /\ job # NULL /\ run.stop = 0 /\ Step \in Commands /\ Step # "WAIT"
         /\ \E f, a : /\ CommandOf(f, a) /\ World'
                      /\ \/ Accepted(f, a) /\ CommandDone(Sent(Step), Noted(Step), a.card)
                         \/ /\ ~Accepted(f, a)
                            /\ \/ Halts(Sent(Step), Noted(Step))
                               \/ /\ ~Sent(Step).active
                                  /\ Repeats(Sent(Step), Noted(Step)) \/ GivesUp(Sent(Step), Noted(Step))
<1>1. job # NULL /\ run.stop = 0 /\ Step \in Commands /\ Step # "WAIT"
  BY DEF Command, Doing, Commands
<1>2. PICK f \in Fault({"CMD_LOST", "RESP_LOST"}), a \in Answers(Step) :
        /\ card' = (IF f = "CMD_LOST" THEN card ELSE a.card)
        /\ Blame(f, \/ ~Accepted(f, a) /\ LeftBusy
                    \/ Step = "ACMD41" /\ Accepted(f, a) /\ a.card.state = "idle")
        /\ IF Accepted(f, a) THEN CommandDone(Sent(Step), Noted(Step), a.card)
                             ELSE CommandFailed(Sent(Step), Noted(Step))
  BY DEF Command, Accepted
<1>3. Same(a) /\ a \in Answers(Step)
  BY <1>1, AnswerSame
<1>4. disk' = disk /\ faults \in Nat /\ trouble \subseteq {"FAULT", "BUSY"} /\ run \in RunRecord
  BY DEF Command, Types
<1>5. f = "NONE" \/ (f \in {"CMD_LOST", "RESP_LOST"} /\ faults < MaxFaults)
  BY <1>4, FaultIs
<1>6. /\ faults' \in Nat /\ trouble' \subseteq {"FAULT", "BUSY"}
      /\ f = "NONE" => faults' = faults
      /\ f # "NONE" => faults' = faults + 1
      /\ trouble' = {} => /\ trouble = {} /\ f = "NONE"
                          /\ ~(~Accepted(f, a) /\ LeftBusy)
                          /\ ~(Step = "ACMD41" /\ Accepted(f, a) /\ a.card.state = "idle")
  <2>1. PICK met : met = (\/ ~Accepted(f, a) /\ LeftBusy
                          \/ Step = "ACMD41" /\ Accepted(f, a) /\ a.card.state = "idle")
    OBVIOUS
  <2>2. met \in BOOLEAN
    BY <2>1, Zenon
  <2>3. Blame(f, met)
    BY <1>2, <2>1, Zenon
  <2>4. /\ faults' \in Nat /\ trouble' \subseteq {"FAULT", "BUSY"}
        /\ f = "NONE" => faults' = faults
        /\ f # "NONE" => faults' = faults + 1
        /\ trouble' = {} => trouble = {} /\ f = "NONE" /\ ~met
    BY <1>4, <2>2, <2>3, BlameIs
  <2> QED BY <2>1, <2>4, Zenon
<1>7. CommandOf(f, a)
  BY <1>2, <1>3, <1>4, <1>5, <1>6, Zenon DEF CommandOf
<1>8. World'
  BY <1>2, <1>3, <1>4, <1>6 DEF World, Same, Types
<1>9. CASE Accepted(f, a)
  BY <1>1, <1>2, <1>7, <1>8, <1>9, Zenon
<1>10. CASE ~Accepted(f, a)
  <2>1. CommandFailed(Sent(Step), Noted(Step))
    BY <1>2, <1>10, Zenon
  <2>2. \/ Halts(Sent(Step), Noted(Step))
        \/ /\ ~Sent(Step).active
           /\ Repeats(Sent(Step), Noted(Step)) \/ GivesUp(Sent(Step), Noted(Step))
    BY <1>1, <1>4, <2>1, FailedIs
  <2> QED BY <1>1, <1>7, <1>8, <1>10, <2>2, Zenon
<1> QED BY <1>9, <1>10

(* A command that succeeded: what the framework goes on with.               *)
LEMMA CommandDoneIs ==
  ASSUME Types, job # NULL, NEW c, NEW m, NEW after, CommandDone(c, m, after)
  PROVE  \/ Step = "CMD16" /\ StepDone(Prepared(c, m), m, run.got)
         \/ /\ Step = "ACMD41" /\ after.state = "ready"
            /\ StepDone(c, [m EXCEPT !.type = card.type, !.ocr = CardUnit], run.got)
         \/ /\ Step = "ACMD41" /\ after.state # "ready" /\ run.loops + 1 < OpCondTries
            /\ Continue([Start(run.pc - 1) EXCEPT !.loops = run.loops + 1], c, m)
         \/ Step = "ACMD41" /\ after.state # "ready" /\ Return("FAIL", c, m, <<>>)
         \/ Step = "CMD55" /\ Continue([Start(run.pc + 1) EXCEPT !.loops = run.loops], c, m)
         \/ Step \notin {"CMD16", "ACMD41", "CMD55"} /\ StepDone(c, m, run.got)
<1>1. CASE Step = "CMD16"
  BY <1>1 DEF CommandDone
<1>2. CASE Step = "ACMD41" /\ after.state = "ready"
  BY <1>2 DEF CommandDone
<1>3. CASE Step = "ACMD41" /\ after.state # "ready"
  <2>1. job = SdInit /\ run.pc = 4 /\ run.loops < OpCondTries /\ run.loops \in Nat /\ OpCondTries \in Nat
    <3>1. job = SdInit
      BY <1>3, ScriptIs DEF Step
    <3>2. run.pc = 4
      <4>1. CASE run.pc \in 1 .. 8
        BY <1>3, <3>1, <4>1, InitStep
      <4>2. CASE run.pc \in 9 .. 16
        BY <1>3, <3>1, <4>2, InitStep
      <4> QED BY <3>1, <4>1, <4>2, InitStep
    <3> QED BY <3>1, <3>2, Sizes, RunIs DEF Types, Placed
  <2>2. run.loops + 1 < OpCondTries \/ run.loops + 1 = OpCondTries
    BY <2>1
  <2>3. CASE run.loops + 1 < OpCondTries
    BY <1>3, <2>3 DEF CommandDone
  <2>4. CASE run.loops + 1 = OpCondTries
    <3>1. ~(run.loops + 1 < OpCondTries)
      BY <2>1, <2>4
    <3>2. Return("FAIL", c, m, <<>>)
      BY <1>3, <2>4, <3>1, Zenon DEF CommandDone
    <3> QED BY <1>3, <3>2
  <2> QED BY <2>2, <2>3, <2>4
<1>4. CASE Step = "CMD55"
  BY <1>4 DEF CommandDone
<1>5. CASE Step \notin {"CMD16", "ACMD41", "CMD55"}
  BY <1>5 DEF CommandDone
<1> QED BY <1>1, <1>2, <1>3, <1>4, <1>5

LEMMA CardUnitIs == CardUnit \in {"BYTE", "SECTOR"}
BY DEF CardUnit

LEMMA PreparedIs ==
  ASSUME NEW c \in CtrlRecord, NEW m \in MmcRecord
  PROVE  /\ Prepared(c, m) \in CtrlRecord /\ Prepared(c, m).wide = c.wide /\ Prepared(c, m).active = c.active
         /\ m.write_pending => Prepared(c, m).dir = "WRITE"
         /\ ~m.write_pending => Prepared(c, m).dir = "READ"
BY DEF Prepared, CtrlRecord

LEMMA TypedIs ==
  ASSUME Types, NEW m \in MmcRecord
  PROVE  LET n == [m EXCEPT !.type = card.type, !.ocr = CardUnit]
         IN  n \in MmcRecord /\ n.type = card.type /\ n.ocr = CardUnit /\ n.write_pending = m.write_pending
BY CardUnitIs DEF Types, CardRecord, MmcRecord

LEMMA CommandTypes ==
  ASSUME Types, Command
  PROVE  Types'
<1>1. job # NULL /\ run.stop = 0 /\ Step # "WAIT"
  BY CommandIs
<1>2. PICK f, a : /\ CommandOf(f, a) /\ World'
                  /\ \/ Accepted(f, a) /\ CommandDone(Sent(Step), Noted(Step), a.card)
                     \/ /\ ~Accepted(f, a)
                        /\ \/ Halts(Sent(Step), Noted(Step))
                           \/ /\ ~Sent(Step).active
                              /\ Repeats(Sent(Step), Noted(Step)) \/ GivesUp(Sent(Step), Noted(Step))
  BY CommandIs
<1>3. PICK c, m : c = Sent(Step) /\ m = Noted(Step)
  OBVIOUS
<1>4. c \in CtrlRecord /\ m \in MmcRecord
  BY <1>3, SentIs, NotedIs DEF Types
<1>5. run.got \in Seq(Data) /\ run.pc \in 1 .. Len(Script) /\ run.loops \in 0 .. Rounds /\ Len(Script) \in Nat
  BY <1>1, RunIs, ScriptIs DEF Types
<1>6. CASE Halts(c, m) \/ Repeats(c, m) \/ GivesUp(c, m)
  BY <1>1, <1>2, <1>4, <1>6, FailureTypes
<1>7. CASE CommandDone(c, m, a.card)
  <2>1. CASE Step = "CMD16" /\ StepDone(Prepared(c, m), m, run.got)
    BY <1>1, <1>2, <1>4, <1>5, <2>1, PreparedIs, DoneTypes
  <2>2. CASE StepDone(c, [m EXCEPT !.type = card.type, !.ocr = CardUnit], run.got)
    BY <1>1, <1>2, <1>4, <1>5, <2>2, TypedIs, DoneTypes
  <2>3. CASE StepDone(c, m, run.got)
    BY <1>1, <1>2, <1>4, <1>5, <2>3, DoneTypes
  <2>4. CASE Return("FAIL", c, m, <<>>)
    BY <1>1, <1>2, <1>4, <2>4, ReturnTypes
  <2>5. CASE /\ Step = "ACMD41" /\ run.loops + 1 < OpCondTries
             /\ Continue([Start(run.pc - 1) EXCEPT !.loops = run.loops + 1], c, m)
    <3>1. 1 < run.pc /\ run.pc - 1 \in Nat
      BY <1>1, <1>5, <2>5, ScriptIs DEF Step
    <3>2. run.loops + 1 \in 0 .. Rounds
      BY <1>5, <2>5, Sizes
    <3>3. Start(run.pc - 1) \in RunRecord /\ Start(run.pc - 1).pc = run.pc - 1 /\ Start(run.pc - 1).stop = 0
      BY <3>1, StartIs
    <3>4. /\ run' = [Start(run.pc - 1) EXCEPT !.loops = run.loops + 1]
          /\ job' = job /\ up' = up /\ ctrl' \in CtrlRecord /\ mmc' \in MmcRecord
      BY <1>4, <2>5 DEF Continue
    <3>5. run' \in RunRecord /\ run'.pc = run.pc - 1 /\ run'.stop = 0 /\ run'.loops = run.loops + 1
      BY <3>2, <3>3, <3>4 DEF RunRecord
    <3>6. run'.pc \in 1 .. Len(Script) /\ ~(run'.stop > 0) /\ run'.loops < OpCondTries
      BY <1>5, <2>5, <3>1, <3>5
    <3> QED BY <1>1, <1>2, <3>4, <3>5, <3>6, ContinueTypes
  <2>6. CASE Step = "CMD55" /\ Continue([Start(run.pc + 1) EXCEPT !.loops = run.loops], c, m)
    <3>1. job = SdInit /\ run.pc < 16 /\ run.pc + 1 \in Nat /\ Len(Script) = 16
      BY <1>1, <1>5, <2>6, ScriptIs, InitStep DEF Step
    <3>2. Start(run.pc + 1) \in RunRecord /\ Start(run.pc + 1).pc = run.pc + 1 /\ Start(run.pc + 1).stop = 0
      BY <3>1, StartIs
    <3>3. /\ run' = [Start(run.pc + 1) EXCEPT !.loops = run.loops]
          /\ job' = job /\ up' = up /\ ctrl' \in CtrlRecord /\ mmc' \in MmcRecord
      BY <1>4, <2>6 DEF Continue
    <3>4. run' \in RunRecord /\ run'.pc = run.pc + 1 /\ run'.stop = 0 /\ run'.loops = run.loops
      BY <1>5, <3>2, <3>3 DEF RunRecord
    <3>5. run'.pc \in 1 .. Len(Script) /\ ~(run'.stop > 0)
      <4>1. run.pc \in 1 .. 16 /\ run.pc < 16
        BY <1>5, <3>1
      <4>2. run.pc + 1 \in 1 .. 16
        BY <4>1
      <4> QED BY <3>1, <3>4, <4>2
    <3>6. run'.pc \in {3, 4} => run'.loops < OpCondTries
      <4>1. run.pc # 2
        BY <2>6, <3>1, InitStep
      <4>2. run'.pc \in {3, 4} => run.pc = 3
        BY <1>5, <3>4, <4>1
      <4>3. job = SdInit /\ run.pc \in {3, 4} => run.loops < OpCondTries
        BY <1>1 DEF Types, Placed
      <4> QED BY <3>1, <3>4, <4>2, <4>3
    <3> QED BY <1>1, <1>2, <3>3, <3>4, <3>5, <3>6, ContinueTypes
  <2> QED BY <1>1, <1>7, <2>1, <2>2, <2>3, <2>4, <2>5, <2>6, CommandDoneIs
<1> QED BY <1>2, <1>3, <1>6, <1>7

LEMMA WaitIs ==
  ASSUME Types, Wait
  PROVE  /\ job # NULL /\ run.stop = 0 /\ Step = "WAIT" /\ run.polls > 0 /\ disk' = disk
         /\ \E f, a :
              /\ f = "NONE" \/ (f \in {"CMD_LOST", "RESP_LOST"} /\ faults < MaxFaults)
              /\ a \in Answers("CMD13") /\ Same(a) /\ World'
              /\ card' = (IF f = "CMD_LOST" THEN card ELSE a.card)
              /\ f = "NONE" => faults' = faults
              /\ f # "NONE" => faults' = faults + 1
              /\ trouble' = {} => trouble = {} /\ f = "NONE"
              /\ \/ (f # "NONE" \/ ~a.ok) /\ CommandFailed(Sent("CMD13"), Noted("CMD13"))
                 \/ /\ f = "NONE" /\ a.ok /\ card.state = "prg" /\ card.burst = "many"
                    /\ AttemptFailed(Sent("CMD13"), Noted("CMD13"))
                 \/ /\ f = "NONE" /\ a.ok /\ Settled(card.state)
                    /\ StepDone(Sent("CMD13"), Noted("CMD13"), run.got)
                 \/ /\ f = "NONE" /\ a.ok /\ ~Settled(card.state)
                    /\ Continue([run EXCEPT !.polls = MaxRetries], Sent("CMD13"), Noted("CMD13"))
<1>1. job # NULL /\ run.stop = 0 /\ Step = "WAIT" /\ run.polls > 0 /\ disk' = disk
  BY DEF Wait, Doing
<1>2. PICK f \in Fault({"CMD_LOST", "RESP_LOST"}), a \in Answers("CMD13"),
           ready \in IF card.state = "prg" /\ card.burst = "many" THEN BOOLEAN ELSE {TRUE} :
        /\ card' = (IF f = "CMD_LOST" THEN card ELSE a.card)
        /\ Blame(f, FALSE)
        /\ CASE f # "NONE" \/ ~a.ok -> CommandFailed(Sent("CMD13"), Noted("CMD13"))
             [] f = "NONE" /\ a.ok /\ ~ready -> AttemptFailed(Sent("CMD13"), Noted("CMD13"))
             [] f = "NONE" /\ a.ok /\ ready /\ Settled(card.state) ->
                  StepDone(Sent("CMD13"), Noted("CMD13"), run.got)
             [] OTHER -> Continue([run EXCEPT !.polls = MaxRetries], Sent("CMD13"), Noted("CMD13"))
  BY DEF Wait
<1>3. faults \in Nat /\ trouble \subseteq {"FAULT", "BUSY"} /\ card \in CardRecord /\ FALSE \in BOOLEAN
  BY DEF Types
<1>4. f = "NONE" \/ (f \in {"CMD_LOST", "RESP_LOST"} /\ faults < MaxFaults)
  BY <1>3, FaultIs
<1>5. Same(a)
  BY <1>3, AnswerCMD13
<1>6. /\ faults' \in Nat /\ trouble' \subseteq {"FAULT", "BUSY"}
      /\ f = "NONE" => faults' = faults
      /\ f # "NONE" => faults' = faults + 1
      /\ trouble' = {} => trouble = {} /\ f = "NONE"
  BY <1>2, <1>3, BlameIs
<1>7. World'
  BY <1>1, <1>2, <1>5, <1>6 DEF World, Same, Types
<1>8. \/ (f # "NONE" \/ ~a.ok) /\ CommandFailed(Sent("CMD13"), Noted("CMD13"))
      \/ f = "NONE" /\ a.ok /\ ~ready /\ AttemptFailed(Sent("CMD13"), Noted("CMD13"))
      \/ /\ f = "NONE" /\ a.ok /\ Settled(card.state)
         /\ StepDone(Sent("CMD13"), Noted("CMD13"), run.got)
      \/ /\ f = "NONE" /\ a.ok /\ ~Settled(card.state)
         /\ Continue([run EXCEPT !.polls = MaxRetries], Sent("CMD13"), Noted("CMD13"))
  <2>1. CASE f # "NONE" \/ ~a.ok
    BY <1>2, <2>1, Zenon
  <2>2. CASE f = "NONE" /\ a.ok /\ ~ready
    BY <1>2, <2>2, Zenon
  <2>3. CASE f = "NONE" /\ a.ok /\ ready /\ Settled(card.state)
    BY <1>2, <2>3, Zenon
  <2>4. CASE f = "NONE" /\ a.ok /\ ready /\ ~Settled(card.state)
    BY <1>2, <2>4, Zenon
  <2> QED BY <2>1, <2>2, <2>3, <2>4
<1>9. ~ready => card.state = "prg" /\ card.burst = "many"
  BY <1>2
<1>10. /\ f = "NONE" \/ (f \in {"CMD_LOST", "RESP_LOST"} /\ faults < MaxFaults)
       /\ a \in Answers("CMD13") /\ Same(a) /\ World'
       /\ card' = (IF f = "CMD_LOST" THEN card ELSE a.card)
       /\ f = "NONE" => faults' = faults
       /\ f # "NONE" => faults' = faults + 1
       /\ trouble' = {} => trouble = {} /\ f = "NONE"
  BY <1>2, <1>4, <1>5, <1>6, <1>7
<1>11. \/ (f # "NONE" \/ ~a.ok) /\ CommandFailed(Sent("CMD13"), Noted("CMD13"))
       \/ /\ f = "NONE" /\ a.ok /\ card.state = "prg" /\ card.burst = "many"
          /\ AttemptFailed(Sent("CMD13"), Noted("CMD13"))
       \/ /\ f = "NONE" /\ a.ok /\ Settled(card.state)
          /\ StepDone(Sent("CMD13"), Noted("CMD13"), run.got)
       \/ /\ f = "NONE" /\ a.ok /\ ~Settled(card.state)
          /\ Continue([run EXCEPT !.polls = MaxRetries], Sent("CMD13"), Noted("CMD13"))
  BY <1>8, <1>9, Zenon
<1> QED BY <1>1, <1>10, <1>11, Zenon

LEMMA WaitTypes ==
  ASSUME Types, Wait
  PROVE  Types'
<1>1. job # NULL /\ run.stop = 0 /\ Step = "WAIT" /\ run.polls > 0
  BY WaitIs
<1>2. PICK a : /\ World'
               /\ \/ CommandFailed(Sent("CMD13"), Noted("CMD13"))
                  \/ AttemptFailed(Sent("CMD13"), Noted("CMD13"))
                  \/ StepDone(Sent("CMD13"), Noted("CMD13"), run.got)
                  \/ Continue([run EXCEPT !.polls = MaxRetries], Sent("CMD13"), Noted("CMD13"))
  BY WaitIs, Zenon
<1>3. PICK c, m : c = Sent("CMD13") /\ m = Noted("CMD13")
  OBVIOUS
<1>4. c \in CtrlRecord /\ m \in MmcRecord /\ run \in RunRecord
  BY <1>3, SentIs, NotedIs DEF Types
<1>5. run.got \in Seq(Data) /\ run.pc \in 1 .. Len(Script)
  BY <1>1, <1>4, RunIs, ScriptIs
<1>6. CASE CommandFailed(c, m)
  BY <1>1, <1>2, <1>4, <1>6, FailedIs, FailureTypes
<1>7. CASE AttemptFailed(c, m)
  BY <1>1, <1>2, <1>4, <1>7, AttemptIs, FailureTypes
<1>8. CASE StepDone(c, m, run.got)
  BY <1>1, <1>2, <1>4, <1>5, <1>8, DoneTypes
<1>9. CASE Continue([run EXCEPT !.polls = MaxRetries], c, m)
  <2>1. /\ run' = [run EXCEPT !.polls = MaxRetries] /\ MaxRetries \in 0 .. MaxRetries
        /\ job' = job /\ up' = up /\ ctrl' \in CtrlRecord /\ mmc' \in MmcRecord
    BY <1>4, <1>9, Sizes DEF Continue
  <2>2. run' \in RunRecord /\ run'.pc = run.pc /\ run'.stop = 0 /\ run'.loops = run.loops
    BY <1>1, <1>4, <2>1 DEF RunRecord
  <2>3. job = SdInit /\ run'.pc \in {3, 4} => run'.loops < OpCondTries
    BY <1>1, <2>2 DEF Types, Placed
  <2>4. ~(run'.stop > 0)
    BY <2>2
  <2> QED BY <1>1, <1>2, <1>5, <2>1, <2>2, <2>3, <2>4, ContinueTypes
<1> QED BY <1>2, <1>3, <1>6, <1>7, <1>8, <1>9

LEMMA StopIs ==
  ASSUME Types, StopTransfer
  PROVE  /\ job # NULL /\ run.stop > 0 /\ disk' = disk /\ (Step = "WAIT" => run.polls > 0)
         /\ \E f, a :
              /\ f = "NONE" \/ (f \in {"CMD_LOST", "RESP_LOST"} /\ faults < MaxFaults)
              /\ a \in Answers("CMD12") /\ Same(a) /\ World'
              /\ card' = (IF f = "CMD_LOST" THEN card ELSE a.card)
              /\ f = "NONE" => faults' = faults
              /\ f # "NONE" => faults' = faults + 1
              /\ trouble' = {} => trouble = {}
              /\ \/ /\ ~(f = "NONE" /\ a.ok) /\ run.stop > 1
                    /\ Continue([run EXCEPT !.stop = run.stop - 1], Sent("CMD12"), Noted("CMD12"))
                 \/ /\ (f = "NONE" /\ a.ok) \/ run.stop = 1
                    /\ \/ AttemptFailed(Sent("CMD12"), Noted("CMD12"))
                       \/ Return("FAIL", Sent("CMD12"), Noted("CMD12"), <<>>)
                 \/ /\ f = "NONE" /\ a.ok /\ run.then = "RESULT"
                    /\ StepDone(Sent("CMD12"), Noted("CMD12"), run.got)
<1>1. job # NULL /\ run.stop > 0 /\ disk' = disk
  BY DEF StopTransfer
<1>2. PICK f \in Fault({"CMD_LOST", "RESP_LOST"}), a \in Answers("CMD12") :
        /\ card' = (IF f = "CMD_LOST" THEN card ELSE a.card)
        /\ Blame(f, FALSE)
        /\ CASE ~(f = "NONE" /\ a.ok) /\ run.stop > 1 ->
                  Continue([run EXCEPT !.stop = run.stop - 1], Sent("CMD12"), Noted("CMD12"))
             [] ((f = "NONE" /\ a.ok) \/ run.stop = 1) /\ run.then = "RETRY" ->
                  AttemptFailed(Sent("CMD12"), Noted("CMD12"))
             [] ((f = "NONE" /\ a.ok) \/ run.stop = 1) /\ run.then = "FAIL" ->
                  Return("FAIL", Sent("CMD12"), Noted("CMD12"), <<>>)
             [] (f = "NONE" /\ a.ok) /\ run.then = "RESULT" ->
                  StepDone(Sent("CMD12"), Noted("CMD12"), run.got)
             [] OTHER -> Return("FAIL", Sent("CMD12"), Noted("CMD12"), <<>>)
  BY DEF StopTransfer
<1>3. faults \in Nat /\ trouble \subseteq {"FAULT", "BUSY"} /\ card \in CardRecord /\ FALSE \in BOOLEAN
  BY DEF Types
<1>4. f = "NONE" \/ (f \in {"CMD_LOST", "RESP_LOST"} /\ faults < MaxFaults)
  BY <1>3, FaultIs
<1>5. Same(a)
  BY <1>3, AnswerCMD12
<1>6. /\ faults' \in Nat /\ trouble' \subseteq {"FAULT", "BUSY"}
      /\ f = "NONE" => faults' = faults
      /\ f # "NONE" => faults' = faults + 1
      /\ trouble' = {} => trouble = {}
  BY <1>2, <1>3, BlameIs
<1>7. World'
  BY <1>1, <1>2, <1>5, <1>6 DEF World, Same, Types
<1>8. PICK ok \in BOOLEAN : ok = (f = "NONE" /\ a.ok)
  OBVIOUS
<1>9. (run.stop > 1 /\ run.stop # 1) \/ (run.stop = 1 /\ ~(run.stop > 1))
  BY <1>1, RunIs DEF Types
<1>10. \/ ~ok /\ run.stop > 1 /\ Continue([run EXCEPT !.stop = run.stop - 1], Sent("CMD12"), Noted("CMD12"))
       \/ /\ ok \/ run.stop = 1
          /\ \/ AttemptFailed(Sent("CMD12"), Noted("CMD12"))
             \/ Return("FAIL", Sent("CMD12"), Noted("CMD12"), <<>>)
       \/ ok /\ run.then = "RESULT" /\ StepDone(Sent("CMD12"), Noted("CMD12"), run.got)
  <2>1. CASE ~ok /\ run.stop > 1
    BY <1>2, <1>8, <2>1, Zenon
  <2>2. CASE (ok \/ run.stop = 1) /\ ~(~ok /\ run.stop > 1) /\ run.then = "RETRY"
    <3>1. run.then # "FAIL" /\ run.then # "RESULT"
      BY <2>2
    <3> QED BY <1>2, <1>8, <2>2, <3>1, Zenon
  <2>3. CASE (ok \/ run.stop = 1) /\ ~(~ok /\ run.stop > 1) /\ run.then = "FAIL"
    <3>1. run.then # "RETRY" /\ run.then # "RESULT"
      BY <2>3
    <3> QED BY <1>2, <1>8, <2>3, <3>1, Zenon
  <2>4. CASE ok /\ run.then = "RESULT"
    <3>1. run.then # "RETRY" /\ run.then # "FAIL"
      BY <2>4
    <3> QED BY <1>2, <1>8, <2>4, <3>1, Zenon
  <2>5. CASE /\ (ok \/ run.stop = 1) /\ ~(~ok /\ run.stop > 1)
             /\ run.then # "RETRY" /\ run.then # "FAIL" /\ ~(ok /\ run.then = "RESULT")
    BY <1>2, <1>8, <2>5, Zenon
  <2> QED BY <1>9, <2>1, <2>2, <2>3, <2>4, <2>5, Zenon
<1>11. Step = "WAIT" => run.polls > 0
  BY <1>1 DEF Types, Placed, Step
<1>12. /\ f = "NONE" \/ (f \in {"CMD_LOST", "RESP_LOST"} /\ faults < MaxFaults)
       /\ a \in Answers("CMD12") /\ Same(a) /\ World'
       /\ card' = (IF f = "CMD_LOST" THEN card ELSE a.card)
       /\ f = "NONE" => faults' = faults
       /\ f # "NONE" => faults' = faults + 1
       /\ trouble' = {} => trouble = {}
  BY <1>2, <1>4, <1>5, <1>6, <1>7
<1> QED BY <1>1, <1>8, <1>10, <1>11, <1>12, Zenon

LEMMA StopTypes ==
  ASSUME Types, StopTransfer
  PROVE  Types'
<1>1. job # NULL /\ run.stop > 0 /\ (Step = "WAIT" => run.polls > 0)
  BY StopIs
<1>2. PICK a : /\ World'
               /\ \/ /\ run.stop > 1
                     /\ Continue([run EXCEPT !.stop = run.stop - 1], Sent("CMD12"), Noted("CMD12"))
                  \/ AttemptFailed(Sent("CMD12"), Noted("CMD12"))
                  \/ Return("FAIL", Sent("CMD12"), Noted("CMD12"), <<>>)
                  \/ StepDone(Sent("CMD12"), Noted("CMD12"), run.got)
  BY StopIs, Zenon
<1>3. PICK c, m : c = Sent("CMD12") /\ m = Noted("CMD12")
  OBVIOUS
<1>4. c \in CtrlRecord /\ m \in MmcRecord /\ run \in RunRecord
  BY <1>3, SentIs, NotedIs DEF Types
<1>5. run.got \in Seq(Data) /\ run.pc \in 1 .. Len(Script) /\ run.stop \in 0 .. CmdTries
  BY <1>1, <1>4, RunIs, ScriptIs
<1>6. CASE AttemptFailed(c, m)
  BY <1>1, <1>2, <1>4, <1>6, AttemptIs, FailureTypes
<1>7. CASE StepDone(c, m, run.got)
  BY <1>1, <1>2, <1>4, <1>5, <1>7, DoneTypes
<1>8. CASE Return("FAIL", c, m, <<>>)
  BY <1>1, <1>2, <1>4, <1>8, ReturnTypes
<1>9. CASE run.stop > 1 /\ Continue([run EXCEPT !.stop = run.stop - 1], c, m)
  <2>1. run.stop - 1 \in 0 .. CmdTries
    BY <1>5, <1>9, Sizes
  <2>2. /\ run' = [run EXCEPT !.stop = run.stop - 1]
        /\ job' = job /\ up' = up /\ ctrl' \in CtrlRecord /\ mmc' \in MmcRecord
    BY <1>4, <1>9 DEF Continue
  <2>3. /\ run' \in RunRecord /\ run'.pc = run.pc /\ run'.then = run.then /\ run'.loops = run.loops
        /\ run'.polls = run.polls
    BY <1>4, <2>1, <2>2 DEF RunRecord
  <2>4. Placed(run)
    BY <1>1 DEF Types
  <2>5. /\ Script[run.pc] = "WAIT" => run.polls > 0
        /\ run.then = "RESULT" => Script[run.pc] = "DATA"
        /\ job = SdInit /\ run.pc \in {3, 4} => run.loops < OpCondTries
    BY <1>1, <2>4 DEF Placed
  <2> QED BY <1>1, <1>2, <1>5, <2>2, <2>3, <2>5, ContinueTypes
<1> QED BY <1>2, <1>3, <1>6, <1>7, <1>8, <1>9

LEMMA StoredIs ==
  ASSUME Types, job # NULL, Direction = "WRITE", NEW blocks
  PROVE  Stored(blocks) \in [Blocks -> Data]
<1>1. job \in Request /\ job.op = "WRITE10"
  BY ScriptIs, InitScript DEF Direction
<1>2. job.val \in Data
  BY <1>1, RequestIs
<1> QED BY <1>2 DEF Stored, Types

LEMMA GotIs ==
  ASSUME Types, job # NULL, job.op = "READ10"
  PROVE  [i \in 1 .. job.cnt |-> disk[job.lba + i - 1]] \in Seq(Data)
<1>1. job \in Request
  BY ScriptIs, InitScript
<1>2. job.lba \in Nat /\ job.cnt \in Nat \ {0} /\ job.lba + job.cnt <= NumBlocks
  BY <1>1, RequestIs
<1>3. ASSUME NEW i \in 1 .. job.cnt PROVE disk[job.lba + i - 1] \in Data
  <2>1. job.lba + i - 1 \in Blocks
    BY <1>2, Sizes DEF Blocks
  <2> QED BY <2>1 DEF Types
<1> QED BY <1>2, <1>3

Got == IF job.op = "READ10" THEN [i \in 1 .. job.cnt |-> disk[job.lba + i - 1]] ELSE <<>>

LEMMA DataDoneIs ==
  ASSUME Types, DataDone
  PROVE  /\ job # NULL /\ run.stop = 0 /\ Step = "DATA" /\ Moving /\ card' = Moved /\ World'
         /\ Got \in Seq(Data)
         /\ Direction = "READ" => disk' = disk
         /\ Direction = "WRITE" => \E stored : /\ stored \subseteq Asked /\ disk' = Stored(stored)
                                               /\ ~StatusErrors => stored = Asked
         /\ \/ /\ faults' = faults /\ trouble' = trouble
               /\ StepDone([ctrl EXCEPT !.active = FALSE], mmc, Got)
            \/ /\ faults < MaxFaults /\ faults' = faults + 1 /\ trouble' # {}
               /\ Continue([run EXCEPT !.stop = CmdTries, !.then = "RESULT", !.got = Got], ctrl, mmc)
<1>1. job # NULL /\ run.stop = 0 /\ Step = "DATA" /\ Moving /\ card' = Moved
  BY DEF DataDone, Doing
<1>2. PICK f \in Fault({"LINGER"}) : Blame(f, FALSE) /\ Ended(f)
  BY DEF DataDone
<1>3. faults \in Nat /\ trouble \subseteq {"FAULT", "BUSY"} /\ card \in CardRecord /\ FALSE \in BOOLEAN
  BY DEF Types
<1>4. f = "NONE" \/ (f = "LINGER" /\ faults < MaxFaults)
  BY <1>3, FaultIs
<1>5. /\ faults' \in Nat /\ trouble' \subseteq {"FAULT", "BUSY"}
      /\ f = "NONE" => faults' = faults
      /\ f # "NONE" => faults' = faults + 1
      /\ trouble' = {} => trouble = {} /\ f = "NONE"
  BY <1>2, <1>3, BlameIs
<1>6. f = "NONE" => trouble' = trouble
  BY <1>2 DEF Blame
<1>7. /\ Direction = "READ" => disk' = disk
      /\ Direction = "WRITE" => \E stored : /\ stored \subseteq Asked /\ disk' = Stored(stored)
                                            /\ ~StatusErrors => stored = Asked
  BY DEF DataDone, Direction
<1>8. Direction = "READ" \/ Direction = "WRITE"
  BY DEF Direction
<1>9. disk' \in [Blocks -> Data]
  BY <1>1, <1>7, <1>8, StoredIs DEF Types
<1>10. Got \in Seq(Data)
  <2>1. CASE job.op = "READ10"
    BY <1>1, <2>1, GotIs DEF Got
  <2>2. CASE job.op # "READ10"
    <3>1. <<>> \in Seq(Data)
      OBVIOUS
    <3> QED BY <2>2, <3>1 DEF Got
  <2> QED BY <2>1, <2>2
<1>11. card' \in CardRecord
  BY <1>1, <1>3, NewCard DEF Moved, CardStates
<1>12. World'
  BY <1>5, <1>9, <1>11 DEF World
<1>13. CASE f = "NONE"
  BY <1>1, <1>2, <1>5, <1>6, <1>7, <1>10, <1>12, <1>13 DEF Ended, Got
<1>14. CASE f = "LINGER" /\ faults < MaxFaults
  BY <1>1, <1>2, <1>5, <1>7, <1>10, <1>12, <1>14 DEF Ended, Got
<1> QED BY <1>4, <1>13, <1>14

LEMMA InactiveIs ==
  ASSUME ctrl \in CtrlRecord
  PROVE  LET c == [ctrl EXCEPT !.active = FALSE]
         IN  c \in CtrlRecord /\ ~c.active /\ c.wide = ctrl.wide /\ c.dir = ctrl.dir
<1>1. FALSE \in BOOLEAN
  OBVIOUS
<1> QED BY <1>1 DEF CtrlRecord

LEMMA DataDoneTypes ==
  ASSUME Types, DataDone
  PROVE  Types'
<1>1. /\ job # NULL /\ run.stop = 0 /\ Step = "DATA" /\ World' /\ Got \in Seq(Data)
      /\ \/ StepDone([ctrl EXCEPT !.active = FALSE], mmc, Got)
         \/ Continue([run EXCEPT !.stop = CmdTries, !.then = "RESULT", !.got = Got], ctrl, mmc)
  BY DataDoneIs
<1>2. ctrl \in CtrlRecord /\ mmc \in MmcRecord /\ run \in RunRecord
  BY DEF Types
<1>3. CASE StepDone([ctrl EXCEPT !.active = FALSE], mmc, Got)
  BY <1>1, <1>2, <1>3, InactiveIs, DoneTypes
<1>4. CASE Continue([run EXCEPT !.stop = CmdTries, !.then = "RESULT", !.got = Got], ctrl, mmc)
  <2>1. /\ run' = [run EXCEPT !.stop = CmdTries, !.then = "RESULT", !.got = Got]
        /\ job' = job /\ up' = up /\ ctrl' \in CtrlRecord /\ mmc' \in MmcRecord
    BY <1>2, <1>4 DEF Continue
  <2>2. CmdTries \in 0 .. CmdTries /\ "RESULT" \in {"NONE", "RETRY", "FAIL", "RESULT"}
    BY Sizes
  <2>3. run' \in RunRecord /\ run'.pc = run.pc /\ run'.loops = run.loops
    BY <1>1, <1>2, <2>1, <2>2 DEF RunRecord
  <2>4. run'.pc \in 1 .. Len(Script) /\ Script[run'.pc] = "DATA"
    BY <1>1, <2>3, ScriptIs DEF Step
  <2>5. job = SdInit /\ run.pc \in {3, 4} => run.loops < OpCondTries
    BY <1>1 DEF Types, Placed
  <2> QED BY <1>1, <2>1, <2>3, <2>4, <2>5, ContinueTypes
<1> QED BY <1>1, <1>3, <1>4

LEMMA DataFailedIs ==
  ASSUME Types, DataFailed
  PROVE  /\ job # NULL /\ run.stop = 0 /\ Step = "DATA" /\ World'
         /\ card' = card \/ (/\ Moving /\ card.burst = "one" /\ card' = [card EXCEPT !.state = "tran"])
         /\ disk' = disk \/ (/\ Moving /\ Direction = "WRITE"
                             /\ \E blocks \in SUBSET Asked : disk' = Stored(blocks))
         /\ \/ faults' = faults
            \/ faults < MaxFaults /\ faults' = faults + 1
         /\ trouble' = {} => trouble = {} /\ ~Moving
         /\ job' = job /\ up' = up /\ ans' = ans /\ ctrl' = [ctrl EXCEPT !.dir = "OFF"] /\ mmc' = mmc
         /\ run' \in RunRecord /\ run'.pc = run.pc /\ run'.stop = CmdTries /\ run'.then = "FAIL"
         /\ run'.got = run.got /\ run'.loops = run.loops
<1>1. job # NULL /\ run.stop = 0 /\ Step = "DATA"
  BY DEF DataFailed, Doing
<1>2. PICK f \in Fault({"DATA"}) : (f = "NONE" => ~Moving) /\ Blame(f, FALSE)
  BY DEF DataFailed
<1>3. faults \in Nat /\ trouble \subseteq {"FAULT", "BUSY"} /\ card \in CardRecord /\ FALSE \in BOOLEAN
  BY DEF Types
<1>4. f = "NONE" \/ (f = "DATA" /\ faults < MaxFaults)
  BY <1>3, FaultIs
<1>5. /\ faults' \in Nat /\ trouble' \subseteq {"FAULT", "BUSY"}
      /\ f = "NONE" => faults' = faults
      /\ f # "NONE" => faults' = faults + 1
      /\ trouble' = {} => trouble = {} /\ f = "NONE"
  BY <1>2, <1>3, BlameIs
<1>6. card' = card \/ (/\ Moving /\ card.burst = "one" /\ card' = [card EXCEPT !.state = "tran"])
  BY DEF DataFailed
<1>7. card' \in CardRecord
  BY <1>3, <1>6, NewCard DEF CardStates
<1>8. disk' = disk \/ (/\ Moving /\ Direction = "WRITE"
                       /\ \E blocks \in SUBSET Asked : disk' = Stored(blocks))
  <2>1. CASE Moving /\ Direction = "WRITE"
    <3>1. job \in Request
      BY <1>1, <2>1, ScriptIs, InitScript DEF Direction
    <3>2. job.lba \in Nat /\ job.cnt \in Nat
      BY <3>1, RequestIs
    <3>3. PICK k \in 0 .. job.cnt - 1 : disk' = Stored(job.lba .. job.lba + k - 1)
      BY <2>1 DEF DataFailed
    <3>4. job.lba .. job.lba + k - 1 \in SUBSET Asked
      BY <3>2 DEF Asked
    <3> QED BY <2>1, <3>3, <3>4
  <2>2. CASE ~(Moving /\ Direction = "WRITE")
    BY <2>2 DEF DataFailed
  <2> QED BY <2>1, <2>2
<1>9. disk' \in [Blocks -> Data]
  BY <1>1, <1>8, StoredIs DEF Types
<1>10. World'
  BY <1>5, <1>7, <1>9 DEF World
<1>11. /\ job' = job /\ up' = up /\ ans' = ans /\ ctrl' = [ctrl EXCEPT !.dir = "OFF"] /\ mmc' = mmc
       /\ run' = [run EXCEPT !.stop = CmdTries, !.then = "FAIL"]
  BY DEF DataFailed, DataError, Continue
<1>12. CmdTries \in 0 .. CmdTries /\ "FAIL" \in {"NONE", "RETRY", "FAIL", "RESULT"} /\ run \in RunRecord
  BY Sizes DEF Types
<1>13. /\ run' \in RunRecord /\ run'.pc = run.pc /\ run'.stop = CmdTries /\ run'.then = "FAIL"
       /\ run'.got = run.got /\ run'.loops = run.loops
  BY <1>11, <1>12 DEF RunRecord
<1>14. (faults' = faults \/ (faults < MaxFaults /\ faults' = faults + 1)) /\ (trouble' = {} => trouble = {} /\ ~Moving)
  BY <1>2, <1>4, <1>5
<1> QED BY <1>1, <1>6, <1>8, <1>10, <1>11, <1>13, <1>14

LEMMA DataFailedTypes ==
  ASSUME Types, DataFailed
  PROVE  Types'
<1>1. /\ job # NULL /\ Step = "DATA" /\ World'
      /\ job' = job /\ up' = up /\ ctrl' = [ctrl EXCEPT !.dir = "OFF"] /\ mmc' = mmc
      /\ run' \in RunRecord /\ run'.pc = run.pc /\ run'.stop = CmdTries /\ run'.then = "FAIL"
      /\ run'.loops = run.loops
  BY DataFailedIs
<1>2. ctrl' \in CtrlRecord /\ mmc' \in MmcRecord
  BY <1>1 DEF Types, CtrlRecord
<1>3. run'.pc \in 1 .. Len(Script) /\ Script[run'.pc] = "DATA"
  BY <1>1, ScriptIs DEF Step
<1>4. job = SdInit /\ run.pc \in {3, 4} => run.loops < OpCondTries
  BY <1>1 DEF Types, Placed
<1> QED BY <1>1, <1>2, <1>3, <1>4, ContinueTypes

LEMMA GivesUpIs ==
  ASSUME Types, WaitGivesUp
  PROVE  /\ job # NULL /\ run.stop = 0 /\ Step = "WAIT" /\ run.polls = 0 /\ World'
         /\ Return("FAIL", ctrl, mmc, <<>>)
         /\ card' = card /\ disk' = disk /\ trouble' = trouble /\ faults' = faults
BY DEF WaitGivesUp, Doing, World, Types

LEMMA CardIs ==
  ASSUME Types, CardProgrammed \/ CardSent
  PROVE  /\ LeftBusy
         /\ card' = [card EXCEPT !.state = "tran"] /\ card' \in CardRecord /\ card'.state = "tran"
         /\ card'.app = card.app /\ card'.wide = card.wide /\ card'.type = card.type /\ card'.burst = card.burst
         /\ UNCHANGED <<disk, ctrl, mmc, job, run, ans, up, trouble, faults>>
         /\ card.state = "data" => ~(ctrl.active /\ ctrl.dir = "READ")
<1>1. card' = [card EXCEPT !.state = "tran"]
  BY DEF CardProgrammed, CardSent
<1>2. card \in CardRecord
  BY DEF Types
<1>3. /\ card' \in CardRecord /\ card'.state = "tran"
      /\ card'.app = card.app /\ card'.wide = card.wide /\ card'.type = card.type /\ card'.burst = card.burst
  BY <1>1, <1>2 DEF CardRecord, CardStates
<1> QED BY <1>1, <1>3 DEF CardProgrammed, CardSent, LeftBusy

LEMMA CardTypes ==
  ASSUME Types, CardProgrammed \/ CardSent
  PROVE  Types'
<1>1. /\ card' \in CardRecord
      /\ UNCHANGED <<disk, ctrl, mmc, job, run, ans, up, trouble, faults>>
  BY CardIs
<1>2. Placed(run)' <=> Placed(run)
  BY <1>1 DEF Placed, Script, mmc_read_blocks, mmc_write_blocks
<1> QED BY <1>1, <1>2 DEF Types

(* Between calls the run stands where the last call left it.                *)
Resting == job = NULL => run = Start(1)

LEMMA ScriptLength == job \in Request \cup {SdInit} => Len(Script) \in Nat /\ 1 <= Len(Script)
<1>1. job = SdInit => Len(Script) = 16
  BY InitScript
<1>2. job \in Request => Len(Script) \in Nat /\ 1 <= Len(Script)
  BY RequestScript, RequestIs
<1> QED BY <1>1, <1>2

LEMMA StartPlaced ==
  ASSUME job' \in Request \cup {SdInit}, run' = Start(1), run' \in RunRecord
  PROVE  Placed(run)'
<1>1. (job \in Request \cup {SdInit} => Len(Script) \in Nat /\ 1 <= Len(Script))'
  BY ScriptLength, PTL
<1>2. Len(Script)' \in Nat /\ 1 <= Len(Script)'
  BY <1>1
<1>3. run'.pc = 1 /\ run'.stop = 0
  BY StartIs
<1>4. run'.pc \in 1 .. Len(Script)' /\ ~(run'.stop > 0) /\ run'.pc \notin {3, 4}
  BY <1>2, <1>3
<1> QED BY <1>4 DEF Placed

(* Init and the calls.                                                      *)
TypesIn == Types /\ Resting

LEMMA InitTypes ==
  ASSUME Init
  PROVE  TypesIn
<1>1. card \in CardRecord
  BY DEF Init, CardRecord, CardStates
<1>2. FALSE \in BOOLEAN /\ 0 \in Nat /\ {} \subseteq {"FAULT", "BUSY"}
  OBVIOUS
<1>3. ctrl \in CtrlRecord /\ mmc \in MmcRecord /\ up \in BOOLEAN
  BY <1>2 DEF Init, CtrlRecord, MmcRecord, stm32_sdmmc2_init
<1>4. run \in RunRecord
  BY StartIs DEF Init
<1> QED BY <1>1, <1>2, <1>3, <1>4 DEF Init, TypesIn, Types, Resting

LEMMA CallIs ==
  ASSUME TypesIn, SdInitCall
  PROVE  /\ job = NULL /\ job' = SdInit /\ run' = Start(1) /\ run' = run /\ ~up' /\ trouble' = {}
         /\ ctrl' \in CtrlRecord /\ ~ctrl'.active /\ ~ctrl'.wide
         /\ mmc' \in MmcRecord /\ mmc'.type = mmc.type /\ mmc'.ocr = mmc.ocr
         /\ mmc'.write_pending = mmc.write_pending
         /\ UNCHANGED <<card, disk, faults, ans>>
<1>1. FALSE \in BOOLEAN /\ TRUE \in BOOLEAN
  OBVIOUS
<1>2. ctrl' \in CtrlRecord /\ ~ctrl'.active /\ ~ctrl'.wide
  BY <1>1 DEF SdInitCall, stm32_sdmmc2_init, CtrlRecord
<1>3. mmc \in MmcRecord /\ mmc' = [mmc EXCEPT !.vddio1 = TRUE]
  BY DEF SdInitCall, TypesIn, Types
<1>4. /\ mmc' \in MmcRecord /\ mmc'.type = mmc.type /\ mmc'.ocr = mmc.ocr
      /\ mmc'.write_pending = mmc.write_pending
  BY <1>1, <1>3 DEF MmcRecord
<1> QED BY <1>2, <1>4 DEF SdInitCall, TypesIn, Resting

LEMMA AskIs ==
  ASSUME TypesIn, NEW r \in Request, SdCall(r)
  PROVE  /\ job = NULL /\ job' = r /\ run' = Start(1) /\ run' = run /\ trouble' = {}
         /\ mmc' \in MmcRecord /\ mmc'.type = mmc.type /\ mmc'.ocr = mmc.ocr
         /\ mmc'.write_pending = (r.op = "WRITE10")
         /\ UNCHANGED <<card, disk, ctrl, up, faults, ans>>
<1>1. mmc \in MmcRecord /\ mmc' = [mmc EXCEPT !.write_pending = (r.op = "WRITE10")]
  BY DEF SdCall, TypesIn, Types
<1>2. (r.op = "WRITE10") \in BOOLEAN
  OBVIOUS
<1>3. /\ mmc' \in MmcRecord /\ mmc'.type = mmc.type /\ mmc'.ocr = mmc.ocr
      /\ mmc'.write_pending = (r.op = "WRITE10")
  BY <1>1, <1>2 DEF MmcRecord
<1> QED BY <1>3 DEF SdCall, TypesIn, Resting

LEMMA NoSupplyIs ==
  ASSUME TypesIn, SdInitNoSupply
  PROVE  /\ job = NULL /\ faults' = faults + 1 /\ trouble' \subseteq {"FAULT", "BUSY"}
         /\ faults < MaxFaults
         /\ UNCHANGED <<card, disk, ctrl, mmc, job, run, ans, up>>
<1>1. faults \in Nat /\ trouble \subseteq {"FAULT", "BUSY"} /\ FALSE \in BOOLEAN
  BY DEF TypesIn, Types
<1>2. "IO_SUPPLY" # "NONE"
  OBVIOUS
<1>3. Blame("IO_SUPPLY", FALSE)
  BY DEF SdInitNoSupply
<1>4. faults' = faults + 1 /\ trouble' \subseteq {"FAULT", "BUSY"}
  BY <1>1, <1>2, <1>3, BlameIs
<1>5. faults < MaxFaults
  BY <1>1, <1>2, FaultIs DEF SdInitNoSupply
<1> QED BY <1>4, <1>5 DEF SdInitNoSupply

LEMMA CallTypes ==
  ASSUME TypesIn, Calls
  PROVE  TypesIn'
<1>1. CASE SdInitCall
  <2>1. up' \in BOOLEAN
    BY <1>1 DEF SdInitCall
  <2>2. Placed(run)' /\ run' \in RunRecord
    BY <1>1, CallIs, StartPlaced, StartIs
  <2>3. job' # NULL
    BY <1>1, CallIs, Sizes
  <2> QED BY <1>1, <2>1, <2>2, <2>3, CallIs DEF TypesIn, Types, Resting
<1>2. ASSUME NEW r \in Request, SdCall(r) PROVE TypesIn'
  <2>1. Placed(run)' /\ run' \in RunRecord
    BY <1>2, AskIs, StartPlaced, StartIs
  <2>2. job' # NULL /\ job' \in Request
    BY <1>2, AskIs, Sizes
  <2> QED BY <1>2, <2>1, <2>2, AskIs DEF TypesIn, Types, Resting
<1>3. CASE SdInitNoSupply
  BY <1>3, NoSupplyIs DEF TypesIn, Types, Resting
<1> QED BY <1>1, <1>2, <1>3 DEF Calls

LEMMA DriverRests ==
  ASSUME TypesIn, Driver
  PROVE  Types' /\ Resting'
<1>1. job # NULL
  BY DEF Driver, Command, Wait, WaitGivesUp, StopTransfer, DataDone, DataFailed, Doing
<1>2. Types'
  <2>1. CASE WaitGivesUp
    BY <2>1, GivesUpIs, ReturnTypes DEF TypesIn, Types
  <2> QED BY <2>1, CommandTypes, WaitTypes, StopTypes, DataDoneTypes, DataFailedTypes DEF Driver, TypesIn
<1>3. job' = job \/ run' = Start(1)
  BY DEF Driver, Command, Wait, WaitGivesUp, StopTransfer, DataDone, DataFailed, DataError, Ended,
         CommandDone, CommandFailed, AttemptFailed, StepDone, Continue, Return
<1> QED BY <1>1, <1>2, <1>3 DEF Resting

LEMMA StutterTypes ==
  ASSUME TypesIn, UNCHANGED vars
  PROVE  TypesIn'
<1>1. Placed(run)' <=> Placed(run)
  BY DEF vars, Placed, Script, mmc_read_blocks, mmc_write_blocks
<1> QED BY <1>1 DEF vars, TypesIn, Types, Resting

LEMMA TypesKept == TypesIn /\ [Next]_vars => TypesIn'
<1> SUFFICES ASSUME TypesIn, [Next]_vars PROVE TypesIn'
  OBVIOUS
<1>1. CASE Driver
  BY <1>1, DriverRests DEF TypesIn
<1>2. CASE Card
  <2>1. Types'
    BY <1>2, CardTypes DEF Card, TypesIn
  <2>2. UNCHANGED <<job, run>>
    BY <1>2 DEF Card, CardProgrammed, CardSent
  <2> QED BY <2>1, <2>2 DEF TypesIn, Resting
<1>3. CASE Calls
  BY <1>3, CallTypes
<1>4. CASE UNCHANGED vars
  BY <1>4, StutterTypes
<1> QED BY <1>1, <1>2, <1>3, <1>4 DEF Next

LEMMA TypesAlways == Spec => []TypesIn
<1>1. Init => TypesIn
  BY InitTypes
<1> QED BY <1>1, TypesKept, PTL DEF Spec

\* The statics, the controller and the retry counters of send_cmd(), of the
\* loops around CMD55 and ACMD51 and of mmc_device_state() stay in their ranges.
THEOREM TypeCorrect == Spec => []TypeOK
<1>1. TypesIn => TypeOK
  <2> SUFFICES ASSUME TypesIn PROVE TypeOK
    OBVIOUS
  <2>1. card \in CardRecord /\ ctrl \in CtrlRecord /\ mmc \in MmcRecord /\ run \in RunRecord
    BY DEF TypesIn, Types
  <2>2. job # NULL => run.pc \in DOMAIN Script
    <3>1. SUFFICES ASSUME job # NULL PROVE run.pc \in DOMAIN Script
      OBVIOUS
    <3>2. run.pc \in 1 .. Len(Script)
      BY <3>1, ScriptIs DEF TypesIn
    <3>3. Script \in Seq(Steps)
      BY <3>1, ScriptIs, InitScript, RequestScript DEF TypesIn
    <3> QED BY <3>2, <3>3
  <2>3. /\ run.tries \in 1 .. CmdTries /\ run.stop \in 0 .. CmdTries
        /\ run.polls \in 0 .. MaxRetries
        /\ run.loops \in 0 .. IF OpCondTries > MaxRetries THEN OpCondTries ELSE MaxRetries
    BY <2>1, RunIs DEF Rounds
  <2> QED BY <2>1, <2>2, <2>3 DEF TypeOK, TypesIn, Types, CardRecord, CtrlRecord, MmcRecord
<1> QED BY <1>1, TypesAlways, PTL

-----------------------------------------------------------------------------
(* The disk.  Once the data phase is over, the result the call will return   *)
(* is the one asked for.                                                    *)

Past == run.pc > 3 \/ (run.stop > 0 /\ run.then = "RESULT")

Served(got) ==
  IF job.op = "READ10" THEN got = [i \in 1 .. job.cnt |-> disk[job.lba + i - 1]]
  ELSE got = <<>> /\ \A b \in Asked : disk[b] = job.val

ServedInv == job \in Request /\ Past => Served(run.got)

(* What a step of the driver does to the disk and to the call.              *)
Effect ==
  \/ job' = job /\ ans' = ans /\ disk' = disk
  \/ /\ job' = job /\ ans' = ans /\ job \in Request /\ job.op = "WRITE10"
     /\ \E blocks \in SUBSET Asked : disk' = Stored(blocks)
  \/ job = SdInit /\ job' = NULL /\ ans' = ans /\ disk' = disk
  \/ /\ job \in Request /\ job' = NULL /\ disk' = disk
     /\ \/ ans' = [status |-> "FAIL", data |-> <<>>]
        \/ ans' = [status |-> "PASS", data |-> run.got] /\ Past

LEMMA ReturnServes ==
  ASSUME TypesIn, job # NULL, disk' = disk, NEW c \in CtrlRecord, NEW m \in MmcRecord, NEW status, NEW got,
         Return(status, c, m, got),
         status = "FAIL" \/ (status = "PASS" /\ got = run.got /\ run.pc = Len(Script))
  PROVE  Effect /\ ServedInv'
<1>1. CASE job = SdInit
  <2>1. job' = NULL /\ ans' = ans
    BY <1>1, ReturnInit
  <2> QED BY <1>1, <2>1, Sizes DEF Effect, ServedInv
<1>2. CASE job \in Request
  <2>1. job' = NULL /\ ans' = [status |-> status, data |-> IF status = "PASS" THEN got ELSE <<>>]
    BY <1>2, ReturnRequest
  <2>2. run.pc = Len(Script) => run.pc > 3
    <3>1. Len(Script) = (IF job.cnt > 1 THEN 5 ELSE 4) /\ job.cnt \in Nat
      BY <1>2, RequestStep, RequestIs DEF TypesIn
    <3> QED BY <3>1
  <2> QED BY <1>2, <2>1, <2>2, Sizes DEF Effect, ServedInv, Past
<1> QED BY <1>1, <1>2, ScriptIs DEF TypesIn

LEMMA StaysServes ==
  ASSUME ServedInv, job' = job, ans' = ans, disk' = disk, run'.got = run.got,
         job \in Request /\ Past' => Past
  PROVE  Effect /\ ServedInv'
BY DEF Effect, ServedInv, Served, Asked

LEMMA FailureServes ==
  ASSUME TypesIn, ServedInv, job # NULL, disk' = disk, NEW c \in CtrlRecord, NEW m \in MmcRecord,
         Halts(c, m) \/ Repeats(c, m) \/ GivesUp(c, m)
  PROVE  Effect /\ ServedInv'
<1>1. CASE GivesUp(c, m)
  BY <1>1, ReturnServes DEF GivesUp
<1>2. CASE Halts(c, m)
  <2>1. /\ job' = job /\ ans' = ans /\ run'.got = run.got /\ run'.pc = run.pc /\ run'.then = "RETRY"
    BY <1>2 DEF Halts, Stays
  <2>2. Past' => Past
    BY <2>1 DEF Past
  <2> QED BY <2>1, <2>2, StaysServes
<1>3. CASE Repeats(c, m)
  <2>1. /\ job' = job /\ ans' = ans /\ run'.got = run.got /\ run'.pc = run.pc /\ run'.stop = 0
    BY <1>3 DEF Repeats, Stays
  <2>2. Past' => Past
    BY <2>1 DEF Past
  <2> QED BY <2>1, <2>2, StaysServes
<1> QED BY <1>1, <1>2, <1>3

LEMMA DoneServes ==
  ASSUME TypesIn, ServedInv, job # NULL, disk' = disk, NEW c \in CtrlRecord, NEW m \in MmcRecord,
         StepDone(c, m, run.got),
         job \in Request /\ run.pc = 3 => Past
  PROVE  Effect /\ ServedInv'
<1>1. run \in RunRecord /\ run.pc \in 1 .. Len(Script) /\ Len(Script) \in Nat /\ run.got \in Seq(Data)
  BY ScriptIs, RunIs DEF TypesIn, Types
<1>2. CASE run.pc = Len(Script) /\ Return("PASS", c, m, run.got)
  BY <1>2, ReturnServes
<1>3. CASE /\ Advances(c, m, run.got) /\ run'.pc = run.pc + 1 /\ run'.stop = 0 /\ run'.got = run.got
  <2>1. job' = job /\ ans' = ans
    BY <1>3 DEF Advances
  <2>2. job \in Request /\ Past' => Past
    BY <1>1, <1>3 DEF Past
  <2> QED BY <1>3, <2>1, <2>2, StaysServes
<1> QED BY <1>1, <1>2, <1>3, DoneIs

LEMMA CommandServes ==
  ASSUME TypesIn, ServedInv, Command
  PROVE  Effect /\ ServedInv'
<1>0. Types
  BY DEF TypesIn
<1>1. job # NULL /\ run.stop = 0 /\ Step \in Commands /\ Step # "WAIT"
  BY <1>0, CommandIs
<1>2. PICK a : /\ disk' = disk
               /\ \/ CommandDone(Sent(Step), Noted(Step), a.card)
                  \/ Halts(Sent(Step), Noted(Step)) \/ Repeats(Sent(Step), Noted(Step))
                  \/ GivesUp(Sent(Step), Noted(Step))
  BY <1>0, CommandIs DEF CommandOf
<1>3. PICK c, m : c = Sent(Step) /\ m = Noted(Step)
  OBVIOUS
<1>4. c \in CtrlRecord /\ m \in MmcRecord
  BY <1>0, <1>3, SentIs, NotedIs DEF Types
<1>5. job \in Request => run.pc # 3
  BY <1>0, <1>1, RequestStep DEF Commands
<1>6. CASE Halts(c, m) \/ Repeats(c, m) \/ GivesUp(c, m)
  BY <1>1, <1>2, <1>4, <1>6, FailureServes
<1>7. CASE CommandDone(c, m, a.card)
  <2>1. CASE StepDone(Prepared(c, m), m, run.got)
    BY <1>1, <1>2, <1>4, <1>5, <2>1, PreparedIs, DoneServes
  <2>2. CASE StepDone(c, [m EXCEPT !.type = card.type, !.ocr = CardUnit], run.got)
    BY <1>0, <1>1, <1>2, <1>4, <1>5, <2>2, TypedIs, DoneServes
  <2>3. CASE StepDone(c, m, run.got)
    BY <1>1, <1>2, <1>4, <1>5, <2>3, DoneServes
  <2>4. CASE Return("FAIL", c, m, <<>>)
    BY <1>1, <1>2, <1>4, <2>4, ReturnServes
  <2>5. CASE /\ Step \in {"CMD55", "ACMD41"}
             /\ \/ Continue([Start(run.pc - 1) EXCEPT !.loops = run.loops + 1], c, m)
                \/ Continue([Start(run.pc + 1) EXCEPT !.loops = run.loops], c, m)
    <3>1. job = SdInit /\ job' = job /\ ans' = ans
      BY <1>0, <1>1, <2>5, ScriptIs DEF Continue, Step
    <3>2. job' \notin Request
      BY <3>1, RequestIs
    <3> QED BY <1>2, <3>1, <3>2 DEF Effect, ServedInv
  <2> QED BY <1>0, <1>1, <1>7, <2>1, <2>2, <2>3, <2>4, <2>5, CommandDoneIs
<1> QED BY <1>2, <1>3, <1>6, <1>7

LEMMA WaitServes ==
  ASSUME TypesIn, ServedInv, Wait \/ WaitGivesUp
  PROVE  Effect /\ ServedInv'
<1>0. Types
  BY DEF TypesIn
<1>1. CASE WaitGivesUp
  <2>1. job # NULL /\ disk' = disk /\ Return("FAIL", ctrl, mmc, <<>>)
    BY <1>0, <1>1, GivesUpIs
  <2> QED BY <1>0, <2>1, ReturnServes DEF Types
<1>2. CASE Wait
  <2>1. job # NULL /\ run.stop = 0 /\ Step = "WAIT" /\ run.polls > 0 /\ disk' = disk
    BY <1>0, <1>2, WaitIs
  <2>2. \/ CommandFailed(Sent("CMD13"), Noted("CMD13"))
        \/ AttemptFailed(Sent("CMD13"), Noted("CMD13"))
        \/ StepDone(Sent("CMD13"), Noted("CMD13"), run.got)
        \/ Continue([run EXCEPT !.polls = MaxRetries], Sent("CMD13"), Noted("CMD13"))
    BY <1>0, <1>2, WaitIs, Zenon
  <2>3. PICK c, m : c = Sent("CMD13") /\ m = Noted("CMD13")
    OBVIOUS
  <2>4. c \in CtrlRecord /\ m \in MmcRecord /\ run \in RunRecord
    BY <1>0, <2>3, SentIs, NotedIs DEF Types
  <2>5. job \in Request => run.pc # 3
    BY <1>0, <2>1, RequestStep
  <2>6. CASE CommandFailed(c, m) \/ AttemptFailed(c, m)
    <3>1. Halts(c, m) \/ Repeats(c, m) \/ GivesUp(c, m)
      BY <2>1, <2>4, <2>6, FailedIs, AttemptIs
    <3> QED BY <2>1, <2>4, <3>1, FailureServes
  <2>7. CASE StepDone(c, m, run.got)
    BY <2>1, <2>4, <2>5, <2>7, DoneServes
  <2>8. CASE Continue([run EXCEPT !.polls = MaxRetries], c, m)
    <3>1. job' = job /\ ans' = ans /\ run'.pc = run.pc /\ run'.stop = run.stop /\ run'.got = run.got
      BY <2>4, <2>8 DEF Continue, RunRecord
    <3>2. Past' => Past
      BY <2>1, <3>1 DEF Past
    <3> QED BY <2>1, <3>1, <3>2, StaysServes
  <2> QED BY <2>2, <2>3, <2>6, <2>7, <2>8
<1> QED BY <1>1, <1>2

LEMMA StopServes ==
  ASSUME TypesIn, ServedInv, StopTransfer
  PROVE  Effect /\ ServedInv'
<1>0. Types
  BY DEF TypesIn
<1>1. job # NULL /\ run.stop > 0 /\ disk' = disk /\ (Step = "WAIT" => run.polls > 0)
  BY <1>0, StopIs
<1>2. \/ /\ run.stop > 1
         /\ Continue([run EXCEPT !.stop = run.stop - 1], Sent("CMD12"), Noted("CMD12"))
      \/ AttemptFailed(Sent("CMD12"), Noted("CMD12"))
      \/ Return("FAIL", Sent("CMD12"), Noted("CMD12"), <<>>)
      \/ run.then = "RESULT" /\ StepDone(Sent("CMD12"), Noted("CMD12"), run.got)
  BY <1>0, StopIs, Zenon
<1>3. PICK c, m : c = Sent("CMD12") /\ m = Noted("CMD12")
  OBVIOUS
<1>4. c \in CtrlRecord /\ m \in MmcRecord /\ run \in RunRecord
  BY <1>0, <1>3, SentIs, NotedIs DEF Types
<1>5. CASE AttemptFailed(c, m)
  BY <1>1, <1>4, <1>5, AttemptIs, FailureServes
<1>6. CASE run.then = "RESULT" /\ StepDone(c, m, run.got)
  BY <1>1, <1>4, <1>6, DoneServes DEF Past
<1>7. CASE Return("FAIL", c, m, <<>>)
  BY <1>1, <1>4, <1>7, ReturnServes
<1>8. CASE run.stop > 1 /\ Continue([run EXCEPT !.stop = run.stop - 1], c, m)
  <2>1. job' = job /\ ans' = ans /\ run'.pc = run.pc /\ run'.then = run.then /\ run'.got = run.got
    BY <1>4, <1>8 DEF Continue, RunRecord
  <2>2. Past' => Past
    BY <1>1, <2>1 DEF Past
  <2> QED BY <1>1, <2>1, <2>2, StaysServes
<1> QED BY <1>2, <1>3, <1>5, <1>6, <1>7, <1>8

LEMMA DataServes ==
  ASSUME TypesIn, ServedInv, StatusErrors = FALSE, DataDone \/ DataFailed
  PROVE  Effect /\ ServedInv'
<1>0. Types
  BY DEF TypesIn
<1>1. CASE DataDone
  <2>1. /\ job # NULL /\ run.stop = 0 /\ Step = "DATA" /\ Got \in Seq(Data)
        /\ Direction = "READ" => disk' = disk
        /\ Direction = "WRITE" => disk' = Stored(Asked)
        /\ \/ StepDone([ctrl EXCEPT !.active = FALSE], mmc, Got)
           \/ Continue([run EXCEPT !.stop = CmdTries, !.then = "RESULT", !.got = Got], ctrl, mmc)
    BY <1>0, <1>1, DataDoneIs
  <2>2. ctrl \in CtrlRecord /\ mmc \in MmcRecord /\ run \in RunRecord
    BY <1>0 DEF Types
  <2>3. /\ job' = job /\ ans' = ans /\ run'.got = Got
    <3>1. CASE StepDone([ctrl EXCEPT !.active = FALSE], mmc, Got)
      <4>1. run.pc < Len(Script)
        BY <1>0, <2>1, DataPlace
      <4>2. job' = job /\ ans' = ans /\ run' = [Start(run.pc + 1) EXCEPT !.got = Got]
        BY <3>1, <4>1 DEF StepDone, Continue
      <4> QED BY <4>2 DEF Start
    <3>2. CASE Continue([run EXCEPT !.stop = CmdTries, !.then = "RESULT", !.got = Got], ctrl, mmc)
      BY <2>2, <3>2 DEF Continue, RunRecord
    <3> QED BY <2>1, <3>1, <3>2
  <2>4. CASE job = SdInit
    <3>1. job.op = "INIT" /\ job \notin Request
      BY <2>4, InitScript, RequestIs
    <3>2. Direction = "READ"
      BY <3>1 DEF Direction
    <3> QED BY <2>1, <2>3, <3>1, <3>2 DEF Effect, ServedInv
  <2>5. CASE job \in Request /\ job.op = "READ10"
    <3>1. disk' = disk
      BY <2>1, <2>5 DEF Direction
    <3> QED BY <2>3, <2>5, <3>1 DEF Effect, ServedInv, Served, Got
  <2>6. CASE job \in Request /\ job.op = "WRITE10"
    <3>1. disk' = Stored(Asked) /\ Got = <<>>
      BY <2>1, <2>6 DEF Direction, Got
    <3>2. Asked \subseteq Blocks
      BY <2>6, RequestIs, Sizes DEF Asked, Blocks
    <3>3. \A b \in Asked : disk'[b] = job.val
      BY <3>1, <3>2 DEF Stored
    <3>4. Asked' = Asked
      BY <2>3 DEF Asked
    <3>5. ServedInv'
      BY <2>3, <2>6, <3>1, <3>3, <3>4 DEF ServedInv, Served
    <3> QED BY <2>3, <2>6, <3>1, <3>5 DEF Effect
  <2> QED BY <1>0, <2>1, <2>4, <2>5, <2>6, ScriptIs, RequestIs
<1>2. CASE DataFailed
  <2>1. /\ job # NULL /\ Step = "DATA" /\ job' = job /\ ans' = ans /\ run'.pc = run.pc /\ run'.then = "FAIL"
        /\ \/ disk' = disk
           \/ Direction = "WRITE" /\ \E blocks \in SUBSET Asked : disk' = Stored(blocks)
    BY <1>0, <1>2, DataFailedIs
  <2>2. ServedInv'
    <3>1. job \in Request => run.pc = 3
      BY <1>0, <2>1, DataPlace
    <3> QED BY <2>1, <3>1 DEF ServedInv, Past
  <2>3. Direction = "WRITE" => job \in Request /\ job.op = "WRITE10"
    BY <1>0, <2>1, ScriptIs, InitScript DEF Direction
  <2> QED BY <2>1, <2>2, <2>3 DEF Effect
<1> QED BY <1>1, <1>2

LEMMA DriverServes ==
  ASSUME TypesIn, ServedInv, StatusErrors = FALSE, Driver
  PROVE  Effect /\ ServedInv'
BY CommandServes, WaitServes, StopServes, DataServes DEF Driver

LEMMA ServedKept == StatusErrors = FALSE /\ TypesIn /\ ServedInv /\ [Next]_vars => ServedInv'
<1> SUFFICES ASSUME StatusErrors = FALSE, TypesIn, ServedInv, [Next]_vars PROVE ServedInv'
  OBVIOUS
<1>1. CASE Driver
  BY <1>1, DriverServes
<1>2. CASE Card
  BY <1>2 DEF Card, CardProgrammed, CardSent, ServedInv, Served, Past, Asked
<1>3. CASE Calls
  <2>1. CASE SdInitCall
    BY <2>1, CallIs, RequestIs DEF ServedInv
  <2>2. ASSUME NEW r \in Request, SdCall(r) PROVE ServedInv'
    <3>1. run' = Start(1)
      BY <2>2, AskIs
    <3> QED BY <3>1, StartIs DEF ServedInv, Past
  <2>3. CASE SdInitNoSupply
    <3>1. job' = NULL
      BY <2>3, NoSupplyIs
    <3> QED BY <3>1, Sizes DEF ServedInv
  <2> QED BY <1>3, <2>1, <2>2, <2>3 DEF Calls
<1>4. CASE UNCHANGED vars
  BY <1>4 DEF vars, ServedInv, Served, Past, Asked
<1> QED BY <1>1, <1>2, <1>3, <1>4 DEF Next

Asking == IF job = NULL \/ job = SdInit THEN NULL ELSE job

LEMMA EffectIsDisk ==
  ASSUME Types, ServedInv, job # NULL, Effect
  PROVE  [Disk!BDNext]_<<disk, Asking, ans>>
<1>1. CASE job' = job /\ ans' = ans /\ disk' = disk
  BY <1>1 DEF Asking
<1>2. CASE /\ job' = job /\ ans' = ans /\ job \in Request /\ job.op = "WRITE10"
           /\ \E blocks \in SUBSET Asked : disk' = Stored(blocks)
  <2>1. job # NULL /\ Asking = job /\ Asking' = job
    BY <1>2, RequestIs DEF Asking
  <2>2. job.lba .. job.lba + job.cnt - 1 \subseteq Blocks
    BY <1>2, RequestIs, Sizes DEF Blocks
  <2>3. PICK blocks \in SUBSET Asked : disk' = Stored(blocks)
    BY <1>2
  <2>4. disk' = [b \in Blocks |-> IF b \in blocks THEN job.val ELSE disk[b]]
    BY <2>3 DEF Stored
  <2>5. Disk!Store
    BY <1>2, <2>1, <2>2, <2>4 DEF Disk!Store, Disk!Range, Disk!InRange, Asking, Asked
  <2> QED BY <2>5 DEF Disk!BDNext
<1>3. CASE job = SdInit /\ job' = NULL /\ ans' = ans /\ disk' = disk
  BY <1>3 DEF Asking
<1>4. CASE job \in Request /\ job' = NULL /\ disk' = disk /\ ans' = [status |-> "FAIL", data |-> <<>>]
  <2>1. job # NULL /\ Asking = job /\ Asking' = NULL /\ job.op \in {"READ10", "WRITE10"}
    BY <1>4, RequestIs DEF Asking
  <2>2. Disk!Fail
    BY <1>4, <2>1 DEF Disk!Fail, Disk!Moves, Asking
  <2> QED BY <2>2 DEF Disk!BDNext
<1>5. CASE /\ job \in Request /\ job' = NULL /\ disk' = disk
           /\ ans' = [status |-> "PASS", data |-> run.got] /\ Past
  <2>1. job # NULL /\ Asking = job /\ Asking' = NULL /\ job.op \in {"READ10", "WRITE10"} /\ job.op # "UNKNOWN"
    BY <1>5, RequestIs DEF Asking
  <2>2. job.lba .. job.lba + job.cnt - 1 \subseteq Blocks
    BY <1>5, RequestIs, Sizes DEF Blocks
  <2>3. Served(run.got)
    BY <1>5 DEF ServedInv
  <2>4. /\ job.op = "WRITE10" => \A b \in job.lba .. job.lba + job.cnt - 1 : disk[b] = job.val
        /\ run.got = IF job.op = "READ10" THEN [i \in 1 .. job.cnt |-> disk[job.lba + i - 1]] ELSE <<>>
    BY <2>3 DEF Served, Asked
  <2>5. Disk!Pass
    BY <1>5, <2>1, <2>2, <2>4 DEF Disk!Pass, Disk!Moves, Disk!Range, Disk!InRange, Asking
  <2> QED BY <2>5 DEF Disk!BDNext
<1> QED BY <1>1, <1>2, <1>3, <1>4, <1>5 DEF Effect

LEMMA StepIsDisk ==
  StatusErrors = FALSE /\ TypesIn /\ ServedInv /\ [Next]_vars => [Disk!BDNext]_<<disk, Asking, ans>>
<1> SUFFICES ASSUME StatusErrors = FALSE, TypesIn, ServedInv, [Next]_vars
             PROVE  [Disk!BDNext]_<<disk, Asking, ans>>
  OBVIOUS
<1>1. CASE Driver
  <2>1. job # NULL
    BY <1>1 DEF Driver, Command, Wait, WaitGivesUp, StopTransfer, DataDone, DataFailed, Doing
  <2> QED BY <1>1, <2>1, DriverServes, EffectIsDisk DEF TypesIn
<1>2. CASE Card
  BY <1>2 DEF Card, CardProgrammed, CardSent, Asking
<1>3. CASE Calls
  <2>1. CASE SdInitCall
    BY <2>1, CallIs DEF Asking
  <2>2. ASSUME NEW r \in Request, SdCall(r) PROVE [Disk!BDNext]_<<disk, Asking, ans>>
    <3>1. /\ Asking = NULL /\ Asking' = r /\ UNCHANGED <<disk, ans>>
      BY <2>2, AskIs, RequestIs DEF Asking
    <3>2. Disk!Ask
      BY <3>1 DEF Disk!Ask, Asking
    <3> QED BY <3>2 DEF Disk!BDNext
  <2>3. CASE SdInitNoSupply
    BY <2>3, NoSupplyIs DEF Asking
  <2> QED BY <1>3, <2>1, <2>2, <2>3 DEF Calls
<1>4. CASE UNCHANGED vars
  BY <1>4 DEF vars, Asking
<1> QED BY <1>1, <1>2, <1>3, <1>4 DEF Next

\* sd_read() and sd_write() implement the abstract disk: whatever is lost on
\* the bus, retried or stopped, a call that returns 0 has read or written the
\* blocks it was asked for, a failed write has stored nothing but its own
\* values in its own blocks, and no other step changes the card.  A card that
\* reports a failed write in its status bits only is excluded, as mmc.c does
\* not look at them.
THEOREM Refinement ==
  ASSUME StatusErrors = FALSE
  PROVE  Spec => ImplementsDisk
<1>1. Init => Disk!BDInit /\ ServedInv
  <2> SUFFICES ASSUME Init PROVE Disk!BDInit /\ ServedInv
    OBVIOUS
  <2>1. job = NULL /\ job \notin Request
    BY Sizes DEF Init
  <2> QED BY <2>1 DEF Init, Disk!BDInit, ServedInv
<1>2. TypesIn /\ ServedInv /\ [Next]_vars => ServedInv'
  BY ServedKept
<1>3. TypesIn /\ ServedInv /\ [Next]_vars => [Disk!BDNext]_Disk!bdVars
  BY StepIsDisk DEF Disk!bdVars, Asking
<1> QED BY <1>1, <1>2, <1>3, TypesAlways, PTL DEF Spec, ImplementsDisk, Disk!BDSpec

-----------------------------------------------------------------------------
(* The state the card is left in.  It is wild while it receives blocks, or   *)
(* sends blocks without end: only a CMD12 stops that.                       *)

Open == {"tran", "data", "rcv", "prg"}
Wild == card.state = "rcv" \/ (card.state = "data" /\ card.burst = "many")

Books ==
  /\ faults <= MaxFaults
  /\ job = SdInit => ~up

(* mmc_enumerate() starts no transfer but that of ACMD51.                   *)
Enumerated ==
  job = SdInit /\ run.pc >= 10 =>
    /\ card.state \in {"tran", "data"} /\ (card.state = "data" => card.burst = "one")
    /\ run.pc = 14 => card.state = "tran"

(* Every command lost on a wild card has cost a fault.                      *)
Lossy ==
  /\ run.stop > 0 /\ Wild => faults >= CmdTries - run.stop
  /\ run.pc = 4 /\ run.stop = 0 /\ Wild => faults >= MaxRetries - run.polls
  /\ run.pc = 5 /\ run.stop = 0 /\ Wild => faults >= CmdTries - run.tries

Transfer ==
  /\ run.pc <= 2 /\ run.stop = 0 => ~Wild
  /\ run.pc >= 3 => card.state \in IF job.op = "READ10" THEN {"tran", "data"} ELSE {"tran", "rcv", "prg"}
  /\ run.pc = 3 /\ job.cnt = 1 /\ Wild => card.burst = "one"
  /\ run.pc >= 4 /\ run.stop = 0 /\ job.cnt = 1 => ~Wild

Ends ==
  up => /\ card.state \in Open
        /\ job = NULL => ~Wild
        /\ job \in Request => Transfer /\ Lossy

LEMMA ReturnEnds ==
  ASSUME TypesIn, Books, Ends, job # NULL, faults' <= MaxFaults, card' \in CardRecord,
         NEW c \in CtrlRecord, NEW m \in MmcRecord, NEW status, NEW got, Return(status, c, m, got),
         (status = "PASS" \/ job \in Request) /\ (up \/ job = SdInit) => card'.state \in Open /\ ~Wild'
  PROVE  Books' /\ Enumerated' /\ Ends'
<1>1. job' = NULL /\ job' # SdInit /\ job' \notin Request
  BY Sizes, ReturnInit, ReturnRequest, ScriptIs DEF TypesIn
<1>2. up' => (status = "PASS" \/ job \in Request) /\ (up \/ job = SdInit)
  <2>1. CASE job = SdInit
    BY <2>1, ReturnInit
  <2>2. CASE job \in Request
    BY <2>2, ReturnRequest
  <2> QED BY <2>1, <2>2, ScriptIs DEF TypesIn
<1> QED BY <1>1, <1>2 DEF Books, Enumerated, Ends

LEMMA RequestEnds ==
  ASSUME job \in Request, job' = job, up' = up, faults' <= MaxFaults,
         up => card'.state \in Open /\ Transfer' /\ Lossy'
  PROVE  Books' /\ Enumerated' /\ Ends'
BY RequestIs DEF Books, Enumerated, Ends

LEMMA CommandRequestEnds ==
  ASSUME TypesIn, Books, Ends, MaxFaults < CmdTries, Command, job \in Request
  PROVE  Books' /\ Enumerated' /\ Ends'
<1>0. Types /\ faults \in Nat /\ faults <= MaxFaults /\ MaxFaults \in Nat /\ MaxFaults < 3 /\ CmdTries = 3
      /\ card \in CardRecord
  BY Sizes DEF TypesIn, Types, Books
<1>1. job # NULL /\ run.stop = 0 /\ Step \in Commands /\ Step # "WAIT"
  BY <1>0, CommandIs
<1>2. PICK f, a : /\ CommandOf(f, a) /\ World'
                  /\ \/ Accepted(f, a) /\ CommandDone(Sent(Step), Noted(Step), a.card)
                     \/ /\ ~Accepted(f, a)
                        /\ \/ Halts(Sent(Step), Noted(Step))
                           \/ /\ ~Sent(Step).active
                              /\ Repeats(Sent(Step), Noted(Step)) \/ GivesUp(Sent(Step), Noted(Step))
  BY <1>0, CommandIs
<1>3. PICK c, m : c = Sent(Step) /\ m = Noted(Step)
  OBVIOUS
<1>4. c \in CtrlRecord /\ m \in MmcRecord /\ run \in RunRecord /\ run.got \in Seq(Data)
  BY <1>0, <1>3, SentIs, NotedIs, RunIs DEF Types
<1>5. run.pc \in 1 .. 5 /\ Len(Script) \in Nat /\ run.pc \in 1 .. Len(Script) /\ job.cnt \in Nat \ {0}
  BY <1>0, RequestStep, ScriptIs, RequestIs
<1>6. /\ card' \in CardRecord /\ faults' <= MaxFaults /\ faults' \in Nat /\ faults <= faults'
      /\ a \in Answers(Step)
      /\ card' = card \/ card' = a.card
      /\ f = "NONE" => card' = a.card
      /\ Accepted(f, a) => card' = a.card
      /\ f # "NONE" => faults' = faults + 1 /\ faults < MaxFaults
  <2>1. /\ faults' \in Nat /\ (f = "NONE" => faults' = faults) /\ (f # "NONE" => faults' = faults + 1)
        /\ f = "NONE" \/ faults < MaxFaults
    BY <1>2 DEF CommandOf, World
  <2>2. faults' <= MaxFaults /\ faults <= faults'
    BY <1>0, <2>1
  <2>3. Step # "CMD0"
    BY <1>0, <1>5, RequestStep DEF ReadCommand, WriteCommand
  <2> QED BY <1>2, <2>1, <2>2, <2>3 DEF CommandOf, World, Accepted
<1>7. CASE run.pc = 1
  <2>1. Step = "CMD16"
    BY <1>0, <1>7, RequestStep
  <2>2. card'.state = card.state /\ card'.burst = card.burst /\ (a.ok <=> card.state = "tran")
    BY <1>0, <1>6, <2>1, AnswerCMD16
  <2>3. up => card'.state \in Open /\ ~Wild'
    BY <1>1, <1>7, <2>2 DEF Ends, Transfer, Wild
  <2>4. CASE Halts(c, m) \/ Repeats(c, m)
    <3>1. job' = job /\ up' = up /\ run'.pc = 1 /\ run' \in RunRecord
      BY <1>7, <2>4 DEF Halts, Repeats, Stays
    <3>2. up => Transfer' /\ Lossy'
      BY <2>3, <3>1 DEF Transfer, Lossy
    <3> QED BY <1>6, <2>3, <3>1, <3>2, RequestEnds
  <2>5. CASE GivesUp(c, m)
    BY <1>1, <1>4, <1>6, <2>3, <2>5, ReturnEnds, RequestIs DEF GivesUp
  <2>6. CASE CommandDone(c, m, a.card)
    <3>1. StepDone(Prepared(c, m), m, run.got)
      BY <2>1, <2>6 DEF CommandDone
    <3>2. run.pc < Len(Script)
      BY <1>0, <1>7, RequestLength
    <3>3. job' = job /\ up' = up /\ run'.pc = 2 /\ run'.stop = 0
      BY <1>0, <1>1, <1>4, <1>7, <3>1, <3>2, DoneMore
    <3>4. up => Transfer' /\ Lossy'
      BY <2>3, <3>3 DEF Transfer, Lossy
    <3> QED BY <1>6, <2>3, <3>3, <3>4, RequestEnds
  <2> QED BY <1>2, <1>3, <2>4, <2>5, <2>6
<1>8. CASE run.pc = 2
  <2>1. Step = IF job.op = "READ10" THEN ReadCommand ELSE WriteCommand
    BY <1>0, <1>8, RequestStep
  <2>2. DataCommand(Step) /\ Step # "CMD12"
    BY <2>1 DEF DataCommand, ReadCommand, WriteCommand
  <2>3. c.active
    BY <1>0, <1>3, <2>2, SentIs DEF Types
  <2>4. /\ a.ok <=> card.state = "tran"
        /\ \/ card'.state = card.state /\ card'.burst = card.burst
           \/ /\ card.state = "tran" /\ card'.burst = Burst
              /\ card'.state = IF job.op = "READ10" THEN "data" ELSE "rcv"
    <3>1. CASE job.op = "READ10"
      BY <1>0, <1>6, <2>1, <3>1, AnswerRead
    <3>2. CASE job.op # "READ10"
      BY <1>0, <1>6, <2>1, <3>2, AnswerWrite
    <3> QED BY <3>1, <3>2
  <2>5. up => card'.state \in Open
    BY <2>4 DEF Ends, Open
  <2>6. CASE Halts(c, m)
    <3>1. job' = job /\ up' = up /\ run'.pc = 2 /\ run'.stop = 3
      BY <1>0, <1>8, <2>6 DEF Halts, Stays
    <3>2. up => Transfer' /\ Lossy'
      BY <1>0, <1>6, <3>1 DEF Transfer, Lossy
    <3> QED BY <1>6, <2>5, <3>1, <3>2, RequestEnds
  <2>7. CASE Accepted(f, a) /\ CommandDone(c, m, a.card)
    <3>1. StepDone(c, m, run.got) /\ a.ok
      BY <2>1, <2>7 DEF CommandDone, Accepted, ReadCommand, WriteCommand
    <3>2. run.pc < Len(Script)
      BY <1>0, <1>8, RequestLength
    <3>3. job' = job /\ up' = up /\ run'.pc = 3 /\ run'.stop = 0
      BY <1>0, <1>1, <1>4, <1>8, <3>1, <3>2, DoneMore
    <3>4. \/ card'.state = "tran"
          \/ card'.burst = Burst /\ card'.state = IF job.op = "READ10" THEN "data" ELSE "rcv"
      BY <2>4, <3>1
    <3>5. up => Transfer' /\ Lossy'
      BY <3>3, <3>4 DEF Transfer, Lossy, Wild, Burst
    <3> QED BY <1>6, <2>5, <3>3, <3>5, RequestEnds
  <2> QED BY <1>2, <1>3, <2>3, <2>6, <2>7
<1>9. CASE run.pc = 5
  <2>1. Step = "CMD12" /\ job.cnt > 1 /\ Len(Script) = 5
    BY <1>0, <1>9, RequestStep
  <2>2. ~c.active
    BY <1>0, <1>3, <2>1, SentIs DEF Types
  <2>3. a.ok <=> card.state \in {"data", "rcv"}
    BY <1>0, <1>6, <2>1, AnswerCMD12
  <2>4. up => card.state \in IF job.op = "READ10" THEN {"tran", "data"} ELSE {"tran", "rcv", "prg"}
    BY <1>9 DEF Ends, Transfer
  <2>5. up => /\ card'.state \in IF job.op = "READ10" THEN {"tran", "data"} ELSE {"tran", "rcv", "prg"}
              /\ card'.state \in Open
    BY <1>0, <1>6, <2>1, <2>4, AnswerCMD12 DEF Open
  <2>6. ~Accepted(f, a) /\ Wild' => Wild /\ f # "NONE"
    <3>1. card'.burst = card.burst
      BY <1>0, <1>6, <2>1, AnswerCMD12
    <3>2. card' = a.card => ~Wild'
      BY <1>0, <1>6, <2>1, AnswerCMD12 DEF Wild
    <3> QED BY <1>6, <3>2 DEF Wild
  <2>7. CASE Repeats(c, m) /\ ~Accepted(f, a)
    <3>1. job' = job /\ up' = up /\ run'.pc = 5 /\ run'.stop = 0 /\ run.tries > 1 /\ run'.tries = run.tries - 1
      BY <1>9, <2>1, <2>7 DEF Repeats, Stays
    <3>2. run.tries \in 1 .. 3
      BY <1>0, <1>4, RunIs
    <3>3. up /\ Wild => faults >= 3 - run.tries
      BY <1>0, <1>1, <1>9 DEF Ends, Lossy
    <3>4. up /\ Wild' => faults' >= 3 - run'.tries
      BY <1>0, <1>6, <2>6, <2>7, <3>1, <3>2, <3>3
    <3>5. up => Transfer' /\ Lossy'
      BY <1>0, <2>1, <2>5, <3>1, <3>4 DEF Transfer, Lossy
    <3> QED BY <1>6, <2>5, <3>1, <3>5, RequestEnds
  <2>8. CASE GivesUp(c, m) /\ ~Accepted(f, a)
    <3>1. run.tries = 1 /\ Return("FAIL", c, m, <<>>)
      BY <2>1, <2>8 DEF GivesUp
    <3>2. up /\ Wild => faults >= 2
      BY <1>0, <1>1, <1>9, <3>1 DEF Ends, Lossy
    <3>3. up => ~Wild'
      BY <1>0, <1>6, <2>6, <2>8, <3>2
    <3> QED BY <1>1, <1>4, <1>6, <2>5, <3>1, <3>3, ReturnEnds, RequestIs
  <2>9. CASE Accepted(f, a) /\ CommandDone(c, m, a.card)
    <3>1. StepDone(c, m, run.got) /\ a.ok
      BY <2>1, <2>9 DEF CommandDone, Accepted
    <3>2. Return("PASS", c, m, run.got)
      BY <1>9, <2>1, <3>1 DEF StepDone
    <3>3. card'.state \in {"tran", "prg"}
      BY <1>0, <1>6, <2>1, <2>3, <2>9, <3>1, AnswerCMD12
    <3>4. card'.state \in Open /\ ~Wild'
      BY <3>3 DEF Open, Wild
    <3> QED BY <1>1, <1>4, <1>6, <3>2, <3>4, ReturnEnds
  <2> QED BY <1>2, <1>3, <2>2, <2>7, <2>8, <2>9 DEF Halts
<1>10. run.pc # 3 /\ run.pc # 4
  BY <1>0, <1>1, RequestStep DEF Commands
<1> QED BY <1>5, <1>7, <1>8, <1>9, <1>10

LEMMA WaitRequestEnds ==
  ASSUME TypesIn, Books, Ends, MaxFaults < CmdTries, Wait, job \in Request
  PROVE  Books' /\ Enumerated' /\ Ends'
<1>0. Types /\ faults \in Nat /\ faults <= MaxFaults /\ MaxFaults \in Nat /\ MaxFaults < 3 /\ CmdTries = 3
      /\ MaxRetries = 5 /\ card \in CardRecord
  BY Sizes DEF TypesIn, Types, Books
<1>1. job # NULL /\ run.stop = 0 /\ Step = "WAIT" /\ run.polls > 0
  BY <1>0, WaitIs
<1>2. PICK f, a :
        /\ f = "NONE" \/ (f \in {"CMD_LOST", "RESP_LOST"} /\ faults < MaxFaults)
        /\ a \in Answers("CMD13") /\ World'
        /\ card' = (IF f = "CMD_LOST" THEN card ELSE a.card)
        /\ f = "NONE" => faults' = faults
        /\ f # "NONE" => faults' = faults + 1
        /\ \/ (f # "NONE" \/ ~a.ok) /\ CommandFailed(Sent("CMD13"), Noted("CMD13"))
           \/ /\ f = "NONE" /\ a.ok /\ card.state = "prg" /\ card.burst = "many"
              /\ AttemptFailed(Sent("CMD13"), Noted("CMD13"))
           \/ /\ f = "NONE" /\ a.ok /\ Settled(card.state)
              /\ StepDone(Sent("CMD13"), Noted("CMD13"), run.got)
           \/ /\ f = "NONE" /\ a.ok /\ ~Settled(card.state)
              /\ Continue([run EXCEPT !.polls = MaxRetries], Sent("CMD13"), Noted("CMD13"))
  BY <1>0, WaitIs, Zenon
<1>3. PICK c, m : c = Sent("CMD13") /\ m = Noted("CMD13")
  OBVIOUS
<1>4. c \in CtrlRecord /\ m \in MmcRecord /\ run \in RunRecord /\ run.got \in Seq(Data)
  BY <1>0, <1>3, SentIs, NotedIs, RunIs DEF Types
<1>5. run.pc = 4
  <2>1. run.pc \in 1 .. 5 /\ run.pc # 1 /\ run.pc # 3 /\ run.pc # 5
    BY <1>0, <1>1, RequestStep
  <2>2. run.pc # 2
    BY <1>0, <1>1, RequestStep DEF ReadCommand, WriteCommand
  <2> QED BY <2>1, <2>2
<1>6. /\ card' \in CardRecord /\ card'.state = card.state /\ card'.burst = card.burst
      /\ Wild' <=> Wild
      /\ card.state \in {"stby", "tran", "data", "rcv", "prg"} => a.ok
  <2>1. card'.state = card.state /\ card'.burst = card.burst
    BY <1>0, <1>2, AnswerCMD13
  <2>2. card.state \in {"stby", "tran", "data", "rcv", "prg"} => a.ok
    BY <1>0, <1>2, AnswerCMD13
  <2> QED BY <1>2, <2>1, <2>2 DEF World, Wild
<1>7. up => /\ card.state \in IF job.op = "READ10" THEN {"tran", "data"} ELSE {"tran", "rcv", "prg"}
            /\ card'.state \in Open /\ a.ok
            /\ job.cnt = 1 => ~Wild
            /\ Wild => faults >= 5 - run.polls
  BY <1>0, <1>1, <1>5, <1>6 DEF Ends, Transfer, Lossy, Open
<1>8. faults' \in Nat /\ faults' <= MaxFaults /\ faults <= faults' /\ (f # "NONE" => faults' = faults + 1)
  BY <1>0, <1>2
<1>9. run.polls \in 0 .. 5
  BY <1>0, <1>4, RunIs
<1>10. CASE (f # "NONE" \/ ~a.ok) /\ CommandFailed(c, m)
  <2>1. up => f # "NONE"
    BY <1>7, <1>10
  <2>2. CASE Halts(c, m)
    <3>1. job' = job /\ up' = up /\ run'.pc = 4 /\ run'.stop = 3
      BY <1>0, <1>5, <2>2 DEF Halts, Stays
    <3>2. up => Transfer' /\ Lossy'
      BY <1>0, <1>6, <1>7, <1>8, <3>1 DEF Transfer, Lossy
    <3> QED BY <1>7, <1>8, <3>1, <3>2, RequestEnds
  <2>3. CASE Repeats(c, m)
    <3>1. job' = job /\ up' = up /\ run'.pc = 4 /\ run'.stop = 0 /\ run'.polls = run.polls - 1
      BY <1>1, <1>5, <2>3 DEF Repeats, Stays
    <3>2. up /\ Wild' => faults' >= 5 - run'.polls
      BY <1>0, <1>6, <1>7, <1>8, <1>9, <2>1, <3>1
    <3>3. up => Transfer' /\ Lossy'
      BY <1>0, <1>6, <1>7, <3>1, <3>2 DEF Transfer, Lossy
    <3> QED BY <1>7, <1>8, <3>1, <3>3, RequestEnds
  <2>4. ~GivesUp(c, m)
    BY <1>1 DEF GivesUp
  <2> QED BY <1>1, <1>4, <1>10, <2>2, <2>3, <2>4, FailedIs
<1>11. CASE card.state = "prg" /\ AttemptFailed(c, m)
  <2>1. Repeats(c, m)
    BY <1>1, <1>4, <1>11, AttemptIs DEF GivesUp
  <2>2. job' = job /\ up' = up /\ run'.pc = 4 /\ run'.stop = 0
    BY <1>5, <2>1 DEF Repeats, Stays
  <2>3. ~Wild'
    BY <1>6, <1>11 DEF Wild
  <2>4. up => Transfer' /\ Lossy'
    BY <1>6, <1>7, <2>2, <2>3 DEF Transfer, Lossy
  <2> QED BY <1>7, <1>8, <2>2, <2>4, RequestEnds
<1>12. CASE StepDone(c, m, run.got)
  <2>1. CASE job.cnt > 1
    <3>1. run.pc < Len(Script)
      <4>1. Len(Script) = 5
        BY <1>0, <2>1, RequestLength
      <4> QED BY <1>5, <4>1
    <3>2. job' = job /\ up' = up /\ run'.pc = 5 /\ run'.stop = 0 /\ run'.tries = 3
      BY <1>0, <1>1, <1>4, <1>5, <1>12, <3>1, DoneMore
    <3>3. up => Transfer' /\ Lossy'
      BY <1>0, <1>6, <1>7, <1>8, <2>1, <3>2 DEF Transfer, Lossy
    <3> QED BY <1>7, <1>8, <3>2, <3>3, RequestEnds
  <2>2. CASE ~(job.cnt > 1)
    <3>1. job.cnt = 1
      BY <2>2, RequestIs
    <3>2. Len(Script) = 4
      BY <1>0, <2>2, RequestStep
    <3>3. Return("PASS", c, m, run.got)
      BY <1>5, <1>12, <3>2 DEF StepDone
    <3>4. up => card'.state \in Open /\ ~Wild'
      BY <1>6, <1>7, <3>1
    <3> QED BY <1>1, <1>4, <1>6, <1>8, <3>3, <3>4, ReturnEnds, RequestIs
  <2> QED BY <2>1, <2>2
<1>13. CASE ~Settled(card.state) /\ Continue([run EXCEPT !.polls = MaxRetries], c, m)
  <2>1. job' = job /\ up' = up /\ run'.pc = 4 /\ run'.stop = 0
    BY <1>1, <1>4, <1>5, <1>13 DEF Continue, RunRecord
  <2>2. up => ~Wild
    <3>1. CASE job.op = "READ10"
      BY <1>7, <1>13, <3>1 DEF Settled
    <3>2. CASE job.op = "WRITE10"
      BY <1>7, <1>13, <3>2 DEF Settled, Wild
    <3> QED BY <3>1, <3>2, RequestIs
  <2>3. up => Transfer' /\ Lossy'
    BY <1>6, <1>7, <2>1, <2>2 DEF Transfer, Lossy
  <2> QED BY <1>7, <1>8, <2>1, <2>3, RequestEnds
<1> QED BY <1>2, <1>3, <1>10, <1>11, <1>12, <1>13

LEMMA StopRequestEnds ==
  ASSUME TypesIn, Books, Ends, MaxFaults < CmdTries, StopTransfer, job \in Request
  PROVE  Books' /\ Enumerated' /\ Ends'
<1>0. Types /\ faults \in Nat /\ faults <= MaxFaults /\ MaxFaults \in Nat /\ MaxFaults < 3 /\ CmdTries = 3
      /\ card \in CardRecord
  BY Sizes DEF TypesIn, Types, Books
<1>1. job # NULL /\ run.stop > 0 /\ (Step = "WAIT" => run.polls > 0)
  BY <1>0, StopIs
<1>2. PICK f, a :
        /\ f = "NONE" \/ (f \in {"CMD_LOST", "RESP_LOST"} /\ faults < MaxFaults)
        /\ a \in Answers("CMD12") /\ World'
        /\ card' = (IF f = "CMD_LOST" THEN card ELSE a.card)
        /\ f = "NONE" => faults' = faults
        /\ f # "NONE" => faults' = faults + 1
        /\ \/ /\ ~(f = "NONE" /\ a.ok) /\ run.stop > 1
              /\ Continue([run EXCEPT !.stop = run.stop - 1], Sent("CMD12"), Noted("CMD12"))
           \/ /\ (f = "NONE" /\ a.ok) \/ run.stop = 1
              /\ \/ AttemptFailed(Sent("CMD12"), Noted("CMD12"))
                 \/ Return("FAIL", Sent("CMD12"), Noted("CMD12"), <<>>)
           \/ /\ f = "NONE" /\ a.ok /\ run.then = "RESULT"
              /\ StepDone(Sent("CMD12"), Noted("CMD12"), run.got)
  BY <1>0, StopIs, Zenon
<1>3. PICK c, m : c = Sent("CMD12") /\ m = Noted("CMD12")
  OBVIOUS
<1>4. c \in CtrlRecord /\ m \in MmcRecord /\ run \in RunRecord /\ run.got \in Seq(Data) /\ run.stop \in 0 .. 3
  BY <1>0, <1>3, SentIs, NotedIs, RunIs DEF Types
<1>5. run.pc \in 1 .. 5 /\ job.cnt \in Nat \ {0}
  BY <1>0, RequestStep, RequestIs
<1>6. /\ card' \in CardRecord
      /\ a.ok <=> card.state \in {"data", "rcv"}
      /\ card'.burst = card.burst
      /\ \/ f = "CMD_LOST" /\ card' = card
         \/ /\ card'.state = (CASE card.state = "data" -> "tran" [] card.state = "rcv" -> "prg" [] OTHER -> card.state)
            /\ ~Wild'
  <2>1. /\ a.ok <=> card.state \in {"data", "rcv"}
        /\ a.card.burst = card.burst
        /\ card.state = "data" => a.card.state = "tran"
        /\ card.state = "rcv" => a.card.state = "prg"
        /\ ~a.ok => a.card.state = card.state
    BY <1>0, <1>2, AnswerCMD12
  <2>2. CASE f = "CMD_LOST"
    BY <1>2, <2>1, <2>2 DEF World
  <2>3. CASE f # "CMD_LOST"
    <3>1. card' = a.card
      BY <1>2, <2>3
    <3>2. CASE card.state = "data"
      BY <1>2, <2>1, <3>1, <3>2 DEF World, Wild
    <3>3. CASE card.state = "rcv"
      BY <1>2, <2>1, <3>1, <3>3 DEF World, Wild
    <3>4. CASE card.state \notin {"data", "rcv"}
      BY <1>2, <2>1, <3>1, <3>4 DEF World, Wild
    <3> QED BY <3>2, <3>3, <3>4
  <2> QED BY <2>2, <2>3
<1>7. /\ Wild' => Wild /\ f # "NONE"
      /\ card.state \in Open => card'.state \in Open
      /\ card.state \in {"tran", "data"} => card'.state \in {"tran", "data"}
      /\ card.state \in {"tran", "rcv", "prg"} => card'.state \in {"tran", "rcv", "prg"}
  BY <1>6 DEF Wild, Open
<1>8. faults' \in Nat /\ faults' <= MaxFaults /\ faults <= faults' /\ (f # "NONE" => faults' = faults + 1 /\ faults < MaxFaults)
  BY <1>0, <1>2
<1>9. up => /\ card'.state \in Open
            /\ run.pc >= 3 => card'.state \in IF job.op = "READ10" THEN {"tran", "data"} ELSE {"tran", "rcv", "prg"}
            /\ Wild => faults >= 3 - run.stop
            /\ run.pc = 3 /\ job.cnt = 1 /\ Wild => card.burst = "one"
  BY <1>0, <1>1, <1>7 DEF Ends, Transfer, Lossy
<1>10. CASE run.stop > 1 /\ Continue([run EXCEPT !.stop = run.stop - 1], c, m)
  <2>1. job' = job /\ up' = up /\ run'.pc = run.pc /\ run'.stop = run.stop - 1
    BY <1>4, <1>10 DEF Continue, RunRecord
  <2>2. run'.stop > 0 /\ ~(run'.stop = 0)
    BY <1>4, <1>10, <2>1
  <2>3. up /\ Wild' => faults' >= 3 - run'.stop
    BY <1>0, <1>4, <1>7, <1>8, <1>9, <2>1
  <2>4. up => Transfer' /\ Lossy'
    BY <1>0, <1>6, <1>7, <1>9, <2>1, <2>2, <2>3 DEF Transfer, Lossy
  <2> QED BY <1>8, <1>9, <2>1, <2>4, RequestEnds
<1>11. CASE (f = "NONE" /\ a.ok) \/ run.stop = 1
  <2>1. up => ~Wild'
    BY <1>0, <1>7, <1>8, <1>9, <1>11
  <2>2. CASE Return("FAIL", c, m, <<>>) \/ GivesUp(c, m)
    BY <1>1, <1>4, <1>6, <1>8, <1>9, <2>1, <2>2, ReturnEnds, RequestIs DEF GivesUp
  <2>3. CASE Repeats(c, m)
    <3>1. job' = job /\ up' = up /\ run'.pc = run.pc /\ run'.stop = 0
      BY <2>3 DEF Repeats, Stays
    <3>2. up => Transfer' /\ Lossy'
      BY <1>9, <2>1, <3>1 DEF Transfer, Lossy
    <3> QED BY <1>8, <1>9, <3>1, <3>2, RequestEnds
  <2>4. CASE run.then = "RESULT" /\ StepDone(c, m, run.got)
    <3>1. Step = "DATA"
      BY <1>0, <1>1, <2>4 DEF Types, Placed, Step
    <3>2. run.pc = 3 /\ run.pc < Len(Script)
      BY <1>0, <1>1, <3>1, DataPlace
    <3>3. job' = job /\ up' = up /\ run'.pc = 4 /\ run'.stop = 0
      BY <1>0, <1>1, <1>4, <2>4, <3>2, DoneMore
    <3>4. up => Transfer' /\ Lossy'
      BY <1>9, <2>1, <3>2, <3>3 DEF Transfer, Lossy
    <3> QED BY <1>8, <1>9, <3>3, <3>4, RequestEnds
  <2>5. CASE AttemptFailed(c, m)
    BY <1>1, <1>4, <2>2, <2>3, <2>5, AttemptIs
  <2>6. CASE run.stop > 1 /\ Continue([run EXCEPT !.stop = run.stop - 1], c, m)
    BY <1>10, <2>6
  <2> QED BY <1>2, <1>3, <2>2, <2>4, <2>5, <2>6
<1> QED BY <1>2, <1>3, <1>10, <1>11

LEMMA DataRequestEnds ==
  ASSUME TypesIn, Books, Ends, MaxFaults < CmdTries, DataDone \/ DataFailed, job \in Request
  PROVE  Books' /\ Enumerated' /\ Ends'
<1>0. Types /\ faults \in Nat /\ faults <= MaxFaults /\ MaxFaults \in Nat /\ CmdTries = 3 /\ MaxRetries = 5
      /\ card \in CardRecord /\ run \in RunRecord
  BY Sizes DEF TypesIn, Types, Books
<1>1. job # NULL /\ run.stop = 0 /\ Step = "DATA" /\ World'
  BY <1>0, DataDoneIs, DataFailedIs
<1>2. run.pc = 3 /\ run.pc < Len(Script)
  BY <1>0, <1>1, DataPlace
<1>3. up => /\ card.state \in IF job.op = "READ10" THEN {"tran", "data"} ELSE {"tran", "rcv", "prg"}
            /\ job.cnt = 1 /\ Wild => card.burst = "one"
  BY <1>2 DEF Ends, Transfer
<1>4. CASE DataFailed
  <2>1. /\ card' = card \/ card' = [card EXCEPT !.state = "tran"]
        /\ faults' = faults \/ (faults < MaxFaults /\ faults' = faults + 1)
        /\ job' = job /\ up' = up /\ run'.pc = 3 /\ run'.stop = 3
    BY <1>0, <1>2, <1>4, DataFailedIs
  <2>2. faults' <= MaxFaults /\ faults' >= 0
    BY <1>0, <2>1
  <2>3. (card'.state = card.state /\ card'.burst = card.burst) \/ card'.state = "tran"
    BY <1>0, <2>1 DEF CardRecord
  <2>4. up => card'.state \in Open /\ Transfer' /\ Lossy'
    BY <1>0, <1>3, <2>1, <2>2, <2>3 DEF Transfer, Lossy, Wild, Open
  <2> QED BY <2>1, <2>2, <2>4, RequestEnds
<1>5. CASE DataDone
  <2>1. /\ Moving /\ card' = Moved /\ Got \in Seq(Data) /\ faults' \in Nat /\ faults' <= MaxFaults
        /\ \/ StepDone([ctrl EXCEPT !.active = FALSE], mmc, Got)
           \/ Continue([run EXCEPT !.stop = CmdTries, !.then = "RESULT", !.got = Got], ctrl, mmc)
    BY <1>0, <1>5, DataDoneIs
  <2>2. card.state = IF job.op = "READ10" THEN "data" ELSE "rcv"
    BY <2>1, RequestIs DEF Moving, Direction
  <2>3. \/ card.burst = "many" /\ card' = card
        \/ card.burst = "one" /\ card'.state = IF job.op = "READ10" THEN "tran" ELSE "prg"
    <3>1. CASE card.burst = "many"
      BY <2>1, <3>1 DEF Moved
    <3>2. CASE card.burst = "one"
      BY <1>0, <2>1, <3>2, RequestIs DEF Moved, Direction, CardRecord
    <3> QED BY <1>0, <3>1, <3>2 DEF CardRecord
  <2>4. up /\ job.cnt = 1 => ~Wild'
    <3>1. card.burst = "one" => ~Wild'
      BY <2>3 DEF Wild
    <3>2. card.burst = "many" => Wild
      BY <2>2 DEF Wild
    <3> QED BY <1>0, <1>3, <3>1, <3>2 DEF CardRecord
  <2>5. up => /\ card'.state \in Open
              /\ card'.state \in IF job.op = "READ10" THEN {"tran", "data"} ELSE {"tran", "rcv", "prg"}
    BY <1>3, <2>3 DEF Open
  <2>6. CASE StepDone([ctrl EXCEPT !.active = FALSE], mmc, Got)
    <3>1. job' = job /\ up' = up /\ run'.pc = 4 /\ run'.stop = 0 /\ run'.polls = 5
      BY <1>0, <1>1, <1>2, <2>1, <2>6, DoneMore
    <3>2. up => Transfer' /\ Lossy'
      BY <1>0, <2>1, <2>4, <2>5, <3>1 DEF Transfer, Lossy
    <3> QED BY <2>1, <2>5, <3>1, <3>2, RequestEnds
  <2>7. CASE Continue([run EXCEPT !.stop = CmdTries, !.then = "RESULT", !.got = Got], ctrl, mmc)
    <3>1. job' = job /\ up' = up /\ run'.pc = 3 /\ run'.stop = 3
      BY <1>0, <1>2, <2>7 DEF Continue, RunRecord
    <3>2. up => Transfer' /\ Lossy'
      BY <1>0, <2>1, <2>4, <2>5, <3>1 DEF Transfer, Lossy
    <3> QED BY <2>1, <2>5, <3>1, <3>2, RequestEnds
  <2> QED BY <2>1, <2>6, <2>7
<1> QED BY <1>4, <1>5

(* sd_init().                                                               *)
Seated ==
  /\ run.pc >= 10 => card.state \in {"tran", "data"} /\ (card.state = "data" => card.burst = "one")
  /\ run.pc = 14 => card.state = "tran"

LEMMA InitEnds ==
  ASSUME job = SdInit, job' = job, up' = up, Books, faults' <= MaxFaults, Seated'
  PROVE  Books' /\ Enumerated' /\ Ends'
BY DEF Books, Enumerated, Ends, Seated

LEMMA CommandInitEnds ==
  ASSUME TypesIn, Books, Enumerated, Ends, Command, job = SdInit
  PROVE  Books' /\ Enumerated' /\ Ends'
<1>0. Types /\ faults \in Nat /\ faults <= MaxFaults /\ MaxFaults \in Nat /\ card \in CardRecord
  BY Sizes DEF TypesIn, Types, Books
<1>1. job # NULL /\ run.stop = 0 /\ Step \in Commands /\ Step # "WAIT"
  BY <1>0, CommandIs
<1>2. PICK f, a : /\ CommandOf(f, a) /\ World'
                  /\ \/ CommandDone(Sent(Step), Noted(Step), a.card) /\ Accepted(f, a)
                     \/ Halts(Sent(Step), Noted(Step)) \/ Repeats(Sent(Step), Noted(Step))
                     \/ GivesUp(Sent(Step), Noted(Step))
  BY <1>0, CommandIs
<1>3. PICK c, m : c = Sent(Step) /\ m = Noted(Step)
  OBVIOUS
<1>4. c \in CtrlRecord /\ m \in MmcRecord /\ run \in RunRecord /\ run.got \in Seq(Data)
  BY <1>0, <1>3, SentIs, NotedIs, RunIs DEF Types
<1>5. run.pc \in 1 .. 16 /\ Len(Script) = 16 /\ run.pc # 9 /\ run.pc # 13 /\ run.pc # 16
  BY <1>0, <1>1, InitStep DEF Commands
<1>6. /\ card' \in CardRecord /\ faults' <= MaxFaults /\ a \in Answers(Step)
      /\ card' = card \/ card' = a.card
  <2>1. /\ faults' \in Nat /\ (f = "NONE" => faults' = faults) /\ (f # "NONE" => faults' = faults + 1)
        /\ f = "NONE" \/ faults < MaxFaults
    BY <1>2 DEF CommandOf, World
  <2>2. faults' <= MaxFaults
    BY <1>0, <2>1
  <2> QED BY <1>2, <2>1, <2>2 DEF CommandOf, World
<1>7. run.pc >= 10 => /\ card.state \in {"tran", "data"} /\ (card.state = "data" => card.burst = "one")
                      /\ run.pc = 14 => card.state = "tran"
  BY DEF Enumerated
<1>8. run.pc >= 10 =>
        /\ card'.state \in {"tran", "data"} /\ (card'.state = "data" => card'.burst = "one")
        /\ run.pc = 14 => card'.state = "tran"
  <2>1. CASE run.pc = 10
    BY <1>0, <1>6, <1>7, <2>1, InitStep, AnswerCMD16
  <2>2. CASE run.pc = 11 \/ run.pc = 14
    BY <1>0, <1>6, <1>7, <2>2, InitStep, AnswerCMD55
  <2>3. CASE run.pc = 12
    BY <1>0, <1>6, <1>7, <2>3, InitStep, AnswerACMD51
  <2>4. CASE run.pc = 15
    BY <1>0, <1>6, <1>7, <2>4, InitStep, AnswerACMD6
  <2> QED BY <1>5, <2>1, <2>2, <2>3, <2>4
<1>9. CASE Halts(c, m) \/ Repeats(c, m)
  <2>1. job' = job /\ up' = up /\ run'.pc = run.pc
    BY <1>9 DEF Halts, Repeats, Stays
  <2> QED BY <1>6, <1>8, <2>1, InitEnds DEF Seated
<1>10. CASE GivesUp(c, m) \/ Return("FAIL", c, m, <<>>)
  <2>1. Return("FAIL", c, m, <<>>) /\ "FAIL" # "PASS"
    BY <1>10 DEF GivesUp
  <2> QED BY <1>1, <1>4, <1>6, <2>1, ReturnEnds, RequestIs
<1>11. ASSUME NEW d \in CtrlRecord, NEW n \in MmcRecord, StepDone(d, n, run.got), Step # "CMD55"
       PROVE  Books' /\ Enumerated' /\ Ends'
  <2>1. run.pc < Len(Script)
    BY <1>5
  <2>2. job' = job /\ up' = up /\ run'.pc = run.pc + 1
    BY <1>0, <1>1, <1>4, <1>11, <2>1, DoneMore
  <2>3. run'.pc >= 10 => run.pc >= 10 /\ run'.pc # 14
    BY <1>5, <2>2
  <2> QED BY <1>6, <1>8, <2>2, <2>3, InitEnds DEF Seated
<1>12. CASE Step = "CMD55" /\ Continue([Start(run.pc + 1) EXCEPT !.loops = run.loops], c, m)
  <2>1. job' = job /\ up' = up /\ run'.pc = run.pc + 1
    BY <1>12 DEF Continue, Start
  <2>2. run'.pc >= 10 => run.pc >= 10 /\ run'.pc # 14
    BY <1>5, <2>1
  <2> QED BY <1>6, <1>8, <2>1, <2>2, InitEnds DEF Seated
<1>13. CASE Step = "ACMD41" /\ Continue([Start(run.pc - 1) EXCEPT !.loops = run.loops + 1], c, m)
  <2>1. job' = job /\ up' = up /\ run'.pc = run.pc - 1
    BY <1>13 DEF Continue, Start
  <2>2. run'.pc >= 10 => run.pc >= 10 /\ (run'.pc = 14 => run.pc = 15)
    BY <1>5, <2>1
  <2>3. run.pc = 15 => Step # "ACMD41"
    BY <1>0, InitStep
  <2> QED BY <1>6, <1>8, <1>13, <2>1, <2>2, <2>3, InitEnds DEF Seated
<1>14. CASE CommandDone(c, m, a.card)
  <2>1. CASE Step = "CMD16" /\ StepDone(Prepared(c, m), m, run.got)
    BY <1>4, <1>11, <2>1, PreparedIs
  <2>2. CASE Step = "ACMD41" /\ StepDone(c, [m EXCEPT !.type = card.type, !.ocr = CardUnit], run.got)
    BY <1>0, <1>4, <1>11, <2>2, TypedIs
  <2>3. CASE Step # "CMD55" /\ StepDone(c, m, run.got)
    BY <1>4, <1>11, <2>3
  <2> QED BY <1>0, <1>1, <1>10, <1>12, <1>13, <1>14, <2>1, <2>2, <2>3, CommandDoneIs
<1> QED BY <1>2, <1>3, <1>9, <1>10, <1>14

LEMMA WaitInitEnds ==
  ASSUME TypesIn, Books, Enumerated, Ends, Wait, job = SdInit
  PROVE  Books' /\ Enumerated' /\ Ends'
<1>0. Types /\ faults \in Nat /\ faults <= MaxFaults /\ MaxFaults \in Nat /\ card \in CardRecord
  BY Sizes DEF TypesIn, Types, Books
<1>1. job # NULL /\ run.stop = 0 /\ Step = "WAIT" /\ run.polls > 0
  BY <1>0, WaitIs
<1>2. PICK f, a :
        /\ f = "NONE" \/ (f \in {"CMD_LOST", "RESP_LOST"} /\ faults < MaxFaults)
        /\ a \in Answers("CMD13") /\ World'
        /\ card' = (IF f = "CMD_LOST" THEN card ELSE a.card)
        /\ f = "NONE" => faults' = faults
        /\ f # "NONE" => faults' = faults + 1
        /\ \/ CommandFailed(Sent("CMD13"), Noted("CMD13"))
           \/ AttemptFailed(Sent("CMD13"), Noted("CMD13"))
           \/ Settled(card.state) /\ StepDone(Sent("CMD13"), Noted("CMD13"), run.got)
           \/ Continue([run EXCEPT !.polls = MaxRetries], Sent("CMD13"), Noted("CMD13"))
  BY <1>0, WaitIs, Zenon
<1>3. PICK c, m : c = Sent("CMD13") /\ m = Noted("CMD13")
  OBVIOUS
<1>4. c \in CtrlRecord /\ m \in MmcRecord /\ run \in RunRecord /\ run.got \in Seq(Data)
  BY <1>0, <1>3, SentIs, NotedIs, RunIs DEF Types
<1>5. (run.pc = 9 \/ run.pc = 16) /\ Len(Script) = 16
  <2>1. run.pc \in 1 .. 16 /\ Len(Script) = 16
    BY <1>0, InitStep
  <2>2. run.pc \notin 1 .. 8
    BY <1>0, <1>1, InitStep
  <2>3. run.pc \notin 10 .. 15
    BY <1>0, <1>1, InitStep
  <2> QED BY <2>1, <2>2, <2>3
<1>6. card' \in CardRecord /\ card'.state = card.state /\ card'.burst = card.burst
  <2>1. card'.state = card.state /\ card'.burst = card.burst
    BY <1>0, <1>2, AnswerCMD13
  <2> QED BY <1>2, <2>1 DEF World
<1>7. faults' <= MaxFaults
  BY <1>0, <1>2
<1>8. Seated
  BY DEF Enumerated, Seated
<1>9. CASE Halts(c, m) \/ Repeats(c, m)
  <2>1. job' = job /\ up' = up /\ run'.pc = run.pc
    BY <1>9 DEF Halts, Repeats, Stays
  <2> QED BY <1>6, <1>7, <1>8, <2>1, InitEnds DEF Seated
<1>10. ~GivesUp(c, m)
  BY <1>1 DEF GivesUp
<1>11. CASE Continue([run EXCEPT !.polls = MaxRetries], c, m)
  <2>1. job' = job /\ up' = up /\ run'.pc = run.pc
    BY <1>4, <1>11 DEF Continue, RunRecord
  <2> QED BY <1>6, <1>7, <1>8, <2>1, InitEnds DEF Seated
<1>12. CASE Settled(card.state) /\ StepDone(c, m, run.got)
  <2>1. CASE run.pc = 9
    <3>1. job' = job /\ up' = up /\ run'.pc = 10
      BY <1>0, <1>1, <1>4, <1>5, <1>12, <2>1, DoneMore
    <3>2. card.state = "tran"
      BY <1>12, <2>1, InitScript DEF Settled
    <3> QED BY <1>6, <1>7, <3>1, <3>2, InitEnds DEF Seated
  <2>2. CASE run.pc = 16
    <3>1. Return("PASS", c, m, run.got)
      BY <1>5, <1>12, <2>2 DEF StepDone
    <3>2. card'.state \in Open /\ ~Wild'
      BY <1>6, <1>8, <2>2 DEF Seated, Open, Wild
    <3> QED BY <1>1, <1>4, <1>6, <1>7, <3>1, <3>2, ReturnEnds
  <2> QED BY <1>5, <2>1, <2>2
<1> QED BY <1>1, <1>2, <1>3, <1>4, <1>9, <1>10, <1>11, <1>12, FailedIs, AttemptIs

LEMMA StopInitEnds ==
  ASSUME TypesIn, Books, Enumerated, Ends, StopTransfer, job = SdInit
  PROVE  Books' /\ Enumerated' /\ Ends'
<1>0. Types /\ faults \in Nat /\ faults <= MaxFaults /\ MaxFaults \in Nat /\ card \in CardRecord
  BY Sizes DEF TypesIn, Types, Books
<1>1. job # NULL /\ run.stop > 0 /\ (Step = "WAIT" => run.polls > 0)
  BY <1>0, StopIs
<1>2. PICK f, a :
        /\ f = "NONE" \/ (f \in {"CMD_LOST", "RESP_LOST"} /\ faults < MaxFaults)
        /\ a \in Answers("CMD12") /\ World'
        /\ card' = (IF f = "CMD_LOST" THEN card ELSE a.card)
        /\ f = "NONE" => faults' = faults
        /\ f # "NONE" => faults' = faults + 1
        /\ \/ Continue([run EXCEPT !.stop = run.stop - 1], Sent("CMD12"), Noted("CMD12"))
           \/ AttemptFailed(Sent("CMD12"), Noted("CMD12"))
           \/ Return("FAIL", Sent("CMD12"), Noted("CMD12"), <<>>)
           \/ /\ f = "NONE" /\ a.ok /\ run.then = "RESULT"
              /\ StepDone(Sent("CMD12"), Noted("CMD12"), run.got)
  BY <1>0, StopIs, Zenon
<1>3. PICK c, m : c = Sent("CMD12") /\ m = Noted("CMD12")
  OBVIOUS
<1>4. c \in CtrlRecord /\ m \in MmcRecord /\ run \in RunRecord /\ run.got \in Seq(Data)
  BY <1>0, <1>3, SentIs, NotedIs, RunIs DEF Types
<1>5. Seated
  BY DEF Enumerated, Seated
<1>6. /\ card' \in CardRecord /\ faults' <= MaxFaults
      /\ card'.burst = card.burst
      /\ card.state \in {"tran", "data"} => card'.state \in {"tran", "data"}
      /\ card.state = "tran" => card'.state = "tran"
      /\ card.state \in {"tran", "data"} /\ f = "NONE" /\ a.ok => card'.state = "tran"
  <2>1. /\ a.ok <=> card.state \in {"data", "rcv"}
        /\ a.card.burst = card.burst
        /\ card.state = "data" => a.card.state = "tran"
        /\ ~a.ok => a.card.state = card.state
    BY <1>0, <1>2, AnswerCMD12
  <2>2. card' \in CardRecord /\ faults' <= MaxFaults
    BY <1>0, <1>2 DEF World
  <2>3. f = "NONE" => card' = a.card
    BY <1>2
  <2>4. card' = card \/ card' = a.card
    BY <1>2
  <2> QED BY <2>1, <2>2, <2>3, <2>4
<1>7. CASE Repeats(c, m) \/ Continue([run EXCEPT !.stop = run.stop - 1], c, m)
  <2>1. job' = job /\ up' = up /\ run'.pc = run.pc
    BY <1>4, <1>7 DEF Repeats, Stays, Continue, RunRecord
  <2> QED BY <1>5, <1>6, <2>1, InitEnds DEF Seated
<1>8. CASE GivesUp(c, m) \/ Return("FAIL", c, m, <<>>)
  <2>1. Return("FAIL", c, m, <<>>) /\ "FAIL" # "PASS"
    BY <1>8 DEF GivesUp
  <2> QED BY <1>1, <1>4, <1>6, <2>1, ReturnEnds, RequestIs
<1>9. CASE f = "NONE" /\ a.ok /\ run.then = "RESULT" /\ StepDone(c, m, run.got)
  <2>1. Step = "DATA"
    BY <1>0, <1>1, <1>9 DEF Types, Placed, Step
  <2>2. run.pc = 13 /\ run.pc < Len(Script)
    BY <1>0, <1>1, <2>1, DataPlace
  <2>3. job' = job /\ up' = up /\ run'.pc = 14
    BY <1>0, <1>1, <1>4, <1>9, <2>2, DoneMore
  <2>4. card'.state = "tran"
    BY <1>5, <1>6, <1>9, <2>2 DEF Seated
  <2> QED BY <1>6, <2>3, <2>4, InitEnds DEF Seated
<1> QED BY <1>1, <1>2, <1>3, <1>4, <1>7, <1>8, <1>9, AttemptIs

LEMMA DataInitEnds ==
  ASSUME TypesIn, Books, Enumerated, Ends, DataDone \/ DataFailed, job = SdInit
  PROVE  Books' /\ Enumerated' /\ Ends'
<1>0. Types /\ faults \in Nat /\ faults <= MaxFaults /\ MaxFaults \in Nat /\ card \in CardRecord /\ run \in RunRecord
  BY Sizes DEF TypesIn, Types, Books
<1>1. job # NULL /\ run.stop = 0 /\ Step = "DATA" /\ World'
  BY <1>0, DataDoneIs, DataFailedIs
<1>2. run.pc = 13 /\ run.pc < Len(Script)
  BY <1>0, <1>1, DataPlace
<1>3. card.state \in {"tran", "data"} /\ (card.state = "data" => card.burst = "one")
  BY <1>2 DEF Enumerated
<1>4. CASE DataFailed
  <2>1. /\ card' = card \/ card' = [card EXCEPT !.state = "tran"]
        /\ faults' <= MaxFaults
        /\ job' = job /\ up' = up /\ run'.pc = 13
    BY <1>0, <1>2, <1>4, DataFailedIs
  <2>2. (card'.state = card.state /\ card'.burst = card.burst) \/ card'.state = "tran"
    BY <1>0, <2>1 DEF CardRecord
  <2> QED BY <1>3, <2>1, <2>2, InitEnds DEF Seated
<1>5. CASE DataDone
  <2>1. /\ Moving /\ card' = Moved /\ Got \in Seq(Data) /\ faults' <= MaxFaults
        /\ \/ StepDone([ctrl EXCEPT !.active = FALSE], mmc, Got)
           \/ Continue([run EXCEPT !.stop = CmdTries, !.then = "RESULT", !.got = Got], ctrl, mmc)
    BY <1>0, <1>5, DataDoneIs
  <2>2. Direction = "READ"
    BY InitScript DEF Direction
  <2>3. card.state = "data" /\ card.burst = "one"
    BY <1>3, <2>1, <2>2 DEF Moving
  <2>4. card'.state = "tran"
    BY <1>0, <2>1, <2>2, <2>3 DEF Moved, CardRecord
  <2>5. CASE StepDone([ctrl EXCEPT !.active = FALSE], mmc, Got)
    <3>1. job' = job /\ up' = up
      BY <1>0, <1>1, <1>2, <2>1, <2>5, DoneMore
    <3> QED BY <2>1, <2>4, <3>1, InitEnds DEF Seated
  <2>6. CASE Continue([run EXCEPT !.stop = CmdTries, !.then = "RESULT", !.got = Got], ctrl, mmc)
    <3>1. job' = job /\ up' = up
      BY <2>6 DEF Continue
    <3> QED BY <2>1, <2>4, <3>1, InitEnds DEF Seated
  <2> QED BY <2>1, <2>5, <2>6
<1> QED BY <1>4, <1>5

LEMMA GivesUpEnds ==
  ASSUME TypesIn, Books, Enumerated, Ends, MaxFaults < CmdTries, WaitGivesUp
  PROVE  Books' /\ Enumerated' /\ Ends'
<1>1. /\ Types /\ faults \in Nat /\ faults <= MaxFaults /\ MaxFaults \in Nat /\ MaxFaults < 3 /\ MaxRetries = 5
      /\ card \in CardRecord /\ ctrl \in CtrlRecord /\ mmc \in MmcRecord
  BY Sizes DEF TypesIn, Types, Books
<1>2. /\ job # NULL /\ run.stop = 0 /\ Step = "WAIT" /\ run.polls = 0
      /\ Return("FAIL", ctrl, mmc, <<>>) /\ card' = card /\ faults' = faults
  BY <1>1, GivesUpIs
<1>3. job \in Request /\ up => card'.state \in Open /\ ~Wild'
  <2> SUFFICES ASSUME job \in Request, up PROVE card'.state \in Open /\ ~Wild'
    OBVIOUS
  <2>1. run.pc = 4
    <3>1. run.pc \in 1 .. 5 /\ run.pc # 1 /\ run.pc # 3 /\ run.pc # 5
      BY <1>1, <1>2, RequestStep
    <3>2. run.pc # 2
      BY <1>1, <1>2, RequestStep DEF ReadCommand, WriteCommand
    <3> QED BY <3>1, <3>2
  <2>2. Wild => faults >= 5
    BY <1>1, <1>2, <2>1 DEF Ends, Lossy
  <2>3. ~Wild
    BY <1>1, <2>2
  <2>4. card.state \in Open
    BY DEF Ends
  <2> QED BY <1>2, <2>3, <2>4 DEF Wild
<1>4. "FAIL" # "PASS" /\ (job = SdInit => job \notin Request)
  BY RequestIs
<1> QED BY <1>1, <1>2, <1>3, <1>4, ReturnEnds

Docked == Books /\ Enumerated /\ Ends

LEMMA DriverDocks ==
  ASSUME TypesIn, Docked, MaxFaults < CmdTries, Driver
  PROVE  Docked'
<1>1. job \in Request \/ job = SdInit
  <2>1. job # NULL
    BY DEF Driver, Command, Wait, WaitGivesUp, StopTransfer, DataDone, DataFailed, Doing
  <2> QED BY <2>1, ScriptIs DEF TypesIn
<1>2. CASE Command
  BY <1>1, <1>2, CommandRequestEnds, CommandInitEnds DEF Docked
<1>3. CASE Wait
  BY <1>1, <1>3, WaitRequestEnds, WaitInitEnds DEF Docked
<1>4. CASE StopTransfer
  BY <1>1, <1>4, StopRequestEnds, StopInitEnds DEF Docked
<1>5. CASE DataDone \/ DataFailed
  BY <1>1, <1>5, DataRequestEnds, DataInitEnds DEF Docked
<1>6. CASE WaitGivesUp
  BY <1>6, GivesUpEnds DEF Docked
<1> QED BY <1>2, <1>3, <1>4, <1>5, <1>6 DEF Driver

LEMMA CardDocks ==
  ASSUME TypesIn, Docked, CardProgrammed \/ CardSent
  PROVE  Docked'
<1>1. /\ LeftBusy /\ card'.state = "tran"
      /\ UNCHANGED <<job, run, up, faults>>
  BY CardIs DEF TypesIn
<1>2. ~Wild'
  BY <1>1 DEF Wild
<1>3. Transfer' /\ Lossy'
  BY <1>1, <1>2 DEF Transfer, Lossy
<1> QED BY <1>1, <1>2, <1>3 DEF Docked, Books, Enumerated, Ends, Open

LEMMA CallDocks ==
  ASSUME TypesIn, Docked, Calls
  PROVE  Docked'
<1>0. faults \in Nat /\ MaxFaults \in Nat
  BY Sizes DEF TypesIn, Types
<1>1. CASE SdInitCall
  <2>1. /\ job' = SdInit /\ run' = Start(1) /\ ~up' /\ UNCHANGED <<card, faults>>
    BY <1>1, CallIs
  <2>2. run'.pc = 1
    BY <2>1, StartIs
  <2> QED BY <2>1, <2>2 DEF Docked, Books, Enumerated, Ends
<1>2. ASSUME NEW r \in Request, SdCall(r) PROVE Docked'
  <2>1. job = NULL /\ job' = r /\ run' = Start(1) /\ UNCHANGED <<card, up, faults>>
    BY <1>2, AskIs
  <2>2. run'.pc = 1 /\ run'.stop = 0
    BY <2>1, StartIs
  <2>3. r # SdInit /\ r # NULL
    BY RequestIs
  <2>4. up => card.state \in Open /\ ~Wild
    BY <2>1 DEF Docked, Ends
  <2>5. Wild' <=> Wild
    BY <2>1 DEF Wild
  <2>6. up' => card'.state \in Open /\ Transfer' /\ Lossy'
    BY <2>1, <2>2, <2>4, <2>5 DEF Transfer, Lossy
  <2> QED BY <2>1, <2>3, <2>6 DEF Docked, Books, Enumerated, Ends
<1>3. CASE SdInitNoSupply
  <2>1. /\ job = NULL /\ faults' = faults + 1 /\ faults < MaxFaults
        /\ UNCHANGED <<card, job, run, up>>
    BY <1>3, NoSupplyIs
  <2>2. faults' <= MaxFaults /\ job \notin Request /\ job # SdInit
    BY <1>0, <2>1, Sizes
  <2> QED BY <2>1, <2>2 DEF Docked, Books, Enumerated, Ends, Wild
<1> QED BY <1>1, <1>2, <1>3 DEF Calls

LEMMA DockedKept == MaxFaults < CmdTries /\ TypesIn /\ Docked /\ [Next]_vars => Docked'
<1> SUFFICES ASSUME MaxFaults < CmdTries, TypesIn, Docked, [Next]_vars PROVE Docked'
  OBVIOUS
<1>1. CASE UNCHANGED vars
  BY <1>1 DEF vars, Docked, Books, Enumerated, Ends, Transfer, Lossy, Wild
<1> QED BY <1>1, DriverDocks, CardDocks, CallDocks DEF Next, Card

LEMMA DockedAlways ==
  ASSUME MaxFaults < CmdTries
  PROVE  Spec => [](TypesIn /\ Docked)
<1>1. Init => Docked
  BY Sizes DEF Init, Docked, Books, Enumerated, Ends
<1>2. TypesIn /\ Docked /\ [Next]_vars => Docked'
  BY DockedKept
<1> QED BY <1>1, <1>2, TypesAlways, PTL DEF Spec

\* Unless a command is lost as often as send_cmd() tries it, no call that
\* sd_init() prepared leaves the card receiving, or sending without end: each
\* retry, stop and give-up of mmc.c and stm32_sdmmc2.c gets a CMD12 through.
THEOREM NotWedgedHolds ==
  ASSUME MaxFaults < CmdTries
  PROVE  Spec => []NotWedged
<1>1. TypesIn /\ Docked => NotWedged
  BY DEF TypesIn, Types, Docked, Ends, Open, Wild, NotWedged, LeftBusy, CardRecord
<1> QED BY <1>1, DockedAlways, PTL

-----------------------------------------------------------------------------
(* The card and the controller agree after sd_init().                       *)

Known == up \/ (job = SdInit /\ run.pc > 4) => mmc.type = card.type /\ mmc.ocr = CardUnit

(* SET_BUS_WIDTH is an ACMD: it changes the width only if the card has just *)
(* taken a CMD55, and a second attempt still finds it so after one loss.    *)
Announced ==
  /\ card.app /\ card.state = "tran" /\ run.stop = 0
  /\ faults = 0 => ~ctrl.active /\ mmc.next_cmd_is_acmd

Width ==
  /\ up => ctrl.wide
  /\ job = SdInit /\ run.pc = 14 /\ faults = 0 => ~ctrl.active
  /\ job = SdInit /\ run.pc = 15 /\ faults < 2 => card.wide \/ Announced
  /\ faults < 2 /\ (up \/ (job = SdInit /\ run.pc = 16)) => card.wide

Tuned == Books /\ Enumerated /\ Known /\ Width

(* What a step of sd_read() or sd_write() leaves alone.                     *)
Untouched ==
  /\ job' = job \/ job' = NULL
  /\ up' = up /\ ctrl'.wide = ctrl.wide
  /\ mmc'.type = mmc.type /\ mmc'.ocr = mmc.ocr
  /\ card'.type = card.type /\ card'.wide = card.wide
  /\ faults' \in Nat /\ faults <= faults' /\ (faults <= MaxFaults => faults' <= MaxFaults)

LEMMA RequestReturn ==
  ASSUME job \in Request, NEW c \in CtrlRecord, NEW m \in MmcRecord, NEW status, NEW got,
         Return(status, c, m, got)
  PROVE  job' = NULL /\ up' = up /\ ctrl' = c /\ mmc'.type = m.type /\ mmc'.ocr = m.ocr
BY ReturnRequest

LEMMA RequestFailure ==
  ASSUME job \in Request, NEW c \in CtrlRecord, NEW m \in MmcRecord,
         Halts(c, m) \/ Repeats(c, m) \/ GivesUp(c, m)
  PROVE  (job' = job \/ job' = NULL) /\ up' = up /\ ctrl' = c /\ mmc'.type = m.type /\ mmc'.ocr = m.ocr
<1>1. CASE GivesUp(c, m)
  BY <1>1, RequestReturn DEF GivesUp
<1> QED BY <1>1 DEF Halts, Repeats, Stays

LEMMA RequestDone ==
  ASSUME Types, job \in Request, NEW c \in CtrlRecord, NEW m \in MmcRecord, NEW got \in Seq(Data),
         StepDone(c, m, got)
  PROVE  (job' = job \/ job' = NULL) /\ up' = up /\ ctrl' = c /\ mmc'.type = m.type /\ mmc'.ocr = m.ocr
<1>1. CASE run.pc = Len(Script)
  BY <1>1, RequestReturn DEF StepDone
<1>2. CASE run.pc # Len(Script)
  BY <1>2 DEF StepDone, Continue
<1> QED BY <1>1, <1>2

LEMMA CommandUntouched ==
  ASSUME TypesIn, Command, job \in Request
  PROVE  Untouched
<1>0. Types /\ faults \in Nat /\ card \in CardRecord /\ ctrl \in CtrlRecord /\ mmc \in MmcRecord /\ MaxFaults \in Nat
  BY Sizes DEF TypesIn, Types
<1>1. job # NULL /\ run.stop = 0 /\ Step \in Commands /\ Step # "WAIT"
  BY <1>0, CommandIs
<1>2. PICK f, a : /\ CommandOf(f, a) /\ World'
                  /\ \/ CommandDone(Sent(Step), Noted(Step), a.card)
                     \/ Halts(Sent(Step), Noted(Step)) \/ Repeats(Sent(Step), Noted(Step))
                     \/ GivesUp(Sent(Step), Noted(Step))
  BY <1>0, CommandIs
<1>3. PICK c, m : c = Sent(Step) /\ m = Noted(Step)
  OBVIOUS
<1>4. /\ c \in CtrlRecord /\ m \in MmcRecord /\ run.got \in Seq(Data)
      /\ c.wide = ctrl.wide /\ m.type = mmc.type /\ m.ocr = mmc.ocr
  BY <1>0, <1>3, SentIs, NotedIs, RunIs DEF Types
<1>5. Step \in {"CMD16", "CMD12", ReadCommand, WriteCommand}
  BY <1>0, <1>1, RequestStep DEF Commands
<1>6. a.card.type = card.type /\ a.card.wide = card.wide
  <2>1. a \in Answers(Step) /\ a.card.type = card.type
    BY <1>2 DEF CommandOf, Same
  <2> QED BY <1>0, <1>5, <2>1, AnswerCMD16, AnswerCMD12, AnswerRead, AnswerWrite
<1>7. card'.type = card.type /\ card'.wide = card.wide
  BY <1>2, <1>6 DEF CommandOf
<1>8. faults' \in Nat /\ faults <= faults' /\ (faults <= MaxFaults => faults' <= MaxFaults)
  <2>1. /\ (f = "NONE" => faults' = faults) /\ (f # "NONE" => faults' = faults + 1)
        /\ f = "NONE" \/ faults < MaxFaults
    BY <1>2 DEF CommandOf
  <2> QED BY <1>0, <2>1
<1>9. /\ job' = job \/ job' = NULL
      /\ up' = up /\ ctrl'.wide = ctrl.wide /\ mmc'.type = mmc.type /\ mmc'.ocr = mmc.ocr
  <2>1. CASE Halts(c, m) \/ Repeats(c, m) \/ GivesUp(c, m)
    BY <1>4, <2>1, RequestFailure
  <2>2. CASE CommandDone(c, m, a.card)
    <3>1. Step \notin {"CMD55", "ACMD41"}
      BY <1>5 DEF ReadCommand, WriteCommand
    <3>2. StepDone(Prepared(c, m), m, run.got) \/ StepDone(c, m, run.got)
      BY <1>0, <1>1, <2>2, <3>1, CommandDoneIs
    <3> QED BY <1>0, <1>4, <3>2, PreparedIs, RequestDone
  <2> QED BY <1>2, <1>3, <2>1, <2>2
<1> QED BY <1>7, <1>8, <1>9 DEF Untouched

LEMMA PollUntouched ==
  ASSUME TypesIn, Wait \/ StopTransfer, job \in Request
  PROVE  Untouched
<1>0. Types /\ faults \in Nat /\ card \in CardRecord /\ ctrl \in CtrlRecord /\ mmc \in MmcRecord /\ MaxFaults \in Nat
      /\ run \in RunRecord
  BY Sizes DEF TypesIn, Types
<1>1. (Step = "WAIT" => run.polls > 0) /\ job # NULL
  BY <1>0, WaitIs, StopIs
<1>10. PICK cmd \in {"CMD12", "CMD13"} : \E f, a :
        /\ f = "NONE" \/ (f \in {"CMD_LOST", "RESP_LOST"} /\ faults < MaxFaults)
        /\ a \in Answers(cmd)
        /\ card' = (IF f = "CMD_LOST" THEN card ELSE a.card)
        /\ f = "NONE" => faults' = faults
        /\ f # "NONE" => faults' = faults + 1
        /\ \/ CommandFailed(Sent(cmd), Noted(cmd))
           \/ AttemptFailed(Sent(cmd), Noted(cmd))
           \/ StepDone(Sent(cmd), Noted(cmd), run.got)
           \/ Return("FAIL", Sent(cmd), Noted(cmd), <<>>)
           \/ Continue([run EXCEPT !.polls = MaxRetries], Sent(cmd), Noted(cmd))
           \/ Continue([run EXCEPT !.stop = run.stop - 1], Sent(cmd), Noted(cmd))
  <2>1. CASE Wait
    <3>1. "CMD13" \in {"CMD12", "CMD13"}
      OBVIOUS
    <3> QED BY <1>0, <2>1, <3>1, WaitIs, Zenon
  <2>2. CASE StopTransfer
    <3>1. "CMD12" \in {"CMD12", "CMD13"}
      OBVIOUS
    <3> QED BY <1>0, <2>2, <3>1, StopIs, Zenon
  <2> QED BY <2>1, <2>2
<1>2. PICK f, a :
        /\ f = "NONE" \/ (f \in {"CMD_LOST", "RESP_LOST"} /\ faults < MaxFaults)
        /\ a \in Answers(cmd)
        /\ card' = (IF f = "CMD_LOST" THEN card ELSE a.card)
        /\ f = "NONE" => faults' = faults
        /\ f # "NONE" => faults' = faults + 1
        /\ \/ CommandFailed(Sent(cmd), Noted(cmd))
           \/ AttemptFailed(Sent(cmd), Noted(cmd))
           \/ StepDone(Sent(cmd), Noted(cmd), run.got)
           \/ Return("FAIL", Sent(cmd), Noted(cmd), <<>>)
           \/ Continue([run EXCEPT !.polls = MaxRetries], Sent(cmd), Noted(cmd))
           \/ Continue([run EXCEPT !.stop = run.stop - 1], Sent(cmd), Noted(cmd))
  BY <1>10
<1>3. PICK c, m : c = Sent(cmd) /\ m = Noted(cmd)
  OBVIOUS
<1>4. /\ c \in CtrlRecord /\ m \in MmcRecord /\ run.got \in Seq(Data)
      /\ c.wide = ctrl.wide /\ m.type = mmc.type /\ m.ocr = mmc.ocr
  BY <1>0, <1>3, SentIs, NotedIs, RunIs DEF Types
<1>5. a.card.type = card.type /\ a.card.wide = card.wide
  BY <1>0, <1>2, AnswerCMD12, AnswerCMD13 DEF Same
<1>6. card'.type = card.type /\ card'.wide = card.wide
  BY <1>2, <1>5
<1>7. faults' \in Nat /\ faults <= faults' /\ (faults <= MaxFaults => faults' <= MaxFaults)
  BY <1>0, <1>2
<1>8. /\ job' = job \/ job' = NULL
      /\ up' = up /\ ctrl' = c /\ mmc'.type = m.type /\ mmc'.ocr = m.ocr
  <2>1. CASE CommandFailed(c, m) \/ AttemptFailed(c, m)
    <3>1. Halts(c, m) \/ Repeats(c, m) \/ GivesUp(c, m)
      BY <1>0, <1>1, <1>4, <2>1, FailedIs, AttemptIs
    <3> QED BY <1>4, <3>1, RequestFailure
  <2>2. CASE StepDone(c, m, run.got)
    BY <1>0, <1>4, <2>2, RequestDone
  <2>3. CASE Return("FAIL", c, m, <<>>)
    BY <1>4, <2>3, RequestReturn
  <2>4. CASE \/ Continue([run EXCEPT !.polls = MaxRetries], c, m)
             \/ Continue([run EXCEPT !.stop = run.stop - 1], c, m)
    BY <2>4 DEF Continue
  <2> QED BY <1>2, <1>3, <2>1, <2>2, <2>3, <2>4
<1> QED BY <1>4, <1>6, <1>7, <1>8 DEF Untouched

LEMMA DataUntouched ==
  ASSUME TypesIn, DataDone \/ DataFailed \/ WaitGivesUp, job \in Request
  PROVE  Untouched
<1>0. Types /\ faults \in Nat /\ card \in CardRecord /\ ctrl \in CtrlRecord /\ mmc \in MmcRecord /\ MaxFaults \in Nat
      /\ run \in RunRecord
  BY Sizes DEF TypesIn, Types
<1>1. CASE DataDone
  <2>1. /\ card' = Moved /\ Got \in Seq(Data)
        /\ faults' = faults \/ (faults < MaxFaults /\ faults' = faults + 1)
        /\ \/ StepDone([ctrl EXCEPT !.active = FALSE], mmc, Got)
           \/ Continue([run EXCEPT !.stop = CmdTries, !.then = "RESULT", !.got = Got], ctrl, mmc)
    BY <1>0, <1>1, DataDoneIs
  <2>2. card'.type = card.type /\ card'.wide = card.wide
    BY <1>0, <2>1 DEF Moved, CardRecord
  <2>3. CASE StepDone([ctrl EXCEPT !.active = FALSE], mmc, Got)
    <3>1. PICK c : c = [ctrl EXCEPT !.active = FALSE]
      OBVIOUS
    <3>2. c \in CtrlRecord /\ c.wide = ctrl.wide
      BY <1>0, <3>1, InactiveIs
    <3>3. /\ job' = job \/ job' = NULL
          /\ up' = up /\ ctrl' = c /\ mmc'.type = mmc.type /\ mmc'.ocr = mmc.ocr
      BY <1>0, <2>1, <2>3, <3>1, <3>2, RequestDone
    <3>4. faults' \in Nat /\ faults <= faults' /\ (faults <= MaxFaults => faults' <= MaxFaults)
      BY <1>0, <2>1
    <3> QED BY <2>2, <3>2, <3>3, <3>4 DEF Untouched
  <2>4. CASE Continue([run EXCEPT !.stop = CmdTries, !.then = "RESULT", !.got = Got], ctrl, mmc)
    BY <1>0, <2>1, <2>2, <2>4 DEF Untouched, Continue
  <2> QED BY <2>1, <2>3, <2>4
<1>2. CASE DataFailed
  <2>1. /\ card' = card \/ card' = [card EXCEPT !.state = "tran"]
        /\ faults' = faults \/ (faults < MaxFaults /\ faults' = faults + 1)
        /\ job' = job /\ up' = up /\ ctrl' = [ctrl EXCEPT !.dir = "OFF"] /\ mmc' = mmc
    BY <1>0, <1>2, DataFailedIs
  <2>2. card'.type = card.type /\ card'.wide = card.wide /\ ctrl'.wide = ctrl.wide
    BY <1>0, <2>1 DEF CardRecord, CtrlRecord
  <2> QED BY <1>0, <2>1, <2>2 DEF Untouched
<1>3. CASE WaitGivesUp
  <2>1. Return("FAIL", ctrl, mmc, <<>>) /\ card' = card /\ faults' = faults
    BY <1>0, <1>3, GivesUpIs
  <2> QED BY <1>0, <2>1, RequestReturn DEF Untouched
<1> QED BY <1>1, <1>2, <1>3

LEMMA DriverUntouched ==
  ASSUME TypesIn, Driver, job \in Request
  PROVE  Untouched
BY CommandUntouched, PollUntouched, DataUntouched DEF Driver

LEMMA RequestTunes ==
  ASSUME TypesIn, Tuned, Driver, job \in Request
  PROVE  Tuned'
<1>1. Untouched
  BY DriverUntouched
<1>2. faults \in Nat /\ job' # SdInit
  BY <1>1, RequestIs, Sizes DEF TypesIn, Types, Untouched
<1>3. faults' < 2 => faults < 2
  BY <1>1, <1>2 DEF Untouched
<1>4. Books' /\ Enumerated'
  BY <1>1, <1>2 DEF Tuned, Books, Enumerated, Untouched
<1>5. Known'
  BY <1>1, <1>2 DEF Tuned, Known, Untouched, CardUnit
<1>6. Width'
  BY <1>1, <1>2, <1>3 DEF Tuned, Width, Untouched
<1> QED BY <1>4, <1>5, <1>6 DEF Tuned

(* What holds of a step of sd_init(), beside Books and Enumerated.          *)
Typed == run.pc > 4 => mmc.type = card.type /\ mmc.ocr = CardUnit
Sized ==
  /\ run.pc = 14 /\ faults = 0 => ~ctrl.active
  /\ run.pc = 15 /\ faults < 2 => card.wide \/ Announced
  /\ run.pc = 16 /\ faults < 2 => card.wide

LEMMA InitTunes ==
  ASSUME job = SdInit, job' = job, up' = up, Books, Books', Enumerated', Typed', Sized'
  PROVE  Tuned'
BY DEF Tuned, Books, Known, Width, Typed, Sized

LEMMA ReturnTunes ==
  ASSUME TypesIn, job = SdInit, Books', Enumerated', NEW c \in CtrlRecord, NEW m \in MmcRecord,
         NEW status, NEW got, Return(status, c, m, got),
         status = "PASS" => m.type = card'.type /\ m.ocr = CardUnit' /\ (faults' < 2 => card'.wide)
  PROVE  Tuned'
<1>1. job' = NULL /\ job' # SdInit
  BY ReturnInit, Sizes
<1>2. /\ up' => ctrl'.wide /\ status = "PASS"
      /\ mmc'.type = m.type /\ mmc'.ocr = m.ocr
  BY ReturnInit
<1>3. Known'
  BY <1>1, <1>2 DEF Known
<1>4. Width'
  BY <1>1, <1>2 DEF Width
<1> QED BY <1>3, <1>4 DEF Tuned

LEMMA TypedKept ==
  ASSUME Typed, card'.type = card.type, mmc'.type = mmc.type, mmc'.ocr = mmc.ocr,
         run'.pc > 4 => run.pc > 4
  PROVE  Typed'
BY DEF Typed, CardUnit

LEMMA CommandInitTunes ==
  ASSUME TypesIn, Tuned, Command, job = SdInit, Books', Enumerated'
  PROVE  Tuned'
<1>0. /\ Types /\ faults \in Nat /\ MaxFaults \in Nat /\ card \in CardRecord /\ ctrl \in CtrlRecord
      /\ mmc \in MmcRecord /\ run \in RunRecord /\ Books
  BY Sizes DEF TypesIn, Types, Tuned
<1>1. job # NULL /\ run.stop = 0 /\ Step \in Commands /\ Step # "WAIT"
  BY <1>0, CommandIs
<1>2. PICK f, a : /\ CommandOf(f, a) /\ World'
                  /\ \/ Accepted(f, a) /\ CommandDone(Sent(Step), Noted(Step), a.card)
                     \/ /\ ~Accepted(f, a)
                        /\ \/ Halts(Sent(Step), Noted(Step))
                           \/ /\ ~Sent(Step).active
                              /\ Repeats(Sent(Step), Noted(Step)) \/ GivesUp(Sent(Step), Noted(Step))
  BY <1>0, CommandIs
<1>3. PICK c, m : c = Sent(Step) /\ m = Noted(Step)
  OBVIOUS
<1>4. /\ c \in CtrlRecord /\ m \in MmcRecord /\ run.got \in Seq(Data)
      /\ m.type = mmc.type /\ m.ocr = mmc.ocr
      /\ ~DataCommand(Step) /\ Step # "CMD12" => c.active = ctrl.active
      /\ Step = "CMD55" => m.next_cmd_is_acmd
  BY <1>0, <1>3, SentIs, NotedIs, RunIs
<1>5. run.pc \in 1 .. 16 /\ Len(Script) = 16 /\ run.pc # 9 /\ run.pc # 13 /\ run.pc # 16
  BY <1>0, <1>1, InitStep DEF Commands
<1>6. /\ card'.type = card.type /\ a \in Answers(Step) /\ a.card.type = card.type
      /\ card' = (IF f = "CMD_LOST" THEN card ELSE a.card)
      /\ f = "NONE" => faults' = faults
      /\ f # "NONE" => faults' = faults + 1
  BY <1>2 DEF CommandOf, Same
<1>7. CardUnit' = CardUnit
  BY <1>6 DEF CardUnit
<1>8. /\ Typed
      /\ run.pc = 14 /\ faults = 0 => ~ctrl.active
      /\ run.pc = 15 /\ faults < 2 => card.wide \/ Announced
      /\ run.pc = 14 => card.state = "tran"
  BY DEF Tuned, Typed, Known, Width, Enumerated
<1>9. run.pc = 15 => /\ Step = "ACMD6"
                     /\ card.wide => card'.wide
                     /\ Announced => a.ok /\ a.card.wide
  BY <1>0, <1>6, InitStep, AnswerACMD6 DEF Announced
<1>10. run.pc = 14 => /\ Step = "CMD55" /\ a.ok /\ a.card.app /\ a.card.state = "tran"
  BY <1>0, <1>6, <1>8, InitStep, AnswerCMD55
<1>11. ASSUME ~Accepted(f, a), Halts(c, m) \/ (~c.active /\ Repeats(c, m)) PROVE Tuned'
  <2>1. /\ job' = job /\ up' = up /\ run'.pc = run.pc /\ ctrl' = c /\ mmc' = m
        /\ c.active \/ run'.stop = 0
    BY <1>11 DEF Halts, Repeats, Stays
  <2>2. Typed'
    BY <1>4, <1>6, <1>8, <2>1, TypedKept
  <2>3. run.pc = 14 => faults' # 0
    BY <1>0, <1>6, <1>10, <1>11 DEF Accepted
  <2>4. ASSUME run.pc = 15, faults' < 2 PROVE card'.wide \/ Announced'
    <3>1. faults < 2
      BY <1>0, <1>6, <2>4
    <3>2. CASE card.wide
      BY <1>9, <2>4, <3>2
    <3>3. CASE Announced /\ f # "CMD_LOST"
      BY <1>6, <1>9, <2>4, <3>3
    <3>4. CASE Announced /\ f = "CMD_LOST"
      <4>1. faults = 0 /\ faults' = 1
        BY <1>0, <1>6, <2>4, <3>4
      <4>2. ~ctrl.active /\ mmc.next_cmd_is_acmd /\ card.app /\ card.state = "tran"
        BY <3>4, <4>1 DEF Announced
      <4>3. ~DataCommand(Step) /\ Step # "CMD12"
        BY <1>9, <2>4, <4>2 DEF DataCommand
      <4>4. run'.stop = 0 /\ card' = card
        BY <1>4, <1>6, <2>1, <3>4, <4>2, <4>3
      <4> QED BY <4>1, <4>2, <4>4 DEF Announced
    <3> QED BY <1>8, <2>4, <3>1, <3>2, <3>3, <3>4
  <2>5. Sized'
    BY <1>5, <2>1, <2>3, <2>4 DEF Sized
  <2> QED BY <1>0, <2>1, <2>2, <2>5, InitTunes
<1>12. CASE GivesUp(c, m) \/ Return("FAIL", c, m, <<>>)
  <2>1. Return("FAIL", c, m, <<>>) /\ "FAIL" # "PASS"
    BY <1>12 DEF GivesUp
  <2> QED BY <1>4, <2>1, ReturnTunes
<1>13. ASSUME NEW d \in CtrlRecord, NEW n \in MmcRecord, StepDone(d, n, run.got), Accepted(f, a),
              Step # "CMD55", run.pc > 3 => n.type = card.type /\ n.ocr = CardUnit
       PROVE  Tuned'
  <2>1. run.pc < Len(Script)
    BY <1>5
  <2>2. job' = job /\ up' = up /\ run'.pc = run.pc + 1 /\ mmc' = n
    BY <1>0, <1>1, <1>4, <1>13, <2>1, DoneMore
  <2>3. Typed'
    BY <1>5, <1>6, <1>7, <1>13, <2>2 DEF Typed
  <2>4. run.pc # 14
    BY <1>10, <1>13
  <2>5. run.pc = 15 /\ faults' < 2 => card'.wide
    <3> SUFFICES ASSUME run.pc = 15, faults' < 2 PROVE card'.wide
      OBVIOUS
    <3>1. f = "NONE" /\ faults' = faults
      BY <1>6, <1>9, <1>13 DEF Accepted
    <3>2. card' = a.card /\ faults < 2
      BY <1>6, <3>1
    <3> QED BY <1>8, <1>9, <3>2
  <2>6. run'.pc # 14 /\ run'.pc # 15
    BY <1>5, <2>2, <2>4
  <2>7. Sized'
    BY <1>5, <2>2, <2>5, <2>6 DEF Sized
  <2> QED BY <1>0, <2>2, <2>3, <2>7, InitTunes
<1>14. ASSUME Accepted(f, a), Step = "CMD55", Continue([Start(run.pc + 1) EXCEPT !.loops = run.loops], c, m)
       PROVE  Tuned'
  <2>1. job' = job /\ up' = up /\ run'.pc = run.pc + 1 /\ run'.stop = 0 /\ ctrl' = c /\ mmc' = m
    BY <1>14 DEF Continue, Start
  <2>2. run.pc # 4 /\ run.pc # 15
    BY <1>0, <1>14, InitStep
  <2>3. Typed'
    <3>1. run'.pc > 4 => run.pc > 4
      BY <1>5, <2>1, <2>2
    <3> QED BY <1>4, <1>6, <1>8, <2>1, <3>1, TypedKept
  <2>4. run.pc = 14 => Announced'
    <3> SUFFICES ASSUME run.pc = 14 PROVE Announced'
      OBVIOUS
    <3>1. f = "NONE"
      BY <1>14 DEF Accepted
    <3>2. card'.app /\ card'.state = "tran" /\ faults' = faults
      BY <1>6, <1>10, <3>1
    <3>3. ~DataCommand(Step) /\ Step # "CMD12"
      BY <1>14 DEF DataCommand
    <3>4. faults' = 0 => ~ctrl'.active /\ mmc'.next_cmd_is_acmd
      BY <1>4, <1>8, <1>14, <2>1, <3>2, <3>3
    <3> QED BY <2>1, <3>2, <3>4 DEF Announced
  <2>5. Sized'
    BY <1>5, <2>1, <2>2, <2>4 DEF Sized
  <2> QED BY <1>0, <2>1, <2>3, <2>5, InitTunes
<1>15. ASSUME Step = "ACMD41", Continue([Start(run.pc - 1) EXCEPT !.loops = run.loops + 1], c, m)
       PROVE  Tuned'
  <2>1. job' = job /\ up' = up /\ run'.pc = run.pc - 1 /\ mmc' = m
    BY <1>15 DEF Continue, Start
  <2>2. run.pc = 4
    <3>1. run.pc \notin 5 .. 16
      BY <1>0, <1>15, InitStep
    <3>2. run.pc \notin 1 .. 3
      BY <1>0, <1>15, InitStep
    <3> QED BY <1>5, <3>1, <3>2
  <2>3. Typed' /\ Sized'
    BY <2>1, <2>2 DEF Typed, Sized
  <2> QED BY <1>0, <2>1, <2>3, InitTunes
<1>16. ASSUME Accepted(f, a), CommandDone(c, m, a.card) PROVE Tuned'
  <2>1. CASE Step = "CMD16" /\ StepDone(Prepared(c, m), m, run.got)
    <3>1. run.pc > 4 => m.type = card.type /\ m.ocr = CardUnit
      BY <1>4, <1>8 DEF Typed
    <3>2. run.pc # 4
      BY <1>0, <2>1, InitStep
    <3>3. run.pc > 3 => run.pc > 4
      BY <1>5, <3>2
    <3> QED BY <1>4, <1>13, <1>16, <2>1, <3>1, <3>3, PreparedIs
  <2>2. CASE Step = "ACMD41" /\ StepDone(c, [m EXCEPT !.type = card.type, !.ocr = CardUnit], run.got)
    BY <1>0, <1>4, <1>13, <1>16, <2>2, TypedIs
  <2>3. CASE Step \notin {"CMD16", "ACMD41", "CMD55"} /\ StepDone(c, m, run.got)
    <3>1. run.pc > 4 => m.type = card.type /\ m.ocr = CardUnit
      BY <1>4, <1>8 DEF Typed
    <3>2. run.pc # 4
      BY <1>0, <2>3, InitStep
    <3>3. run.pc > 3 => run.pc > 4
      BY <1>5, <3>2
    <3> QED BY <1>4, <1>13, <1>16, <2>3, <3>1, <3>3
  <2> QED BY <1>0, <1>1, <1>12, <1>14, <1>15, <1>16, <2>1, <2>2, <2>3, CommandDoneIs
<1> QED BY <1>2, <1>3, <1>11, <1>12, <1>16

LEMMA WaitInitTunes ==
  ASSUME TypesIn, Tuned, Wait, job = SdInit, Books', Enumerated'
  PROVE  Tuned'
<1>0. /\ Types /\ faults \in Nat /\ MaxFaults \in Nat /\ card \in CardRecord /\ ctrl \in CtrlRecord
      /\ mmc \in MmcRecord /\ run \in RunRecord /\ Books
  BY Sizes DEF TypesIn, Types, Tuned
<1>1. job # NULL /\ run.stop = 0 /\ Step = "WAIT" /\ run.polls > 0
  BY <1>0, WaitIs
<1>2. PICK f, a :
        /\ f = "NONE" \/ (f \in {"CMD_LOST", "RESP_LOST"} /\ faults < MaxFaults)
        /\ a \in Answers("CMD13") /\ World'
        /\ card' = (IF f = "CMD_LOST" THEN card ELSE a.card)
        /\ f = "NONE" => faults' = faults
        /\ f # "NONE" => faults' = faults + 1
        /\ \/ CommandFailed(Sent("CMD13"), Noted("CMD13"))
           \/ AttemptFailed(Sent("CMD13"), Noted("CMD13"))
           \/ StepDone(Sent("CMD13"), Noted("CMD13"), run.got)
           \/ Continue([run EXCEPT !.polls = MaxRetries], Sent("CMD13"), Noted("CMD13"))
  BY <1>0, WaitIs, Zenon
<1>3. PICK c, m : c = Sent("CMD13") /\ m = Noted("CMD13")
  OBVIOUS
<1>4. /\ c \in CtrlRecord /\ m \in MmcRecord /\ run.got \in Seq(Data)
      /\ m.type = mmc.type /\ m.ocr = mmc.ocr
  BY <1>0, <1>3, SentIs, NotedIs, RunIs
<1>5. (run.pc = 9 \/ run.pc = 16) /\ Len(Script) = 16
  <2>1. run.pc \in 1 .. 16 /\ Len(Script) = 16
    BY <1>0, InitStep
  <2>2. run.pc \notin 1 .. 8
    BY <1>0, <1>1, InitStep
  <2>3. run.pc \notin 10 .. 15
    BY <1>0, <1>1, InitStep
  <2> QED BY <2>1, <2>2, <2>3
<1>6. card'.type = card.type /\ card'.wide = card.wide
  <2>1. a.card.type = card.type /\ a.card.wide = card.wide
    BY <1>0, <1>2, AnswerCMD13 DEF Same
  <2> QED BY <1>2, <2>1
<1>7. faults' < 2 => faults < 2
  BY <1>0, <1>2
<1>8. Typed /\ (run.pc = 16 /\ faults' < 2 => card'.wide)
  BY <1>6, <1>7 DEF Tuned, Typed, Known, Width
<1>9. ASSUME job' = job, up' = up, mmc' = m, run'.pc = run.pc PROVE Tuned'
  <2>1. Typed'
    BY <1>4, <1>6, <1>8, <1>9, TypedKept
  <2>2. Sized'
    BY <1>5, <1>8, <1>9 DEF Sized
  <2> QED BY <1>0, <1>9, <2>1, <2>2, InitTunes
<1>10. CASE Halts(c, m) \/ Repeats(c, m)
  BY <1>9, <1>10 DEF Halts, Repeats, Stays
<1>11. ~GivesUp(c, m)
  BY <1>1 DEF GivesUp
<1>12. CASE Continue([run EXCEPT !.polls = MaxRetries], c, m)
  <2>1. job' = job /\ up' = up /\ mmc' = m /\ run'.pc = run.pc
    BY <1>0, <1>12 DEF Continue, RunRecord
  <2> QED BY <1>9, <2>1
<1>13. CASE StepDone(c, m, run.got)
  <2>1. CASE run.pc = 9
    <3>1. job' = job /\ up' = up /\ run'.pc = 10 /\ mmc' = m
      BY <1>0, <1>1, <1>4, <1>5, <1>13, <2>1, DoneMore
    <3>2. Typed'
      BY <1>4, <1>6, <1>8, <2>1, <3>1, TypedKept
    <3>3. Sized'
      BY <3>1 DEF Sized
    <3> QED BY <1>0, <3>1, <3>2, <3>3, InitTunes
  <2>2. CASE run.pc = 16
    <3>1. Return("PASS", c, m, run.got)
      BY <1>5, <1>13, <2>2 DEF StepDone
    <3>2. m.type = card'.type /\ m.ocr = CardUnit'
      BY <1>4, <1>6, <1>8, <2>2 DEF Typed, CardUnit
    <3> QED BY <1>4, <1>8, <2>2, <3>1, <3>2, ReturnTunes
  <2> QED BY <1>5, <2>1, <2>2
<1> QED BY <1>0, <1>1, <1>2, <1>3, <1>10, <1>11, <1>12, <1>13, FailedIs, AttemptIs

LEMMA StopInitTunes ==
  ASSUME TypesIn, Tuned, StopTransfer, job = SdInit, Books', Enumerated'
  PROVE  Tuned'
<1>0. /\ Types /\ faults \in Nat /\ MaxFaults \in Nat /\ card \in CardRecord /\ ctrl \in CtrlRecord
      /\ mmc \in MmcRecord /\ run \in RunRecord /\ Books
  BY Sizes DEF TypesIn, Types, Tuned
<1>1. job # NULL /\ run.stop > 0 /\ (Step = "WAIT" => run.polls > 0)
  BY <1>0, StopIs
<1>2. PICK f, a :
        /\ f = "NONE" \/ (f \in {"CMD_LOST", "RESP_LOST"} /\ faults < MaxFaults)
        /\ a \in Answers("CMD12")
        /\ card' = (IF f = "CMD_LOST" THEN card ELSE a.card)
        /\ f = "NONE" => faults' = faults
        /\ f # "NONE" => faults' = faults + 1
        /\ \/ Continue([run EXCEPT !.stop = run.stop - 1], Sent("CMD12"), Noted("CMD12"))
           \/ AttemptFailed(Sent("CMD12"), Noted("CMD12"))
           \/ Return("FAIL", Sent("CMD12"), Noted("CMD12"), <<>>)
           \/ run.then = "RESULT" /\ StepDone(Sent("CMD12"), Noted("CMD12"), run.got)
  BY <1>0, StopIs, Zenon
<1>3. PICK c, m : c = Sent("CMD12") /\ m = Noted("CMD12")
  OBVIOUS
<1>4. /\ c \in CtrlRecord /\ m \in MmcRecord /\ run.got \in Seq(Data)
      /\ m.type = mmc.type /\ m.ocr = mmc.ocr /\ ~c.active
  BY <1>0, <1>3, SentIs, NotedIs, RunIs
<1>5. card'.type = card.type /\ card'.wide = card.wide
  <2>1. a.card.type = card.type /\ a.card.wide = card.wide
    BY <1>0, <1>2, AnswerCMD12 DEF Same
  <2> QED BY <1>2, <2>1
<1>6. faults' < 2 => faults < 2
  BY <1>0, <1>2
<1>7. Typed /\ ((run.pc = 15 \/ run.pc = 16) /\ faults' < 2 => card'.wide)
  BY <1>1, <1>5, <1>6 DEF Tuned, Typed, Known, Width, Announced
<1>8. CASE Repeats(c, m) \/ Continue([run EXCEPT !.stop = run.stop - 1], c, m)
  <2>1. job' = job /\ up' = up /\ run'.pc = run.pc /\ ctrl' = c /\ mmc' = m
    BY <1>0, <1>8 DEF Repeats, Stays, Continue, RunRecord
  <2>2. Typed'
    BY <1>4, <1>5, <1>7, <2>1, TypedKept
  <2>3. Sized'
    BY <1>4, <1>7, <2>1 DEF Sized
  <2> QED BY <1>0, <2>1, <2>2, <2>3, InitTunes
<1>9. CASE GivesUp(c, m) \/ Return("FAIL", c, m, <<>>)
  <2>1. Return("FAIL", c, m, <<>>) /\ "FAIL" # "PASS"
    BY <1>9 DEF GivesUp
  <2> QED BY <1>4, <2>1, ReturnTunes
<1>10. CASE run.then = "RESULT" /\ StepDone(c, m, run.got)
  <2>1. Step = "DATA"
    BY <1>0, <1>1, <1>10 DEF Types, Placed, Step
  <2>2. run.pc = 13 /\ run.pc < Len(Script)
    BY <1>0, <1>1, <2>1, DataPlace
  <2>3. job' = job /\ up' = up /\ run'.pc = 14 /\ ctrl' = c /\ mmc' = m
    BY <1>0, <1>1, <1>4, <1>10, <2>2, DoneMore
  <2>4. Typed'
    BY <1>4, <1>5, <1>7, <2>2, <2>3, TypedKept
  <2>5. Sized'
    BY <1>4, <2>3 DEF Sized
  <2> QED BY <1>0, <2>3, <2>4, <2>5, InitTunes
<1> QED BY <1>0, <1>1, <1>2, <1>3, <1>8, <1>9, <1>10, AttemptIs

LEMMA DataInitTunes ==
  ASSUME TypesIn, Tuned, DataDone \/ DataFailed, job = SdInit, Books', Enumerated'
  PROVE  Tuned'
<1>0. /\ Types /\ card \in CardRecord /\ ctrl \in CtrlRecord /\ mmc \in MmcRecord /\ run \in RunRecord /\ Books
  BY DEF TypesIn, Types, Tuned
<1>1. job # NULL /\ run.stop = 0 /\ Step = "DATA"
  BY <1>0, DataDoneIs, DataFailedIs
<1>2. run.pc = 13 /\ run.pc < Len(Script)
  BY <1>0, <1>1, DataPlace
<1>3. Typed
  BY DEF Tuned, Typed, Known
<1>4. CASE DataFailed
  <2>1. /\ card' = card \/ card' = [card EXCEPT !.state = "tran"]
        /\ job' = job /\ up' = up /\ mmc' = mmc /\ run'.pc = 13
    BY <1>0, <1>2, <1>4, DataFailedIs
  <2>2. card'.type = card.type
    BY <1>0, <2>1 DEF CardRecord
  <2>3. Typed'
    BY <1>2, <1>3, <2>1, <2>2, TypedKept
  <2>4. Sized'
    BY <2>1 DEF Sized
  <2> QED BY <1>0, <2>1, <2>3, <2>4, InitTunes
<1>5. CASE DataDone
  <2>1. /\ card' = Moved /\ Got \in Seq(Data)
        /\ \/ StepDone([ctrl EXCEPT !.active = FALSE], mmc, Got)
           \/ Continue([run EXCEPT !.stop = CmdTries, !.then = "RESULT", !.got = Got], ctrl, mmc)
    BY <1>0, <1>5, DataDoneIs
  <2>2. card'.type = card.type
    BY <1>0, <2>1 DEF Moved, CardRecord
  <2>3. CASE StepDone([ctrl EXCEPT !.active = FALSE], mmc, Got)
    <3>1. PICK c : c = [ctrl EXCEPT !.active = FALSE]
      OBVIOUS
    <3>2. ~c.active
      BY <1>0, <3>1, InactiveIs
    <3>3. job' = job /\ up' = up /\ run'.pc = 14 /\ ctrl' = c /\ mmc' = mmc
      BY <1>0, <1>1, <1>2, <2>1, <2>3, <3>1, DoneMore
    <3>4. Typed'
      BY <1>2, <1>3, <2>2, <3>3, TypedKept
    <3>5. Sized'
      BY <3>2, <3>3 DEF Sized
    <3> QED BY <1>0, <3>3, <3>4, <3>5, InitTunes
  <2>4. CASE Continue([run EXCEPT !.stop = CmdTries, !.then = "RESULT", !.got = Got], ctrl, mmc)
    <3>1. job' = job /\ up' = up /\ mmc' = mmc /\ run'.pc = 13
      BY <1>0, <1>2, <2>4 DEF Continue, RunRecord
    <3>2. Typed'
      BY <1>2, <1>3, <2>2, <3>1, TypedKept
    <3>3. Sized'
      BY <3>1 DEF Sized
    <3> QED BY <1>0, <3>1, <3>2, <3>3, InitTunes
  <2> QED BY <2>1, <2>3, <2>4
<1> QED BY <1>4, <1>5

LEMMA DriverTunes ==
  ASSUME TypesIn, Tuned, Driver
  PROVE  Tuned'
<1>0. TypesIn /\ Books /\ Enumerated /\ Types
  BY DEF Tuned, TypesIn
<1>1. job \in Request \/ job = SdInit
  <2>1. job # NULL
    BY DEF Driver, Command, Wait, WaitGivesUp, StopTransfer, DataDone, DataFailed, Doing
  <2> QED BY <1>0, <2>1, ScriptIs
<1>2. CASE job = SdInit
  <2>1. Ends
    BY <1>0, <1>2 DEF Books, Ends
  <2>2. CASE Command
    BY <1>0, <1>2, <2>1, <2>2, CommandInitEnds, CommandInitTunes
  <2>3. CASE Wait
    BY <1>0, <1>2, <2>1, <2>3, WaitInitEnds, WaitInitTunes
  <2>4. CASE StopTransfer
    BY <1>0, <1>2, <2>1, <2>4, StopInitEnds, StopInitTunes
  <2>5. CASE DataDone \/ DataFailed
    BY <1>0, <1>2, <2>1, <2>5, DataInitEnds, DataInitTunes
  <2>6. CASE WaitGivesUp
    <3>1. /\ job # NULL /\ Return("FAIL", ctrl, mmc, <<>>) /\ card' = card /\ faults' = faults
          /\ ctrl \in CtrlRecord /\ mmc \in MmcRecord /\ "FAIL" # "PASS"
      BY <1>0, <2>6, GivesUpIs DEF Types
    <3>2. job' = NULL /\ ~up'
      BY <1>2, <3>1, ReturnInit
    <3>3. Books' /\ Enumerated'
      BY <1>0, <3>1, <3>2, Sizes DEF Books, Enumerated
    <3> QED BY <1>0, <1>2, <3>1, <3>3, ReturnTunes
  <2> QED BY <2>2, <2>3, <2>4, <2>5, <2>6 DEF Driver
<1> QED BY <1>1, <1>2, RequestTunes

LEMMA TunedKept == TypesIn /\ Tuned /\ [Next]_vars => Tuned'
<1> SUFFICES ASSUME TypesIn, Tuned, [Next]_vars PROVE Tuned'
  OBVIOUS
<1>0. faults \in Nat /\ MaxFaults \in Nat
  BY Sizes DEF TypesIn, Types
<1>1. CASE CardProgrammed \/ CardSent
  <2>1. /\ card'.state = "tran" /\ card'.app = card.app /\ card'.wide = card.wide /\ card'.type = card.type
        /\ UNCHANGED <<ctrl, mmc, job, run, up, faults>>
    BY <1>1, CardIs DEF TypesIn
  <2>2. Known'
    BY <2>1 DEF Tuned, Known, CardUnit
  <2>3. Width'
    BY <2>1 DEF Tuned, Width, Announced
  <2> QED BY <2>1, <2>2, <2>3 DEF Tuned, Books, Enumerated
<1>2. CASE SdInitCall
  <2>1. job' = SdInit /\ run' = Start(1) /\ ~up' /\ UNCHANGED <<card, faults>>
    BY <1>2, CallIs
  <2>2. run'.pc = 1
    BY <2>1, StartIs
  <2> QED BY <2>1, <2>2 DEF Tuned, Books, Enumerated, Known, Width
<1>3. ASSUME NEW r \in Request, SdCall(r) PROVE Tuned'
  <2>1. /\ job = NULL /\ job' = r /\ mmc'.type = mmc.type /\ mmc'.ocr = mmc.ocr
        /\ UNCHANGED <<card, ctrl, up, faults>>
    BY <1>3, AskIs
  <2>2. r # SdInit
    BY RequestIs
  <2>3. Known'
    BY <2>1, <2>2 DEF Tuned, Known, CardUnit
  <2>4. Width'
    BY <2>1, <2>2 DEF Tuned, Width
  <2> QED BY <2>1, <2>2, <2>3, <2>4 DEF Tuned, Books, Enumerated
<1>4. CASE SdInitNoSupply
  <2>1. /\ job = NULL /\ faults' = faults + 1 /\ faults < MaxFaults
        /\ UNCHANGED <<card, ctrl, mmc, job, run, up>>
    BY <1>4, NoSupplyIs
  <2>2. faults' <= MaxFaults /\ job # SdInit /\ (faults' < 2 => faults < 2)
    BY <1>0, <2>1, Sizes
  <2>3. Known'
    BY <2>1, <2>2 DEF Tuned, Known, CardUnit
  <2>4. Width'
    BY <2>1, <2>2 DEF Tuned, Width
  <2> QED BY <2>1, <2>2, <2>3, <2>4 DEF Tuned, Books, Enumerated
<1>5. CASE UNCHANGED vars
  BY <1>5 DEF vars, Tuned, Books, Enumerated, Known, CardUnit, Width, Announced
<1> QED BY <1>1, <1>2, <1>3, <1>4, <1>5, DriverTunes DEF Next, Card, Calls

LEMMA TunedAlways == Spec => [](TypesIn /\ Tuned)
<1>1. Init => Tuned
  BY Sizes DEF Init, Tuned, Books, Enumerated, Known, Width
<1> QED BY <1>1, TunedKept, TypesAlways, PTL DEF Spec

\* As long as no more than one thing went wrong since power-on, an sd_init()
\* that returned 0 leaves the card and the driver of one mind, and no read or
\* write changes that: a lost CMD55 or ACMD6 is sent again while the card still
\* takes it for the ACMD, and ACMD41's answer fixes the addressing.
THEOREM InitAgreesOneFaultHolds == Spec => []InitAgreesOneFault
<1>1. Tuned => InitAgreesOneFault
  <2> SUFFICES ASSUME Tuned, up, faults < 2 PROVE Agreed
    BY DEF InitAgreesOneFault
  <2>1. ctrl.wide /\ card.wide /\ mmc.type = card.type /\ mmc.ocr = CardUnit
    BY DEF Tuned, Known, Width
  <2> QED BY <2>1 DEF Agreed, ReadUnit, WriteUnit, CardUnit
<1> QED BY <1>1, TunedAlways, PTL

-----------------------------------------------------------------------------
(* Why a call fails.                                                        *)

(* The write hint of a call: sd_write() sets it, the end of the call clears  *)
(* it.                                                                      *)
Hinted == mmc.write_pending <=> (job \in Request /\ job.op = "WRITE10")
Ran(c, m) == (\E status, got : Return(status, c, m, got)) \/ (job' = job /\ mmc' = m)

LEMMA RanHints ==
  ASSUME Types, job # NULL, Hinted, NEW c \in CtrlRecord, NEW m \in MmcRecord,
         m.write_pending = mmc.write_pending, Ran(c, m)
  PROVE  Hinted'
<1>1. CASE job' = job /\ mmc' = m
  BY <1>1 DEF Hinted
<1>2. ASSUME NEW status, NEW got, Return(status, c, m, got) PROVE Hinted'
  <2>1. job' = NULL /\ ~mmc'.write_pending
    <3>1. CASE job = SdInit
      BY <1>2, <3>1, ReturnInit, RequestIs DEF Hinted
    <3>2. CASE job \in Request
      BY <1>2, <3>2, ReturnRequest
    <3> QED BY <3>1, <3>2, ScriptIs
  <2> QED BY <2>1, Sizes DEF Hinted
<1> QED BY <1>1, <1>2 DEF Ran

LEMMA StepRan ==
  ASSUME NEW c, NEW m
  PROVE  /\ \A next : Continue(next, c, m) => Ran(c, m)
         /\ \A status, got : Return(status, c, m, got) => Ran(c, m)
         /\ \A got : StepDone(c, m, got) => Ran(c, m)
         /\ AttemptFailed(c, m) \/ CommandFailed(c, m) => Ran(c, m)
         /\ Halts(c, m) \/ Repeats(c, m) \/ GivesUp(c, m) => Ran(c, m)
<1>1. \A next : Continue(next, c, m) => Ran(c, m)
  BY DEF Continue, Ran
<1>2. \A status, got : Return(status, c, m, got) => Ran(c, m)
  BY DEF Ran
<1>3. \A got : StepDone(c, m, got) => Ran(c, m)
  BY <1>1, <1>2 DEF StepDone
<1>4. AttemptFailed(c, m) => Ran(c, m)
  BY <1>1, <1>2 DEF AttemptFailed
<1>5. CommandFailed(c, m) => Ran(c, m)
  BY <1>1, <1>4 DEF CommandFailed
<1>6. Halts(c, m) \/ Repeats(c, m) \/ GivesUp(c, m) => Ran(c, m)
  BY <1>2 DEF Halts, Repeats, GivesUp, Stays, Ran
<1> QED BY <1>1, <1>2, <1>3, <1>4, <1>5, <1>6

LEMMA DriverHints ==
  ASSUME TypesIn, Hinted, Driver
  PROVE  Hinted'
<1>0. Types /\ ctrl \in CtrlRecord /\ mmc \in MmcRecord /\ run \in RunRecord
  BY DEF TypesIn, Types
<1>1. job # NULL
  BY DEF Driver, Command, Wait, WaitGivesUp, StopTransfer, DataDone, DataFailed, Doing
<1>2. ASSUME NEW cmd, Ran(Sent(cmd), Noted(cmd)) PROVE Hinted'
  <2>1. PICK c, m : c = Sent(cmd) /\ m = Noted(cmd)
    OBVIOUS
  <2>2. c \in CtrlRecord /\ m \in MmcRecord /\ m.write_pending = mmc.write_pending
    BY <1>0, <2>1, SentIs, NotedIs
  <2> QED BY <1>0, <1>1, <1>2, <2>1, <2>2, RanHints
<1>3. CASE Command
  <2>1. PICK f, a : \/ CommandDone(Sent(Step), Noted(Step), a.card)
                    \/ Halts(Sent(Step), Noted(Step)) \/ Repeats(Sent(Step), Noted(Step))
                    \/ GivesUp(Sent(Step), Noted(Step))
    BY <1>0, <1>3, CommandIs
  <2>2. PICK c, m : c = Sent(Step) /\ m = Noted(Step)
    OBVIOUS
  <2>3. c \in CtrlRecord /\ m \in MmcRecord /\ m.write_pending = mmc.write_pending
    BY <1>0, <2>2, SentIs, NotedIs
  <2>4. CASE Halts(c, m) \/ Repeats(c, m) \/ GivesUp(c, m)
    BY <1>2, <2>2, <2>4, StepRan
  <2>5. CASE CommandDone(c, m, a.card)
    <3>1. CASE StepDone(Prepared(c, m), m, run.got)
      <4>1. PICK d : d = Prepared(c, m)
        OBVIOUS
      <4>2. d \in CtrlRecord /\ Ran(d, m)
        BY <2>3, <3>1, <4>1, PreparedIs, StepRan
      <4> QED BY <1>0, <1>1, <2>3, <4>2, RanHints
    <3>2. CASE StepDone(c, [m EXCEPT !.type = card.type, !.ocr = CardUnit], run.got)
      <4>1. PICK n : n = [m EXCEPT !.type = card.type, !.ocr = CardUnit]
        OBVIOUS
      <4>2. n \in MmcRecord /\ n.write_pending = mmc.write_pending /\ Ran(c, n)
        BY <1>0, <2>3, <3>2, <4>1, TypedIs, StepRan
      <4> QED BY <1>0, <1>1, <2>3, <4>2, RanHints
    <3>3. CASE \/ Continue([Start(run.pc - 1) EXCEPT !.loops = run.loops + 1], c, m)
               \/ Return("FAIL", c, m, <<>>)
               \/ Continue([Start(run.pc + 1) EXCEPT !.loops = run.loops], c, m)
               \/ StepDone(c, m, run.got)
      BY <1>2, <2>2, <3>3, StepRan
    <3> QED BY <1>0, <1>1, <2>5, <3>1, <3>2, <3>3, CommandDoneIs
  <2> QED BY <2>1, <2>2, <2>4, <2>5
<1>4. CASE Wait
  <2>1. \/ CommandFailed(Sent("CMD13"), Noted("CMD13"))
        \/ AttemptFailed(Sent("CMD13"), Noted("CMD13"))
        \/ StepDone(Sent("CMD13"), Noted("CMD13"), run.got)
        \/ Continue([run EXCEPT !.polls = MaxRetries], Sent("CMD13"), Noted("CMD13"))
    BY <1>0, <1>4, WaitIs, Zenon
  <2>2. Ran(Sent("CMD13"), Noted("CMD13"))
    BY <2>1, StepRan
  <2> QED BY <1>2, <2>2
<1>5. CASE StopTransfer
  <2>1. \/ Continue([run EXCEPT !.stop = run.stop - 1], Sent("CMD12"), Noted("CMD12"))
        \/ AttemptFailed(Sent("CMD12"), Noted("CMD12"))
        \/ Return("FAIL", Sent("CMD12"), Noted("CMD12"), <<>>)
        \/ StepDone(Sent("CMD12"), Noted("CMD12"), run.got)
    BY <1>0, <1>5, StopIs, Zenon
  <2>2. Ran(Sent("CMD12"), Noted("CMD12"))
    BY <2>1, StepRan
  <2> QED BY <1>2, <2>2
<1>6. CASE DataDone
  <2>1. PICK c : c = [ctrl EXCEPT !.active = FALSE]
    OBVIOUS
  <2>2. c \in CtrlRecord
    BY <1>0, <2>1, InactiveIs
  <2>3. \/ StepDone(c, mmc, Got)
        \/ Continue([run EXCEPT !.stop = CmdTries, !.then = "RESULT", !.got = Got], ctrl, mmc)
    BY <1>0, <1>6, <2>1, DataDoneIs
  <2>4. Ran(c, mmc) \/ Ran(ctrl, mmc)
    BY <2>3, StepRan
  <2> QED BY <1>0, <1>1, <2>2, <2>4, RanHints
<1>7. CASE DataFailed
  BY <1>0, <1>7, DataFailedIs DEF Hinted
<1>8. CASE WaitGivesUp
  <2>1. Ran(ctrl, mmc)
    BY <1>0, <1>8, GivesUpIs, StepRan
  <2> QED BY <1>0, <1>1, <2>1, RanHints
<1> QED BY <1>3, <1>4, <1>5, <1>6, <1>7, <1>8 DEF Driver

-----------------------------------------------------------------------------
(* A call that has met no trouble stands where the last command put it.     *)

InitPath ==
  /\ run.stop = 0 /\ run.polls = MaxRetries /\ ~ctrl.wide
  /\ run.pc > 1 /\ run.pc <= 15 => ~card.wide
  /\ run.pc \in {2, 3, 4} => card.state = "idle"
  /\ run.pc = 4 \/ run.pc = 12 \/ run.pc = 15 => card.app
  /\ run.pc = 5 => card.state = "ready"
  /\ run.pc = 6 => card.state = "ident"
  /\ run.pc = 7 \/ run.pc = 8 => card.state = "stby"
  /\ run.pc \in {9, 10, 11, 12, 14, 15, 16} => card.state = "tran"
  /\ run.pc \in {11, 12, 13} => ctrl.dir = "READ"
  /\ run.pc = 13 => card.state = "data" /\ card.burst = "one" /\ ctrl.active

LEMMA CommandInitSmooth ==
  ASSUME TypesIn, Hinted, InitPath, Command, job = SdInit, trouble' = {}
  PROVE  job' = job /\ InitPath'
<1>0. /\ Types /\ card \in CardRecord /\ ctrl \in CtrlRecord /\ mmc \in MmcRecord /\ run \in RunRecord
      /\ ~mmc.write_pending
  BY RequestIs DEF TypesIn, Types, Hinted
<1>1. job # NULL /\ run.stop = 0 /\ Step \in Commands /\ Step # "WAIT"
  BY <1>0, CommandIs
<1>2. PICK f, a : /\ CommandOf(f, a)
                  /\ Accepted(f, a) => CommandDone(Sent(Step), Noted(Step), a.card)
  BY <1>0, CommandIs, Zenon
<1>3. PICK c, m : c = Sent(Step) /\ m = Noted(Step)
  OBVIOUS
<1>4. /\ c \in CtrlRecord /\ m \in MmcRecord /\ run.got \in Seq(Data)
      /\ ~c.wide /\ ~m.write_pending
      /\ DataCommand(Step) \/ Step = "CMD55" => c.dir = ctrl.dir
      /\ DataCommand(Step) /\ Step # "CMD12" => c.active
  BY <1>0, <1>3, SentIs, NotedIs, RunIs DEF InitPath
<1>5. run.pc \in 1 .. 16 /\ Len(Script) = 16 /\ run.pc # 9 /\ run.pc # 13 /\ run.pc # 16
  BY <1>0, <1>1, InitStep DEF Commands
<1>6. /\ a \in Answers(Step) /\ card' = a.card /\ f = "NONE"
      /\ ~(~Accepted(f, a) /\ LeftBusy)
      /\ ~(Step = "ACMD41" /\ Accepted(f, a) /\ a.card.state = "idle")
  BY <1>2 DEF CommandOf
<1>7. CASE run.pc \in 1 .. 4
  <2>1. CASE run.pc = 1
    <3>1. Step = "CMD0"
      BY <1>0, <2>1, InitStep
    <3>2. card'.state = "idle" /\ ~card'.wide
      BY <1>0, <1>6, <3>1, AnswerCMD0
    <3>3. StepDone(c, m, run.got)
      BY <1>0, <1>1, <1>2, <1>3, <3>1, CommandDoneIs DEF Accepted
    <3>4. /\ job' = job /\ ctrl' = c /\ run'.pc = 2 /\ run'.stop = 0 /\ run'.polls = MaxRetries
      BY <1>0, <1>1, <1>4, <1>5, <2>1, <3>3, DoneMore
    <3> QED BY <1>4, <3>2, <3>4 DEF InitPath
  <2>2. CASE run.pc = 2
    <3>1. Step = "CMD8"
      BY <1>0, <2>2, InitStep
    <3>2. card'.state = "idle" /\ ~card'.wide /\ a.ok
      BY <1>0, <1>6, <2>2, <3>1, AnswerCMD8 DEF InitPath
    <3>3. StepDone(c, m, run.got)
      BY <1>0, <1>1, <1>2, <1>3, <1>6, <3>1, <3>2, CommandDoneIs DEF Accepted
    <3>4. /\ job' = job /\ ctrl' = c /\ run'.pc = 3 /\ run'.stop = 0 /\ run'.polls = MaxRetries
      BY <1>0, <1>1, <1>4, <1>5, <2>2, <3>3, DoneMore
    <3> QED BY <1>4, <3>2, <3>4 DEF InitPath
  <2>3. CASE run.pc = 3
    <3>1. Step = "CMD55"
      BY <1>0, <2>3, InitStep
    <3>2. card'.state = "idle" /\ ~card'.wide /\ card'.app /\ a.ok
      BY <1>0, <1>6, <2>3, <3>1, AnswerCMD55 DEF InitPath
    <3>3. Continue([Start(run.pc + 1) EXCEPT !.loops = run.loops], c, m)
      BY <1>0, <1>1, <1>2, <1>3, <1>6, <3>1, <3>2, CommandDoneIs DEF Accepted
    <3>4. /\ job' = job /\ ctrl' = c /\ run'.pc = 4 /\ run'.stop = 0 /\ run'.polls = MaxRetries
      BY <2>3, <3>3 DEF Continue, Start
    <3> QED BY <1>4, <3>2, <3>4 DEF InitPath
  <2>4. CASE run.pc = 4
    <3>1. Step = "ACMD41"
      BY <1>0, <2>4, InitStep
    <3>2. a.ok /\ ~card'.wide /\ a.card.state \in {"ready", "idle"}
      BY <1>0, <1>6, <2>4, <3>1, AnswerACMD41 DEF InitPath
    <3>3. a.card.state = "ready"
      BY <1>6, <3>1, <3>2 DEF Accepted
    <3>4. StepDone(c, [m EXCEPT !.type = card.type, !.ocr = CardUnit], run.got)
      BY <1>0, <1>1, <1>2, <1>3, <1>6, <3>1, <3>2, <3>3, CommandDoneIs DEF Accepted
    <3>5. /\ job' = job /\ ctrl' = c /\ run'.pc = 5 /\ run'.stop = 0 /\ run'.polls = MaxRetries
      BY <1>0, <1>1, <1>4, <1>5, <2>4, <3>4, DoneMore
    <3> QED BY <1>4, <1>6, <3>2, <3>3, <3>5 DEF InitPath
  <2> QED BY <1>7, <2>1, <2>2, <2>3, <2>4
<1>8. CASE run.pc \in 5 .. 8
  <2>1. Step \in {"CMD2", "CMD3", "CMD9", "CMD7"}
    BY <1>0, <1>8, InitStep
  <2>2. /\ a.ok /\ ~card'.wide
        /\ run.pc = 5 => card'.state = "ident"
        /\ run.pc = 6 => card'.state = "stby"
        /\ run.pc = 7 => card'.state = "stby"
        /\ run.pc = 8 => card'.state = "tran"
    <3>1. CASE run.pc = 5
      BY <1>0, <1>6, <3>1, InitStep, AnswerCMD2 DEF InitPath
    <3>2. CASE run.pc = 6
      BY <1>0, <1>6, <3>2, InitStep, AnswerCMD3 DEF InitPath
    <3>3. CASE run.pc = 7
      BY <1>0, <1>6, <3>3, InitStep, AnswerCMD9 DEF InitPath
    <3>4. CASE run.pc = 8
      BY <1>0, <1>6, <3>4, InitStep, AnswerCMD7 DEF InitPath
    <3> QED BY <1>8, <3>1, <3>2, <3>3, <3>4
  <2>3. StepDone(c, m, run.got)
    BY <1>0, <1>1, <1>2, <1>3, <1>6, <2>1, <2>2, CommandDoneIs DEF Accepted
  <2>4. /\ job' = job /\ ctrl' = c /\ run'.pc = run.pc + 1 /\ run'.stop = 0 /\ run'.polls = MaxRetries
    BY <1>0, <1>1, <1>4, <1>5, <1>8, <2>3, DoneMore
  <2> QED BY <1>4, <1>8, <2>2, <2>4 DEF InitPath
<1>9. CASE run.pc = 10
  <2>1. Step = "CMD16"
    BY <1>0, <1>9, InitStep
  <2>2. a.ok /\ ~card'.wide /\ card'.state = "tran"
    BY <1>0, <1>6, <1>9, <2>1, AnswerCMD16 DEF InitPath
  <2>3. PICK d : d = Prepared(c, m)
    OBVIOUS
  <2>4. d \in CtrlRecord /\ ~d.wide /\ d.dir = "READ"
    BY <1>4, <2>3, PreparedIs
  <2>5. StepDone(d, m, run.got)
    BY <1>0, <1>1, <1>2, <1>3, <1>6, <2>1, <2>2, <2>3, CommandDoneIs DEF Accepted
  <2>6. /\ job' = job /\ ctrl' = d /\ run'.pc = 11 /\ run'.stop = 0 /\ run'.polls = MaxRetries
    BY <1>0, <1>1, <1>4, <1>5, <1>9, <2>5, DoneMore
  <2> QED BY <2>2, <2>4, <2>6 DEF InitPath
<1>10. CASE run.pc = 11 \/ run.pc = 14
  <2>1. Step = "CMD55"
    BY <1>0, <1>10, InitStep
  <2>2. a.ok /\ ~card'.wide /\ card'.state = "tran" /\ card'.app
    BY <1>0, <1>6, <1>10, <2>1, AnswerCMD55 DEF InitPath
  <2>3. Continue([Start(run.pc + 1) EXCEPT !.loops = run.loops], c, m)
    BY <1>0, <1>1, <1>2, <1>3, <1>6, <2>1, <2>2, CommandDoneIs DEF Accepted
  <2>4. /\ job' = job /\ ctrl' = c /\ run'.pc = run.pc + 1 /\ run'.stop = 0 /\ run'.polls = MaxRetries
    BY <2>3 DEF Continue, Start
  <2>5. run.pc = 11 => c.dir = "READ"
    BY <1>4, <2>1 DEF InitPath
  <2> QED BY <1>4, <1>10, <2>2, <2>4, <2>5 DEF InitPath
<1>11. CASE run.pc = 12
  <2>1. Step = "ACMD51" /\ DataCommand(Step)
    BY <1>0, <1>11, InitStep DEF DataCommand
  <2>2. a.ok /\ ~card'.wide /\ card'.state = "data" /\ card'.burst = "one"
    BY <1>0, <1>6, <1>11, <2>1, AnswerACMD51 DEF InitPath
  <2>3. StepDone(c, m, run.got)
    BY <1>0, <1>1, <1>2, <1>3, <1>6, <2>1, <2>2, CommandDoneIs DEF Accepted
  <2>4. /\ job' = job /\ ctrl' = c /\ run'.pc = 13 /\ run'.stop = 0 /\ run'.polls = MaxRetries
    BY <1>0, <1>1, <1>4, <1>5, <1>11, <2>3, DoneMore
  <2>5. c.active /\ c.dir = "READ"
    BY <1>4, <1>11, <2>1 DEF InitPath
  <2> QED BY <1>4, <2>2, <2>4, <2>5 DEF InitPath
<1>12. CASE run.pc = 15
  <2>1. Step = "ACMD6"
    BY <1>0, <1>12, InitStep
  <2>2. a.ok /\ card'.state = "tran"
    BY <1>0, <1>6, <1>12, <2>1, AnswerACMD6 DEF InitPath
  <2>3. StepDone(c, m, run.got)
    BY <1>0, <1>1, <1>2, <1>3, <1>6, <2>1, <2>2, CommandDoneIs DEF Accepted
  <2>4. /\ job' = job /\ ctrl' = c /\ run'.pc = 16 /\ run'.stop = 0 /\ run'.polls = MaxRetries
    BY <1>0, <1>1, <1>4, <1>5, <1>12, <2>3, DoneMore
  <2> QED BY <1>4, <2>2, <2>4 DEF InitPath
<1> QED BY <1>5, <1>7, <1>8, <1>9, <1>10, <1>11, <1>12

\* A step of sd_init() that meets no trouble ends the call with success or goes on.
LEMMA DriverInitSmooth ==
  ASSUME TypesIn, Hinted, InitPath, Driver, job = SdInit, trouble' = {}
  PROVE  (job' = job /\ InitPath') \/ (job' = NULL /\ up')
<1>0. /\ Types /\ card \in CardRecord /\ ctrl \in CtrlRecord /\ mmc \in MmcRecord /\ run \in RunRecord
      /\ run.stop = 0 /\ run.polls = MaxRetries /\ MaxRetries = 5
  BY Sizes DEF TypesIn, Types, InitPath
<1>1. CASE Command
  BY <1>1, CommandInitSmooth
<1>2. CASE Wait
  <2>1. job # NULL /\ Step = "WAIT"
    BY <1>0, <1>2, WaitIs
  <2>2. (run.pc = 9 \/ run.pc = 16) /\ Len(Script) = 16
    <3>1. run.pc \in 1 .. 16 /\ Len(Script) = 16
      BY <1>0, InitStep
    <3>2. run.pc \notin 1 .. 8
      BY <1>0, <2>1, InitStep
    <3>3. run.pc \notin 10 .. 15
      BY <1>0, <2>1, InitStep
    <3> QED BY <3>1, <3>2, <3>3
  <2>3. card.state = "tran" /\ Settled(card.state)
    <3>1. card.state = "tran" /\ job.op = "INIT"
      BY <2>2 DEF InitPath, SdInit
    <3> QED BY <2>2, <3>1 DEF Settled
  <2>4. PICK c, m : c = Sent("CMD13") /\ m = Noted("CMD13")
    OBVIOUS
  <2>5. c \in CtrlRecord /\ m \in MmcRecord /\ run.got \in Seq(Data) /\ ~c.wide
    BY <1>0, <2>4, SentIs, NotedIs, RunIs DEF InitPath
  <2>6. PICK f, a :
          /\ a \in Answers("CMD13")
          /\ card' = (IF f = "CMD_LOST" THEN card ELSE a.card)
          /\ f = "NONE"
          /\ \/ (f # "NONE" \/ ~a.ok)
             \/ f = "NONE" /\ a.ok /\ card.state = "prg" /\ card.burst = "many"
             \/ f = "NONE" /\ a.ok /\ Settled(card.state) /\ StepDone(c, m, run.got)
             \/ f = "NONE" /\ a.ok /\ ~Settled(card.state)
    BY <1>0, <1>2, <2>4, WaitIs, Zenon
  <2>7. a.ok /\ card'.state = "tran" /\ card'.wide = card.wide
    BY <1>0, <2>3, <2>6, AnswerCMD13
  <2>8. StepDone(c, m, run.got)
    BY <2>3, <2>6, <2>7
  <2>9. CASE run.pc = 9
    <3>1. job' = job /\ ctrl' = c /\ run'.pc = 10 /\ run'.stop = 0 /\ run'.polls = MaxRetries
      BY <1>0, <2>1, <2>2, <2>5, <2>8, <2>9, DoneMore
    <3>2. ~card'.wide
      BY <2>7, <2>9 DEF InitPath
    <3> QED BY <2>5, <2>7, <3>1, <3>2 DEF InitPath
  <2>10. CASE run.pc = 16
    <3>1. Return("PASS", c, m, run.got)
      BY <2>2, <2>8, <2>10 DEF StepDone
    <3> QED BY <2>5, <3>1, ReturnInit
  <2> QED BY <2>2, <2>9, <2>10
<1>3. ~StopTransfer
  BY <1>0 DEF StopTransfer
<1>4. ~WaitGivesUp
  BY <1>0 DEF WaitGivesUp
<1>5. ASSUME DataDone \/ DataFailed
      PROVE  job # NULL /\ Step = "DATA" /\ run.pc = 13 /\ run.pc < Len(Script) /\ Moving
  <2>1. job # NULL /\ Step = "DATA"
    BY <1>0, <1>5, DataDoneIs, DataFailedIs
  <2>2. run.pc = 13 /\ run.pc < Len(Script)
    BY <1>0, <2>1, DataPlace
  <2>3. Direction = "READ"
    BY InitScript DEF Direction
  <2>4. ctrl.wide = card.wide
    BY <1>0, <2>2 DEF InitPath, CardRecord, CtrlRecord
  <2> QED BY <2>1, <2>2, <2>3, <2>4 DEF InitPath, Moving
<1>6. ~DataFailed
  BY <1>0, <1>5, DataFailedIs
<1>7. CASE DataDone
  <2>1. PICK c : c = [ctrl EXCEPT !.active = FALSE]
    OBVIOUS
  <2>2. c \in CtrlRecord /\ ~c.wide
    BY <1>0, <2>1, InactiveIs DEF InitPath
  <2>3. card' = Moved /\ Got \in Seq(Data) /\ StepDone(c, mmc, Got)
    BY <1>0, <1>7, <2>1, DataDoneIs
  <2>4. /\ job' = job /\ ctrl' = c /\ run'.pc = 14 /\ run'.stop = 0 /\ run'.polls = MaxRetries
    BY <1>0, <1>5, <1>7, <2>3, DoneMore
  <2>5. Direction = "READ" /\ card.burst = "one" /\ ~card.wide
    BY <1>5, <1>7, InitScript DEF Direction, InitPath
  <2>6. card'.state = "tran" /\ ~card'.wide
    BY <1>0, <2>3, <2>5 DEF Moved, CardRecord
  <2> QED BY <2>2, <2>4, <2>6 DEF InitPath
<1> QED BY <1>1, <1>2, <1>3, <1>4, <1>6, <1>7 DEF Driver

Calm == card.state \in Open /\ ~Wild

RequestPath ==
  /\ run.stop = 0 /\ run.polls = MaxRetries
  /\ run.pc = 1 => Calm
  /\ run.pc = 2 \/ run.pc = 3 => ctrl.dir = Direction
  /\ run.pc = 2 => card.state = "tran"
  /\ run.pc = 3 =>
       /\ ctrl.active
       /\ card.state = (IF job.op = "READ10" THEN "data" ELSE "rcv") /\ card.burst = Burst
  /\ run.pc = 4 /\ ~(job.cnt > 1) =>
       \/ card.state = "tran"
       \/ job.op = "WRITE10" /\ card.state = "prg" /\ card.burst = "one"
  /\ run.pc >= 4 /\ job.cnt > 1 =>
       card.state = (IF job.op = "READ10" THEN "data" ELSE "rcv") /\ card.burst = "many"

LEMMA CommandRequestSmooth ==
  ASSUME TypesIn, Hinted, RequestPath, Agreed, Command, job \in Request, trouble' = {}
  PROVE  (job' = job /\ RequestPath') \/ (job' = NULL /\ ans'.status = "PASS")
<1>0. /\ Types /\ card \in CardRecord /\ ctrl \in CtrlRecord /\ mmc \in MmcRecord /\ run \in RunRecord
      /\ mmc.write_pending <=> job.op = "WRITE10"
      /\ job.op = "READ10" \/ job.op = "WRITE10"
  BY RequestIs DEF TypesIn, Types, Hinted
<1>1. job # NULL /\ run.stop = 0 /\ Step \in Commands /\ Step # "WAIT"
  BY <1>0, CommandIs
<1>2. PICK f, a : /\ CommandOf(f, a)
                  /\ Accepted(f, a) => CommandDone(Sent(Step), Noted(Step), a.card)
  BY <1>0, CommandIs, Zenon
<1>3. PICK c, m : c = Sent(Step) /\ m = Noted(Step)
  OBVIOUS
<1>4. /\ c \in CtrlRecord /\ m \in MmcRecord /\ run.got \in Seq(Data)
      /\ m.write_pending = mmc.write_pending
      /\ DataCommand(Step) => c.dir = ctrl.dir
      /\ DataCommand(Step) /\ Step # "CMD12" => c.active
  BY <1>0, <1>3, SentIs, NotedIs, RunIs
<1>5. (run.pc = 1 \/ run.pc = 2 \/ run.pc = 5) /\ Len(Script) \in Nat /\ 4 <= Len(Script)
  BY <1>0, <1>1, RequestStep, RequestLength DEF Commands
<1>6. /\ a \in Answers(Step) /\ card' = a.card /\ f = "NONE" /\ ~(~Accepted(f, a) /\ LeftBusy)
  BY <1>2 DEF CommandOf
<1>7. CASE run.pc = 1
  <2>1. Step = "CMD16"
    BY <1>0, <1>7, RequestStep
  <2>2. card.state = "tran" \/ LeftBusy
    BY <1>0, <1>7 DEF RequestPath, Calm, Open, Wild, LeftBusy, CardRecord
  <2>3. a.ok /\ card'.state = "tran"
    <3>1. a.ok <=> card.state = "tran"
      BY <1>0, <1>6, <2>1, AnswerCMD16
    <3>2. a.card.state = card.state
      BY <1>0, <1>6, <2>1, AnswerCMD16
    <3>3. Accepted(f, a) <=> a.ok
      BY <1>6, <2>1 DEF Accepted
    <3> QED BY <1>6, <2>2, <3>1, <3>2, <3>3
  <2>4. PICK d : d = Prepared(c, m)
    OBVIOUS
  <2>5. d \in CtrlRecord /\ d.dir = Direction
    BY <1>0, <1>4, <2>4, PreparedIs DEF Direction
  <2>6. StepDone(d, m, run.got)
    BY <1>0, <1>1, <1>2, <1>3, <1>6, <2>1, <2>3, <2>4, CommandDoneIs DEF Accepted
  <2>7. /\ job' = job /\ ctrl' = d /\ run'.pc = 2 /\ run'.stop = 0 /\ run'.polls = MaxRetries
    BY <1>0, <1>1, <1>4, <1>5, <1>7, <2>6, DoneMore
  <2> QED BY <2>3, <2>5, <2>7 DEF RequestPath, Direction
<1>8. CASE run.pc = 2
  <2>1. Step = (IF job.op = "READ10" THEN ReadCommand ELSE WriteCommand)
    BY <1>0, <1>8, RequestStep
  <2>2. Addressed(ReadUnit) /\ Addressed(WriteUnit) /\ card.state = "tran" /\ ctrl.dir = Direction
    BY <1>8 DEF Agreed, Addressed, RequestPath
  <2>3. /\ a.ok /\ card'.burst = Burst
        /\ card'.state = (IF job.op = "READ10" THEN "data" ELSE "rcv")
    <3>1. CASE job.op = "READ10"
      BY <1>0, <1>6, <2>1, <2>2, <3>1, AnswerRead
    <3>2. CASE job.op = "WRITE10"
      BY <1>0, <1>6, <2>1, <2>2, <3>2, AnswerWrite
    <3> QED BY <1>0, <3>1, <3>2
  <2>4. /\ DataCommand(Step) /\ Step # "CMD12" /\ Step \notin {"CMD16", "ACMD41", "CMD55"}
    BY <2>1 DEF DataCommand, ReadCommand, WriteCommand
  <2>5. StepDone(c, m, run.got)
    BY <1>0, <1>1, <1>2, <1>3, <1>6, <2>3, <2>4, CommandDoneIs DEF Accepted
  <2>6. /\ job' = job /\ ctrl' = c /\ run'.pc = 3 /\ run'.stop = 0 /\ run'.polls = MaxRetries
    BY <1>0, <1>1, <1>4, <1>5, <1>8, <2>5, DoneMore
  <2>7. c.active /\ c.dir = Direction
    BY <1>4, <2>2, <2>4
  <2> QED BY <2>3, <2>6, <2>7 DEF RequestPath, Direction, Burst
<1>9. CASE run.pc = 5
  <2>1. Step = "CMD12" /\ job.cnt > 1 /\ run.pc = Len(Script)
    BY <1>0, <1>9, RequestStep
  <2>2. a.ok
    BY <1>0, <1>6, <1>9, <2>1, AnswerCMD12 DEF RequestPath
  <2>3. StepDone(c, m, run.got)
    BY <1>0, <1>1, <1>2, <1>3, <1>6, <2>1, <2>2, CommandDoneIs DEF Accepted
  <2>4. Return("PASS", c, m, run.got)
    BY <2>1, <2>3 DEF StepDone
  <2> QED BY <1>4, <2>4, ReturnRequest
<1> QED BY <1>5, <1>7, <1>8, <1>9

\* A step of sd_read() or sd_write() on an agreeing card that meets no trouble
\* ends the call with success or goes on.
LEMMA DriverRequestSmooth ==
  ASSUME TypesIn, Hinted, RequestPath, Agreed, Driver, job \in Request, trouble' = {}
  PROVE  (job' = job /\ RequestPath') \/ (job' = NULL /\ ans'.status = "PASS")
<1>0. /\ Types /\ card \in CardRecord /\ ctrl \in CtrlRecord /\ mmc \in MmcRecord /\ run \in RunRecord
      /\ run.stop = 0 /\ run.polls = MaxRetries /\ MaxRetries = 5 /\ job.cnt \in Nat
      /\ job.op = "READ10" \/ job.op = "WRITE10"
  BY Sizes, RequestIs DEF TypesIn, Types, RequestPath
<1>1. CASE Command
  BY <1>1, CommandRequestSmooth
<1>2. CASE Wait
  <2>1. job # NULL /\ Step = "WAIT"
    BY <1>0, <1>2, WaitIs
  <2>2. run.pc = 4 /\ Len(Script) = IF job.cnt > 1 THEN 5 ELSE 4
    <3>1. run.pc \in 1 .. 5 /\ Len(Script) = IF job.cnt > 1 THEN 5 ELSE 4
      BY <1>0, RequestStep
    <3>2. run.pc # 1 /\ run.pc # 3 /\ run.pc # 5
      BY <1>0, <2>1, RequestStep
    <3>3. run.pc # 2
      BY <1>0, <2>1, RequestStep DEF ReadCommand, WriteCommand
    <3> QED BY <3>1, <3>2, <3>3
  <2>3. PICK c, m : c = Sent("CMD13") /\ m = Noted("CMD13")
    OBVIOUS
  <2>4. c \in CtrlRecord /\ m \in MmcRecord /\ run.got \in Seq(Data)
    BY <1>0, <2>3, SentIs, NotedIs, RunIs
  <2>5. PICK f, a :
          /\ a \in Answers("CMD13")
          /\ card' = (IF f = "CMD_LOST" THEN card ELSE a.card)
          /\ f = "NONE"
          /\ \/ (f # "NONE" \/ ~a.ok)
             \/ f = "NONE" /\ a.ok /\ card.state = "prg" /\ card.burst = "many"
             \/ f = "NONE" /\ a.ok /\ Settled(card.state) /\ StepDone(c, m, run.got)
             \/ f = "NONE" /\ a.ok /\ ~Settled(card.state) /\ Continue([run EXCEPT !.polls = MaxRetries], c, m)
    BY <1>0, <1>2, <2>3, WaitIs, Zenon
  <2>6. /\ card.state \in {"tran", "data", "rcv", "prg"}
        /\ ~(card.state = "prg" /\ card.burst = "many")
        /\ card.state = "prg" => ~(job.cnt > 1)
    BY <1>0, <2>2 DEF RequestPath
  <2>7. a.ok /\ card'.state = card.state /\ card'.burst = card.burst
    BY <1>0, <2>5, <2>6, AnswerCMD13
  <2>8. CASE StepDone(c, m, run.got)
    <3>1. CASE job.cnt > 1
      <4>1. run.pc < Len(Script)
        BY <2>2, <3>1
      <4>2. job' = job /\ run'.pc = 5 /\ run'.stop = 0 /\ run'.polls = MaxRetries
        BY <1>0, <2>1, <2>2, <2>4, <2>8, <4>1, DoneMore
      <4>3. card'.state = (IF job.op = "READ10" THEN "data" ELSE "rcv") /\ card'.burst = "many"
        BY <2>2, <2>7, <3>1 DEF RequestPath
      <4> QED BY <3>1, <4>2, <4>3 DEF RequestPath
    <3>2. CASE ~(job.cnt > 1)
      <4>1. Return("PASS", c, m, run.got)
        BY <2>2, <2>8, <3>2 DEF StepDone
      <4> QED BY <2>4, <4>1, ReturnRequest
    <3> QED BY <3>1, <3>2
  <2>9. CASE Continue([run EXCEPT !.polls = MaxRetries], c, m)
    <3>1. job' = job /\ run'.pc = 4 /\ run'.stop = 0 /\ run'.polls = MaxRetries
      BY <1>0, <2>2, <2>9 DEF Continue, RunRecord
    <3> QED BY <1>0, <2>2, <2>7, <3>1 DEF RequestPath
  <2> QED BY <2>5, <2>6, <2>7, <2>8, <2>9
<1>3. ~StopTransfer
  BY <1>0 DEF StopTransfer
<1>4. ~WaitGivesUp
  BY <1>0 DEF WaitGivesUp
<1>5. ASSUME DataDone \/ DataFailed
      PROVE  job # NULL /\ run.pc = 3 /\ run.pc < Len(Script) /\ Moving
  <2>1. job # NULL /\ Step = "DATA"
    BY <1>0, <1>5, DataDoneIs, DataFailedIs
  <2>2. run.pc = 3 /\ run.pc < Len(Script)
    BY <1>0, <2>1, DataPlace
  <2>3. ctrl.wide = card.wide
    BY <1>0 DEF Agreed, CardRecord, CtrlRecord
  <2>4. card.state = IF Direction = "WRITE" THEN "rcv" ELSE "data"
    BY <1>0, <2>2 DEF RequestPath, Direction
  <2> QED BY <2>1, <2>2, <2>3, <2>4 DEF RequestPath, Moving
<1>6. ~DataFailed
  BY <1>0, <1>5, DataFailedIs
<1>7. CASE DataDone
  <2>1. PICK c : c = [ctrl EXCEPT !.active = FALSE]
    OBVIOUS
  <2>2. c \in CtrlRecord
    BY <1>0, <2>1, InactiveIs
  <2>3. card' = Moved /\ Got \in Seq(Data) /\ StepDone(c, mmc, Got)
    BY <1>0, <1>7, <2>1, DataDoneIs
  <2>4. /\ job' = job /\ run'.pc = 4 /\ run'.stop = 0 /\ run'.polls = MaxRetries
    BY <1>0, <1>5, <1>7, <2>3, DoneMore
  <2>5. card.state = (IF job.op = "READ10" THEN "data" ELSE "rcv") /\ card.burst = Burst
    BY <1>5, <1>7 DEF RequestPath
  <2>6. CASE job.cnt > 1
    <3>1. card' = card /\ card.burst = "many"
      BY <2>3, <2>5, <2>6 DEF Moved, Burst
    <3> QED BY <2>4, <2>5, <2>6, <3>1 DEF RequestPath
  <2>7. CASE ~(job.cnt > 1)
    <3>1. card.burst = "one" /\ card' = [card EXCEPT !.state = IF Direction = "WRITE" THEN "prg" ELSE "tran"]
      BY <2>3, <2>5, <2>7 DEF Moved, Burst
    <3>2. card'.burst = "one" /\ card'.state = (IF job.op = "WRITE10" THEN "prg" ELSE "tran")
      BY <1>0, <3>1 DEF Direction, CardRecord
    <3> QED BY <1>0, <2>4, <2>7, <3>2 DEF RequestPath
  <2> QED BY <2>6, <2>7
<1> QED BY <1>1, <1>2, <1>3, <1>4, <1>6, <1>7 DEF Driver

LEMMA TroubleGrows ==
  ASSUME TypesIn, Driver, trouble' = {}
  PROVE  trouble = {}
<1>0. Types
  BY DEF TypesIn
<1>1. CASE Command
  BY <1>0, <1>1, CommandIs DEF CommandOf
<1>2. CASE Wait \/ StopTransfer
  BY <1>0, <1>2, WaitIs, StopIs
<1>3. CASE DataDone \/ DataFailed \/ WaitGivesUp
  BY <1>0, <1>3, DataDoneIs, DataFailedIs, GivesUpIs
<1> QED BY <1>1, <1>2, <1>3 DEF Driver

Smooth ==
  /\ Hinted
  /\ job = SdInit /\ trouble = {} => InitPath
  /\ job \in Request /\ up /\ Agreed /\ trouble = {} => RequestPath

LEMMA DriverSmooth ==
  ASSUME TypesIn, Smooth, Driver
  PROVE  Smooth'
<1>0. TypesIn /\ Types /\ Hinted /\ Hinted'
  BY DriverHints DEF Smooth, TypesIn
<1>1. CASE job = SdInit
  <2>1. job' = SdInit \/ job' = NULL
    <3>1. Driver => job' = job \/ job' = NULL
      BY DEF Driver, Command, Wait, WaitGivesUp, StopTransfer, DataDone, DataFailed, DataError, Ended,
             CommandDone, CommandFailed, AttemptFailed, StepDone, Continue, Return
    <3> QED BY <1>1, <3>1
  <2>2. job' = SdInit /\ trouble' = {} => InitPath'
    BY <1>0, <1>1, DriverInitSmooth, TroubleGrows, Sizes DEF Smooth
  <2> QED BY <1>0, <2>1, <2>2, RequestIs, Sizes DEF Smooth
<1>2. CASE job \in Request
  <2>1. Untouched
    BY <1>2, DriverUntouched
  <2>2. job' = job \/ job' = NULL
    BY <2>1 DEF Untouched
  <2>3. up' /\ Agreed' => up /\ Agreed
    BY <2>1 DEF Untouched, Agreed, ReadUnit, WriteUnit, CardUnit
  <2>4. job' \in Request /\ up' /\ Agreed' /\ trouble' = {} => RequestPath'
    BY <1>0, <1>2, <2>2, <2>3, DriverRequestSmooth, TroubleGrows, Sizes DEF Smooth
  <2> QED BY <1>0, <1>2, <2>2, <2>4, RequestIs, Sizes DEF Smooth
<1> QED
  <2>1. job # NULL
    BY DEF Driver, Command, Wait, WaitGivesUp, StopTransfer, DataDone, DataFailed, Doing
  <2> QED BY <1>0, <1>1, <1>2, <2>1, ScriptIs

LEMMA CardSmooth ==
  ASSUME TypesIn, Smooth, CardProgrammed \/ CardSent
  PROVE  Smooth'
<1>0. Types /\ card \in CardRecord /\ run \in RunRecord
  BY DEF TypesIn, Types
<1>1. /\ LeftBusy /\ card'.state = "tran" /\ card'.app = card.app /\ card'.wide = card.wide
      /\ card'.type = card.type /\ card'.burst = card.burst
      /\ UNCHANGED <<ctrl, mmc, job, run, up, trouble>>
      /\ card.state = "data" => ~(ctrl.active /\ ctrl.dir = "READ")
  BY <1>0, CardIs
<1>2. card.state = "prg" \/ card.state = "data"
  BY <1>1 DEF LeftBusy
<1>3. Hinted'
  BY <1>1 DEF Smooth, Hinted
<1>4. ASSUME job = SdInit, trouble = {} PROVE InitPath'
  <2>1. InitPath /\ run.pc \in 1 .. 16
    BY <1>0, <1>4, InitStep DEF Smooth
  <2>2. run.pc = 1
    BY <1>1, <1>2, <2>1 DEF InitPath
  <2> QED BY <1>1, <2>1, <2>2 DEF InitPath
<1>5. ASSUME job \in Request, up, Agreed, trouble = {} PROVE RequestPath'
  <2>1. RequestPath /\ run.pc \in 1 .. 5 /\ job.cnt \in Nat /\ (job.op = "READ10" \/ job.op = "WRITE10")
    BY <1>0, <1>5, RequestStep, RequestIs DEF Smooth
  <2>2. run.pc # 2 /\ run.pc # 3 /\ (run.pc = 5 => job.cnt > 1)
    BY <1>0, <1>1, <1>2, <1>5, <2>1, RequestStep DEF RequestPath, Direction
  <2>3. run.pc >= 4 => ~(job.cnt > 1)
    BY <1>1, <1>2, <2>1 DEF RequestPath, LeftBusy
  <2>4. run.pc = 1 \/ (run.pc = 4 /\ ~(job.cnt > 1))
    BY <2>1, <2>2, <2>3
  <2>5. Calm'
    BY <1>1 DEF Calm, Open, Wild
  <2> QED BY <1>1, <2>1, <2>4, <2>5 DEF RequestPath
<1>6. (job \in Request /\ up /\ Agreed)' => job \in Request /\ up /\ Agreed
  BY <1>1 DEF Agreed, ReadUnit, WriteUnit, CardUnit
<1> QED BY <1>1, <1>3, <1>4, <1>5, <1>6 DEF Smooth

LEMMA SmoothKept == TypesIn /\ Docked /\ Smooth /\ [Next]_vars => Smooth'
<1> SUFFICES ASSUME TypesIn, Docked, Smooth, [Next]_vars PROVE Smooth'
  OBVIOUS
<1>1. CASE SdInitCall
  <2>1. /\ job = NULL /\ job' = SdInit /\ run' = Start(1) /\ ~ctrl'.wide
        /\ mmc'.write_pending = mmc.write_pending
    BY <1>1, CallIs
  <2>2. run'.pc = 1 /\ run'.stop = 0 /\ run'.polls = MaxRetries
    BY <2>1, StartIs
  <2>3. Hinted' /\ SdInit \notin Request
    BY <2>1, Sizes, RequestIs DEF Smooth, Hinted
  <2>4. InitPath'
    BY <2>1, <2>2 DEF InitPath
  <2> QED BY <2>1, <2>3, <2>4 DEF Smooth
<1>2. ASSUME NEW r \in Request, SdCall(r) PROVE Smooth'
  <2>1. /\ job = NULL /\ job' = r /\ run' = Start(1)
        /\ mmc'.write_pending = (r.op = "WRITE10")
        /\ UNCHANGED <<card, up>>
    BY <1>2, AskIs
  <2>2. run'.pc = 1 /\ run'.stop = 0 /\ run'.polls = MaxRetries
    BY <2>1, StartIs
  <2>3. Hinted' /\ r # SdInit
    BY <2>1, RequestIs DEF Hinted
  <2>4. up' => Calm'
    BY <2>1 DEF Docked, Ends, Calm, Wild
  <2>5. up' => RequestPath'
    BY <2>2, <2>4 DEF RequestPath
  <2> QED BY <2>1, <2>3, <2>5 DEF Smooth
<1>3. CASE SdInitNoSupply
  <2>1. job = NULL /\ job' = job /\ mmc' = mmc
    BY <1>3, NoSupplyIs
  <2> QED BY <2>1, Sizes DEF Smooth, Hinted
<1>4. CASE UNCHANGED vars
  BY <1>4 DEF vars, Smooth, Hinted, InitPath, RequestPath, Calm, Wild, Direction, Burst,
              Agreed, ReadUnit, WriteUnit, CardUnit
<1> QED BY <1>1, <1>2, <1>3, <1>4, DriverSmooth, CardSmooth DEF Next, Card, Calls

\* sd_init(), and a read or write after an sd_init() that left the card agreeing
\* with the driver, fail only if a command or a block of theirs was hit or the
\* card was still at work for the call before: mmc.c sends no command that the
\* card is not ready for, in whatever order the calls come.
THEOREM FailureExplainedHolds ==
  ASSUME MaxFaults < CmdTries
  PROVE  Spec => FailureExplained
<1>1. Init => Smooth
  BY Sizes DEF Init, Smooth, Hinted
<1>2. /\ TypesIn /\ Smooth /\ [Next]_vars
      => (job # NULL /\ job' = NULL =>
            \/ trouble' # {}
            \/ IF job.op = "INIT" THEN up' ELSE up /\ Agreed => ans'.status = "PASS")
  <2> SUFFICES ASSUME TypesIn, Smooth, [Next]_vars, job # NULL, job' = NULL, trouble' = {}
               PROVE  IF job.op = "INIT" THEN up' ELSE up /\ Agreed => ans'.status = "PASS"
    OBVIOUS
  <2>1. Driver
    BY CardIs DEF TypesIn, Next, Card, Calls, vars, SdCall, SdInitCall, SdInitNoSupply
  <2>2. trouble = {} /\ Hinted
    BY <2>1, TroubleGrows DEF Smooth
  <2>3. CASE job = SdInit
    <3>1. up'
      BY <2>1, <2>2, <2>3, DriverInitSmooth DEF Smooth
    <3> QED BY <2>3, <3>1 DEF SdInit
  <2>4. CASE job \in Request
    <3>1. up /\ Agreed => ans'.status = "PASS"
      BY <2>1, <2>2, <2>4, DriverRequestSmooth DEF Smooth
    <3> QED BY <2>4, <3>1, RequestIs
  <2> QED BY <2>3, <2>4, ScriptIs DEF TypesIn
<1> QED BY <1>1, <1>2, SmoothKept, DockedAlways, PTL DEF Spec, FailureExplained
=============================================================================
