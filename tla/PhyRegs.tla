------------------------------ MODULE PhyRegs ------------------------------
(***************************************************************************)
(* Which registers of the DDR PHY each step of the PHY initialisation       *)
(* writes, and which it keeps in retention RAM, for LPDDR4 and the one       *)
(* memory this board has.  A register is its name and its instance: a byte  *)
(* or address unit and a lane in it.  Values are left out, except where a   *)
(* cold and a warm start write different ones.                              *)
(***************************************************************************)
EXTENDS PhyConfig

Bytes == 0 .. uib.numdbyte - 1
Nibbles == 0 .. 1
Lanes == 0 .. 8

Reg(n) == <<n, 0, 0>>
Master(names) == {Reg(n) : n \in names}
PerByte(names, lanes) == {<<n, b, l>> : n \in names, b \in Bytes, l \in lanes}
PerAnib(n) == {<<n, a, 0>> : a \in 0 .. uib.numanib - 1}

(* A byte that drives no memory: past the active ones of its channel.       *)
isdbytedisabled(b) ==
  LET half == uib.numdbyte \div 2
      both == uib.dfi1exists /\ uib.numactive[2] # 0
  IN  IF both THEN b \in uib.numactive[1] .. half - 1 \/ b > half + uib.numactive[2] - 1
              ELSE b > uib.numactive[1] - 1

-----------------------------------------------------------------------------
(* Step C: the configuration of the PHY.                                    *)

txslewrate == PerByte({"TXSLEWRATE"}, Nibbles)
atxslewrate == PerAnib("ATXSLEWRATE")
pllctrl2 == Master({"PLLCTRL2"})
ardptrinitval == Master({"ARDPTRINITVAL"})
procodtctl == Master({"SEQ0BGPR4"})
dbytedllmodecntrl == Master({"DQSPREAMBLECONTROL", "DBYTEDLLMODECNTRL", "DLLLOCKPARAM", "DLLGAINCTL"})
procodttimectl == Master({"PROCODTTIMECTL"})
txodtdrvstren == PerByte({"TXODTDRVSTREN"}, Nibbles)
tximpedancectrl1 == PerByte({"TXIMPEDANCECTRL1"}, Nibbles)
atximpedance == PerAnib("ATXIMPEDANCE")
dfimode == Master({"DFIMODE", "DFICAMODE"})
calibration == Master({"CALDRVSTR0", "CALUCLKINFO", "CALRATE"})
vrefinglobal == Master({"VREFINGLOBAL"}) \cup PerByte({"DQDQSRCVCNTRL"}, Nibbles)
dfifreqratio == Master({"DFIFREQRATIO"})
tristatemodeca == Master({"TRISTATEMODECA"})
dfixlat == {<<"DFIFREQXLAT", v, 0>> : v \in 0 .. 7}
dqdqsrcvcntrl1 ==
  UNION {IF isdbytedisabled(b) THEN {<<"DBYTEMISCMODE", b, 0>>, <<"DQDQSRCVCNTRL1", b, 0>>}
         ELSE IF uia.lp4dbird = 1 THEN {} ELSE {<<"DQDQSRCVCNTRL1", b, 0>>} : b \in Bytes}
masterx4config == Master({"MASTERX4CONFIG", "DMIPINPRESENT"})
dfiphyupd == IF uia.disablephyupdate = 1 THEN Master({"DFIPHYUPD"}) ELSE {}
aforcetricont == (IF uia.disableunusedaddrlns = 1 THEN PerAnib("AFORCETRICONT") ELSE {}) \cup Master({"ACX4ANIBDIS"})

(* The registers of step C, and whether the impedances have codes.          *)
c_initphyconfig ==
  UNION {txslewrate, atxslewrate, pllctrl2, ardptrinitval, procodtctl, dbytedllmodecntrl, procodttimectl,
         txodtdrvstren, tximpedancectrl1, atximpedance, dfimode, calibration, vrefinglobal, dfifreqratio,
         tristatemodeca, dfixlat, dqdqsrcvcntrl1, masterx4config, dfiphyupd, aforcetricont}
ImpedancesFit ==
  /\ \A t \in {"ODTSTRENP", "ODTSTRENN"} : mapdrvstren(uia.odtimpedance, t) # {}
  /\ \A t \in {"DRVSTRENFSDQP", "DRVSTRENFSDQN"} : mapdrvstren(uia.tximpedance, t) # {}
  /\ mapdrvstren(uia.atximpedance, "ADRV") # {}

(* The routing of the board's lines, written before the training.           *)
DqLnSel == {"DQ0LNSEL", "DQ1LNSEL", "DQ2LNSEL", "DQ3LNSEL", "DQ4LNSEL", "DQ5LNSEL", "DQ6LNSEL", "DQ7LNSEL"}
custompretrain == PerByte(DqLnSel, {0}) \cup {<<n, j, 0>> : n \in {"MAPCAATODFI", "MAPCABTODFI"}, j \in 0 .. 5}

-----------------------------------------------------------------------------
(* In place of the training, when it is skipped: a value for everything     *)
(* that the training would have found.                                      *)

dfimrl == PerByte({"DFIMRL"}, {0}) \cup Master({"HWTMRL"})
(* The delays of a timing group, where a rank of it is there and the byte   *)
(* is used.                                                                 *)
Groups == {g \in 0 .. 1 : \E ch \in 1 .. 2 : uib.numrank[ch] > g}
Delays(names, lanes) ==
  {<<names[g + 1], b, l>> : g \in Groups, b \in {c \in Bytes : ~isdbytedisabled(c)}, l \in lanes}
txdqsdlytg == Delays(<<"TXDQSDLYTG0", "TXDQSDLYTG1">>, Nibbles)
txdqdlytg == Delays(<<"TXDQDLYTG0", "TXDQDLYTG1">>, Lanes)
rxendly == Delays(<<"RXENDLYTG0", "RXENDLYTG1">>, Nibbles)
seq0bgpr == Master({"SEQ0BGPR1", "SEQ0BGPR2", "SEQ0BGPR3"})
hwtlpcsen == Master({"HWTLPCSENA", "HWTLPCSENB"})
(* Here the ranks of both channels are added up, one timing group for each. *)
pptdqscntinvtrntg ==
  LET total == uib.numrank[1] + (IF uib.dfi1exists THEN uib.numrank[2] ELSE 0)
      Name == <<"PPTDQSCNTINVTRNTG0", "PPTDQSCNTINVTRNTG1">>
  IN  PerByte({Name[r] : r \in {q \in 1 .. 2 : q <= total}}, {0})
pptctlstatic == PerByte({"PPTCTLSTATIC"}, {0})
hwtcamode == Master({"HWTCAMODE"})
dllgainctl_dlllockparam == Master({"DLLGAINCTL", "DLLLOCKPARAM"})
acsmctrl23 == Master({"ACSMCTRL23"})
pllforcecal == Master({"PLLCTRL3", "SEQ0BGPR6"})
phyinlp3 == Master({"PHYINLP3"})
progcsrskiptrain ==
  UNION {dfimrl, txdqsdlytg, txdqdlytg, rxendly, seq0bgpr, hwtlpcsen, pptdqscntinvtrntg, pptctlstatic,
         hwtcamode, dllgainctl_dlllockparam, acsmctrl23, pllforcecal, phyinlp3}

-----------------------------------------------------------------------------
(* Step I: the program of the PHY's engine and its parameters.  With the    *)
(* training skipped the periodic retraining is not set up.                  *)

seq0bdly == Master({"SEQ0BDLY0", "SEQ0BDLY1", "SEQ0BDLY2", "SEQ0BDLY3"})
seq0bdisableflag == {<<"SEQ0BDISABLEFLAG", i, 0>> : i \in 0 .. 7}
FlagsOff(skip) == skip \/ ~Retraining \/ uib.frequency < 333
ppttrainsetup == IF uib.frequency >= 333 THEN Master({"PPTTRAINSETUP", "PPTTRAINSETUP2"}) ELSE {}
acsmplayback == {<<n, v, 0>> : n \in {"ACSMPLAYBACK0X", "ACSMPLAYBACK1X"}, v \in 0 .. 2}
traininghwreg ==
  UNION {Master({"ACSMCTRL13", "ACSMCTRL1"}),
         PerByte({"TSMBYTE1", "TSMBYTE2", "TSMBYTE3", "TSMBYTE5", "TRAININGPARAM", "TSM0"}, {0}),
         PerByte({"TSM2"}, 1 .. 8)}
(* The program: one name for its 481 words.                                 *)
loadpieprodcode == Master({"PRODCODE"})
i_loadpieimage(skip) ==
  UNION {loadpieprodcode, Master({"DFIWRRDDATACSCONFIG", "CALZAP", "CALRATE"}), seq0bdly, seq0bdisableflag,
         IF skip THEN {} ELSE ppttrainsetup, acsmplayback, traininghwreg}

-----------------------------------------------------------------------------
(* What is kept for a warm start: the results of the training, and no more  *)
(* than the area in retention RAM has room for.                             *)

MAX_NUM_RET_REGS == 283

RetBytes ==
  UNION {PerByte({"RXPBDLYTG0", "RXPBDLYTG1"}, Lanes),
         PerByte({"PPTCTLSTATIC", "TRAININGINCDECDTSMEN", "TSMBYTE0"} \cup DqLnSel, {0})}
\* Wrong variant: forgets the read latency.
RetDelays_no_latency ==
  UNION {PerByte({"PPTDQSCNTINVTRNTG0", "PPTDQSCNTINVTRNTG1"}, {0}), PerByte({"DQDQSRCVCNTRL"}, Nibbles),
         PerByte({"RXENDLYTG0", "RXENDLYTG1", "TXDQSDLYTG0", "TXDQSDLYTG1", "RXCLKDLYTG0", "RXCLKDLYTG1"}, Nibbles),
         PerByte({"TXDQDLYTG0", "TXDQDLYTG1"}, Lanes)}

RetDelays ==
  UNION {PerByte({"DFIMRL", "PPTDQSCNTINVTRNTG0", "PPTDQSCNTINVTRNTG1"}, {0}), PerByte({"DQDQSRCVCNTRL"}, Nibbles),
         PerByte({"RXENDLYTG0", "RXENDLYTG1", "TXDQSDLYTG0", "TXDQSDLYTG1", "RXCLKDLYTG0", "RXCLKDLYTG1"}, Nibbles),
         PerByte({"TXDQDLYTG0", "TXDQDLYTG1"}, Lanes)}
RetGlobals ==
  Master({"SEQ0BGPR1", "SEQ0BGPR2", "SEQ0BGPR3", "SEQ0BGPR4", "SEQ0BGPR5", "SEQ0BGPR6", "SEQ0BGPR7", "SEQ0BGPR8",
          "DLLGAINCTL", "DLLLOCKPARAM", "HWTMRL", "HWTCAMODE", "HWTLPCSENA", "HWTLPCSENB", "ACSMCTRL13", "ACSMCTRL23"})
   \cup {<<"SEQ0BDISABLEFLAG", 6, 0>>}
saveretregs == UNION {Master({"PLLCTRL3", "VREFINGLOBAL"}), PerAnib("ATXDLY"), RetBytes, RetDelays, RetGlobals}

(* What a warm start leaves different from the cold one, unless it is kept: *)
(* what only the training finds, what step I writes with the training only, *)
(* and the one flag it writes otherwise.                                    *)
NotRedone ==
  UNION {progcsrskiptrain \ phyinlp3, i_loadpieimage(FALSE) \ i_loadpieimage(TRUE),
         IF FlagsOff(TRUE) # FlagsOff(FALSE) THEN {<<"SEQ0BDISABLEFLAG", 6, 0>>} ELSE {}}
=============================================================================
