----------------------------- MODULE Firewalls -----------------------------
(***************************************************************************)
(* What boot leaves to the kernel besides the images: rif_handoff() (rif.c) *)
(* and the interrupt controller (gic.c), with the writes core 1 makes when  *)
(* it leaves the pen (startup.S).  Straight-line code, so it is modelled as *)
(* a function from the registers before to the registers after; a word is   *)
(* the set of its bits that are set.                                        *)
(*                                                                         *)
(* A resource i of a block is secure, or privileged, by bit i % 32 of word  *)
(* i \div 32 of SECCFGR and PRIVCFGR, and filtered by bit 0 of its CIDCFGR. *)
(* Writes to a bank whose clock is off are lost.                            *)
(***************************************************************************)
EXTENDS Naturals

LOCAL Bits == 0 .. 31
Words(n) == (n + 31) \div 32

\* The resources of each block that is opened throughout, and their number.
OpenBlocks ==
  [RCC |-> 114, PWR |-> 7, WIO |-> 6, EXTI1 |-> 96, EXTI2 |-> 96]
GpioBanks == {"A", "B", "C", "D", "E", "F", "G", "H", "I", "J", "K", "Z"}
Hpdmas == {"HPDMA1", "HPDMA2", "HPDMA3"}

RIFSC_ID_CRYP2 == 97
RIFSC_ID_IWDG3 == 100
RIFSC_CID2_LOCKED == {0, 5}   \* CFEN | SCID = CID2
HPDMA_CID1_STATIC == {0, 4}   \* CFEN | SCID = CID1

\* RIMC_ATTR of the 16 bus masters: 2 is CIDSEL, 4 .. 6 its CID, 8 MSEC, 9 MPRIV.
rimc_attr_val ==
  [m \in 0 .. 15 |->
     (IF m = 3 THEN {} ELSE {9})
       \cup (IF m \in {0, 11, 12, 13} THEN {2} ELSE {}) \cup (IF m = 0 THEN {4} ELSE {})]

\* n resources with the same word in every CIDCFGR, and none secure.
Handed(n, cid) ==
  [cid |-> [i \in 0 .. n - 1 |-> cid],
   sec |-> [w \in 0 .. Words(n) - 1 |-> {}],
   priv |-> [w \in 0 .. Words(n) - 1 |-> {}]]

(* RIFSC: all peripherals, but for the two the M33 keeps.                   *)
rifsc ==
  [cid |-> [i \in 0 .. 127 |->
              IF i \in {RIFSC_ID_CRYP2, RIFSC_ID_IWDG3} THEN RIFSC_CID2_LOCKED ELSE {}],
   sec |-> [w \in 0 .. 5 |-> IF w = 3 THEN {1, 4} ELSE {}],
   priv |-> [w \in 0 .. 5 |-> IF w = 3 THEN {1, 4} ELSE {}]]

\* The backup registers keep their zones: two limits, four protection words.
tamp ==
  [cid |-> [i \in 0 .. 3 |-> {}], sec |-> {4, 5, 21, 22}, priv |-> {},
   bkprifr |-> <<{3, 4}, {3, 6}, {2, 3, 5, 6, 19, 20, 21, 22}>>]

-----------------------------------------------------------------------------
(* RISAF4: one region over all of the memory.  hw is what HWCFGR tells: the *)
(* lowest bit of a bound and the number of bits.                            *)
amask(hw) == {b \in Bits : hw.mlsb <= b /\ b <= hw.mlsb + hw.len - 1}

\* The five writes, as the region is after each of them.
risaf4_open_ddr_ns(r, hw) ==
  LET off == [r EXCEPT !.cfgr = @ \ {0}]
      start == [off EXCEPT !.startr = @ \ amask(hw)]
      end == [start EXCEPT !.endr = @ \cup amask(hw)]
      cids == [end EXCEPT !.cidcfgr = (@ \ (0 .. 7 \cup 16 .. 23)) \cup {0, 1, 16, 17}]
      on == [cids EXCEPT !.cfgr = (@ \ ({0, 8, 15} \cup 16 .. 23)) \cup {0}]
  IN <<off, start, end, cids, on>>

-----------------------------------------------------------------------------
(* rif_handoff(): s is what all these registers held; clk the banks that    *)
(* have a clock already.                                                    *)
rif_handoff(s, hw) ==
  LET clk == s.clk \cup GpioBanks \cup Hpdmas \* enabled before the writes
      banks == [g \in GpioBanks |-> IF g \in clk THEN Handed(16, {}) ELSE s.gpio[g]]
      dmas == [d \in Hpdmas |-> IF d \in clk THEN Handed(16, HPDMA_CID1_STATIC) ELSE s.hpdma[d]]
  IN [rifsc |-> rifsc,
      rimc |-> rimc_attr_val,
      open |-> [b \in DOMAIN OpenBlocks |-> Handed(OpenBlocks[b], {})],
      gpio |-> banks,
      hpdma |-> dmas,
      tamp |-> tamp,
      risaf4 |-> risaf4_open_ddr_ns(s.risaf4, hw)[5],
      clk |-> clk]

-----------------------------------------------------------------------------
(* gic.c.  Word 0 of the distributor is banked: each core has its own.      *)
GICC_CTLR_SECURE_VAL == {0, 3, 5, 6, 7, 8}

\* typer: ITLinesNumber.  Writing a bit to ICENABLER or ICPENDR clears it.
gic_dist_init(g, typer) ==
  LET word(w) == [enabled |-> w.enabled \ Bits, pending |-> w.pending \ Bits, group |-> Bits]
  IN [g EXCEPT
        !.ctlr = {0, 1},
        !.spi = [w \in DOMAIN g.spi |-> IF w < typer + 1 THEN word(g.spi[w]) ELSE g.spi[w]],
        !.banked[0] = word(@)]

gic_cpuif_init(g) ==
  [g EXCEPT !.banked[0].group = Bits,
            !.cpuif[0] = [pmr |-> 0 .. 7, ctlr |-> GICC_CTLR_SECURE_VAL]]

\* The same writes by core 1, between the pen and drop_to_el2.
pen_release(g) ==
  [g EXCEPT !.banked[1].group = Bits,
            !.cpuif[1] = [pmr |-> 0 .. 7, ctlr |-> {0, 3, 5, 6, 7, 8}]]

-----------------------------------------------------------------------------
(* What these are for, over the extremes of what the registers held.        *)
Same(n, word) ==
  [cid |-> [i \in 0 .. n - 1 |-> word],
   sec |-> [w \in 0 .. Words(n) - 1 |-> word],
   priv |-> [w \in 0 .. Words(n) - 1 |-> word]]

Before(word, clk) ==
  [gpio |-> [g \in GpioBanks |-> Same(16, word)], hpdma |-> [d \in Hpdmas |-> Same(16, word)],
   risaf4 |-> [cfgr |-> word, startr |-> word, endr |-> word, cidcfgr |-> word], clk |-> clk]

\* Widths of a bound that RISAF4 can have.
Hwcfgr == {[mlsb |-> 12, len |-> 20], [mlsb |-> 12, len |-> 1], [mlsb |-> 0, len |-> 32]}

Secure(b, i) == i % 32 \in b.sec[i \div 32] \/ i % 32 \in b.priv[i \div 32]
Filtered(b, i) == 0 \in b.cid[i]
Free(b, i) == ~Secure(b, i) /\ ~Filtered(b, i)

(* "RIFSC, RCC, PWR, EXTI1/2, GPIO ... resources non-secure and             *)
(* CID-filter-free (except CRYP2/IWDG3 kept for the M33)" (rif.h:14): the   *)
(* two resources named by number in CIDCFGR are those the masks of SECCFGR  *)
(* and PRIVCFGR name; no DMA channel is secure or of another CID than the   *)
(* kernel's; no bus master is secure.                                       *)
ASSUME HandedOver ==
  \A word \in {{}, Bits}, clk \in {{}, GpioBanks \cup Hpdmas}, hw \in Hwcfgr :
    LET s == rif_handoff(Before(word, clk), hw)
    IN /\ \A i \in DOMAIN s.rifsc.cid :
            IF i \in {RIFSC_ID_CRYP2, RIFSC_ID_IWDG3}
            THEN Secure(s.rifsc, i) /\ s.rifsc.cid[i] = RIFSC_CID2_LOCKED
            ELSE Free(s.rifsc, i)
       /\ \A b \in DOMAIN s.open : \A i \in DOMAIN s.open[b].cid : Free(s.open[b], i)
       /\ \A g \in GpioBanks : \A i \in DOMAIN s.gpio[g].cid : Free(s.gpio[g], i)
       /\ \A d \in Hpdmas : \A i \in DOMAIN s.hpdma[d].cid :
            ~Secure(s.hpdma[d], i) /\ s.hpdma[d].cid[i] = HPDMA_CID1_STATIC
       /\ \A m \in DOMAIN s.rimc : 8 \notin s.rimc[m]

(* "the whole DDR opened to the non-secure world": whatever the region was, *)
(* it ends up enabled, non-secure, from the first address to the last, for  *)
(* reads and writes of the kernel's CID; and it is never enabled with half  *)
(* of its bounds changed.                                                   *)
ASSUME MemoryOpened ==
  \A word \in {{}, Bits}, hw \in Hwcfgr :
    LET steps == risaf4_open_ddr_ns(Before(word, {}).risaf4, hw)
        r == steps[5]
    IN /\ 0 \in r.cfgr /\ 8 \notin r.cfgr /\ 16 .. 23 \cap r.cfgr = {}
       /\ amask(hw) \cap r.startr = {} /\ amask(hw) \subseteq r.endr
       /\ {1, 17} \subseteq r.cidcfgr
       /\ \A i \in 1 .. 4 : 0 \notin steps[i].cfgr

(* Every interrupt is Group 1, disabled and not pending, and both cores     *)
(* have the same interface when they enter the kernel: "Core 1 does the     *)
(* same writes in its assembly hand-off path" (gic.h:14).                   *)
ASSUME InterruptsHanded ==
  \A word \in {{}, Bits}, typer \in {0, 1, 12, 31} :
    LET w == [enabled |-> word, pending |-> word, group |-> word]
        g0 == [ctlr |-> word, spi |-> [i \in 1 .. typer |-> w], banked |-> [c \in {0, 1} |-> w],
               cpuif |-> [c \in {0, 1} |-> [pmr |-> {}, ctlr |-> {}]]]
        g == pen_release(gic_cpuif_init(gic_dist_init(g0, typer)))
    IN /\ g.ctlr = {0, 1}
       /\ \A i \in DOMAIN g.spi :
            g.spi[i] = [enabled |-> {}, pending |-> {}, group |-> Bits]
       /\ g.banked[0].enabled = {} /\ g.banked[0].pending = {}
       /\ g.banked[0].group = g.banked[1].group /\ g.banked[0].group = Bits
       /\ g.cpuif[0] = g.cpuif[1]
=============================================================================
