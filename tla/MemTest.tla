------------------------------ MODULE MemTest ------------------------------
(***************************************************************************)
(* The tests of the memory (stm32mp_ddr_test.c) on a memory whose lines may *)
(* be bad.  A word is the set of its bits that are one, an address the set  *)
(* of its address lines that are one: 1 << k is {k} and the base is {}.  A   *)
(* bundle of lines f has lines stuck at zero and at one, and may have a      *)
(* short, whose lines then all carry the "and" or the "or" of what is driven.*)
(***************************************************************************)
EXTENDS Integers, FiniteSets, Sequences, SequencesExt

CONSTANTS
  DataBits,  \* the bits of a word, 0 .. n - 1
  Lines      \* the address lines above a word, 0 .. m - 1

ASSUME MemAssumption ==
  /\ IsFiniteSet(DataBits) /\ DataBits # {} /\ DataBits = 0 .. Cardinality(DataBits) - 1
  /\ IsFiniteSet(Lines) /\ Lines # {} /\ Lines = 0 .. Cardinality(Lines) - 1

(* What a bundle of lines may suffer from: lines stuck at zero or at one,    *)
(* or one short.                                                             *)
Sound == [low |-> {}, high |-> {}, short |-> {}, wired |-> "and"]
Stuck(L) == {[Sound EXCEPT !.low = l, !.high = h] : l \in SUBSET L, h \in SUBSET L}
Shorts(L) == {[Sound EXCEPT !.short = s, !.wired = w] : s \in {t \in SUBSET L : Cardinality(t) > 1}, w \in {"and", "or"}}
Faults(L) == {f \in Stuck(L) : f.low \cap f.high = {}} \cup Shorts(L)

(* What arrives when v is driven on lines with the fault f.                  *)
Driven(f, v) ==
  IF f.short = {} THEN v
  ELSE IF \/ f.wired = "and" /\ f.short \subseteq v
          \/ f.wired = "or" /\ f.short \cap v # {}
         THEN v \cup f.short ELSE v \ f.short
Seen(f, v) == (Driven(f, v) \ f.low) \cup f.high

DDR_PATTERN == {b \in DataBits : b % 2 = 1}
DDR_ANTIPATTERN == {b \in DataBits : b % 2 = 0}

(* A test is a sequence of writes and reads, each read with the word it      *)
(* compares with; it returns at the first that differs.                      *)
Write(a, v) == [op |-> "write", at |-> a, word |-> v]
Read(a, v) == [op |-> "read", at |-> a, word |-> v]
ForEach(ops) == FlattenSeq([i \in 1 .. Cardinality(DOMAIN ops) |-> ops[i - 1]])

Step(w, s, o) ==
  LET a == Seen(w.address, o.at)
      at == IF a \in DOMAIN s.mem THEN s.mem[a] ELSE {}
  IN  IF o.op = "write" THEN [s EXCEPT !.mem = [x \in DOMAIN @ \cup {a} |-> IF x = a THEN Seen(w.data, o.word) ELSE @[x]]]
      ELSE [s EXCEPT !.ok = @ /\ Seen(w.data, at) = o.word]
Passes(w, ops) ==
  FoldLeft(LAMBDA s, o : IF s.ok THEN Step(w, s, o) ELSE s, [ok |-> TRUE, mem |-> [a \in {} |-> {}]], ops).ok

(* Walking ones on one word.                                                 *)
stm32mp_ddr_test_data_bus(w) ==
  Passes(w, ForEach([b \in DataBits |-> <<Write({}, {b}), Read({}, {b})>>]))

(* Wrong variant: does not look at the other addresses after each write.     *)
stm32mp_ddr_test_addr_bus_base_only(w) ==
  Passes(w,
    ForEach([k \in Lines |-> <<Write({k}, DDR_PATTERN)>>]) \o <<Write({}, DDR_ANTIPATTERN)>>
    \o ForEach([k \in Lines |-> <<Read({k}, DDR_PATTERN)>>]) \o <<Write({}, DDR_PATTERN)>>
    \o ForEach([t \in Lines |-> <<Write({t}, DDR_ANTIPATTERN), Read({}, DDR_PATTERN), Write({t}, DDR_PATTERN)>>]))

(* One other word at the base, then at each power of two: no other address   *)
(* may see it.                                                               *)
stm32mp_ddr_test_addr_bus(w) ==
  Passes(w,
    ForEach([k \in Lines |-> <<Write({k}, DDR_PATTERN)>>]) \o <<Write({}, DDR_ANTIPATTERN)>>
    \o ForEach([k \in Lines |-> <<Read({k}, DDR_PATTERN)>>]) \o <<Write({}, DDR_PATTERN)>>
    \o ForEach([t \in Lines |->
         <<Write({t}, DDR_ANTIPATTERN), Read({}, DDR_PATTERN)>>
         \o ForEach([k \in Lines |-> IF k = t THEN <<>> ELSE <<Read({k}, DDR_PATTERN)>>])
         \o <<Write({t}, DDR_PATTERN)>>]))

(* The size is the first power of two that is the base again.                *)
stm32mp_ddr_check_size(w) ==
  Passes(w, <<Write({}, DDR_PATTERN)>>
            \o ForEach([k \in Lines |-> <<Write({k}, DDR_ANTIPATTERN), Read({}, DDR_PATTERN)>>]))

Tested(w) == stm32mp_ddr_test_data_bus(w) /\ stm32mp_ddr_test_addr_bus(w) /\ stm32mp_ddr_check_size(w)
=============================================================================
