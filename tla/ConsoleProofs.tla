---------------------------- MODULE ConsoleProofs ----------------------------
(***************************************************************************)
(* What console.c and cmd.c guarantee of the line and of its history for    *)
(* every size of the buffers, every set of names and every key, proved with *)
(* TLAPS.                                                                   *)
(***************************************************************************)
EXTENDS Console, FiniteSetTheorems, SequenceTheorems, TLAPS

-----------------------------------------------------------------------------
(* Bounded sets of numbers, and indices that wrap.                          *)

LEMMA MinIs ==
  ASSUME NEW n \in Nat, NEW S, S \subseteq 0 .. n, S # {}
  PROVE  Min(S) \in S /\ \A y \in S : Min(S) <= y
<1> DEFINE Below(k) == S \cap (0 .. k)
           T == {Below(k) : k \in S}
<1>1. IsFiniteSet(S)
  <2>1. IsFiniteSet(0 .. n)
    BY FS_Interval
  <2> QED BY <2>1, FS_Subset
<1>2. IsWellFoundedOn(StrictSubsetOrdering(S), SUBSET S)
  BY <1>1, FS_StrictSubsetOrderingWellFounded, FS_FiniteSubsetsOfFinite
<1>3. T \subseteq SUBSET S /\ T # {}
  OBVIOUS
<1>4. PICK t \in T : \A u \in T : ~(<<u, t>> \in StrictSubsetOrdering(S))
  <2> HIDE DEF T
  <2> QED BY <1>2, <1>3, WFMin
<1>5. PICK m \in S : t = Below(m)
  OBVIOUS
<1>6. \A y \in S : m <= y
  <2> SUFFICES ASSUME NEW y \in S, y < m PROVE FALSE
    OBVIOUS
  <2>1. Below(y) \in T /\ Below(y) \subseteq Below(m) /\ m \in Below(m) /\ m \notin Below(y)
    OBVIOUS
  <2> QED BY <1>4, <1>5, <2>1 DEF StrictSubsetOrdering
<1> QED BY <1>6 DEF Min

LEMMA MinOfTwo ==
  ASSUME NEW a \in Int, NEW b \in Int
  PROVE  Min({a, b}) = IF a <= b THEN a ELSE b
BY DEF Min

LEMMA MaxOfTwo ==
  ASSUME NEW a \in Int, NEW b \in Int
  PROVE  Max({a, b}) = IF a >= b THEN a ELSE b
BY DEF Max

LEMMA ModIs ==
  ASSUME NEW n \in Nat \ {0}, NEW a \in 0 .. 2 * n - 1
  PROVE  a % n = IF a < n THEN a ELSE a - n
OBVIOUS

-----------------------------------------------------------------------------
(* Strings in arrays.                                                       *)
Text == [At -> Printable \cup {NUL}]

LEMMA HistorySize == HISTORY_SIZE \in Nat \ {0}
BY ConsoleAssumption

(* A line has room for a character, and a terminator is none.               *)
LEMMA SizesAre == CMD_MAX_LEN \in Nat /\ CMD_MAX_LEN >= 2 /\ NUL \notin Printable
<1>1. UsbName \in Names /\ UsbName \in Seq(STRING) /\ UsbName # <<>>
  BY NamesAssumption
<1>2. Len(UsbName) > 0
  BY <1>1
<1>3. CMD_MAX_LEN \in Nat /\ NUL \notin Printable /\ \A n \in Names : Len(n) < CMD_MAX_LEN
  BY ConsoleAssumption
<1> QED BY <1>1, <1>2, <1>3

LEMMA CStringIs ==
  ASSUME NEW buf \in Text
  PROVE  /\ CString(buf) \in Seq(Printable) /\ Len(CString(buf)) <= CMD_MAX_LEN
         /\ \A i \in 1 .. Len(CString(buf)) : CString(buf)[i] = buf[i - 1]
         /\ Len(CString(buf)) < CMD_MAX_LEN => buf[Len(CString(buf))] = NUL
<1> DEFINE ends == {i \in At : buf[i] = NUL} \cup {CMD_MAX_LEN}
           end == Min(ends)
<1>1. end \in ends /\ \A i \in ends : end <= i
  <2>1. ends \subseteq 0 .. CMD_MAX_LEN /\ ends # {}
    BY SizesAre DEF At
  <2> HIDE DEF ends
  <2> QED BY <2>1, SizesAre, MinIs
<1>2. end \in 0 .. CMD_MAX_LEN /\ (end < CMD_MAX_LEN => buf[end] = NUL)
  BY <1>1, SizesAre DEF At
<1>3. \A i \in 0 .. end - 1 : buf[i] \in Printable
  BY <1>1, <1>2, SizesAre DEF At, Text
<1>4. CString(buf) = [i \in 1 .. end |-> buf[i - 1]]
  BY DEF CString
<1> HIDE DEF end
<1> QED BY <1>2, <1>3, <1>4

LEMMA CStringOf ==
  ASSUME NEW buf \in Text, NEW n \in 0 .. CMD_MAX_LEN - 1, buf[n] = NUL, \A i \in 0 .. n - 1 : buf[i] # NUL
  PROVE  CString(buf) = [i \in 1 .. n |-> buf[i - 1]] /\ Len(CString(buf)) = n
<1> DEFINE s == CString(buf)
<1>1. s \in Seq(Printable) /\ Len(s) <= CMD_MAX_LEN /\ \A i \in 1 .. Len(s) : s[i] = buf[i - 1]
  BY CStringIs
<1>2. Len(s) < CMD_MAX_LEN => buf[Len(s)] = NUL
  BY CStringIs
<1> HIDE DEF s
<1>3. Len(s) = n
  <2>1. ASSUME Len(s) > n PROVE FALSE
    <3>1. n + 1 \in 1 .. Len(s) /\ n + 1 - 1 = n
      BY <1>1, <2>1
    <3>2. s[n + 1] = NUL /\ s[n + 1] \in Printable
      BY <1>1, <3>1
    <3> QED BY <3>2, SizesAre
  <2>2. ~(Len(s) < n)
    BY <1>1, <1>2, SizesAre
  <2> QED BY <1>1, <2>1, <2>2, SizesAre
<1>4. s = [i \in 1 .. n |-> buf[i - 1]]
  BY <1>1, <1>3
<1> QED BY <1>3, <1>4 DEF s

LEMMA StoredIs ==
  ASSUME NEW s \in Seq(Printable), Len(s) < CMD_MAX_LEN
  PROVE  /\ Stored(s) \in Text /\ CString(Stored(s)) = s
         /\ \A i \in At : Stored(s)[i] = NUL <=> i >= Len(s)
<1>1. Stored(s) \in Text /\ \A i \in At : Stored(s)[i] = NUL <=> i >= Len(s)
  BY SizesAre DEF Stored, Text, At
<1>2. \A i \in 1 .. Len(s) : Stored(s)[i - 1] = s[i]
  BY SizesAre DEF Stored, At
<1>3. CString(Stored(s)) = [i \in 1 .. Len(s) |-> Stored(s)[i - 1]]
  BY <1>1, SizesAre, CStringOf DEF At
<1> QED BY <1>1, <1>2, <1>3

(* Every name fits into the line and has no character the line has not.     *)
LEMMA NamesAre ==
  ASSUME NEW name \in Names
  PROVE  name \in Seq(Printable \ {" "}) /\ name \in Seq(Printable) /\ Len(name) \in 1 .. CMD_MAX_LEN - 1
<1>1. name \in Seq(STRING) /\ name # <<>>
  BY NamesAssumption
<1>2. Len(name) < CMD_MAX_LEN /\ \A i \in DOMAIN name : name[i] \in Printable \ {" "}
  BY ConsoleAssumption
<1>3. Len(name) > 0
  BY <1>1
<1>4. name = [i \in 1 .. Len(name) |-> name[i]] /\ Len(name) \in Nat /\ DOMAIN name = 1 .. Len(name)
  BY <1>1
<1>5. \A T : (\A i \in 1 .. Len(name) : name[i] \in T) => name \in Seq(T)
  BY <1>4
<1>6. name \in Seq(Printable \ {" "}) /\ name \in Seq(Printable)
  BY <1>2, <1>4, <1>5
<1>7. Len(name) \in 1 .. CMD_MAX_LEN - 1
  <2>1. Len(name) \in Nat
    BY <1>1
  <2>2. Len(name) < CMD_MAX_LEN
    BY <1>2, Zenon
  <2> QED BY <2>1, <2>2, <1>3, SizesAre
<1> QED BY <1>6, <1>7

(* The only name that begins with a line.                                   *)
LEMMA OnlyNameIs ==
  ASSUME NEW line \in Seq(Printable), Cardinality(Starting(line)) = 1
  PROVE  LET name == CHOOSE n \in Starting(line) : TRUE
         IN /\ name \in Names /\ Len(line) <= Len(name)
            /\ \A i \in 1 .. Len(line) : name[i] = line[i]
<1> DEFINE name == CHOOSE n \in Starting(line) : TRUE
<1>1. Starting(line) # {}
  BY FS_EmptySet
<1>2. name \in Names /\ IsPrefix(line, name)
  BY <1>1 DEF Starting
<1>3. name \in Seq(Printable)
  BY <1>2, NamesAre
<1> HIDE DEF name
<1>4. Len(line) <= Len(name) /\ SubSeq(line, 1, Len(line)) = SubSeq(name, 1, Len(line))
  BY <1>2 DEF IsPrefix
<1>5. ASSUME NEW i \in 1 .. Len(line) PROVE name[i] = line[i]
  <2>1. SubSeq(line, 1, Len(line))[i] = line[i]
    OBVIOUS
  <2>2. SubSeq(name, 1, Len(line))[i] = name[i]
    BY <1>3, <1>4
  <2> QED BY <1>4, <2>1, <2>2
<1> QED BY <1>2, <1>4, <1>5 DEF name

-----------------------------------------------------------------------------
(* The invariant, part by part.                                             *)
RingOK ==
  /\ keys \in 0 .. MaxKeys /\ fifo \in Seq(Byte) /\ Len(fifo) <= FIFO_DEPTH
  /\ rx_buf \in [0 .. RXBUF_SIZE - 1 -> Byte \cup {NUL}]
  /\ rx_head \in 0 .. RXBUF_SIZE - 1 /\ rx_tail \in 0 .. RXBUF_SIZE - 1
  /\ interrupt_flag \in BOOLEAN
LineOK == line_buf \in Text /\ line_len \in 0 .. CMD_MAX_LEN - 1 /\ Terminated
PastOK ==
  /\ history \in [0 .. HISTORY_SIZE - 1 -> Text]
  /\ history_head \in 0 .. HISTORY_SIZE - 1 /\ history_count \in 0 .. HISTORY_SIZE
  /\ history_index \in -1 .. HISTORY_SIZE - 1
  /\ RecallsAnEntry
StateOK == garbled \in BOOLEAN /\ esc_state \in 0 .. 2 /\ main \in {"drain", "poll", "handler"}

LEMMA Parts == ConsoleInv <=> RingOK /\ LineOK /\ PastOK /\ StateOK
BY DEF ConsoleInv, TypeOK, RingOK, LineOK, PastOK, StateOK, Text

LEMMA PartsNext == ConsoleInv' <=> RingOK' /\ LineOK' /\ PastOK' /\ StateOK'
BY Parts, PTL

(* The actions, one by one.                                                 *)
LEMMA NextCases ==
  ASSUME [Next]_vars
  PROVE  \/ \E k \in Keys : Press(k)
         \/ Drain \/ Drained \/ Polled \/ HandlerReturns \/ UsbStops
         \/ \E b \in Byte : \/ Type(b) \/ Backspace(b) \/ cmd_tab_completion(b) \/ FormFeed(b) \/ Control(b)
                           \/ Enter(b) \/ Arrow(b) \/ EscapeByte(b)
         \/ UNCHANGED vars
BY Zenon DEF Next, Taken

LEMMA NothingStored ==
  /\ Stored(<<>>) \in Text /\ CString(Stored(<<>>)) = <<>>
  /\ \A i \in At : Stored(<<>>)[i] = NUL
<1>1. PICK e : e = <<>>
  OBVIOUS
<1>2. e \in Seq(Printable) /\ Len(e) = 0
  BY <1>1
<1>3. \A i \in At : i >= 0
  BY SizesAre DEF At
<1>4. Len(e) < CMD_MAX_LEN
  BY <1>2, SizesAre
<1>5. /\ Stored(e) \in Text /\ CString(Stored(e)) = e
      /\ \A i \in At : Stored(e)[i] = NUL <=> i >= Len(e)
  BY <1>2, <1>4, StoredIs
<1>6. \A i \in At : Stored(e)[i] = NUL
  BY <1>2, <1>3, <1>5
<1> QED BY <1>1, <1>5, <1>6, Zenon

LEMMA InitOK == Init => ConsoleInv
<1> SUFFICES ASSUME Init PROVE ConsoleInv
  OBVIOUS
<1>1. RingOK
  <2>1. RXBUF_SIZE \in Nat \ {0} /\ MaxKeys \in Nat /\ FIFO_DEPTH \in Nat
    BY ConsoleAssumption
  <2>2. /\ keys = 0 /\ fifo = <<>> /\ rx_buf = [i \in 0 .. RXBUF_SIZE - 1 |-> NUL]
        /\ rx_head = 0 /\ rx_tail = 0 /\ interrupt_flag = FALSE
    BY Zenon DEF Init
  <2>3. fifo \in Seq(Byte) /\ Len(fifo) <= FIFO_DEPTH
    BY <2>1, <2>2
  <2>4. rx_buf \in [0 .. RXBUF_SIZE - 1 -> Byte \cup {NUL}]
    BY <2>2
  <2>5. interrupt_flag \in BOOLEAN
    BY <2>2, Zenon
  <2>6. keys \in 0 .. MaxKeys /\ rx_head \in 0 .. RXBUF_SIZE - 1 /\ rx_tail \in 0 .. RXBUF_SIZE - 1
    BY <2>1, <2>2
  <2> QED BY <2>3, <2>4, <2>5, <2>6 DEF RingOK
<1>2. LineOK
  <2>1. line_buf = Stored(<<>>) /\ line_len = 0
    BY Zenon DEF Init
  <2>2. line_buf \in Text /\ \A i \in At : line_buf[i] = NUL
    BY <2>1, NothingStored, Zenon
  <2>3. \A i \in At : i >= 0
    BY SizesAre DEF At
  <2> QED BY <2>1, <2>2, <2>3, SizesAre DEF LineOK, Terminated
<1>3. PastOK
  <2>1. Stored(<<>>) \in Text
    BY NothingStored
  <2>2. HISTORY_SIZE \in Nat \ {0}
    BY ConsoleAssumption
  <2>3. history \in [0 .. HISTORY_SIZE - 1 -> Text] /\ history_head = 0 /\ history_count = 0 /\ history_index = -1
    BY <2>1, Zenon DEF Init
  <2>4. \A i \in 0 .. HISTORY_SIZE - 1 : ~((history_head - 1 - i + HISTORY_SIZE) % HISTORY_SIZE < history_count)
    BY <2>2, <2>3
  <2> QED BY <2>2, <2>3, <2>4 DEF PastOK, RecallsAnEntry, Entry, Age
<1>4. StateOK
  <2>1. garbled = FALSE /\ esc_state = 0 /\ main = "drain"
    BY Zenon DEF Init
  <2>2. garbled \in BOOLEAN /\ main \in {"drain", "poll", "handler"}
    BY <2>1, Zenon
  <2>3. esc_state \in 0 .. 2
    BY <2>1
  <2> QED BY <2>2, <2>3 DEF StateOK
<1> QED BY <1>1, <1>2, <1>3, <1>4, Parts

-----------------------------------------------------------------------------
(* The receiver and the ring.                                               *)

LEMMA RingStep ==
  ASSUME RingOK, [Next]_vars
  PROVE  RingOK'
<1> USE DEF RingOK
<1>0. FIFO_DEPTH \in Nat \ {0} /\ RXBUF_SIZE \in Nat \ {0} /\ MaxKeys \in Nat
  BY ConsoleAssumption
<1>1. ASSUME NEW k \in Keys, Press(k) PROVE RingOK'
  <2>1. k \in Seq(Byte)
    <3>1. k \in Seq(Range(k)) /\ Range(k) \subseteq Byte
      BY ConsoleAssumption DEF Byte
    <3> QED BY <3>1
  <2> DEFINE all == fifo \o k
  <2>2. all \in Seq(Byte) /\ Len(all) \in Nat
    BY <2>1
  <2>3. fifo' = SubSeq(all, 1, Min({Len(all), FIFO_DEPTH})) /\ UNCHANGED <<rx_buf, rx_head, rx_tail, interrupt_flag>>
        /\ keys' \in 0 .. MaxKeys
    BY <1>0, <1>1 DEF Press, ring
  <2> HIDE DEF all
  <2> DEFINE room == Min({Len(all), FIFO_DEPTH})
  <2>4. room \in 0 .. FIFO_DEPTH /\ room <= Len(all)
    BY <1>0, <2>2, MinOfTwo
  <2> HIDE DEF room
  <2>5. \A m \in 0 .. FIFO_DEPTH : m <= Len(all) => SubSeq(all, 1, m) \in Seq(Byte) /\ Len(SubSeq(all, 1, m)) = m
    BY <1>0, <2>2
  <2>6. fifo' \in Seq(Byte) /\ Len(fifo') <= FIFO_DEPTH
    <3>1. fifo' = SubSeq(all, 1, room)
      BY <2>3 DEF room
    <3> QED BY <1>0, <2>4, <2>5, <3>1
  <2> QED BY <2>3, <2>6
<1>2. CASE Drain
  <2>1. fifo' = Tail(fifo) /\ fifo # <<>> /\ UNCHANGED <<keys, rx_tail>>
    BY <1>2 DEF Drain
  <2>2. Head(fifo) \in Byte /\ fifo' \in Seq(Byte) /\ Len(fifo') <= FIFO_DEPTH
    BY <1>0, <2>1
  <2>3. console_push(Head(fifo))
    BY <1>2 DEF Drain
  <2>4. \/ UNCHANGED <<rx_buf, rx_head>>
        \/ rx_buf' = [rx_buf EXCEPT ![rx_head] = Head(fifo)] /\ rx_head' = (rx_head + 1) % RXBUF_SIZE
    BY <2>3, Zenon DEF console_push, Queued
  <2>5. interrupt_flag' = TRUE \/ UNCHANGED interrupt_flag
    BY <2>3, Zenon DEF console_push
  <2>6. interrupt_flag' \in BOOLEAN
    BY <2>5, Zenon
  <2>7. rx_head' \in 0 .. RXBUF_SIZE - 1 /\ rx_buf' \in [0 .. RXBUF_SIZE - 1 -> Byte \cup {NUL}]
    BY <1>0, <2>2, <2>4
  <2> QED BY <2>1, <2>2, <2>6, <2>7
<1>3. ASSUME NEW b \in Byte, Get(b) PROVE RingOK'
  BY <1>0, <1>3 DEF Get
<1>4. ASSUME Drained \/ Polled \/ HandlerReturns \/ UsbStops PROVE RingOK'
  <2>1. interrupt_flag' = FALSE \/ UNCHANGED interrupt_flag
    BY <1>4, Zenon DEF Drained, Polled, HandlerReturns, UsbStops, Return
  <2>2. interrupt_flag' \in BOOLEAN
    BY <2>1, Zenon
  <2>3. UNCHANGED <<keys, rx_buf, rx_head, rx_tail>> /\ (fifo' = fifo \/ (fifo # <<>> /\ fifo' = Tail(fifo)))
    BY <1>4, Zenon DEF Drained, Polled, HandlerReturns, UsbStops, Return, ring
  <2>4. fifo' \in Seq(Byte) /\ Len(fifo') <= FIFO_DEPTH
    BY <1>0, <2>3
  <2> QED BY <2>2, <2>3, <2>4
<1>5. CASE UNCHANGED vars
  BY <1>5 DEF vars, ring
<1>6. ASSUME NEW b \in Byte,
             \/ Type(b) \/ Backspace(b) \/ cmd_tab_completion(b) \/ FormFeed(b) \/ Control(b)
             \/ Enter(b) \/ Arrow(b) \/ EscapeByte(b)
      PROVE  Get(b)
  BY <1>6, Zenon DEF Type, Backspace, cmd_tab_completion, FormFeed, Control, Enter, Arrow, EscapeByte
<1> QED BY <1>1, <1>2, <1>3, <1>4, <1>5, <1>6, NextCases, Zenon

-----------------------------------------------------------------------------
(* The line.                                                                *)

(* A line that is sound is the string in the buffer, and Enter finds it.    *)
LEMMA LineIs ==
  ASSUME LineOK
  PROVE  /\ CString(line_buf) = [i \in 1 .. line_len |-> line_buf[i - 1]]
         /\ CString(line_buf) \in Seq(Printable) /\ Len(CString(line_buf)) = line_len
         /\ Entered = CString(line_buf)
<1>1. line_buf[line_len] = NUL /\ \A i \in 0 .. line_len - 1 : line_buf[i] # NUL
  BY SizesAre DEF LineOK, Terminated, At
<1>2. [line_buf EXCEPT ![line_len] = NUL] = line_buf
  BY <1>1 DEF LineOK, Text
<1> QED BY <1>1, <1>2, CStringOf, CStringIs DEF LineOK, Entered

(* What a string makes of the line when it is stored there.                 *)
LEMMA LineStored ==
  ASSUME NEW s \in Seq(Printable), Len(s) < CMD_MAX_LEN, line_buf' = Stored(s), line_len' = Len(s)
  PROVE  LineOK' /\ CString(line_buf)' = s
BY StoredIs, SizesAre DEF LineOK, Terminated

LEMMA PromptIs == cmd_prompt => LineOK' /\ CString(line_buf)' = <<>> /\ shown' = <<>>
<1> SUFFICES ASSUME cmd_prompt PROVE LineOK' /\ CString(line_buf)' = <<>> /\ shown' = <<>>
  OBVIOUS
<1>1. line_buf' = Stored(<<>>) /\ line_len' = 0 /\ shown' = <<>>
  BY Zenon DEF cmd_prompt, NewLine
<1>2. line_buf' \in Text /\ CString(line_buf)' = <<>> /\ \A i \in At : line_buf'[i] = NUL
  BY <1>1, NothingStored, Zenon
<1>3. \A i \in At : i >= 0
  BY SizesAre DEF At
<1> QED BY <1>1, <1>2, <1>3, SizesAre DEF LineOK, Terminated

LEMMA LoadIs ==
  ASSUME NEW buf \in Text, line_load(buf)
  PROVE  /\ LineOK' /\ CString(line_buf)' = shown'
         /\ buf[CMD_MAX_LEN - 1] = NUL => shown' = CString(buf)
<1> DEFINE s == CString(buf)
           kept == SubSeq(s, 1, Min({Len(s), CMD_MAX_LEN - 1}))
<1>1. s \in Seq(Printable) /\ Len(s) \in 0 .. CMD_MAX_LEN
  BY CStringIs, SizesAre
<1>2. line_buf' = Stored(kept) /\ line_len' = Len(kept) /\ shown' = kept
  BY DEF line_load
<1>3. buf[CMD_MAX_LEN - 1] = NUL => Len(s) <= CMD_MAX_LEN - 1
  <2>1. \A i \in 1 .. Len(s) : s[i] = buf[i - 1] /\ s[i] # NUL
    BY <1>1, CStringIs, SizesAre
  <2> HIDE DEF s
  <2> QED BY <1>1, <2>1, SizesAre
<1> HIDE DEF s
<1>4. kept \in Seq(Printable) /\ Len(kept) < CMD_MAX_LEN /\ (Len(s) <= CMD_MAX_LEN - 1 => kept = s)
  BY <1>1, SizesAre, MinOfTwo
<1> HIDE DEF kept
<1>5. LineOK' /\ CString(line_buf)' = kept
  BY <1>2, <1>4, LineStored
<1> QED BY <1>2, <1>3, <1>4, <1>5 DEF s

LEMMA LineStep ==
  ASSUME LineOK, PastOK, [Next]_vars
  PROVE  LineOK'
<1>0. CMD_MAX_LEN \in Nat /\ CMD_MAX_LEN >= 2 /\ NUL \notin Printable
  BY SizesAre
<1>1. CASE UNCHANGED <<line_buf, line_len>>
  BY <1>1 DEF LineOK, Terminated
<1>2. CASE cmd_prompt
  BY <1>2, PromptIs
<1>3. ASSUME NEW b \in Byte, Type(b) PROVE LineOK'
  <2>1. CASE line_len < CMD_MAX_LEN - 1
    <3>1. line_buf' = [line_buf EXCEPT ![line_len] = b] /\ line_len' = line_len + 1 /\ b \in Printable
      BY <1>3, <2>1 DEF Type
    <3> QED BY <1>0, <2>1, <3>1 DEF LineOK, Terminated, Text, At
  <2>2. CASE ~(line_len < CMD_MAX_LEN - 1)
    BY <1>1, <1>3, <2>2 DEF Type
  <2> QED BY <2>1, <2>2
<1>4. ASSUME NEW b \in Byte, Backspace(b) PROVE LineOK'
  <2>1. CASE line_len > 0
    <3>1. line_buf' = [line_buf EXCEPT ![line_len - 1] = NUL] /\ line_len' = line_len - 1
      BY <1>4, <2>1 DEF Backspace
    <3> QED BY <1>0, <2>1, <3>1 DEF LineOK, Terminated, Text, At
  <2>2. CASE ~(line_len > 0)
    BY <1>1, <1>4, <2>2 DEF Backspace
  <2> QED BY <2>1, <2>2
<1>5. ASSUME NEW b \in Byte, cmd_tab_completion(b) PROVE LineOK'
  <2> DEFINE name == CHOOSE n \in Starting(Line) : TRUE
  <2>1. CASE Cardinality(Starting(Line)) = 1
    <3>1. Line \in Seq(Printable) /\ Len(Line) = line_len
      BY LineIs DEF Line
    <3>2. name \in Names /\ line_len <= Len(name)
      BY <2>1, <3>1, OnlyNameIs
    <3> HIDE DEF name
    <3>0. ~(Cardinality(Starting(Line)) > 1)
      BY <2>1
    <3>3. Complete(name)
      BY <1>5, <2>1, <3>0, Zenon DEF cmd_tab_completion, name
    <3>4. name \in Seq(Printable) /\ Len(name) \in 1 .. CMD_MAX_LEN - 1
      BY <3>2, NamesAre
    <3>5. line_len' = Len(name)
      <4>1. line_len' = Max({line_len, Len(name)}) /\ line_len \in Int /\ Len(name) \in Int
        BY <1>0, <3>3, <3>4 DEF Complete, LineOK
      <4> QED BY <3>2, <4>1, MaxOfTwo
    <3>6. line_buf' \in Text
      BY <1>0, <3>2, <3>3, <3>4 DEF LineOK, Text, At, Complete
    <3>7. \A i \in At : line_buf'[i] = NUL <=> i >= Len(name)
      BY <1>0, <3>2, <3>3, <3>4 DEF LineOK, Terminated, At, Complete
    <3> QED BY <3>4, <3>5, <3>6, <3>7 DEF LineOK, Terminated
  <2>2. CASE ~(Cardinality(Starting(Line)) = 1)
    <3>1. UNCHANGED <<line_buf, line_len>>
      BY <1>5, <2>2, Zenon DEF cmd_tab_completion
    <3> QED BY <1>1, <3>1
  <2> QED BY <2>1, <2>2
<1>6. ASSUME NEW b \in Byte, Arrow(b) PROVE LineOK'
  <2>1. \/ UNCHANGED <<line_buf, line_len>>
        \/ line_load(Stored(<<>>))
        \/ \E i \in 0 .. HISTORY_SIZE - 1 : line_load(history[i])
    <3>1. CASE b = "A"
      <4>1. history_prev
        BY <1>6, <3>1, Zenon DEF Arrow
      <4>2. ASSUME history_count # 0
            PROVE  history_index' \in 0 .. HISTORY_SIZE - 1 /\ line_load(history[history_index'])
        <5>0. ~(history_index < 0 /\ history_index = Oldest)
          BY HistorySize DEF PastOK, Oldest
        <5>1. /\ line_load(history[history_index'])
              /\ \/ history_index' = (history_head - 1 + HISTORY_SIZE) % HISTORY_SIZE
                 \/ history_index' = history_index /\ ~(history_index < 0)
                 \/ history_index' = (history_index - 1 + HISTORY_SIZE) % HISTORY_SIZE
          BY <4>1, <4>2, <5>0, Zenon DEF history_prev
        <5>2. history_index' \in 0 .. HISTORY_SIZE - 1
          BY <5>1, HistorySize DEF PastOK
        <5> QED BY <5>1, <5>2
      <4> QED BY <4>1, <4>2, Zenon DEF history_prev
    <3>2. CASE b = "B"
      <4>1. history_next
        BY <1>6, <3>2, Zenon DEF Arrow
      <4>2. (history_index + 1) % HISTORY_SIZE \in 0 .. HISTORY_SIZE - 1
        BY HistorySize DEF PastOK
      <4> QED BY <4>1, <4>2, Zenon DEF history_next
    <3>3. CASE b # "A" /\ b # "B"
      BY <1>6, <3>3, Zenon DEF Arrow
    <3> QED BY <3>1, <3>2, <3>3
  <2>2. \A i \in 0 .. HISTORY_SIZE - 1 : history[i] \in Text
    BY DEF PastOK
  <2> QED BY <1>1, <2>1, <2>2, LoadIs, NothingStored, Zenon
<1>7. ASSUME NEW b \in Byte, FormFeed(b) \/ Control(b) \/ Enter(b) \/ EscapeByte(b)
      PROVE  cmd_prompt \/ UNCHANGED <<line_buf, line_len>>
  BY <1>7, Zenon DEF FormFeed, Control, Enter, EscapeByte, text
<1>8. ASSUME \/ \E k \in Keys : Press(k)
             \/ Drain \/ Drained \/ Polled \/ HandlerReturns \/ UsbStops \/ UNCHANGED vars
      PROVE  cmd_prompt \/ UNCHANGED <<line_buf, line_len>>
  BY <1>8, Zenon DEF Press, Drain, Drained, Polled, HandlerReturns, UsbStops, Return, text, vars
<1> QED BY <1>1, <1>2, <1>3, <1>4, <1>5, <1>6, <1>7, <1>8, NextCases, Zenon

-----------------------------------------------------------------------------
(* The history.                                                             *)

LEMMA AgeIs ==
  ASSUME NEW head \in 0 .. HISTORY_SIZE - 1, NEW i \in 0 .. HISTORY_SIZE - 1
  PROVE  (head - 1 - i + HISTORY_SIZE) % HISTORY_SIZE = IF i < head THEN head - 1 - i ELSE head - 1 - i + HISTORY_SIZE
<1> DEFINE a == head - 1 - i + HISTORY_SIZE
<1>1. HISTORY_SIZE \in Nat \ {0} /\ a \in 0 .. 2 * HISTORY_SIZE - 1
  BY HistorySize
<1>2. a % HISTORY_SIZE = IF a < HISTORY_SIZE THEN a ELSE a - HISTORY_SIZE
  <2> HIDE DEF a
  <2> QED BY <1>1, ModIs
<1> QED BY <1>1, <1>2

LEMMA NextIs ==
  ASSUME NEW i \in 0 .. HISTORY_SIZE - 1
  PROVE  /\ (i + 1) % HISTORY_SIZE = IF i = HISTORY_SIZE - 1 THEN 0 ELSE i + 1
         /\ (i - 1 + HISTORY_SIZE) % HISTORY_SIZE = IF i = 0 THEN HISTORY_SIZE - 1 ELSE i - 1
<1> DEFINE a == i - 1 + HISTORY_SIZE
           b == i + 1
<1>1. HISTORY_SIZE \in Nat \ {0} /\ a \in 0 .. 2 * HISTORY_SIZE - 1 /\ b \in 0 .. 2 * HISTORY_SIZE - 1
  BY HistorySize
<1>2. /\ a % HISTORY_SIZE = IF a < HISTORY_SIZE THEN a ELSE a - HISTORY_SIZE
      /\ b % HISTORY_SIZE = IF b < HISTORY_SIZE THEN b ELSE b - HISTORY_SIZE
  <2> HIDE DEF a, b
  <2> QED BY <1>1, ModIs
<1> QED BY <1>1, <1>2

LEMMA OldestIs ==
  ASSUME PastOK, history_count # 0
  PROVE  Oldest = IF history_count <= history_head THEN history_head - history_count
                  ELSE history_head - history_count + HISTORY_SIZE
<1> DEFINE a == history_head - history_count + HISTORY_SIZE
<1>1. HISTORY_SIZE \in Nat \ {0} /\ a \in 0 .. 2 * HISTORY_SIZE - 1
  BY HistorySize DEF PastOK
<1>2. a % HISTORY_SIZE = IF a < HISTORY_SIZE THEN a ELSE a - HISTORY_SIZE
  <2> HIDE DEF a
  <2> QED BY <1>1, ModIs
<1> QED BY <1>1, <1>2 DEF Oldest, PastOK

LEMMA EntriesAre ==
  RecallsAnEntry <=>
    /\ history_index # -1 => Entry(history_index)
    /\ \A i \in DOMAIN history : Entry(i) => history[i][0] # NUL /\ history[i][CMD_MAX_LEN - 1] = NUL
BY DEF RecallsAnEntry

(* What the arrow up makes of the place in the history.                     *)
LEMMA PrevIs ==
  ASSUME PastOK, history_prev, history_count # 0
  PROVE  /\ history_index' \in 0 .. HISTORY_SIZE - 1 /\ line_load(history[history_index'])
         /\ Age(history_index') = IF history_index = -1 THEN 0
                                  ELSE IF Age(history_index) = history_count - 1 THEN Age(history_index)
                                  ELSE Age(history_index) + 1
<1>0. /\ history_head \in 0 .. HISTORY_SIZE - 1 /\ history_count \in 1 .. HISTORY_SIZE
      /\ history_index \in -1 .. HISTORY_SIZE - 1 /\ (history_index # -1 => Entry(history_index))
  BY HistorySize, EntriesAre DEF PastOK
<1>1. ~(history_index < 0 /\ history_index = Oldest)
  BY HistorySize DEF PastOK, Oldest
<1>2. line_load(history[history_index'])
  BY Zenon DEF history_prev
<1>3. CASE history_index < 0
  <2>1. history_index' = (history_head - 1 + HISTORY_SIZE) % HISTORY_SIZE
    BY <1>1, <1>3, Zenon DEF history_prev
  <2> QED BY <1>0, <1>2, <1>3, <2>1, HistorySize, NextIs, AgeIs DEF Age
<1>4. CASE history_index = Oldest
  <2>1. history_index' = history_index /\ ~(history_index < 0)
    BY <1>1, <1>4, Zenon DEF history_prev
  <2>2. Age(history_index) = history_count - 1
    BY <1>0, <1>4, <2>1, HistorySize, OldestIs, AgeIs DEF Age
  <2> QED BY <1>0, <1>2, <2>1, <2>2, HistorySize
<1>5. CASE ~(history_index < 0) /\ history_index # Oldest
  <2>1. history_index' = (history_index - 1 + HISTORY_SIZE) % HISTORY_SIZE
    BY <1>5, Zenon DEF history_prev
  <2>2. Age(history_index) # history_count - 1
    BY <1>0, <1>5, HistorySize, OldestIs, AgeIs DEF Age
  <2>3. Age(history_index) < history_count
    BY <1>0, <1>5 DEF Entry
  <2>4. history_index' \in 0 .. HISTORY_SIZE - 1 /\ history_index' = IF history_index = 0 THEN HISTORY_SIZE - 1 ELSE history_index - 1
    BY <1>0, <1>5, <2>1, HistorySize, NextIs
  <2>6. history_index \in 0 .. HISTORY_SIZE - 1
    BY <1>0, <1>5, HistorySize
  <2>5. /\ Age(history_index) = IF history_index < history_head THEN history_head - 1 - history_index
                               ELSE history_head - 1 - history_index + HISTORY_SIZE
        /\ Age(history_index') = IF history_index' < history_head THEN history_head - 1 - history_index'
                                ELSE history_head - 1 - history_index' + HISTORY_SIZE
    BY <1>0, <2>4, <2>6, AgeIs, Zenon DEF Age
  <2> QED BY <1>0, <1>2, <1>5, <2>2, <2>3, <2>4, <2>5, HistorySize
<1> QED BY <1>3, <1>4, <1>5

(* And the arrow down.                                                      *)
LEMMA NextLineIs ==
  ASSUME PastOK, history_next, history_index # -1
  PROVE  \/ Age(history_index) = 0 /\ history_index' = -1 /\ line_load(Stored(<<>>))
         \/ /\ Age(history_index) # 0
            /\ history_index' \in 0 .. HISTORY_SIZE - 1 /\ line_load(history[history_index'])
            /\ Age(history_index') = Age(history_index) - 1
<1> DEFINE next == (history_index + 1) % HISTORY_SIZE
<1>0. history_head \in 0 .. HISTORY_SIZE - 1 /\ history_index \in 0 .. HISTORY_SIZE - 1
  BY HistorySize DEF PastOK
<1>1. ~(history_index < 0)
  BY <1>0, HistorySize
<1>2. next \in 0 .. HISTORY_SIZE - 1 /\ (next = history_head <=> Age(history_index) = 0)
  BY <1>0, HistorySize, NextIs, AgeIs DEF Age
<1>3. next # history_head => Age(next) = Age(history_index) - 1
  <2>1. next = IF history_index = HISTORY_SIZE - 1 THEN 0 ELSE history_index + 1
    BY <1>0, NextIs
  <2> HIDE DEF next
  <2>2. /\ Age(history_index) = IF history_index < history_head THEN history_head - 1 - history_index
                               ELSE history_head - 1 - history_index + HISTORY_SIZE
        /\ Age(next) = IF next < history_head THEN history_head - 1 - next ELSE history_head - 1 - next + HISTORY_SIZE
    BY <1>0, <1>2, AgeIs, Zenon DEF Age
  <2> QED BY <1>0, <1>2, <2>1, <2>2, HistorySize
<1>4. IF next = history_head THEN history_index' = -1 /\ line_load(Stored(<<>>))
                             ELSE history_index' = next /\ line_load(history[next])
  BY <1>1, Zenon DEF history_next
<1> HIDE DEF next
<1> QED BY <1>2, <1>3, <1>4, Zenon

(* An entry that is added is the youngest, and displaces the oldest if the  *)
(* history is full.                                                         *)
LEMMA AddIs ==
  ASSUME LineOK, PastOK, history_add, Entered # <<>>
  PROVE  PastOK'
<1>0. /\ history_head \in 0 .. HISTORY_SIZE - 1 /\ history_count \in 0 .. HISTORY_SIZE
      /\ history \in [0 .. HISTORY_SIZE - 1 -> Text] /\ HISTORY_SIZE \in Nat \ {0}
      /\ \A i \in 0 .. HISTORY_SIZE - 1 : Entry(i) => history[i][0] # NUL /\ history[i][CMD_MAX_LEN - 1] = NUL
  BY HistorySize, EntriesAre DEF PastOK
<1>1. Entered \in Seq(Printable) /\ Len(Entered) = line_len /\ line_len < CMD_MAX_LEN /\ line_len > 0
  <2>1. Entered \in Seq(Printable) /\ Len(Entered) = line_len
    BY LineIs
  <2>2. line_len \in 0 .. CMD_MAX_LEN - 1
    BY DEF LineOK
  <2>3. Len(Entered) # 0
    BY <2>1
  <2> QED BY <2>1, <2>2, <2>3, SizesAre
<1>2. Stored(Entered) \in Text /\ Stored(Entered)[0] # NUL /\ Stored(Entered)[CMD_MAX_LEN - 1] = NUL
  <2>1. Stored(Entered) \in Text /\ \A i \in At : Stored(Entered)[i] = NUL <=> i >= Len(Entered)
    BY <1>1, StoredIs
  <2> QED BY <1>1, <2>1, SizesAre DEF At, LineOK
<1>3. /\ history' = [history EXCEPT ![history_head] = Stored(Entered)]
      /\ history_head' = IF history_head = HISTORY_SIZE - 1 THEN 0 ELSE history_head + 1
      /\ history_count' = (IF history_count < HISTORY_SIZE THEN history_count + 1 ELSE history_count)
      /\ history_index' = -1
  BY <1>0, NextIs, Zenon DEF history_add
<1>4. /\ history' \in [0 .. HISTORY_SIZE - 1 -> Text]
      /\ history_head' \in 0 .. HISTORY_SIZE - 1 /\ history_count' \in 0 .. HISTORY_SIZE
  BY <1>0, <1>2, <1>3
<1>5. ASSUME NEW i \in 0 .. HISTORY_SIZE - 1, Entry(i)'
      PROVE  history'[i][0] # NUL /\ history'[i][CMD_MAX_LEN - 1] = NUL
  <2>1. CASE i = history_head
    BY <1>0, <1>2, <1>3, <2>1
  <2>2. CASE i # history_head
    <3>1. /\ Age(i) = IF i < history_head THEN history_head - 1 - i ELSE history_head - 1 - i + HISTORY_SIZE
          /\ Age(i)' = IF i < history_head' THEN history_head' - 1 - i ELSE history_head' - 1 - i + HISTORY_SIZE
      BY <1>0, <1>4, AgeIs, Zenon DEF Age
    <3>2. Age(i) < history_count
      BY <1>0, <1>3, <1>5, <2>2, <3>1 DEF Entry
    <3> QED BY <1>0, <1>3, <2>2, <3>2 DEF Entry
  <2> QED BY <2>1, <2>2
<1>6. RecallsAnEntry'
  <2>1. DOMAIN history' = 0 .. HISTORY_SIZE - 1
    BY <1>4
  <2> QED BY <1>3, <1>5, <2>1 DEF RecallsAnEntry
<1>7. history_index' \in -1 .. HISTORY_SIZE - 1
  BY <1>0, <1>3
<1> QED BY <1>4, <1>6, <1>7 DEF PastOK

LEMMA PastStep ==
  ASSUME LineOK, PastOK, [Next]_vars
  PROVE  PastOK'
<1>1. CASE UNCHANGED past
  BY <1>1 DEF PastOK, RecallsAnEntry, Entry, Age, past
<1>2. ASSUME NEW b \in Byte, Enter(b) PROVE PastOK'
  <2>1. UNCHANGED past \/ (Entered # <<>> /\ history_add)
    BY <1>2, Zenon DEF Enter
  <2> QED BY <1>1, <2>1, AddIs
<1>3. ASSUME NEW b \in Byte, Arrow(b) PROVE PastOK'
  <2>0. UNCHANGED <<history, history_head, history_count>>
    BY <1>3, Zenon DEF Arrow
  <2>1. history_index' \in -1 .. HISTORY_SIZE - 1 /\ (history_index' # -1 => Age(history_index') < history_count)
    <3>0. /\ history_index \in -1 .. HISTORY_SIZE - 1 /\ (history_index # -1 => Age(history_index) < history_count)
          /\ history_count \in 0 .. HISTORY_SIZE /\ (history_index # -1 => Age(history_index) \in Nat)
      <4>1. history_index # -1 => history_index \in 0 .. HISTORY_SIZE - 1
        BY HistorySize DEF PastOK
      <4>2. history_index # -1 => Age(history_index) \in Nat
        BY <4>1, HistorySize, AgeIs DEF PastOK, Age
      <4> QED BY <4>2, EntriesAre DEF PastOK, Entry
    <3>1. CASE b = "A"
      <4>1. history_prev
        BY <1>3, <3>1, Zenon DEF Arrow
      <4>2. CASE history_count = 0
        BY <3>0, <4>1, <4>2, Zenon DEF history_prev
      <4>3. CASE history_count # 0
        BY <3>0, <4>1, <4>3, PrevIs, HistorySize
      <4> QED BY <4>2, <4>3
    <3>2. CASE b = "B"
      <4>1. history_next
        BY <1>3, <3>2, Zenon DEF Arrow
      <4>2. CASE history_index = -1
        <5>1. history_index < 0
          BY <4>2
        <5>2. UNCHANGED history_index
          BY <4>1, <5>1, Zenon DEF history_next
        <5> QED BY <3>0, <5>2
      <4>3. CASE history_index # -1
        BY <3>0, <4>1, <4>3, NextLineIs, HistorySize
      <4> QED BY <4>2, <4>3
    <3>3. CASE b # "A" /\ b # "B"
      <4>1. UNCHANGED history_index
        BY <1>3, <3>3, Zenon DEF Arrow
      <4> QED BY <3>0, <4>1
    <3> QED BY <3>1, <3>2, <3>3
  <2>2. RecallsAnEntry'
    BY <2>0, <2>1 DEF PastOK, RecallsAnEntry, Entry, Age
  <2> QED BY <2>0, <2>1, <2>2 DEF PastOK
<1>4. ASSUME NEW b \in Byte,
             \/ Type(b) \/ Backspace(b) \/ cmd_tab_completion(b) \/ FormFeed(b) \/ Control(b) \/ EscapeByte(b)
      PROVE  UNCHANGED past
  BY <1>4, Zenon DEF Type, Backspace, cmd_tab_completion, FormFeed, Control, EscapeByte
<1>5. ASSUME \/ \E k \in Keys : Press(k)
             \/ Drain \/ Drained \/ Polled \/ HandlerReturns \/ UsbStops \/ UNCHANGED vars
      PROVE  UNCHANGED past
  BY <1>5, Zenon DEF Press, Drain, Drained, Polled, HandlerReturns, UsbStops, Return, vars
<1> QED BY <1>1, <1>2, <1>3, <1>4, <1>5, NextCases, Zenon

-----------------------------------------------------------------------------
(* The place in the loop, and the screen.                                   *)

LEMMA StateStep ==
  ASSUME StateOK, [Next]_vars
  PROVE  StateOK'
<1>0. NewLine => garbled' = FALSE
  BY Zenon DEF NewLine
<1>1. cmd_prompt => garbled' = FALSE
  BY <1>0, Zenon DEF cmd_prompt
<1>2. ASSUME NEW buf, line_load(buf) PROVE garbled' = FALSE
  BY <1>2, Zenon DEF line_load
<1>3. garbled' = FALSE \/ garbled' = TRUE \/ UNCHANGED garbled
  <2>1. ASSUME NEW b \in Byte, Type(b) \/ Backspace(b) \/ FormFeed(b) \/ Control(b) \/ Enter(b) \/ EscapeByte(b)
        PROVE  garbled' = FALSE \/ garbled' = TRUE \/ UNCHANGED garbled
    BY <1>0, <1>1, <2>1, Zenon DEF Type, Backspace, FormFeed, Control, Enter, EscapeByte, screen
  <2>2. ASSUME NEW b \in Byte, cmd_tab_completion(b) PROVE garbled' = FALSE \/ UNCHANGED garbled
    <3>1. ~(Cardinality(Starting(Line)) = 1 /\ Cardinality(Starting(Line)) > 1)
      OBVIOUS
    <3> QED BY <2>2, <3>1, Zenon DEF cmd_tab_completion, Complete, screen
  <2>3. ASSUME NEW b \in Byte, Arrow(b) PROVE garbled' = FALSE \/ UNCHANGED garbled
    BY <1>2, <2>3, Zenon DEF Arrow, history_prev, history_next, screen
  <2>4. ASSUME \/ \E k \in Keys : Press(k)
               \/ Drain \/ Drained \/ Polled \/ HandlerReturns \/ UsbStops \/ UNCHANGED vars
        PROVE  garbled' = FALSE \/ UNCHANGED garbled
    BY <1>0, <1>1, <2>4, ConsoleAssumption, Zenon
      DEF Press, Drain, console_push, Drained, Polled, HandlerReturns, UsbStops, Return, vars, screen
  <2> QED BY <2>1, <2>2, <2>3, <2>4, NextCases, Zenon
<1>4. esc_state' \in {0, 1, 2, esc_state}
  <2>1. ASSUME NEW b \in Byte,
               \/ Type(b) \/ Backspace(b) \/ cmd_tab_completion(b) \/ FormFeed(b) \/ Control(b)
               \/ Enter(b) \/ Arrow(b) \/ EscapeByte(b)
        PROVE  esc_state' \in {0, 1, 2, esc_state}
    BY <2>1, Zenon DEF Type, Backspace, cmd_tab_completion, FormFeed, Control, Enter, Arrow, EscapeByte, text
  <2>2. ASSUME \/ \E k \in Keys : Press(k)
               \/ Drain \/ Drained \/ Polled \/ HandlerReturns \/ UsbStops \/ UNCHANGED vars
        PROVE  UNCHANGED esc_state
    BY <2>2, Zenon DEF Press, Drain, Drained, Polled, HandlerReturns, UsbStops, Return, vars, text
  <2> QED BY <2>1, <2>2, NextCases, Zenon
<1>5. main' \in {"drain", "poll", "handler", main}
  <2>1. ASSUME NEW b \in Byte,
               \/ Type(b) \/ Backspace(b) \/ cmd_tab_completion(b) \/ FormFeed(b) \/ Control(b)
               \/ Enter(b) \/ Arrow(b) \/ EscapeByte(b)
        PROVE  main' \in {"handler", main}
    BY <2>1, Zenon DEF Type, Backspace, cmd_tab_completion, FormFeed, Control, Enter, Arrow, EscapeByte
  <2>2. ASSUME \/ \E k \in Keys : Press(k)
               \/ Drain \/ Drained \/ Polled \/ HandlerReturns \/ UsbStops \/ UNCHANGED vars
        PROVE  main' \in {"drain", "poll", main}
    BY <2>2, Zenon DEF Press, Drain, Drained, Polled, HandlerReturns, UsbStops, Return, vars
  <2> QED BY <2>1, <2>2, NextCases, Zenon
<1>6. garbled' \in BOOLEAN
  BY <1>3, Zenon DEF StateOK
<1>7. esc_state' \in 0 .. 2 /\ main' \in {"drain", "poll", "handler"}
  BY <1>4, <1>5 DEF StateOK
<1> QED BY <1>6, <1>7 DEF StateOK

(* The command line is sound between any two bytes, whatever is pressed and *)
(* whatever command runs: the line is what stands before its end, and the   *)
(* history is made of lines that were entered.                              *)
THEOREM ConsoleInvHolds == Spec => []ConsoleInv
<1>1. ConsoleInv /\ [Next]_vars => ConsoleInv'
  <2>1. RingOK' /\ LineOK' /\ PastOK' /\ StateOK' => ConsoleInv'
    BY DEF ConsoleInv, TypeOK, RingOK, LineOK, PastOK, StateOK, Text
  <2> QED BY <2>1, Parts, RingStep, LineStep, PastStep, StateStep
<1> QED BY InitOK, <1>1, PTL DEF Spec

-----------------------------------------------------------------------------
(* What a byte makes of the line.                                           *)
TypedOK == Typed = [i \in 1 .. line_len |-> line_buf[i - 1]] /\ Typed \in Seq(Printable) /\ Len(Typed) = line_len

LEMMA TypedIs == LineOK => TypedOK
BY LineIs DEF Typed, TypedOK

LEMMA TypedIsNext == LineOK' => TypedOK'
BY TypedIs, PTL

LEMMA LineSame == UNCHANGED line_buf => UNCHANGED Typed
BY DEF Typed, CString

LEMMA TypeIs ==
  ASSUME LineOK, LineOK', NEW b, Type(b)
  PROVE  /\ Typed' = IF Len(Typed) < CMD_MAX_LEN - 1 THEN Append(Typed, b) ELSE Typed
         /\ shown = Typed => shown' = Typed'
<1>1. /\ Typed = [i \in 1 .. line_len |-> line_buf[i - 1]] /\ Typed \in Seq(Printable) /\ Len(Typed) = line_len
      /\ line_len \in 0 .. CMD_MAX_LEN - 1 /\ line_buf \in Text
  BY TypedIs DEF LineOK, TypedOK
<1>2. Typed' = [i \in 1 .. line_len' |-> line_buf'[i - 1]]
  BY TypedIsNext DEF TypedOK
<1>3. CASE line_len < CMD_MAX_LEN - 1
  <2>1. /\ line_buf' = [line_buf EXCEPT ![line_len] = b] /\ line_len' = line_len + 1 /\ b \in Printable
        /\ shown' = Append(shown, b)
    BY <1>3, Zenon DEF Type
  <2>2. \A i \in 1 .. line_len + 1 : line_buf'[i - 1] = IF i = line_len + 1 THEN b ELSE line_buf[i - 1]
    BY <1>1, <1>3, <2>1, SizesAre DEF Text, At
  <2>3. Append(Typed, b) = [i \in 1 .. line_len + 1 |-> IF i = line_len + 1 THEN b ELSE line_buf[i - 1]]
    BY <1>1, SizesAre
  <2>4. Typed' = Append(Typed, b)
    BY <1>1, <1>2, <2>1, <2>2, <2>3, SizesAre
  <2> QED BY <1>1, <1>3, <2>1, <2>4
<1>4. CASE ~(line_len < CMD_MAX_LEN - 1)
  <2>1. UNCHANGED <<line_buf, shown>>
    BY <1>4, Zenon DEF Type
  <2>2. UNCHANGED Typed
    BY <2>1, LineSame
  <2> QED BY <1>1, <1>4, <2>1, <2>2
<1> QED BY <1>3, <1>4

LEMMA BackspaceIs ==
  ASSUME LineOK, LineOK', NEW b, Backspace(b)
  PROVE  /\ Typed' = IF Typed = <<>> THEN Typed ELSE Front(Typed)
         /\ shown = Typed => shown' = Typed'
<1>1. /\ Typed = [i \in 1 .. line_len |-> line_buf[i - 1]] /\ Typed \in Seq(Printable) /\ Len(Typed) = line_len
      /\ line_len \in 0 .. CMD_MAX_LEN - 1 /\ line_buf \in Text
  BY TypedIs DEF LineOK, TypedOK
<1>2. Typed' = [i \in 1 .. line_len' |-> line_buf'[i - 1]]
  BY TypedIsNext DEF TypedOK
<1>3. CASE line_len > 0
  <2>1. /\ line_buf' = [line_buf EXCEPT ![line_len - 1] = NUL] /\ line_len' = line_len - 1
        /\ shown' = IF shown = <<>> THEN <<>> ELSE Front(shown)
    BY <1>3, Zenon DEF Backspace
  <2>2. \A i \in 1 .. line_len - 1 : line_buf'[i - 1] = line_buf[i - 1]
    BY <1>1, <1>3, <2>1, SizesAre DEF Text, At
  <2>3. Front(Typed) = [i \in 1 .. line_len - 1 |-> line_buf[i - 1]]
    BY <1>1, <1>3, SizesAre DEF Front
  <2>4. Typed' = Front(Typed)
    BY <1>1, <1>2, <2>1, <2>2, <2>3, SizesAre
  <2>5. Typed # <<>>
    BY <1>1, <1>3
  <2> QED BY <2>1, <2>4, <2>5
<1>4. CASE ~(line_len > 0)
  <2>1. UNCHANGED <<line_buf, shown>>
    BY <1>4, Zenon DEF Backspace
  <2>2. UNCHANGED Typed
    BY <2>1, LineSame
  <2>3. Typed = <<>>
    BY <1>1, <1>4, SizesAre
  <2> QED BY <2>1, <2>2, <2>3
<1> QED BY <1>3, <1>4

LEMMA TabIs ==
  ASSUME LineOK, LineOK', NEW b, cmd_tab_completion(b)
  PROVE  /\ Typed' = Completed(Typed)
         /\ shown = Typed => shown' = Typed'
         /\ garbled' = garbled \/ shown' = Typed'
<1>1. /\ Typed = [i \in 1 .. line_len |-> line_buf[i - 1]] /\ Typed \in Seq(Printable) /\ Len(Typed) = line_len
      /\ line_len \in 0 .. CMD_MAX_LEN - 1 /\ line_buf \in Text
  BY TypedIs DEF LineOK, TypedOK
<1>2. Typed' = [i \in 1 .. line_len' |-> line_buf'[i - 1]] /\ Typed' \in Seq(Printable) /\ Len(Typed') = line_len'
  BY TypedIsNext DEF TypedOK
<1>3. Line = Typed
  BY <1>1 DEF Line
<1>4. CASE Cardinality(Starting(Typed)) = 1
  <2> DEFINE name == CHOOSE n \in Starting(Typed) : TRUE
  <2>1. name \in Names /\ line_len <= Len(name) /\ \A i \in 1 .. line_len : name[i] = Typed[i]
    BY <1>1, <1>4, OnlyNameIs
  <2>2. ~(Cardinality(Starting(Typed)) > 1)
    BY <1>4
  <2>3. Completed(Typed) = name
    BY <1>4, Zenon DEF Completed
  <2> HIDE DEF name
  <2>4. Complete(name)
    BY <1>3, <1>4, <2>2, Zenon DEF cmd_tab_completion, name
  <2>5. name \in Seq(Printable) /\ Len(name) \in 1 .. CMD_MAX_LEN - 1
    BY <2>1, NamesAre
  <2>6. line_len' = Len(name)
    <3>1. line_len' = Max({line_len, Len(name)}) /\ line_len \in Int /\ Len(name) \in Int
      BY <1>1, <2>4, <2>5, SizesAre DEF Complete
    <3> QED BY <2>1, <3>1, MaxOfTwo
  <2>7. \A i \in 1 .. Len(name) : line_buf'[i - 1] = name[i]
    <3>1. line_buf' = [i \in At |-> IF i \in line_len .. Len(name) - 1 THEN name[i + 1] ELSE line_buf[i]]
      BY <2>4 DEF Complete
    <3>2. \A i \in 1 .. line_len : line_buf[i - 1] = name[i]
      BY <1>1, <2>1
    <3> QED BY <1>1, <2>1, <2>5, <3>1, <3>2, SizesAre DEF At
  <2>8. Typed' = name
    BY <1>2, <2>5, <2>6, <2>7
  <2>9. shown = Typed => shown' = name
    <3>1. shown' = shown \o SubSeq(name, line_len + 1, Len(name))
      BY <2>4 DEF Complete
    <3>2. Typed \o SubSeq(name, line_len + 1, Len(name)) = name
      <4> DEFINE rest == SubSeq(name, line_len + 1, Len(name))
      <4>1. rest \in Seq(Printable) /\ Len(rest) = Len(name) - line_len
        BY <1>1, <2>1, <2>5
      <4>2. \A i \in 1 .. Len(rest) : rest[i] = name[line_len + i]
        BY <1>1, <2>1, <2>5
      <4> HIDE DEF rest
      <4>3. Typed \o rest \in Seq(Printable) /\ Len(Typed \o rest) = Len(name)
        BY <1>1, <2>1, <2>5, <4>1
      <4>4. \A i \in 1 .. Len(name) : (Typed \o rest)[i] = name[i]
        BY <1>1, <2>1, <2>5, <4>1, <4>2
      <4>5. Typed \o rest = name
        <5>1. Typed \o rest = [i \in 1 .. Len(name) |-> (Typed \o rest)[i]]
          <6> DEFINE both == Typed \o rest
          <6>1. both \in Seq(Printable) /\ Len(both) = Len(name)
            BY <4>3
          <6> HIDE DEF both
          <6>2. both = [i \in 1 .. Len(name) |-> both[i]]
            BY <6>1
          <6> QED BY <6>2 DEF both
        <5>2. name = [i \in 1 .. Len(name) |-> name[i]]
          BY <2>5
        <5> QED BY <4>4, <5>1, <5>2
      <4> QED BY <4>5 DEF rest
    <3> QED BY <3>1, <3>2
  <2>10. garbled' = garbled
    BY <2>4, Zenon DEF Complete
  <2> QED BY <2>3, <2>8, <2>9, <2>10, Zenon
<1>5. CASE Cardinality(Starting(Typed)) # 1
  <2>1. UNCHANGED line_buf /\ (shown' = CString(line_buf) \/ UNCHANGED <<shown, garbled>>)
    BY <1>3, <1>5, Zenon DEF cmd_tab_completion, screen
  <2>2. UNCHANGED Typed
    BY <2>1, LineSame
  <2>3. Completed(Typed) = Typed
    BY <1>5, Zenon DEF Completed
  <2> QED BY <2>1, <2>2, <2>3, Zenon DEF Typed
<1> QED BY <1>4, <1>5

-----------------------------------------------------------------------------
(* What the terminal shows.                                                 *)

LEMMA PromptLoad == line_load(Stored(<<>>)) => CString(line_buf)' = <<>>
<1> SUFFICES ASSUME line_load(Stored(<<>>)) PROVE CString(line_buf)' = <<>>
  OBVIOUS
<1>1. \A i \in At : Stored(<<>>)[i] = NUL
  BY NothingStored
<1>2. Stored(<<>>) \in Text /\ Stored(<<>>)[CMD_MAX_LEN - 1] = NUL
  BY <1>1, NothingStored, SizesAre DEF At
<1> QED BY <1>2, LoadIs, NothingStored, Zenon

LEMMA ShownStep ==
  ASSUME LineOK, LineOK', PastOK, ShownIsLine, [Next]_vars
  PROVE  ShownIsLine'
<1> USE DEF Typed
<1>0. UNCHANGED <<line_buf, shown, garbled, interrupt_flag, main>> => ShownIsLine'
  <2> SUFFICES ASSUME UNCHANGED <<line_buf, shown, garbled, interrupt_flag, main>> PROVE ShownIsLine'
    OBVIOUS
  <2>1. line_buf' = line_buf /\ shown' = shown /\ garbled' = garbled /\ interrupt_flag' = interrupt_flag /\ main' = main
    OBVIOUS
  <2>2. CString(line_buf)' = CString(line_buf)
    BY <2>1, LineSame
  <2>3. (garbled' <=> garbled) /\ (interrupt_flag' <=> interrupt_flag) /\ (Busy' <=> Busy)
    BY <2>1 DEF Busy
  <2>4. shown = CString(line_buf) => shown' = CString(line_buf)'
    BY <2>1, <2>2
  <2> QED BY <2>3, <2>4, Zenon DEF ShownIsLine
<1>1. shown' = Typed' => ShownIsLine'
  BY Zenon DEF ShownIsLine
<1>2. cmd_prompt => ShownIsLine'
  BY <1>1, PromptIs, Zenon
<1>3. ASSUME NEW b \in Byte, Type(b) \/ Backspace(b) \/ cmd_tab_completion(b) PROVE ShownIsLine'
  <2>1. ~Busy /\ UNCHANGED <<main, interrupt_flag>>
    <3>1. main = "poll"
      BY <1>3, Zenon DEF Type, Backspace, cmd_tab_completion, Get
    <3>2. UNCHANGED <<main, interrupt_flag>>
      BY <1>3, Zenon DEF Type, Backspace, cmd_tab_completion, Get
    <3> QED BY <3>1, <3>2 DEF Busy
  <2>2. garbled' = garbled \/ shown' = Typed'
    <3>1. CASE Type(b) \/ Backspace(b)
      BY <3>1, Zenon DEF Type, Backspace
    <3>2. CASE cmd_tab_completion(b)
      BY <3>2, TabIs, Zenon
    <3> QED BY <1>3, <3>1, <3>2
  <2>3. shown = Typed => shown' = Typed'
    BY <1>3, TypeIs, BackspaceIs, TabIs, Zenon
  <2> QED BY <1>1, <2>1, <2>2, <2>3, Zenon DEF ShownIsLine, Busy
<1>4. ASSUME NEW b \in Byte, Control(b) PROVE ShownIsLine'
  BY <1>4, Zenon DEF Control, ShownIsLine
<1>5. ASSUME NEW b \in Byte, Enter(b) PROVE ShownIsLine'
  <2>1. main' = "handler" \/ cmd_prompt
    BY <1>5, Zenon DEF Enter
  <2> QED BY <1>2, <2>1, Zenon DEF ShownIsLine, Busy
<1>6. ASSUME NEW b \in Byte, Arrow(b) PROVE ShownIsLine'
  <2>1. UNCHANGED <<main, interrupt_flag>>
    BY <1>6, Zenon DEF Arrow, Get
  <2>2. ASSUME NEW buf \in Text, line_load(buf) PROVE ShownIsLine'
    BY <1>1, <2>2, LoadIs, Zenon
  <2>3. CASE b = "A"
    <3>1. history_prev
      BY <1>6, <2>3, Zenon DEF Arrow
    <3>2. CASE history_count = 0
      <4>1. UNCHANGED <<line_buf, shown, garbled>>
        BY <3>1, <3>2, Zenon DEF history_prev, screen
      <4> QED BY <1>0, <2>1, <4>1
    <3>3. CASE history_count # 0
      <4>1. history_index' \in 0 .. HISTORY_SIZE - 1 /\ line_load(history[history_index'])
        BY <3>1, <3>3, PrevIs, Zenon
      <4>2. history[history_index'] \in Text
        BY <4>1 DEF PastOK
      <4> QED BY <2>2, <4>1, <4>2
    <3> QED BY <3>2, <3>3
  <2>4. CASE b = "B"
    <3>1. history_next
      BY <1>6, <2>4, Zenon DEF Arrow
    <3>2. CASE history_index = -1
      <4>1. history_index < 0
        BY <3>2
      <4>2. UNCHANGED <<line_buf, shown, garbled>>
        BY <3>1, <4>1, Zenon DEF history_next, screen
      <4> QED BY <1>0, <2>1, <4>2
    <3>3. CASE history_index # -1
      <4>1. line_load(Stored(<<>>)) \/ (history_index' \in 0 .. HISTORY_SIZE - 1 /\ line_load(history[history_index']))
        BY <3>1, <3>3, NextLineIs, Zenon
      <4>2. history_index' \in 0 .. HISTORY_SIZE - 1 => history[history_index'] \in Text
        BY DEF PastOK
      <4> QED BY <2>2, <4>1, <4>2, NothingStored, Zenon
    <3> QED BY <3>2, <3>3
  <2>5. CASE b # "A" /\ b # "B"
    <3>1. UNCHANGED <<line_buf, shown, garbled>>
      BY <1>6, <2>5, Zenon DEF Arrow, screen
    <3> QED BY <1>0, <2>1, <3>1
  <2> QED BY <2>3, <2>4, <2>5
<1>7. ASSUME NEW b \in Byte, FormFeed(b) \/ EscapeByte(b) PROVE ShownIsLine'
  <2>1. cmd_prompt \/ UNCHANGED <<line_buf, shown, garbled, interrupt_flag, main>>
    BY <1>7, Zenon DEF FormFeed, EscapeByte, Get, screen
  <2> QED BY <1>0, <1>2, <2>1
<1>8. CASE Drain
  <2>1. console_push(Head(fifo)) /\ UNCHANGED <<line_buf, main>>
    BY <1>8, Zenon DEF Drain, text
  <2>2. interrupt_flag' = TRUE \/ UNCHANGED <<shown, garbled, interrupt_flag>>
    BY <2>1, Zenon DEF console_push, screen
  <2> QED BY <1>0, <2>1, <2>2, Zenon DEF ShownIsLine
<1>9. CASE Polled
  <2>1. cmd_prompt \/ (~interrupt_flag /\ interrupt_flag' = FALSE /\ UNCHANGED <<line_buf, shown, garbled>> /\ ~Busy)
    <3>1. main = "poll"
      BY <1>9, Zenon DEF Polled
    <3>2. cmd_prompt \/ (~interrupt_flag /\ interrupt_flag' = FALSE /\ UNCHANGED <<line_buf, shown, garbled>>)
      BY <1>9, Zenon DEF Polled, screen
    <3> QED BY <3>1, <3>2 DEF Busy
  <2>2. UNCHANGED line_buf => UNCHANGED Typed
    BY LineSame
  <2> QED BY <1>2, <2>1, <2>2, Zenon DEF ShownIsLine
<1>10. CASE HandlerReturns \/ UsbStops
  BY <1>2, <1>10, Zenon DEF HandlerReturns, UsbStops, Return
<1>11. CASE Drained
  <2>1. UNCHANGED <<line_buf, shown, garbled, interrupt_flag>> /\ main = "drain"
    BY <1>11, Zenon DEF Drained, text, screen
  <2>2. UNCHANGED Typed /\ ~Busy
    BY <2>1, LineSame DEF Busy
  <2> QED BY <2>1, <2>2, Zenon DEF ShownIsLine
<1>12. ASSUME (\E k \in Keys : Press(k)) \/ UNCHANGED vars PROVE ShownIsLine'
  BY <1>0, <1>12, Zenon DEF Press, vars, text, screen
<1> QED BY <1>3, <1>4, <1>5, <1>6, <1>7, <1>8, <1>9, <1>10, <1>11, <1>12, NextCases, Zenon

(* What stands after the prompt is what Enter would run.                    *)
THEOREM ShownIsLineHolds == Spec => []ShownIsLine
<1>1. Init => ShownIsLine
  <2>1. Init => shown = <<>> /\ line_buf = Stored(<<>>)
    BY Zenon DEF Init
  <2> QED BY <2>1, NothingStored, Zenon DEF ShownIsLine
<1>2. ConsoleInv /\ ConsoleInv' /\ ShownIsLine /\ [Next]_vars => ShownIsLine'
  <2>1. ConsoleInv' => LineOK'
    BY DEF ConsoleInv, TypeOK, LineOK, Text
  <2> QED BY <2>1, Parts, ShownStep
<1> QED BY ConsoleInvHolds, <1>1, <1>2, PTL DEF Spec

-----------------------------------------------------------------------------
(* The ring is a queue that loses the newest bytes.                         *)

LEMMA RingSize == RXBUF_SIZE \in Nat \ {0}
BY ConsoleAssumption

LEMMA AppendIs ==
  ASSUME NEW S, NEW s \in Seq(S), NEW c
  PROVE  Append(s, c) = [i \in 1 .. Len(s) + 1 |-> IF i = Len(s) + 1 THEN c ELSE s[i]]
<1> DEFINE t == Append(s, c)
<1>1. s \in Seq(S \cup {c}) /\ Len(s) \in Nat
  OBVIOUS
<1>2. t \in Seq(S \cup {c}) /\ Len(t) = Len(s) + 1 /\ t[Len(s) + 1] = c /\ \A i \in 1 .. Len(s) : t[i] = s[i]
  BY <1>1, AppendProperties
<1> HIDE DEF t
<1>3. t = [i \in 1 .. Len(s) + 1 |-> t[i]]
  BY <1>2
<1>4. \A i \in 1 .. Len(s) + 1 : t[i] = IF i = Len(s) + 1 THEN c ELSE s[i]
  BY <1>1, <1>2
<1> QED BY <1>3, <1>4 DEF t

LEMMA TailIs ==
  ASSUME NEW S, NEW s \in Seq(S), Len(s) # 0
  PROVE  Tail(s) = [i \in 1 .. Len(s) - 1 |-> s[i + 1]] /\ Head(s) = s[1]
<1> DEFINE t == Tail(s)
<1>1. s # <<>> /\ Len(s) \in Nat
  BY EmptySeq
<1>2. t \in Seq(S) /\ Len(t) = Len(s) - 1 /\ \A i \in 1 .. Len(t) : t[i] = s[i + 1]
  BY <1>1, HeadTailProperties
<1> HIDE DEF t
<1>3. t = [i \in 1 .. Len(s) - 1 |-> t[i]]
  BY <1>2
<1>4. \A i \in 1 .. Len(s) - 1 : t[i] = s[i + 1]
  BY <1>1, <1>2
<1>5. Head(s) = s[1]
  OBVIOUS
<1> QED BY <1>3, <1>4, <1>5 DEF t

LEMMA RingIndex ==
  ASSUME NEW i \in 0 .. 2 * RXBUF_SIZE - 1
  PROVE  i % RXBUF_SIZE = IF i < RXBUF_SIZE THEN i ELSE i - RXBUF_SIZE
BY RingSize, ModIs

WaitingOK ==
  /\ Len(Waiting) = IF rx_tail <= rx_head THEN rx_head - rx_tail ELSE rx_head - rx_tail + RXBUF_SIZE
  /\ Waiting = [i \in 1 .. Len(Waiting) |->
                  rx_buf[IF rx_tail + i - 1 < RXBUF_SIZE THEN rx_tail + i - 1 ELSE rx_tail + i - 1 - RXBUF_SIZE]]
  /\ Waiting \in Seq(Byte \cup {NUL})

LEMMA WaitingIs == RingOK => WaitingOK
<1> SUFFICES ASSUME RingOK PROVE WaitingOK
  OBVIOUS
<1>0. rx_head \in 0 .. RXBUF_SIZE - 1 /\ rx_tail \in 0 .. RXBUF_SIZE - 1 /\ RXBUF_SIZE \in Nat \ {0}
      /\ rx_buf \in [0 .. RXBUF_SIZE - 1 -> Byte \cup {NUL}]
  BY RingSize DEF RingOK
<1> DEFINE n == (rx_head - rx_tail + RXBUF_SIZE) % RXBUF_SIZE
           at(i) == IF rx_tail + i - 1 < RXBUF_SIZE THEN rx_tail + i - 1 ELSE rx_tail + i - 1 - RXBUF_SIZE
<1>1. n = IF rx_tail <= rx_head THEN rx_head - rx_tail ELSE rx_head - rx_tail + RXBUF_SIZE
  <2> DEFINE d == rx_head - rx_tail + RXBUF_SIZE
  <2>1. d \in 0 .. 2 * RXBUF_SIZE - 1
    BY <1>0
  <2>2. d % RXBUF_SIZE = IF d < RXBUF_SIZE THEN d ELSE d - RXBUF_SIZE
    <3> HIDE DEF d
    <3> QED BY <2>1, RingIndex
  <2> QED BY <1>0, <2>2
<1> HIDE DEF n
<1>2. n \in 0 .. RXBUF_SIZE - 1
  BY <1>0, <1>1
<1>3. ASSUME NEW i \in 1 .. n PROVE (rx_tail + i - 1) % RXBUF_SIZE = at(i) /\ at(i) \in 0 .. RXBUF_SIZE - 1
  <2> DEFINE d == rx_tail + i - 1
  <2>1. d \in 0 .. 2 * RXBUF_SIZE - 1
    BY <1>0, <1>2
  <2>2. d % RXBUF_SIZE = IF d < RXBUF_SIZE THEN d ELSE d - RXBUF_SIZE
    <3> HIDE DEF d
    <3> QED BY <2>1, RingIndex
  <2> QED BY <1>0, <1>2, <2>2
<1>4. Waiting = [i \in 1 .. n |-> rx_buf[(rx_tail + i - 1) % RXBUF_SIZE]]
  BY DEF Waiting, n
<1>5. Waiting = [i \in 1 .. n |-> rx_buf[at(i)]]
  BY <1>3, <1>4
<1>6. \A i \in 1 .. n : rx_buf[at(i)] \in Byte \cup {NUL}
  BY <1>0, <1>3
<1> HIDE DEF at
<1>7. Len(Waiting) = n /\ Waiting \in Seq(Byte \cup {NUL})
  BY <1>2, <1>5, <1>6
<1> QED BY <1>1, <1>5, <1>7 DEF at, WaitingOK

LEMMA WaitingOKNext == RingOK' => WaitingOK'
BY WaitingIs, PTL

LEMMA WaitingIsNext ==
  ASSUME RingOK'
  PROVE  /\ Len(Waiting') = IF rx_tail' <= rx_head' THEN rx_head' - rx_tail' ELSE rx_head' - rx_tail' + RXBUF_SIZE
         /\ Waiting' = [i \in 1 .. Len(Waiting') |->
               rx_buf'[IF rx_tail' + i - 1 < RXBUF_SIZE THEN rx_tail' + i - 1 ELSE rx_tail' + i - 1 - RXBUF_SIZE]]
BY WaitingOKNext DEF WaitingOK

LEMMA WaitingSame == UNCHANGED ring => UNCHANGED Waiting
BY DEF Waiting, ring

(* A byte that is pushed waits behind the others; one too many is lost.     *)
LEMMA PushIs ==
  ASSUME RingOK, RingOK', NEW c, Queued(c), UNCHANGED rx_tail
  PROVE  Waiting' = IF Len(Waiting) = RXBUF_SIZE - 1 THEN Waiting ELSE Append(Waiting, c)
<1> DEFINE next == (rx_head + 1) % RXBUF_SIZE
           at(i) == IF rx_tail + i - 1 < RXBUF_SIZE THEN rx_tail + i - 1 ELSE rx_tail + i - 1 - RXBUF_SIZE
           n == Len(Waiting)
<1>0. rx_head \in 0 .. RXBUF_SIZE - 1 /\ rx_tail \in 0 .. RXBUF_SIZE - 1 /\ RXBUF_SIZE \in Nat \ {0}
      /\ rx_buf \in [0 .. RXBUF_SIZE - 1 -> Byte \cup {NUL}]
  BY RingSize DEF RingOK
<1>1. next = IF rx_head = RXBUF_SIZE - 1 THEN 0 ELSE rx_head + 1
  <2> DEFINE d == rx_head + 1
  <2>1. d \in 0 .. 2 * RXBUF_SIZE - 1
    BY <1>0
  <2>2. d % RXBUF_SIZE = IF d < RXBUF_SIZE THEN d ELSE d - RXBUF_SIZE
    <3> HIDE DEF d
    <3> QED BY <2>1, RingIndex
  <2> QED BY <1>0, <2>2
<1> HIDE DEF next
<1>2. /\ n = IF rx_tail <= rx_head THEN rx_head - rx_tail ELSE rx_head - rx_tail + RXBUF_SIZE
      /\ Waiting = [i \in 1 .. n |-> rx_buf[at(i)]] /\ Waiting \in Seq(Byte \cup {NUL})
  BY WaitingIs DEF WaitingOK
<1>3. n = RXBUF_SIZE - 1 <=> next = rx_tail
  BY <1>0, <1>1, <1>2
<1>4. CASE next = rx_tail
  <2>1. UNCHANGED ring
    BY <1>4, Zenon DEF Queued, next, ring
  <2> QED BY <1>3, <1>4, <2>1, WaitingSame
<1>5. CASE next # rx_tail
  <2>1. rx_buf' = [rx_buf EXCEPT ![rx_head] = c] /\ rx_head' = next /\ rx_tail' = rx_tail
    BY <1>5, Zenon DEF Queued, next
  <2>2. /\ Len(Waiting') = IF rx_tail' <= rx_head' THEN rx_head' - rx_tail' ELSE rx_head' - rx_tail' + RXBUF_SIZE
        /\ Waiting' = [i \in 1 .. Len(Waiting') |->
              rx_buf'[IF rx_tail' + i - 1 < RXBUF_SIZE THEN rx_tail' + i - 1 ELSE rx_tail' + i - 1 - RXBUF_SIZE]]
    BY WaitingIsNext
  <2>3. Len(Waiting') = n + 1 /\ n \in Nat
    BY <1>0, <1>1, <1>2, <1>5, <2>1, <2>2
  <2>4. Waiting' = [i \in 1 .. n + 1 |-> rx_buf'[at(i)]]
    BY <2>1, <2>2, <2>3
  <2>5. at(n + 1) = rx_head /\ \A i \in 1 .. n : at(i) # rx_head /\ at(i) \in 0 .. RXBUF_SIZE - 1
    BY <1>0, <1>2
  <2> HIDE DEF at
  <2>6. \A i \in 1 .. n + 1 : rx_buf'[at(i)] = IF i = n + 1 THEN c ELSE rx_buf[at(i)]
    BY <1>0, <2>1, <2>3, <2>5
  <2>7. Waiting' = [i \in 1 .. n + 1 |-> IF i = n + 1 THEN c ELSE rx_buf[at(i)]]
    BY <2>3, <2>4, <2>6
  <2>8. Append(Waiting, c) = [i \in 1 .. n + 1 |-> IF i = n + 1 THEN c ELSE rx_buf[at(i)]]
    <3>1. Append(Waiting, c) = [i \in 1 .. n + 1 |-> IF i = n + 1 THEN c ELSE Waiting[i]]
      BY <1>2, AppendIs
    <3>2. \A i \in 1 .. n + 1 : (IF i = n + 1 THEN c ELSE Waiting[i]) = IF i = n + 1 THEN c ELSE rx_buf[at(i)]
      BY <1>2, <2>3
    <3> QED BY <3>1, <3>2
  <2> QED BY <1>3, <1>5, <2>7, <2>8
<1> QED BY <1>4, <1>5

(* The byte that is taken is the oldest.                                    *)
LEMMA PopIs ==
  ASSUME RingOK, RingOK', NEW b, Get(b)
  PROVE  Waiting # <<>> /\ b = Head(Waiting) /\ Waiting' = Tail(Waiting)
<1> DEFINE at(i) == IF rx_tail + i - 1 < RXBUF_SIZE THEN rx_tail + i - 1 ELSE rx_tail + i - 1 - RXBUF_SIZE
           n == Len(Waiting)
<1>0. rx_head \in 0 .. RXBUF_SIZE - 1 /\ rx_tail \in 0 .. RXBUF_SIZE - 1 /\ RXBUF_SIZE \in Nat \ {0}
      /\ rx_buf \in [0 .. RXBUF_SIZE - 1 -> Byte \cup {NUL}]
  BY RingSize DEF RingOK
<1>1. rx_tail # rx_head /\ b = rx_buf[rx_tail] /\ rx_tail' = (rx_tail + 1) % RXBUF_SIZE /\ UNCHANGED <<rx_buf, rx_head>>
  BY Zenon DEF Get, console_rx_empty
<1>2. rx_tail' = IF rx_tail = RXBUF_SIZE - 1 THEN 0 ELSE rx_tail + 1
  <2> DEFINE d == rx_tail + 1
  <2>1. d \in 0 .. 2 * RXBUF_SIZE - 1
    BY <1>0
  <2>2. d % RXBUF_SIZE = IF d < RXBUF_SIZE THEN d ELSE d - RXBUF_SIZE
    <3> HIDE DEF d
    <3> QED BY <2>1, RingIndex
  <2> QED BY <1>0, <1>1, <2>2
<1>3. /\ n = IF rx_tail <= rx_head THEN rx_head - rx_tail ELSE rx_head - rx_tail + RXBUF_SIZE
      /\ Waiting = [i \in 1 .. n |-> rx_buf[at(i)]] /\ Waiting \in Seq(Byte \cup {NUL})
  BY WaitingIs DEF WaitingOK
<1>4. /\ Len(Waiting') = IF rx_tail' <= rx_head' THEN rx_head' - rx_tail' ELSE rx_head' - rx_tail' + RXBUF_SIZE
      /\ Waiting' = [i \in 1 .. Len(Waiting') |->
            rx_buf'[IF rx_tail' + i - 1 < RXBUF_SIZE THEN rx_tail' + i - 1 ELSE rx_tail' + i - 1 - RXBUF_SIZE]]
  BY WaitingIsNext
<1>5. n \in 1 .. RXBUF_SIZE - 1 /\ Len(Waiting') = n - 1
  BY <1>0, <1>1, <1>2, <1>3, <1>4
<1>6. at(1) = rx_tail
  BY <1>0
<1>7. Waiting # <<>> /\ Head(Waiting) = rx_buf[at(1)]
  BY <1>3, <1>5
<1>8. \A i \in 1 .. n - 1 :
        (IF rx_tail' + i - 1 < RXBUF_SIZE THEN rx_tail' + i - 1 ELSE rx_tail' + i - 1 - RXBUF_SIZE) = at(i + 1)
  BY <1>0, <1>2, <1>5
<1> HIDE DEF at
<1>9. Waiting' = [i \in 1 .. n - 1 |-> rx_buf[at(i + 1)]]
  BY <1>1, <1>4, <1>5, <1>8
<1>10. Tail(Waiting) = [i \in 1 .. n - 1 |-> rx_buf[at(i + 1)]]
  <2>1. Tail(Waiting) = [i \in 1 .. n - 1 |-> Waiting[i + 1]]
    BY <1>3, <1>5, TailIs
  <2>2. \A i \in 1 .. n - 1 : Waiting[i + 1] = rx_buf[at(i + 1)]
    BY <1>3, <1>5
  <2> QED BY <2>1, <2>2
<1> QED BY <1>1, <1>6, <1>7, <1>9, <1>10

-----------------------------------------------------------------------------
(* The history is a list of the last lines.                                 *)

\* Where the k-th line of the list is.
Place(k) == IF history_head - history_count + k - 1 < 0 THEN history_head - history_count + k - 1 + HISTORY_SIZE
                                                        ELSE history_head - history_count + k - 1
RememberedOK ==
  /\ Remembered = [k \in 1 .. history_count |-> CString(history[Place(k)])]
  /\ Remembered \in Seq(Seq(Printable)) /\ Len(Remembered) = history_count
  /\ \A k \in 1 .. history_count : Place(k) \in 0 .. HISTORY_SIZE - 1

LEMMA RememberedIs == PastOK => RememberedOK
<1> SUFFICES ASSUME PastOK PROVE RememberedOK
  OBVIOUS
<1>0. /\ history_head \in 0 .. HISTORY_SIZE - 1 /\ history_count \in 0 .. HISTORY_SIZE
      /\ HISTORY_SIZE \in Nat \ {0} /\ \A i \in 0 .. HISTORY_SIZE - 1 : history[i] \in Text
  BY HistorySize DEF PastOK
<1>1. ASSUME NEW k \in 1 .. history_count
      PROVE  /\ (history_head - history_count + k - 1 + HISTORY_SIZE) % HISTORY_SIZE = Place(k)
             /\ Place(k) \in 0 .. HISTORY_SIZE - 1
  <2> DEFINE d == history_head - history_count + k - 1 + HISTORY_SIZE
  <2>1. d \in 0 .. 2 * HISTORY_SIZE - 1
    BY <1>0
  <2>2. d % HISTORY_SIZE = IF d < HISTORY_SIZE THEN d ELSE d - HISTORY_SIZE
    <3> HIDE DEF d
    <3> QED BY <1>0, <2>1, ModIs
  <2> QED BY <1>0, <2>2 DEF Place
<1>2. Remembered = [k \in 1 .. history_count |-> CString(history[Place(k)])]
  BY <1>1 DEF Remembered
<1>3. \A k \in 1 .. history_count : CString(history[Place(k)]) \in Seq(Printable)
  BY <1>0, <1>1, CStringIs
<1>4. Remembered \in Seq(Seq(Printable)) /\ Len(Remembered) = history_count
  BY <1>0, <1>2, <1>3
<1> QED BY <1>1, <1>2, <1>4 DEF RememberedOK

LEMMA RememberedOKNext == PastOK' => RememberedOK'
BY RememberedIs, PTL

LEMMA RememberedSame == UNCHANGED <<history, history_head, history_count>> => UNCHANGED Remembered
BY DEF Remembered

(* The line that is added is the last, and the first falls out of a full    *)
(* list.                                                                    *)
LEMMA AddRefines ==
  ASSUME LineOK, PastOK, PastOK', history_add
  PROVE  Remembered' = Editor!LastOf(Append(Remembered, Typed))
<1> DEFINE H == HISTORY_SIZE
           more == Append(Remembered, Typed)
<1>0. /\ history_head \in 0 .. H - 1 /\ history_count \in 0 .. H
      /\ H \in Nat \ {0} /\ history \in [0 .. H - 1 -> Text]
  BY HistorySize DEF PastOK
<1>1. /\ history' = [history EXCEPT ![history_head] = Stored(Entered)]
      /\ history_head' = IF history_head = H - 1 THEN 0 ELSE history_head + 1
      /\ history_count' = (IF history_count < H THEN history_count + 1 ELSE history_count)
  BY <1>0, NextIs, Zenon DEF history_add
<1>2. CString(Stored(Entered)) = Typed
  <2>1. Entered = Typed /\ Typed \in Seq(Printable) /\ Len(Typed) = line_len
    BY LineIs DEF Typed
  <2>2. line_len < CMD_MAX_LEN
    BY SizesAre DEF LineOK
  <2> QED BY <2>1, <2>2, StoredIs
<1>3. /\ Remembered = [k \in 1 .. history_count |-> CString(history[Place(k)])]
      /\ Remembered \in Seq(Seq(Printable)) /\ Len(Remembered) = history_count
      /\ \A k \in 1 .. history_count : Place(k) \in 0 .. H - 1
  BY RememberedIs DEF RememberedOK
<1>4. Remembered' = [k \in 1 .. history_count' |-> CString(history[Place(k)])']
  BY RememberedOKNext DEF RememberedOK
<1>5. more = [k \in 1 .. history_count + 1 |-> IF k = history_count + 1 THEN Typed ELSE Remembered[k]]
  <2>1. more = [k \in 1 .. Len(Remembered) + 1 |-> IF k = Len(Remembered) + 1 THEN Typed ELSE Remembered[k]]
    <3>1. Remembered \in Seq(Seq(Printable))
      BY <1>3
    <3>2. \A S : \A s \in Seq(S) : \A c :
            Append(s, c) = [i \in 1 .. Len(s) + 1 |-> IF i = Len(s) + 1 THEN c ELSE s[i]]
      BY AppendIs
    <3> QED BY <3>1, <3>2, Zenon
  <2>2. Len(Remembered) = history_count
    BY <1>3
  <2> HIDE DEF more
  <2> QED BY <2>1, <2>2, Zenon
<1>6. \A k : CString(history[Place(k)])' = CString(history'[Place(k)'])
  BY DEF CString
<1>7. ASSUME NEW k \in 1 .. history_count, Place(k) # history_head
      PROVE  CString(history'[Place(k)]) = Remembered[k]
  <2>1. Place(k) \in 0 .. H - 1
    BY <1>3
  <2>2. history'[Place(k)] = history[Place(k)]
    BY <1>0, <1>1, <1>7, <2>1
  <2> QED BY <1>3, <2>2
<1>8. CString(history'[history_head]) = Typed
  BY <1>0, <1>1, <1>2
<1>9. CASE history_count < H
  <2>1. history_count' = history_count + 1
    BY <1>1, <1>9
  <2>2. ASSUME NEW k \in 1 .. history_count
        PROVE  Place(k)' = Place(k) /\ Place(k) # history_head
    BY <1>0, <1>1, <1>9, <2>1 DEF Place
  <2>3. ASSUME NEW k, k = history_count + 1
        PROVE  Place(k)' = history_head
    BY <2>3, <1>0, <1>1, <1>9, <2>1 DEF Place
  <2>4. ASSUME NEW k \in 1 .. history_count + 1
        PROVE  CString(history[Place(k)])' = IF k = history_count + 1 THEN Typed ELSE Remembered[k]
    <3>1. CASE k = history_count + 1
      BY <1>6, <1>8, <2>3, <3>1
    <3>2. CASE k # history_count + 1
      <4>1. k \in 1 .. history_count
        BY <1>0, <3>2
      <4> QED BY <1>6, <1>7, <2>2, <3>2, <4>1
    <3> QED BY <3>1, <3>2
  <2>5. Remembered' = more
    BY <1>4, <1>5, <2>1, <2>4, Zenon
  <2>6. ~(Len(more) > H)
    <3>1. Len(more) = history_count + 1
      BY <1>0, <1>5
    <3> QED BY <1>0, <1>9, <3>1
  <2> QED BY <2>5, <2>6, Zenon DEF Editor!LastOf
<1>10. CASE history_count = H
  <2>1. history_count' = H
    BY <1>0, <1>1, <1>10
  <2>2. ASSUME NEW k \in 1 .. H - 1
        PROVE  Place(k)' = Place(k + 1) /\ Place(k + 1) # history_head /\ k + 1 \in 1 .. history_count
    BY <1>0, <1>1, <1>10, <2>1 DEF Place
  <2>3. Place(H)' = history_head
    BY <1>0, <1>1, <1>10, <2>1 DEF Place
  <2>4. ASSUME NEW k \in 1 .. H
        PROVE  CString(history[Place(k)])' = IF k = H THEN Typed ELSE Remembered[k + 1]
    <3>1. CASE k = H
      BY <1>6, <1>8, <2>3, <3>1
    <3>2. CASE k # H
      <4>1. k \in 1 .. H - 1
        BY <1>0, <3>2
      <4>2. CString(history[Place(k)])' = CString(history'[Place(k + 1)])
        BY <1>6, <2>2, <4>1
      <4> QED BY <1>7, <2>2, <3>2, <4>1, <4>2
    <3> QED BY <3>1, <3>2
  <2>5. more \in Seq(Seq(Printable)) /\ Len(more) = H + 1
    <3>1. Typed \in Seq(Printable)
      BY LineIs DEF Typed
    <3> QED BY <1>0, <1>3, <1>10, <3>1, AppendProperties
  <2>6. Tail(more) = [k \in 1 .. H |-> more[k + 1]]
    <3> HIDE DEF more
    <3>1. Len(more) # 0 /\ Len(more) - 1 = H
      BY <1>0, <2>5
    <3> QED BY <2>5, <3>1, TailIs
  <2>7. ASSUME NEW k \in 1 .. H PROVE more[k + 1] = IF k = H THEN Typed ELSE Remembered[k + 1]
    BY <1>0, <1>5, <1>10
  <2> HIDE DEF more
  <2>8. Remembered' = Tail(more)
    BY <1>4, <2>1, <2>4, <2>6, <2>7
  <2>9. Len(more) > H
    BY <1>0, <2>5
  <2> QED BY <2>8, <2>9, Zenon DEF Editor!LastOf, more
<1> QED BY <1>0, <1>9, <1>10

(* The line an arrow recalls.                                               *)
LEMMA RecallIs ==
  ASSUME PastOK, NEW i \in 0 .. HISTORY_SIZE - 1, Age(i) < history_count
  PROVE  Remembered[Len(Remembered) + 1 - (Age(i) + 1)] = CString(history[i])
<1>0. /\ history_head \in 0 .. HISTORY_SIZE - 1 /\ history_count \in 0 .. HISTORY_SIZE
      /\ HISTORY_SIZE \in Nat \ {0}
  BY HistorySize DEF PastOK
<1>1. Age(i) = IF i < history_head THEN history_head - 1 - i ELSE history_head - 1 - i + HISTORY_SIZE
  BY <1>0, AgeIs DEF Age
<1>2. history_count - Age(i) \in 1 .. history_count /\ Place(history_count - Age(i)) = i
  BY <1>0, <1>1 DEF Place
<1>3. Remembered[history_count - Age(i)] = CString(history[i])
  BY <1>2, RememberedIs DEF RememberedOK
<1>4. Len(Remembered) + 1 - (Age(i) + 1) = history_count - Age(i)
  <2>1. Len(Remembered) = history_count
    BY RememberedIs DEF RememberedOK
  <2> QED BY <1>0, <1>1, <2>1
<1> QED BY <1>3, <1>4

-----------------------------------------------------------------------------
(* Every step of the console is a step of the editor, or none.              *)

\* A handler runs while there is a command to run.
JobOK == main = "handler" <=> job \in Names

LEMMA JobStep ==
  ASSUME JobOK, [Next]_vars
  PROVE  JobOK'
<1>0. <<"PROMPT">> \notin Names
  BY NamesAssumption
<1>1. UNCHANGED <<main, job>> => JobOK'
  BY DEF JobOK
<1>2. main # "handler" /\ main' # "handler" /\ UNCHANGED job => JobOK'
  BY DEF JobOK
<1>3. ASSUME NEW b \in Byte, Enter(b) PROVE JobOK'
  <2>1. main # "handler"
    BY <1>3 DEF Enter, Get
  <2>2. (job' \in Names /\ main' = "handler") \/ (~(job' \in Names) /\ UNCHANGED main)
    BY <1>3, Zenon DEF Enter
  <2> QED BY <2>1, <2>2 DEF JobOK
<1>4. ASSUME HandlerReturns \/ UsbStops PROVE JobOK'
  <2>1. main' = "poll" /\ job' = <<"PROMPT">>
    BY <1>4, Zenon DEF HandlerReturns, UsbStops, Return
  <2>2. main' # "handler" /\ job' \notin Names
    BY <1>0, <2>1
  <2> QED BY <2>2 DEF JobOK
<1>5. ASSUME NEW b \in Byte,
             \/ Type(b) \/ Backspace(b) \/ cmd_tab_completion(b) \/ FormFeed(b) \/ Control(b) \/ Arrow(b) \/ EscapeByte(b)
      PROVE  UNCHANGED <<main, job>>
  BY <1>5, Zenon DEF Type, Backspace, cmd_tab_completion, FormFeed, Control, Arrow, EscapeByte
<1>6. ASSUME Drained \/ Polled PROVE main # "handler" /\ main' # "handler" /\ UNCHANGED job
  <2>1. main \in {"drain", "poll"} /\ main' \in {"drain", "poll"} /\ UNCHANGED job
    BY <1>6, Zenon DEF Drained, Polled
  <2> QED BY <2>1
<1>7. ASSUME (\E k \in Keys : Press(k)) \/ Drain \/ UNCHANGED vars PROVE UNCHANGED <<main, job>>
  BY <1>7, Zenon DEF Press, Drain, vars
<1> QED BY <1>1, <1>2, <1>3, <1>4, <1>5, <1>6, <1>7, NextCases, Zenon

LEMMA PastSame == UNCHANGED past => UNCHANGED <<Remembered, Cursor>>
BY RememberedSame DEF past, Cursor, Age

LEMMA TakeIs ==
  ASSUME RingOK, RingOK', JobOK, NEW b, Get(b)
  PROVE  Editor!Take(b) /\ ~Editor!Busy
<1>1. Waiting # <<>> /\ b = Head(Waiting) /\ Waiting' = Tail(Waiting)
  BY PopIs
<1>2. main # "handler" /\ UNCHANGED interrupt_flag
  BY DEF Get
<1>3. ~Editor!Busy
  BY <1>2 DEF JobOK, Editor!Busy
<1> QED BY <1>1, <1>2, <1>3, Zenon DEF Editor!Take

LEMMA KeysDiffer ==
  ASSUME NEW b
  PROVE  /\ b \in Printable => b \notin {NUL, "ESC", "ETX", "CR", "BS", "TAB", "FF"}
         /\ "ETX" # NUL
BY ConsoleAssumption

LEMMA ArriveRefines ==
  ASSUME RingOK, RingOK', JobOK, Drain
  PROVE  Head(fifo) \in Byte /\ Editor!Arrive(Head(fifo))
<1> DEFINE b == Head(fifo)
<1>0. b \in Byte
  <2>1. fifo # <<>> /\ fifo \in Seq(Byte)
    BY DEF Drain, RingOK
  <2> QED BY <2>1
<1> HIDE DEF b
<1>1. main = "drain" /\ console_push(b) /\ UNCHANGED <<rx_tail, text, past, job>>
  BY Zenon DEF Drain, b
<1> SUFFICES Editor!Arrive(b)
  BY <1>0 DEF b
<1>2. ~Editor!Busy
  BY <1>1 DEF JobOK, Editor!Busy
<1>3. UNCHANGED <<Typed, Remembered, Cursor, esc_state, job>>
  BY <1>1, LineSame, PastSame DEF text
<1>4. CASE b = NUL
  <2>1. b # "ETX" /\ UNCHANGED <<ring, interrupt_flag>>
    BY <1>1, <1>4, KeysDiffer DEF console_push, ring
  <2>2. interrupt_flag' = (interrupt_flag \/ b = "ETX")
    BY <2>1 DEF RingOK
  <2>3. Waiting' = Waiting
    BY <2>1, WaitingSame
  <2> QED BY <1>2, <1>3, <1>4, <2>2, <2>3, Zenon DEF Editor!Arrive
<1>5. CASE b = "ETX"
  <2>1. b # NUL
    BY <1>5, KeysDiffer
  <2>2. interrupt_flag' = TRUE /\ UNCHANGED ring
    BY <1>1, <1>5, <2>1, Zenon DEF console_push, ring
  <2>3. interrupt_flag' = (interrupt_flag \/ b = "ETX")
    BY <1>5, <2>2 DEF RingOK
  <2>4. Waiting' = Waiting
    BY <2>2, WaitingSame
  <2> QED BY <1>2, <1>3, <1>5, <2>3, <2>4, Zenon DEF Editor!Arrive
<1>6. CASE b # NUL /\ b # "ETX"
  <2>1. Queued(b) /\ UNCHANGED interrupt_flag
    BY <1>1, <1>6, Zenon DEF console_push
  <2>2. interrupt_flag' = (interrupt_flag \/ b = "ETX")
    BY <1>6, <2>1 DEF RingOK
  <2>3. Waiting' = IF Len(Waiting) = RXBUF_SIZE - 1 THEN Waiting ELSE Append(Waiting, b)
    BY <1>1, <2>1, PushIs
  <2> QED BY <1>2, <1>3, <1>6, <2>2, <2>3, Zenon DEF Editor!Arrive
<1> QED BY <1>4, <1>5, <1>6

LEMMA EditorWords ==
  ASSUME NEW w
  PROVE  /\ Editor!Starting(w) = Starting(w)
         /\ Editor!Word(w) = Word(w)
<1>1. Editor!Starting(w) = Starting(w)
  BY Zenon DEF Starting, Editor!Starting, IsPrefix, Editor!IsPrefix
<1>2. Editor!Word(w) = Word(w)
  BY Zenon DEF Word, Editor!Word, Min, Editor!Min
<1> QED BY <1>1, <1>2

LEMMA EditorCounts == \A S : Editor!Cardinality(S) = Cardinality(S)
BY Zenon DEF Cardinality, Editor!Cardinality

LEMMA EditorCompleted ==
  ASSUME NEW w
  PROVE  Editor!Completed(w) = Completed(w)
<1> DEFINE First(S) == CHOOSE n \in S : TRUE
<1>1. Completed(w) = IF Cardinality(Starting(w)) = 1 THEN First(Starting(w)) ELSE w
  BY DEF Completed
<1>2. Editor!Completed(w)
        = IF Editor!Cardinality(Editor!Starting(w)) = 1 THEN First(Editor!Starting(w)) ELSE w
  BY DEF Editor!Completed
<1> HIDE DEF First
<1> QED BY <1>1, <1>2, EditorWords, EditorCounts

LEMMA EditorResolve ==
  ASSUME NEW w
  PROVE  Editor!Resolve(w) = Resolve(w)
<1> DEFINE First(S) == CHOOSE n \in S : TRUE
           R(found, v, size) ==
             CASE w = <<>> -> <<"PROMPT">>
               [] w # <<>> /\ found = {} -> <<"UNKNOWN">>
               [] w # <<>> /\ v \in Names -> v
               [] w # <<>> /\ v \notin Names /\ size = 1 -> First(found)
               [] OTHER -> <<"AMBIGUOUS">>
<1>1. Resolve(w) = R(Starting(Word(w)), Word(w), Cardinality(Starting(Word(w))))
  BY Zenon DEF Resolve
<1>2. Editor!Resolve(w) = R(Editor!Starting(Editor!Word(w)), Editor!Word(w),
                            Editor!Cardinality(Editor!Starting(Editor!Word(w))))
  BY Zenon DEF Editor!Resolve
<1> HIDE DEF R
<1> QED BY <1>1, <1>2, EditorWords, EditorCounts

LEMMA EditRefines ==
  ASSUME ConsoleInv, ConsoleInv', JobOK, NEW b,
         Type(b) \/ Backspace(b) \/ cmd_tab_completion(b) \/ FormFeed(b) \/ Control(b)
  PROVE  Editor!Edit(b)
<1>0. RingOK /\ RingOK' /\ LineOK /\ LineOK'
  BY Parts, PartsNext
<1>1. Get(b) /\ esc_state = 0 /\ UNCHANGED <<past, job, esc_state>>
  BY Zenon DEF Type, Backspace, cmd_tab_completion, FormFeed, Control, text
<1>2. Editor!Take(b) /\ esc_state = 0 /\ UNCHANGED <<Remembered, Cursor, esc_state, job>>
  BY <1>0, <1>1, TakeIs, PastSame, Zenon
<1>3. CASE Type(b)
  <2>1. b \in Printable
    BY <1>3, Zenon DEF Type
  <2>2. b # "CR" /\ b # "ESC" /\ b # "BS" /\ b # "TAB" /\ b # "FF"
    BY <2>1, KeysDiffer
  <2>3. Typed' = IF Len(Typed) < CMD_MAX_LEN - 1 THEN Append(Typed, b) ELSE Typed
    BY <1>0, <1>3, TypeIs
  <2> QED BY <1>2, <2>1, <2>2, <2>3, Zenon DEF Editor!Edit
<1>4. CASE Backspace(b)
  <2>1. b = "BS"
    BY <1>4, Zenon DEF Backspace
  <2>2. b # "CR" /\ b # "ESC" /\ b \notin Printable /\ b # "TAB" /\ b # "FF"
    BY <2>1, KeysDiffer
  <2>3. Typed' = IF Typed = <<>> THEN Typed ELSE Front(Typed)
    BY <1>0, <1>4, BackspaceIs
  <2>4. Editor!Front(Typed) = Front(Typed)
    BY DEF Editor!Front, Front
  <2> QED BY <1>2, <2>1, <2>2, <2>3, <2>4, Zenon DEF Editor!Edit
<1>5. CASE cmd_tab_completion(b)
  <2>1. b = "TAB"
    BY <1>5, Zenon DEF cmd_tab_completion
  <2>2. b # "CR" /\ b # "ESC" /\ b \notin Printable /\ b # "BS" /\ b # "FF"
    BY <2>1, KeysDiffer
  <2>3. Typed' = Editor!Completed(Typed)
    BY <1>0, <1>5, TabIs, EditorCompleted
  <2> QED BY <1>2, <2>1, <2>2, <2>3, Zenon DEF Editor!Edit
<1>6. CASE FormFeed(b)
  <2>1. b = "FF" /\ cmd_prompt
    BY <1>6, Zenon DEF FormFeed
  <2>2. b # "CR" /\ b # "ESC" /\ b \notin Printable /\ b # "BS" /\ b # "TAB"
    BY <2>1, KeysDiffer
  <2>3. Typed' = <<>>
    BY <2>1, PromptIs DEF Typed
  <2> QED BY <1>2, <2>1, <2>2, <2>3, Zenon DEF Editor!Edit
<1>7. CASE Control(b)
  <2>1. b \notin Printable \cup {"CR", "BS", "TAB", "FF", "ESC"} /\ UNCHANGED line_buf
    BY <1>7, Zenon DEF Control, text
  <2>2. b # "CR" /\ b # "ESC" /\ b \notin Printable /\ b # "BS" /\ b # "TAB" /\ b # "FF"
    BY <2>1
  <2>3. Typed' = Typed
    BY <2>1, LineSame
  <2> QED BY <1>2, <2>2, <2>3, Zenon DEF Editor!Edit
<1> QED BY <1>3, <1>4, <1>5, <1>6, <1>7

LEMMA EnterRefines ==
  ASSUME ConsoleInv, ConsoleInv', JobOK, NEW b, Enter(b)
  PROVE  Editor!Enter(b)
<1>0. RingOK /\ RingOK' /\ LineOK /\ LineOK' /\ PastOK /\ PastOK'
  BY Parts, PartsNext
<1>1. Editor!Take(b) /\ esc_state = 0 /\ b = "CR" /\ UNCHANGED esc_state
  BY <1>0, TakeIs, Zenon DEF Enter
<1>2. Entered = Typed
  BY <1>0, LineIs DEF Typed
<1>3. job' = Editor!Resolve(Typed)
  <2>1. job' = Resolve(Typed)
    BY <1>2, Zenon DEF Enter
  <2> QED BY <2>1, EditorResolve
<1>4. Typed' = IF job' \in Names THEN Typed ELSE <<>>
  <2>1. CASE job' \in Names
    <3>1. UNCHANGED line_buf
      BY <2>1, Zenon DEF Enter
    <3> QED BY <2>1, <3>1, LineSame
  <2>2. CASE ~(job' \in Names)
    <3>1. cmd_prompt
      BY <2>2, Zenon DEF Enter
    <3> QED BY <2>2, <3>1, PromptIs DEF Typed
  <2> QED BY <2>1, <2>2
<1>5. CASE Typed = <<>>
  <2>1. UNCHANGED past
    BY <1>2, <1>5, Zenon DEF Enter
  <2>2. UNCHANGED <<Remembered, Cursor>>
    BY <2>1, PastSame
  <2> QED BY <1>1, <1>3, <1>4, <1>5, <2>2, Zenon DEF Editor!Enter
<1>6. CASE Typed # <<>>
  <2>1. history_add
    BY <1>2, <1>6, Zenon DEF Enter
  <2>2. Remembered' = Editor!LastOf(Append(Remembered, Typed))
    BY <1>0, <2>1, AddRefines
  <2>3. Cursor' = 0
    <3>1. history_index' = -1
      BY <2>1, Zenon DEF history_add
    <3>2. history_index' < 0
      BY <3>1
    <3> QED BY <3>2, Zenon DEF Cursor
  <2> QED BY <1>1, <1>3, <1>4, <1>6, <2>2, <2>3, Zenon DEF Editor!Enter
<1> QED BY <1>5, <1>6

LEMMA ArrowRefines ==
  ASSUME ConsoleInv, ConsoleInv', JobOK, NEW b, Arrow(b)
  PROVE  Editor!Arrow(b)
<1>0. RingOK /\ RingOK' /\ LineOK /\ LineOK' /\ PastOK /\ PastOK'
  BY Parts, PartsNext
<1>1. Editor!Take(b) /\ esc_state = 2 /\ esc_state' = 0
  BY <1>0, TakeIs, Zenon DEF Arrow
<1>2. UNCHANGED <<history, history_head, history_count, job>>
  BY Zenon DEF Arrow
<1>3. Remembered' = Remembered /\ \A i : Age(i)' = (history_head - 1 - i' + HISTORY_SIZE) % HISTORY_SIZE
  BY <1>2, RememberedSame DEF Age
<1>4. /\ history_count \in 0 .. HISTORY_SIZE /\ HISTORY_SIZE \in Nat \ {0} /\ Len(Remembered) = history_count
      /\ (Remembered # <<>> <=> history_count # 0)
  <2>1. Len(Remembered) = history_count /\ Remembered \in Seq(Seq(Printable))
    BY <1>0, RememberedIs DEF RememberedOK
  <2>2. Remembered # <<>> <=> Len(Remembered) # 0
    BY <2>1
  <2> QED BY <1>0, <2>1, <2>2, HistorySize DEF PastOK
<1>5. /\ history_index = -1 => Cursor = 0
      /\ history_index # -1 =>
           /\ history_index \in 0 .. HISTORY_SIZE - 1 /\ Cursor = Age(history_index) + 1
           /\ Age(history_index) \in 0 .. history_count - 1
  <2>1. CASE history_index = -1
    BY <2>1 DEF Cursor
  <2>2. CASE history_index # -1
    <3>1. history_index \in 0 .. HISTORY_SIZE - 1 /\ ~(history_index < 0)
      BY <1>0, <2>2, HistorySize DEF PastOK
    <3>2. Age(history_index) \in Nat
      BY <1>0, <3>1, HistorySize, AgeIs DEF PastOK, Age
    <3>3. Age(history_index) < history_count
      BY <1>0, <2>2, EntriesAre DEF PastOK, Entry
    <3>4. Cursor = Age(history_index) + 1
      BY <3>1, Zenon DEF Cursor
    <3> QED BY <1>4, <2>2, <3>1, <3>2, <3>3, <3>4
  <2> QED BY <2>1, <2>2
<1>6. ASSUME history_index' \in 0 .. HISTORY_SIZE - 1, line_load(history[history_index']),
             Age(history_index') \in 0 .. history_count - 1
      PROVE  Cursor' = Age(history_index') + 1 /\ Cursor' # 0 /\ Typed' = Remembered[Len(Remembered) + 1 - Cursor']
  <2>1. ~(history_index' < 0)
    BY <1>4, <1>6
  <2>2. Cursor' = Age(history_index') + 1
    <3>1. Cursor' = ((history_head' - 1 - history_index' + HISTORY_SIZE) % HISTORY_SIZE) + 1
      BY <2>1, Zenon DEF Cursor, Age
    <3>2. Age(history_index') = (history_head - 1 - history_index' + HISTORY_SIZE) % HISTORY_SIZE
      BY Zenon DEF Age
    <3> QED BY <1>2, <3>1, <3>2
  <2>3. /\ history[history_index'] \in Text
        /\ history[history_index'][CMD_MAX_LEN - 1] = NUL
    <3>1. Entry(history_index')
      BY <1>4, <1>6 DEF Entry
    <3>2. history \in [0 .. HISTORY_SIZE - 1 -> Text]
      BY <1>0 DEF PastOK
    <3>3. history_index' \in DOMAIN history
      BY <1>6, <3>2
    <3> QED BY <1>0, <1>6, <3>1, <3>2, <3>3, EntriesAre DEF PastOK
  <2>4. Typed' = CString(history[history_index'])
    BY <1>6, <2>3, LoadIs DEF Typed
  <2>5. Remembered[Len(Remembered) + 1 - (Age(history_index') + 1)] = CString(history[history_index'])
    BY <1>0, <1>4, <1>6, RecallIs
  <2>6. Age(history_index') + 1 # 0
    BY <1>4, <1>6
  <2> QED BY <2>2, <2>4, <2>5, <2>6
<1>7. CASE b = "A"
  <2>1. history_prev
    BY <1>7, Zenon DEF Arrow
  <2>2. CASE history_count = 0
    <3>1. UNCHANGED <<history_index, line_buf>>
      BY <2>1, <2>2, Zenon DEF history_prev
    <3>2. UNCHANGED <<Typed, Cursor>>
      BY <1>2, <3>1, LineSame DEF Cursor, Age
    <3>3. b # "B" /\ ~(Remembered # <<>>)
      BY <1>4, <1>7, <2>2
    <3> QED BY <1>1, <1>2, <1>3, <3>2, <3>3, Zenon DEF Editor!Arrow
  <2>3. CASE history_count # 0
    <3>1. /\ history_index' \in 0 .. HISTORY_SIZE - 1 /\ line_load(history[history_index'])
          /\ Age(history_index') = IF history_index = -1 THEN 0
                                   ELSE IF Age(history_index) = history_count - 1 THEN Age(history_index)
                                   ELSE Age(history_index) + 1
      BY <1>0, <2>1, <2>3, PrevIs
    <3>2. Age(history_index') \in 0 .. history_count - 1
      BY <1>4, <1>5, <2>3, <3>1
    <3>3. Cursor' = Age(history_index') + 1 /\ Cursor' # 0 /\ Typed' = Remembered[Len(Remembered) + 1 - Cursor']
      BY <1>6, <3>1, <3>2
    <3>4. Cursor' = Editor!Min({Cursor + 1, Len(Remembered)})
      <4>1. Cursor \in 0 .. history_count
        BY <1>4, <1>5
      <4>2. Cursor' = IF Cursor + 1 <= history_count THEN Cursor + 1 ELSE history_count
        BY <1>4, <1>5, <2>3, <3>1, <3>3
      <4>3. Min({Cursor + 1, Len(Remembered)}) = IF Cursor + 1 <= Len(Remembered) THEN Cursor + 1 ELSE Len(Remembered)
        BY <1>4, <4>1, MinOfTwo
      <4> QED BY <1>4, <4>2, <4>3 DEF Min, Editor!Min
    <3>5. Editor!Recall(Editor!Min({Cursor + 1, Len(Remembered)}))
      BY <3>3, <3>4, Zenon DEF Editor!Recall
    <3>6. ~(b = "B") /\ Remembered # <<>>
      BY <1>4, <1>7, <2>3
    <3> QED BY <1>1, <1>2, <1>3, <1>7, <3>5, <3>6, Zenon DEF Editor!Arrow
  <2> QED BY <2>2, <2>3
<1>8. CASE b = "B"
  <2>0. b # "A"
    BY <1>8
  <2>1. history_next
    BY <1>8, Zenon DEF Arrow
  <2>2. CASE history_index = -1
    <3>0. history_index < 0
      BY <2>2
    <3>1. UNCHANGED <<history_index, line_buf>>
      BY <2>1, <3>0, Zenon DEF history_next
    <3>2. UNCHANGED <<Typed, Cursor>>
      BY <1>2, <3>1, LineSame DEF Cursor, Age
    <3>3. Cursor = 0
      BY <1>5, <2>2
    <3> QED BY <1>1, <1>2, <1>3, <2>0, <3>2, <3>3, Zenon DEF Editor!Arrow
  <2>3. CASE history_index # -1
    <3>1. Cursor # 0 /\ Cursor = Age(history_index) + 1 /\ Age(history_index) \in 0 .. history_count - 1
      BY <1>4, <1>5, <2>3
    <3>2. CASE Age(history_index) = 0 /\ history_index' = -1 /\ line_load(Stored(<<>>))
      <4>1. Typed' = <<>>
        BY <3>2, PromptLoad DEF Typed
      <4>2. history_index' < 0
        BY <3>2
      <4>3. Cursor' = 0
        BY <4>2, Zenon DEF Cursor
      <4>4. Cursor - 1 = 0
        BY <3>1, <3>2
      <4>5. Editor!Recall(Cursor - 1)
        BY <4>1, <4>3, <4>4, Zenon DEF Editor!Recall
      <4> QED BY <1>1, <1>2, <1>3, <1>8, <2>0, <3>1, <4>5, Zenon DEF Editor!Arrow
    <3>3. CASE /\ Age(history_index) # 0
               /\ history_index' \in 0 .. HISTORY_SIZE - 1 /\ line_load(history[history_index'])
               /\ Age(history_index') = Age(history_index) - 1
      <4>1. Age(history_index') \in 0 .. history_count - 1
        BY <1>4, <3>1, <3>3
      <4>2. Cursor' = Age(history_index') + 1 /\ Cursor' # 0 /\ Typed' = Remembered[Len(Remembered) + 1 - Cursor']
        BY <1>6, <3>3, <4>1
      <4>3. Cursor - 1 = Cursor'
        BY <1>4, <3>1, <3>3, <4>2
      <4>4. Editor!Recall(Cursor - 1)
        BY <4>2, <4>3, Zenon DEF Editor!Recall
      <4> QED BY <1>1, <1>2, <1>3, <1>8, <2>0, <3>1, <4>4, Zenon DEF Editor!Arrow
    <3> QED BY <1>0, <2>1, <2>3, <3>2, <3>3, NextLineIs
  <2> QED BY <2>2, <2>3
<1>9. CASE b # "A" /\ b # "B"
  <2>1. UNCHANGED <<history_index, line_buf>>
    BY <1>9, Zenon DEF Arrow
  <2>2. UNCHANGED <<Typed, Cursor>>
    BY <1>2, <2>1, LineSame DEF Cursor, Age
  <2> QED BY <1>1, <1>2, <1>3, <1>9, <2>2, Zenon DEF Editor!Arrow
<1> QED BY <1>7, <1>8, <1>9

LEMMA EscapeRefines ==
  ASSUME ConsoleInv, ConsoleInv', JobOK, NEW b, EscapeByte(b)
  PROVE  Editor!EscapeByte(b)
<1>0. RingOK /\ RingOK'
  BY Parts, PartsNext
<1>1. Editor!Take(b) /\ UNCHANGED <<line_buf, past, job>>
  BY <1>0, TakeIs, Zenon DEF EscapeByte
<1>2. UNCHANGED <<Typed, Remembered, Cursor, job>>
  BY <1>1, LineSame, PastSame
<1>3. \/ esc_state = 0 /\ b = "ESC" /\ esc_state' = 1
      \/ esc_state = 1 /\ b = "[" /\ esc_state' = 2
      \/ esc_state = 1 /\ b # "[" /\ esc_state' = 0
  BY Zenon DEF EscapeByte
<1>4. /\ esc_state' = CASE esc_state = 0 /\ b = "ESC" -> 1
                         [] esc_state = 1 /\ b = "[" -> 2
                         [] esc_state = 1 /\ b # "[" -> 0
                         [] OTHER -> -1
      /\ esc_state' # -1
  BY <1>3
<1> QED BY <1>1, <1>2, <1>4, Zenon DEF Editor!EscapeByte

LEMMA PolledRefines ==
  ASSUME ConsoleInv, JobOK, Polled
  PROVE  Editor!Cancel \/ UNCHANGED Editor!vars
<1>0. RingOK /\ interrupt_flag \in BOOLEAN
  BY Parts DEF RingOK
<1>1. main = "poll" /\ console_rx_empty /\ interrupt_flag' = FALSE /\ UNCHANGED <<ring, past, esc_state, job>>
  BY Zenon DEF Polled
<1>2. UNCHANGED <<Waiting, Remembered, Cursor>>
  BY <1>1, WaitingSame, PastSame
<1>3. CASE interrupt_flag
  <2>1. Typed' = <<>>
    BY <1>3, PromptIs, Zenon DEF Polled, Typed
  <2>2. Waiting = <<>>
    <3>1. Len(Waiting) = 0 /\ Waiting \in Seq(Byte \cup {NUL})
      BY <1>0, <1>1, WaitingIs DEF WaitingOK, console_rx_empty, RingOK
    <3> QED BY <3>1
  <2>3. ~Editor!Busy
    BY <1>1 DEF JobOK, Editor!Busy
  <2> QED BY <1>1, <1>2, <1>3, <2>1, <2>2, <2>3, Zenon DEF Editor!Cancel
<1>4. CASE ~interrupt_flag
  <2>1. UNCHANGED <<line_buf, interrupt_flag>>
    <3>1. UNCHANGED line_buf
      BY <1>4, Zenon DEF Polled
    <3> QED BY <1>0, <1>1, <1>4, <3>1
  <2>2. UNCHANGED Typed
    BY <2>1, LineSame
  <2> QED BY <1>1, <1>2, <2>1, <2>2 DEF Editor!vars
<1> QED BY <1>3, <1>4

LEMMA FinishRefines ==
  ASSUME JobOK, HandlerReturns \/ UsbStops
  PROVE  Editor!Finish
<1>1. main = "handler" /\ Return
  BY Zenon DEF HandlerReturns, UsbStops
<1>2. job' = <<"PROMPT">> /\ cmd_prompt /\ UNCHANGED <<ring, interrupt_flag, esc_state, past>>
  BY <1>1, Zenon DEF Return
<1>3. Editor!Busy
  BY <1>1 DEF JobOK, Editor!Busy
<1>4. Typed' = <<>> /\ UNCHANGED <<Waiting, Remembered, Cursor>>
  BY <1>2, PromptIs, WaitingSame, PastSame DEF Typed
<1> QED BY <1>2, <1>3, <1>4, Zenon DEF Editor!Finish

LEMMA StepRefines ==
  ASSUME ConsoleInv, ConsoleInv', JobOK, [Next]_vars
  PROVE  [Editor!Next]_(Editor!vars)
<1>1. ASSUME Drain PROVE Editor!Next
  BY <1>1, ArriveRefines, Parts, PartsNext, Zenon DEF Editor!Next
<1>2. ASSUME NEW b \in Byte,
             \/ Type(b) \/ Backspace(b) \/ cmd_tab_completion(b) \/ FormFeed(b) \/ Control(b)
             \/ Enter(b) \/ Arrow(b) \/ EscapeByte(b)
      PROVE  Editor!Next
  BY <1>2, EditRefines, EnterRefines, ArrowRefines, EscapeRefines, Zenon DEF Editor!Next
<1>3. ASSUME HandlerReturns \/ UsbStops PROVE Editor!Next
  BY <1>3, FinishRefines, Zenon DEF Editor!Next
<1>4. ASSUME Polled PROVE Editor!Next \/ UNCHANGED Editor!vars
  BY <1>4, PolledRefines, Zenon DEF Editor!Next
<1>5. ASSUME (\E k \in Keys : Press(k)) \/ Drained \/ UNCHANGED vars PROVE UNCHANGED Editor!vars
  <2>1. UNCHANGED <<ring, interrupt_flag, line_buf, esc_state, past, job>>
    BY <1>5, Zenon DEF Press, Drained, vars, text
  <2>2. UNCHANGED <<Waiting, Typed, Remembered, Cursor>>
    BY <2>1, WaitingSame, LineSame, PastSame
  <2> QED BY <2>1, <2>2 DEF Editor!vars
<1> QED BY <1>1, <1>2, <1>3, <1>4, <1>5, NextCases, Zenon

(* console.c and cmd.c keep what a user of the console relies on: a queue   *)
(* that loses the newest bytes, a line and a list of the last lines.        *)
THEOREM Refinement == Spec => ImplementsEditor
<1>1. Init => Editor!Init /\ JobOK
  <2> SUFFICES ASSUME Init PROVE Editor!Init /\ JobOK
    OBVIOUS
  <2>1. ConsoleInv
    BY InitOK
  <2>2. Typed = <<>> /\ interrupt_flag = FALSE /\ esc_state = 0 /\ job = <<"PROMPT">>
    <3>1. line_buf = Stored(<<>>) /\ interrupt_flag = FALSE /\ esc_state = 0 /\ job = <<"PROMPT">>
      BY Zenon DEF Init
    <3> QED BY <3>1, NothingStored DEF Typed
  <2>3. rx_head = 0 /\ rx_tail = 0 /\ history_count = 0 /\ history_index = -1 /\ main = "drain"
    BY Zenon DEF Init
  <2>4. Waiting = <<>>
    <3>1. Len(Waiting) = 0 /\ Waiting \in Seq(Byte \cup {NUL})
      BY <2>1, <2>3, Parts, WaitingIs DEF WaitingOK
    <3> QED BY <3>1
  <2>5. Remembered = <<>>
    <3>1. Len(Remembered) = 0 /\ Remembered \in Seq(Seq(Printable))
      BY <2>1, <2>3, Parts, RememberedIs DEF RememberedOK
    <3> QED BY <3>1
  <2>6. Cursor = 0
    BY <2>3 DEF Cursor
  <2>7. JobOK
    BY <2>2, <2>3, NamesAssumption DEF JobOK
  <2> QED BY <2>2, <2>4, <2>5, <2>6, <2>7, Zenon DEF Editor!Init
<1>2. JobOK /\ [Next]_vars => JobOK'
  BY JobStep
<1>3. ConsoleInv /\ ConsoleInv' /\ JobOK /\ [Next]_vars => [Editor!Next]_(Editor!vars)
  BY StepRefines
<1> QED BY ConsoleInvHolds, <1>1, <1>2, <1>3, PTL DEF Spec, ImplementsEditor, Editor!Spec
=============================================================================
