------------------------------- MODULE Console -------------------------------
(***************************************************************************)
(* The main loop of the bootloader with its console: the receiver of the    *)
(* UART (uart.c), the ring of received bytes (console.c), and the line, its *)
(* history and the search for a command (cmd.c).                            *)
(*                                                                         *)
(* Nothing here runs from an interrupt: main() empties the receiver into    *)
(* the ring, then cmd_poll() empties the ring.  Bytes arrive at any time,   *)
(* also while a command runs.  A step takes one byte.                       *)
(***************************************************************************)
EXTENDS CommandNames

CONSTANTS
  NUL, Printable,
  Keys,         \* what the terminal sends at a time: sequences of bytes
  MaxKeys,      \* bound: so many keys in a behaviour
  FIFO_DEPTH,   \* bytes the receiver of the UART holds
  RXBUF_SIZE, CMD_MAX_LEN, HISTORY_SIZE

ASSUME ConsoleAssumption ==
  /\ RXBUF_SIZE \in Nat \ {0} /\ HISTORY_SIZE \in Nat \ {0} /\ FIFO_DEPTH \in Nat \ {0}
  /\ MaxKeys \in Nat /\ CMD_MAX_LEN \in Nat
  /\ \A k \in Keys : k \in Seq(Range(k))
  /\ {NUL, "ESC", "ETX", "CR", "BS", "TAB", "FF"} \cap Printable = {}
  /\ NUL \notin {"ESC", "ETX", "CR", "BS", "TAB", "FF"}
  /\ \A n \in Names : Len(n) < CMD_MAX_LEN /\ \A i \in DOMAIN n : n[i] \in Printable \ {" "}

VARIABLES
  keys,           \* keys pressed so far
  fifo,           \* the receiver of the UART
  rx_buf, rx_head, rx_tail, interrupt_flag,
  line_buf, line_len, esc_state,
  history, history_head, history_count, history_index,
  main,           \* "drain", "poll", or "handler" while a command runs
  job,            \* the command, or the outcome of the last Enter
  shown,          \* what the terminal shows after the prompt
  garbled         \* the line holds the echo ^X of a control character

ring == <<rx_buf, rx_head, rx_tail>>
text == <<line_buf, line_len, esc_state>>
past == <<history, history_head, history_count, history_index>>
screen == <<shown, garbled>>
vars == <<keys, fifo, ring, interrupt_flag, text, past, main, job, screen>>

Byte == UNION {Range(k) : k \in Keys}
At == 0 .. CMD_MAX_LEN - 1

(* A string in C ends at its first NUL.                                     *)
CString(buf) ==
  LET end == Min({i \in At : buf[i] = NUL} \cup {CMD_MAX_LEN}) IN [i \in 1 .. end |-> buf[i - 1]]

(* A string stored the way strncpy() does: the rest of the array is zeroed. *)
Stored(s) == [i \in At |-> IF i < Len(s) THEN s[i + 1] ELSE NUL]

Init ==
  /\ keys = 0 /\ fifo = <<>>
  /\ rx_buf = [i \in 0 .. RXBUF_SIZE - 1 |-> NUL] /\ rx_head = 0 /\ rx_tail = 0
  /\ interrupt_flag = FALSE
  /\ line_buf = Stored(<<>>) /\ line_len = 0 /\ esc_state = 0
  /\ history = [i \in 0 .. HISTORY_SIZE - 1 |-> Stored(<<>>)]
  /\ history_head = 0 /\ history_count = 0 /\ history_index = -1
  /\ main = "drain" /\ job = <<"PROMPT">> /\ shown = <<>> /\ garbled = FALSE

-----------------------------------------------------------------------------
(* The receiver and the ring.                                               *)

(* Bytes arrive; those the receiver has no room for are overrun.            *)
Press(k) ==
  /\ keys < MaxKeys
  /\ keys' = keys + 1
  /\ fifo' = SubSeq(fifo \o k, 1, Min({Len(fifo \o k), FIFO_DEPTH}))
  /\ UNCHANGED <<ring, interrupt_flag, text, past, main, job, screen>>

NewLine == shown' = <<>> /\ garbled' = FALSE

Queued(c) ==
  LET next == (rx_head + 1) % RXBUF_SIZE
  IN IF next # rx_tail
     THEN rx_buf' = [rx_buf EXCEPT ![rx_head] = c] /\ rx_head' = next
     ELSE UNCHANGED <<rx_buf, rx_head>>

console_push(c) ==
  CASE c = NUL -> UNCHANGED <<rx_buf, rx_head, interrupt_flag, screen>>
    [] c = "ETX" -> interrupt_flag' = TRUE /\ NewLine /\ UNCHANGED <<rx_buf, rx_head>>
    [] OTHER -> Queued(c) /\ UNCHANGED <<interrupt_flag, screen>>

Drain ==
  /\ main = "drain" /\ fifo # <<>>
  /\ fifo' = Tail(fifo)
  /\ console_push(Head(fifo))
  /\ UNCHANGED <<keys, rx_tail, text, past, main, job>>

Drained ==
  /\ main = "drain" /\ fifo = <<>> /\ main' = "poll"
  /\ UNCHANGED <<keys, fifo, ring, interrupt_flag, text, past, job, screen>>

console_rx_empty == rx_tail = rx_head

(* cmd_poll() takes byte b.                                                 *)
Get(b) ==
  /\ main = "poll" /\ ~console_rx_empty /\ b = rx_buf[rx_tail]
  /\ rx_tail' = (rx_tail + 1) % RXBUF_SIZE
  /\ UNCHANGED <<keys, fifo, rx_buf, rx_head, interrupt_flag>>

-----------------------------------------------------------------------------
(* The line.                                                                *)

cmd_prompt == line_len' = 0 /\ line_buf' = Stored(<<>>) /\ NewLine

line_load(s) ==
  LET kept == SubSeq(CString(s), 1, Min({Len(CString(s)), CMD_MAX_LEN - 1}))
  IN line_buf' = Stored(kept) /\ line_len' = Len(kept) /\ shown' = kept /\ garbled' = FALSE

Type(b) ==
  /\ Get(b) /\ esc_state = 0 /\ b \in Printable
  /\ IF line_len < CMD_MAX_LEN - 1
     THEN /\ line_buf' = [line_buf EXCEPT ![line_len] = b] /\ line_len' = line_len + 1
          /\ shown' = Append(shown, b)
     ELSE UNCHANGED <<line_buf, line_len, shown>>
  /\ UNCHANGED <<esc_state, past, main, job, garbled>>

\* Wrong variant: the character stays in the buffer behind the end.
Backspace_keeps_char(b) ==
  /\ Get(b) /\ esc_state = 0 /\ b = "BS"
  /\ IF line_len > 0
     THEN line_len' = line_len - 1 /\ shown' = IF shown = <<>> THEN <<>> ELSE Front(shown)
     ELSE UNCHANGED <<line_len, shown>>
  /\ UNCHANGED <<line_buf, esc_state, past, main, job, garbled>>

Backspace(b) ==
  /\ Get(b) /\ esc_state = 0 /\ b = "BS"
  /\ IF line_len > 0
     THEN /\ line_len' = line_len - 1 /\ line_buf' = [line_buf EXCEPT ![line_len - 1] = NUL]
          /\ shown' = IF shown = <<>> THEN <<>> ELSE Front(shown)
     ELSE UNCHANGED <<line_buf, line_len, shown>>
  /\ UNCHANGED <<esc_state, past, main, job, garbled>>

Line == [i \in 1 .. line_len |-> line_buf[i - 1]]

Complete(name) ==
  /\ line_buf' = [i \in At |-> IF i \in line_len .. Len(name) - 1 THEN name[i + 1] ELSE line_buf[i]]
  /\ line_len' = Max({line_len, Len(name)})
  /\ shown' = shown \o SubSeq(name, line_len + 1, Len(name))
  /\ UNCHANGED garbled

(* Several names fit: they are listed and the line is printed again.        *)
cmd_tab_completion(b) ==
  /\ Get(b) /\ esc_state = 0 /\ b = "TAB"
  /\ LET found == Starting(Line)
     IN CASE Cardinality(found) = 1 -> Complete(CHOOSE n \in found : TRUE)
          [] Cardinality(found) > 1 ->
               shown' = CString(line_buf) /\ garbled' = FALSE /\ UNCHANGED <<line_buf, line_len>>
          [] OTHER -> UNCHANGED <<line_buf, line_len, screen>>
  /\ UNCHANGED <<esc_state, past, main, job>>

FormFeed(b) ==
  /\ Get(b) /\ esc_state = 0 /\ b = "FF"
  /\ cmd_prompt
  /\ UNCHANGED <<esc_state, past, main, job>>

(* Any other byte is only shown, as ^X: two characters on the screen.       *)
Control(b) ==
  /\ Get(b) /\ esc_state = 0 /\ b \notin Printable \cup {"CR", "BS", "TAB", "FF", "ESC"}
  /\ garbled' = TRUE /\ shown' = shown \o <<"^", "X">>
  /\ UNCHANGED <<text, past, main, job>>

-----------------------------------------------------------------------------
(* Enter, the history and the arrows.                                       *)

\* Both history_add() and execute_command() end the string at line_len first.
Entered == CString([line_buf EXCEPT ![line_len] = NUL])

history_add ==
  /\ history' = [history EXCEPT ![history_head] = Stored(Entered)]
  /\ history_head' = (history_head + 1) % HISTORY_SIZE
  /\ history_count' = IF history_count < HISTORY_SIZE THEN history_count + 1 ELSE history_count
  /\ history_index' = -1

Enter(b) ==
  /\ Get(b) /\ esc_state = 0 /\ b = "CR"
  /\ IF Entered = <<>> THEN UNCHANGED past ELSE history_add
  /\ job' = Resolve(Entered)
  /\ IF job' \in Names THEN main' = "handler" /\ NewLine /\ UNCHANGED <<line_buf, line_len>>
                       ELSE cmd_prompt /\ UNCHANGED main
  /\ UNCHANGED esc_state

\* Wrong variant: the oldest entry is looked for at the head, as if the ring
\* had not wrapped yet.
Oldest_unwrapped == 0

Oldest == (history_head - history_count + HISTORY_SIZE) % HISTORY_SIZE

history_prev ==
  IF history_count = 0 THEN UNCHANGED <<history_index, line_buf, line_len, screen>>
  ELSE /\ history_index' =
            CASE history_index < 0 -> (history_head - 1 + HISTORY_SIZE) % HISTORY_SIZE
              [] history_index = Oldest -> history_index
              [] OTHER -> (history_index - 1 + HISTORY_SIZE) % HISTORY_SIZE
       /\ line_load(history[history_index'])

history_next ==
  IF history_index < 0 THEN UNCHANGED <<history_index, line_buf, line_len, screen>>
  ELSE LET next == (history_index + 1) % HISTORY_SIZE
       IN IF next = history_head
          THEN history_index' = -1 /\ line_load(Stored(<<>>))
          ELSE history_index' = next /\ line_load(history[next])

Arrow(b) ==
  /\ Get(b) /\ esc_state = 2 /\ esc_state' = 0
  /\ CASE b = "A" -> history_prev
       [] b = "B" -> history_next
       [] OTHER -> UNCHANGED <<history_index, line_buf, line_len, screen>>
  /\ UNCHANGED <<history, history_head, history_count, main, job>>

EscapeByte(b) ==
  /\ Get(b)
  /\ \/ esc_state = 0 /\ b = "ESC" /\ esc_state' = 1
     \/ esc_state = 1 /\ b = "[" /\ esc_state' = 2
     \/ esc_state = 1 /\ b # "[" /\ esc_state' = 0
  /\ UNCHANGED <<line_buf, line_len, past, main, job, screen>>

-----------------------------------------------------------------------------
(* The end of cmd_poll(), and of a command.                                 *)

\* Wrong variant: a Ctrl-C leaves the line.
Polled_keeps_line ==
  /\ main = "poll" /\ console_rx_empty
  /\ main' = "drain" /\ interrupt_flag' = FALSE
  /\ IF interrupt_flag THEN NewLine ELSE UNCHANGED screen
  /\ UNCHANGED <<keys, fifo, ring, text, past, job>>

Polled ==
  /\ main = "poll" /\ console_rx_empty
  /\ main' = "drain" /\ interrupt_flag' = FALSE
  /\ IF interrupt_flag THEN cmd_prompt ELSE UNCHANGED <<line_buf, line_len, screen>>
  /\ UNCHANGED <<keys, fifo, ring, esc_state, past, job>>

Return ==
  /\ main' = "poll" /\ job' = <<"PROMPT">> /\ cmd_prompt
  /\ UNCHANGED <<keys, ring, interrupt_flag, esc_state, past>>

HandlerReturns ==
  main = "handler" /\ Return /\ UNCHANGED fifo

(* cmd_usb() serves the host until a byte arrives, and eats that byte.      *)
UsbStops ==
  main = "handler" /\ job = UsbName /\ fifo # <<>> /\ fifo' = Tail(fifo) /\ Return

Taken(b) ==
  \/ Type(b) \/ Backspace(b) \/ cmd_tab_completion(b) \/ FormFeed(b) \/ Control(b)
  \/ Enter(b) \/ Arrow(b) \/ EscapeByte(b)

Next ==
  \/ \E k \in Keys : Press(k)
  \/ Drain
  \/ Drained
  \/ \E b \in Byte : Taken(b)
  \/ Polled
  \/ HandlerReturns
  \/ UsbStops

Spec == Init /\ [][Next]_vars
-----------------------------------------------------------------------------
Busy == main = "handler"

TypeOK ==
  /\ keys \in 0 .. MaxKeys /\ fifo \in Seq(Byte) /\ Len(fifo) <= FIFO_DEPTH
  /\ rx_buf \in [0 .. RXBUF_SIZE - 1 -> Byte \cup {NUL}]
  /\ rx_head \in 0 .. RXBUF_SIZE - 1 /\ rx_tail \in 0 .. RXBUF_SIZE - 1
  /\ line_buf \in [At -> Printable \cup {NUL}] /\ line_len \in 0 .. CMD_MAX_LEN - 1
  /\ history \in [0 .. HISTORY_SIZE - 1 -> [At -> Printable \cup {NUL}]]
  /\ history_head \in 0 .. HISTORY_SIZE - 1 /\ history_count \in 0 .. HISTORY_SIZE
  /\ history_index \in -1 .. HISTORY_SIZE - 1
  /\ interrupt_flag \in BOOLEAN /\ garbled \in BOOLEAN /\ esc_state \in 0 .. 2
  /\ main \in {"drain", "poll", "handler"}

(* The bytes of the line are those before line_len and no other: all that   *)
(* cmd.c reads as a C string, the arguments of a command included, is what  *)
(* is being edited, and nothing of a longer line that was there before.     *)
Terminated == \A i \in At : line_buf[i] = NUL <=> i >= line_len

(* How many lines were entered after the one at i.                          *)
Age(i) == (history_head - 1 - i + HISTORY_SIZE) % HISTORY_SIZE
Entry(i) == Age(i) < history_count

(* The entry an arrow recalls is one of the entries that were made, and     *)
(* each of those is a terminated string that is not empty.                  *)
RecallsAnEntry ==
  /\ history_index # -1 => Entry(history_index)
  /\ \A i \in DOMAIN history : Entry(i) => history[i][0] # NUL /\ history[i][CMD_MAX_LEN - 1] = NUL

(* The state of the command line is sound between any two bytes.            *)
ConsoleInv == TypeOK /\ Terminated /\ RecallsAnEntry

(* What stands after the prompt is what Enter would run, unless a control   *)
(* character was echoed into it, or a Ctrl-C is still to be acted upon: the *)
(* bytes that came with it are shown on a new line before the old line is   *)
(* given up.                                                                *)
ShownIsLine == Busy \/ garbled \/ interrupt_flag \/ shown = CString(line_buf)

Waiting ==
  [i \in 1 .. (rx_head - rx_tail + RXBUF_SIZE) % RXBUF_SIZE |->
     rx_buf[(rx_tail + i - 1) % RXBUF_SIZE]]

Remembered ==
  [k \in 1 .. history_count |->
     CString(history[(history_head - history_count + k - 1 + HISTORY_SIZE) % HISTORY_SIZE])]

Typed == CString(line_buf)
Cursor == IF history_index < 0 THEN 0 ELSE Age(history_index) + 1

Editor == INSTANCE LineEditor WITH
  QueueCap <- RXBUF_SIZE - 1, LineCap <- CMD_MAX_LEN - 1, Recent <- HISTORY_SIZE,
  queue <- Waiting, cancel <- interrupt_flag, line <- Typed,
  recent <- Remembered, cursor <- Cursor, esc <- esc_state, doing <- job

(* The ring and the arrays with their indices are a queue that loses the    *)
(* newest bytes, a line and a list of the last lines (LineEditor): also     *)
(* when the indices wrap, and when an entry is overwritten after it was     *)
(* recalled.                                                                *)
ImplementsEditor == Editor!Spec
=============================================================================
