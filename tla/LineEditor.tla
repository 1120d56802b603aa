----------------------------- MODULE LineEditor -----------------------------
(***************************************************************************)
(* What the console promises its user: bytes are taken in the order they    *)
(* came, the newest ones are lost when too many wait, a line is edited at   *)
(* its end, and the arrows walk through the last lines entered.             *)
(***************************************************************************)
EXTENDS CommandNames

CONSTANTS
  QueueCap, \* bytes that can wait
  LineCap,  \* longest line
  Recent,   \* lines remembered
  Byte, Printable, NUL

VARIABLES
  queue,  \* bytes waiting
  cancel, \* Ctrl-C was pressed
  line,   \* the line being edited
  recent, \* the lines entered, the newest last
  cursor, \* how far back the line was recalled from; 0 if it was not
  esc,    \* how much of an arrow's sequence was seen
  doing   \* the command that runs, or the outcome of the last Enter

vars == <<queue, cancel, line, recent, cursor, esc, doing>>

Init ==
  /\ queue = <<>> /\ cancel = FALSE /\ line = <<>> /\ recent = <<>> /\ cursor = 0 /\ esc = 0
  /\ doing = <<"PROMPT">>

Busy == doing \in Names

Arrive(b) ==
  /\ ~Busy
  /\ cancel' = (cancel \/ b = "ETX")
  /\ queue' = IF b \in {NUL, "ETX"} \/ Len(queue) = QueueCap THEN queue ELSE Append(queue, b)
  /\ UNCHANGED <<line, recent, cursor, esc, doing>>

Take(b) == ~Busy /\ queue # <<>> /\ b = Head(queue) /\ queue' = Tail(queue) /\ UNCHANGED cancel

LastOf(s) == IF Len(s) > Recent THEN Tail(s) ELSE s

Enter(b) ==
  /\ Take(b) /\ esc = 0 /\ b = "CR"
  /\ doing' = Resolve(line)
  /\ recent' = IF line = <<>> THEN recent ELSE LastOf(Append(recent, line))
  /\ cursor' = IF line = <<>> THEN cursor ELSE 0
  /\ line' = IF doing' \in Names THEN line ELSE <<>>
  /\ UNCHANGED esc

Edit(b) ==
  /\ Take(b) /\ esc = 0 /\ b \notin {"CR", "ESC"}
  /\ line' = CASE b = "BS" -> IF line = <<>> THEN line ELSE Front(line)
               [] b \in Printable -> IF Len(line) < LineCap THEN Append(line, b) ELSE line
               [] b = "TAB" -> Completed(line)
               [] b = "FF" -> <<>>
               [] OTHER -> line
  /\ UNCHANGED <<recent, cursor, esc, doing>>

Recall(back) ==
  /\ cursor' = back
  /\ line' = IF back = 0 THEN <<>> ELSE recent[Len(recent) + 1 - back]

Arrow(b) ==
  /\ Take(b) /\ esc = 2 /\ esc' = 0
  /\ CASE b = "A" /\ recent # <<>> -> Recall(Min({cursor + 1, Len(recent)}))
       [] b = "B" /\ cursor # 0 -> Recall(cursor - 1)
       [] OTHER -> UNCHANGED <<line, cursor>>
  /\ UNCHANGED <<recent, doing>>

EscapeByte(b) ==
  /\ Take(b)
  /\ esc' = CASE esc = 0 /\ b = "ESC" -> 1
              [] esc = 1 /\ b = "[" -> 2
              [] esc = 1 /\ b # "[" -> 0
              [] OTHER -> -1
  /\ esc' # -1
  /\ UNCHANGED <<line, recent, cursor, doing>>

(* Ctrl-C counts once all that waited was taken.                            *)
Cancel ==
  /\ ~Busy /\ queue = <<>> /\ cancel
  /\ cancel' = FALSE /\ line' = <<>>
  /\ UNCHANGED <<queue, recent, cursor, esc, doing>>

Finish ==
  /\ Busy
  /\ doing' = <<"PROMPT">> /\ line' = <<>>
  /\ UNCHANGED <<queue, cancel, recent, cursor, esc>>

Next ==
  \/ \E b \in Byte : Arrive(b) \/ Enter(b) \/ Edit(b) \/ Arrow(b) \/ EscapeByte(b)
  \/ Cancel
  \/ Finish

Spec == Init /\ [][Next]_vars
=============================================================================
