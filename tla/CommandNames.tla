---------------------------- MODULE CommandNames ----------------------------
(***************************************************************************)
(* How cmd.c finds a command by its name.  A line is a sequence of          *)
(* characters; only the characters that lead to different outcomes are told *)
(* apart, so the names are short words over a small alphabet.               *)
(***************************************************************************)
EXTENDS Integers, Sequences, FiniteSets, SequencesExt

CONSTANTS
  Names,  \* the names of cmd_list
  UsbName \* the one whose handler polls the UART: usb

ASSUME NamesAssumption ==
  /\ IsFiniteSet(Names) /\ UsbName \in Names /\ <<>> \notin Names
  /\ Names \subseteq Seq(STRING)
  /\ {<<"PROMPT">>, <<"UNKNOWN">>, <<"AMBIGUOUS">>} \cap Names = {}

(* The characters up to the first space, or the whole line.                 *)
Word(line) ==
  LET spaces == {i \in DOMAIN line : line[i] = " "}
  IN IF spaces = {} THEN line ELSE SubSeq(line, 1, Min(spaces) - 1)

Starting(word) == {n \in Names : IsPrefix(word, n)}

(* What Enter does with a line: a name, or the reason there is none.        *)
Resolve(line) ==
  LET found == Starting(Word(line))
  IN CASE line = <<>> -> <<"PROMPT">>
       [] line # <<>> /\ found = {} -> <<"UNKNOWN">>
       [] line # <<>> /\ Word(line) \in Names -> Word(line)
       [] line # <<>> /\ Word(line) \notin Names /\ Cardinality(found) = 1 ->
            CHOOSE n \in found : TRUE
       [] OTHER -> <<"AMBIGUOUS">>

(* The line after a tab: completed when one name fits the whole of it.      *)
Completed(line) ==
  IF Cardinality(Starting(line)) = 1 THEN CHOOSE n \in Starting(line) : TRUE ELSE line
=============================================================================
