------------------------------ MODULE CStrings ------------------------------
(***************************************************************************)
(* The C library of the loader (string.c), as far as the console uses it,   *)
(* and how cmd.c takes the arguments off a line.  A string is the sequence  *)
(* of its characters without the terminator, a buffer has terminators, and  *)
(* an unsigned integer is taken modulo the width of its type.               *)
(***************************************************************************)
EXTENDS Integers, Sequences, FiniteSets, SequencesExt

CONSTANT Bits \* the width of the types char, short, int and long

ASSUME BitsAssumption == Bits \in [{"char", "short", "int", "long"} -> Nat \ {0}]

EOS == "NUL"
at(s, i) == IF i \in DOMAIN s THEN s[i] ELSE EOS
Wrap(v, type) == v % 2 ^ Bits[type]

\* How many characters s starts with that are in C, and what follows them.
Run(s, C) ==
  LET other == {i \in DOMAIN s : s[i] \notin C} IN IF other = {} THEN Len(s) ELSE Min(other) - 1
Skip(s, n) == SubSeq(s, n + 1, Len(s))
Trim(s, C) == Skip(s, Run(s, C))

Decimal == <<"0", "1", "2", "3", "4", "5", "6", "7", "8", "9">>
Lower == <<"a", "b", "c", "d", "e", "f", "g", "h", "i", "j", "k", "l", "m",
           "n", "o", "p", "q", "r", "s", "t", "u", "v", "w", "x", "y", "z">>
Upper == <<"A", "B", "C", "D", "E", "F", "G", "H", "I", "J", "K", "L", "M",
           "N", "O", "P", "Q", "R", "S", "T", "U", "V", "W", "X", "Y", "Z">>
Letters == ToSet(Lower) \cup ToSet(Upper)

-----------------------------------------------------------------------------
(* string.c.                                                                *)

memcmp(a, b, n) ==
  LET differ == {i \in 1 .. n : a[i] # b[i]}
  IN IF differ = {} THEN 0 ELSE IF a[Min(differ)] < b[Min(differ)] THEN -1 ELSE 1

\* Of a buffer, which has a terminator.
strlen(buffer) == Min({i \in DOMAIN buffer : buffer[i] = EOS}) - 1

\* Characters have no order here: a result that is not 0 is where they differ.
strncmp(a, b, n) ==
  LET differ == {i \in 1 .. n : at(a, i) # at(b, i) /\ \A j \in 1 .. i - 1 : at(a, j) # EOS}
  IN IF differ = {} THEN 0 ELSE Min(differ)

\* Where the character is first, and 0 if it is not in the string.
strchr(s, c) ==
  LET found == {i \in 1 .. Len(s) + 1 : at(s, i) = c} IN IF found = {} THEN 0 ELSE Min(found)

strncpy(src, n) == [i \in 1 .. n |-> at(src, i)]

DigitsBelow(base) ==
  {c \in ToSet(Decimal \o Lower \o Upper) :
     \E d \in 0 .. base - 1 : IF d < 10 THEN c = Decimal[d + 1] ELSE c \in {Lower[d - 9], Upper[d - 9]}}
DigitValue(c) ==
  CHOOSE d \in 0 .. 35 : IF d < 10 THEN c = Decimal[d + 1] ELSE c \in {Lower[d - 9], Upper[d - 9]}

(* The number and what follows it; more than a long holds wraps.            *)
strtoul(nptr, base) ==
  LET blank == Trim(nptr, {" ", "TAB"})
      p == IF at(blank, 1) = "+" THEN Skip(blank, 1) ELSE blank
      hex == base \in {0, 16} /\ at(p, 1) = "0" /\ at(p, 2) \in {"x", "X"}
      b == CASE hex -> 16
             [] ~hex /\ base = 0 -> IF at(p, 1) = "0" THEN 8 ELSE 10
             [] OTHER -> base
      digits == IF hex THEN Skip(p, 2) ELSE p
      n == Run(digits, DigitsBelow(b))
  IN [val |-> FoldLeft(LAMBDA v, c : Wrap(v * b + DigitValue(c), "long"), 0, SubSeq(digits, 1, n)),
      end |-> Skip(digits, n)]

-----------------------------------------------------------------------------
(* cmd.c.                                                                   *)

my_isspace == {" ", "FF", "LF", "CR", "TAB", "VT"}

(* One argument: perhaps a name and "=", then a number; the first that is   *)
(* none ends the list.                                                      *)
ParseArg(s) ==
  LET q == Run(s.p, Letters \cup {"_"})
      p == IF q > 0 /\ at(s.p, q + 1) = "=" THEN Skip(s.p, q + 1) ELSE s.p
      number == strtoul(p, 0)
  IN IF s.p = <<>> \/ s.over \/ number.end = p THEN [s EXCEPT !.over = TRUE]
     ELSE [p |-> Trim(number.end, my_isspace), over |-> FALSE, args |-> Append(s.args, Wrap(number.val, "int"))]

(* The arguments of a line; the handler gets 0 for each that is missing.    *)
parse_args_uint32(line) ==
  LET command == Run(line, ToSet(line) \ my_isspace)
      start == [p |-> Trim(Skip(line, command), my_isspace), over |-> FALSE, args |-> <<>>]
  IN FoldLeft(LAMBDA s, i : ParseArg(s), start, <<1, 2, 3>>).args

-----------------------------------------------------------------------------
Texts(C, n) == UNION {[1 .. k -> C] : k \in 0 .. n}

(* What execute_command() and the tab look for with strchr() and strncmp()  *)
(* are the names that begin as the line does, up to its first space; and a  *)
(* line loaded from the history is what was entered, cut to the buffer.     *)
ASSUME PrefixesFound ==
  \A line \in Texts({"s", "d", " "}, 4), name \in Texts({"s", "d"}, 3) :
    LET space == strchr(line, " ")
        cmd_len == IF space = 0 THEN Len(line) ELSE space - 1
    IN (strncmp(line, name, cmd_len) = 0) <=> IsPrefix(SubSeq(line, 1, cmd_len), name)
ASSUME LinesCut ==
  \A src \in Texts({"s", " "}, 5), n \in 1 .. 6 :
    LET kept == [strncpy(src, n) EXCEPT ![n] = EOS]
    IN SubSeq(kept, 1, strlen(kept)) = SubSeq(src, 1, Min({Len(src), n - 1}))

(* "parse only the integer after it" (cmd.c:240): an argument that counts   *)
(* has a digit.  It does not hold: "+", "0x" or a blank after "=" counts as  *)
(* an argument of value 0.                                                  *)
NumbersHaveDigits(line) ==
  Cardinality({i \in DOMAIN line : line[i] \in DigitsBelow(10)}) >= Len(parse_args_uint32(line))
=============================================================================
