------------------------------- MODULE Format -------------------------------
(***************************************************************************)
(* What the loader prints: printf.c as the Makefile builds it, without      *)
(* floating point.  A conversion is a record that goes through the parts of *)
(* a specification: what is left of the format and of the arguments, and    *)
(* the flags, the width, the precision and the type read so far.            *)
(*                                                                         *)
(* Left out, for the code has no value for them: a format that ends inside  *)
(* a specification, and the number without a positive counterpart.          *)
(***************************************************************************)
EXTENDS CStrings

CONSTANT PRINTF_NTOA_BUFFER_SIZE \* places for one number

ASSUME BufferAssumption == PRINTF_NTOA_BUFFER_SIZE \in Nat \ {0}

Fresh(c) == [c EXCEPT !.flags = {}, !.width = 0, !.precision = 0, !.type = "int", !.exact = FALSE]
Blanks(n) == [i \in 1 .. n |-> " "]
Past(c, n) == [c EXCEPT !.rest = Skip(@, n)]
Say(c, s) == [c EXCEPT !.out = @ \o s]

_atoi(s) == FoldLeft(LAMBDA i, ch : Wrap(10 * i + DigitValue(ch), "int"), 0, s)

-----------------------------------------------------------------------------
(* %[flags][width][.precision][length]                                      *)

Flags(c) ==
  LET n == Run(c.rest, {"0", "-", "+", " ", "#"})
  IN [Past(c, n) EXCEPT !.flags = ToSet(SubSeq(c.rest, 1, n))]

\* A negative width in the arguments asks for the left side.
Width(c) ==
  LET n == Run(c.rest, DigitsBelow(10))
      w == Head(c.args)
      side == IF w < 0 THEN {"-"} ELSE {}
  IN CASE n > 0 -> [Past(c, n) EXCEPT !.width = _atoi(SubSeq(c.rest, 1, n))]
       [] at(c.rest, 1) = "*" ->
            [Past(c, 1) EXCEPT !.args = Tail(@), !.flags = @ \cup side, !.width = IF w < 0 THEN -w ELSE w]
       [] OTHER -> c

Precision(c) ==
  LET after == [Past(c, 1) EXCEPT !.exact = TRUE]
      n == Run(after.rest, DigitsBelow(10))
  IN CASE at(c.rest, 1) # "." -> c
       [] n > 0 -> [Past(after, n) EXCEPT !.precision = _atoi(SubSeq(after.rest, 1, n))]
       [] n = 0 /\ at(after.rest, 1) = "*" ->
            [Past(after, 1) EXCEPT !.args = Tail(@), !.precision = Max({0, Head(c.args)})]
       [] OTHER -> after

\* On this processor a long long, an intmax_t, a size_t and a ptrdiff_t are longs.
Length(c) ==
  LET double == at(c.rest, 2) = at(c.rest, 1)
  IN CASE at(c.rest, 1) = "l" -> [Past(c, IF double THEN 2 ELSE 1) EXCEPT !.type = "long"]
       [] at(c.rest, 1) = "h" -> [Past(c, IF double THEN 2 ELSE 1) EXCEPT !.type = IF double THEN "char" ELSE "short"]
       [] at(c.rest, 1) \in {"t", "j", "z"} -> [Past(c, 1) EXCEPT !.type = "long"]
       [] OTHER -> c

-----------------------------------------------------------------------------
(* Numbers; buf holds the digits, the last one first.                       *)

_out_rev(buf, width, flags) ==
  LET text == Reverse(buf)
      pad == Blanks(width - Len(buf))
  IN CASE "-" \in flags -> text \o pad
       [] "-" \notin flags /\ "0" \notin flags -> pad \o text
       [] OTHER -> text

_ntoa_format(buf, negative, base, upper, c) ==
  LET places == PRINTF_NTOA_BUFFER_SIZE
      left == "-" \in c.flags
      signed == negative \/ c.flags \cap {"+", " "} # {}
      width == IF ~left /\ c.width > 0 /\ "0" \in c.flags /\ signed THEN c.width - 1 ELSE c.width
      upto(s, n) == s \o [i \in 1 .. Min({n, places}) - Len(s) |-> "0"]
      precise == IF left THEN buf ELSE upto(buf, c.precision)
      padded == IF ~left /\ "0" \in c.flags THEN upto(precise, width) ELSE precise
      full == ~c.exact /\ Len(padded) > 0 /\ Len(padded) \in {c.precision, width}
      over == IF full THEN IF Len(padded) > 1 /\ base = 16 THEN 2 ELSE 1 ELSE 0
      mark == CASE base = 16 -> <<IF upper THEN "X" ELSE "x", "0">>
                [] base = 2 -> <<"b", "0">>
                [] OTHER -> <<"0">>
      hashed == IF "#" \in c.flags THEN SubSeq(padded, 1, Len(padded) - over) \o mark ELSE padded
      sign == CASE negative -> <<"-">>
                [] ~negative /\ "+" \in c.flags -> <<"+">>
                [] ~negative /\ "+" \notin c.flags /\ " " \in c.flags -> <<" ">>
                [] OTHER -> <<>>
      buffer == hashed \o sign
  IN _out_rev(SubSeq(buffer, 1, Min({places, Len(buffer)})), width, c.flags)

\* What n divisions by the base leave of a value.
Left(value, base, n) ==
  LET left[i \in 0 .. n] == IF i = 0 THEN value ELSE left[i - 1] \div base IN left[n]

\* _ntoa_long_long() is the same code for a type of the same width.
_ntoa_long(value, negative, base, upper, c) ==
  LET digits == IF c.exact /\ value = 0 THEN 0
                ELSE Min({n \in 1 .. PRINTF_NTOA_BUFFER_SIZE : Left(value, base, n) = 0} \cup {PRINTF_NTOA_BUFFER_SIZE})
      symbol(d) == IF d < 10 THEN Decimal[d + 1] ELSE IF upper THEN Upper[d - 9] ELSE Lower[d - 9]
      buf == [i \in 1 .. digits |-> symbol(Left(value, base, i - 1) % base)]
  IN _ntoa_format(buf, negative, base, upper, IF value = 0 THEN [c EXCEPT !.flags = @ \ {"#"}] ELSE c)

Base(spec) == CASE spec \in {"x", "X"} -> 16 [] spec = "o" -> 8 [] spec = "b" -> 2 [] OTHER -> 10

\* A char has no sign on this processor.
Converted(v, type) ==
  LET w == Wrap(v, type) IN IF type = "char" \/ w < 2 ^ (Bits[type] - 1) THEN w ELSE w - 2 ^ Bits[type]

Integer(c, spec) ==
  LET signed == spec \in {"d", "i"}
      none == (IF Base(spec) = 10 THEN {"#"} ELSE {}) \cup (IF signed THEN {} ELSE {"+", " "})
                \cup (IF c.exact THEN {"0"} ELSE {})
      value == IF signed THEN Converted(Head(c.args), c.type) ELSE Wrap(Head(c.args), c.type)
  IN _ntoa_long(IF value < 0 THEN -value ELSE value, value < 0, Base(spec), spec = "X",
                [c EXCEPT !.flags = @ \ none])

Pointer(c) ==
  _ntoa_long(Wrap(Head(c.args), "long"), FALSE, 16, TRUE,
             [c EXCEPT !.width = 2 * (Bits["long"] \div 8), !.flags = @ \cup {"0"}])

-----------------------------------------------------------------------------
(* Text, and the whole format.                                              *)

Padded(s, c) == IF "-" \in c.flags THEN s \o Blanks(c.width - Len(s)) ELSE Blanks(c.width - Len(s)) \o s

\* How much of the text counts.
_strnlen_s(s, c) == IF c.exact THEN Min({c.precision, Len(s)}) ELSE Len(s)

Text(c) == Padded(SubSeq(Head(c.args), 1, _strnlen_s(Head(c.args), c)), c)

Specifier(c) ==
  LET spec == at(c.rest, 1)
      takes == spec \in {"d", "i", "u", "x", "X", "o", "b", "c", "s", "p"}
      shown == CASE spec \in {"d", "i", "u", "x", "X", "o", "b"} -> Integer(c, spec)
                 [] spec = "c" -> Padded(<<Head(c.args)>>, c)
                 [] spec = "s" -> Text(c)
                 [] spec = "p" -> Pointer(c)
                 [] OTHER -> <<spec>>
  IN [Say(Past(c, 1), shown) EXCEPT !.args = IF takes THEN Tail(@) ELSE @]

Conversion(c) == Specifier(Length(Precision(Width(Flags(Fresh(Past(c, 1)))))))

_vsnprintf(format, args) ==
  LET start == [rest |-> format, args |-> args, out |-> <<>>,
                flags |-> {}, width |-> 0, precision |-> 0, type |-> "int", exact |-> FALSE]
      next(c, i) == CASE c.rest = <<>> -> c
                      [] c.rest # <<>> /\ Head(c.rest) = "%" -> Conversion(c)
                      [] OTHER -> Say(Past(c, 1), <<Head(c.rest)>>)
  IN FoldLeft(next, start, [i \in DOMAIN format |-> i]).out

\* What reaches the UART, and what the call returns.
printf_(format, args) ==
  LET all == _vsnprintf(format, args) IN [out |-> SelectSeq(all, LAMBDA ch : ch # EOS), ret |-> Len(all)]

\* The part of the buffer that is written.
snprintf_(count, format, args) ==
  LET all == _vsnprintf(format, args)
  IN [out |-> IF count = 0 THEN <<>> ELSE SubSeq(all, 1, Min({count - 1, Len(all)})) \o <<EOS>>, ret |-> Len(all)]

-----------------------------------------------------------------------------
(* What the standard of C asks for, for an integer of the type int.         *)

Numeral(v, base, places) ==
  LET n == Max({places} \cup {k \in 1 .. Bits["int"] : Left(v, base, k - 1) > 0})
  IN [i \in 1 .. n |-> LET d == Left(v, base, n - i) % base IN IF d < 10 THEN Decimal[d + 1] ELSE Lower[d - 9]]

Standard(v, spec, flags, width, precision) ==
  LET signed == spec = "d"
      sign == CASE v < 0 /\ signed -> <<"-">>
                [] v >= 0 /\ signed /\ "+" \in flags -> <<"+">>
                [] v >= 0 /\ signed /\ "+" \notin flags /\ " " \in flags -> <<" ">>
                [] OTHER -> <<>>
      number == IF signed THEN IF v < 0 THEN -v ELSE v ELSE Wrap(v, "int")
      exact == precision >= 0
      columns == IF width < 0 THEN -width ELSE width
      left == "-" \in flags \/ width < 0
      zeros == IF "0" \in flags /\ ~left /\ ~exact THEN columns - Len(sign) ELSE 0
      digits == Numeral(number, Base(spec), Max({IF exact THEN precision ELSE 1, zeros}))
      pad == Blanks(columns - Len(sign \o digits))
  IN IF left THEN sign \o digits \o pad ELSE pad \o sign \o digits

Samples == {-127, -9, -1, 0, 1, 8, 99, 127}
FlagSeqs == {<<>>, <<"0">>, <<"-">>, <<"+">>, <<" ">>, <<"0", "+">>, <<" ", "0">>, <<"-", "0">>, <<"+", " ">>}
Starred(flags, precision, spec) ==
  <<"%">> \o flags \o <<"*">> \o (IF precision >= 0 THEN <<".", "*">> ELSE <<>>) \o <<spec>>
Arguments(width, precision, v) == IF precision >= 0 THEN <<width, precision, v>> ELSE <<width, v>>

(* Numbers look as the standard of C says, up to the width of the buffer,   *)
(* but for a precision with the minus flag (ZerosOnTheLeft).                *)
ASSUME PrintsAsC ==
  \A v \in Samples, spec \in {"d", "u", "x", "o"}, flags \in FlagSeqs, precision \in {-1, 0, 1, 4},
     width \in {-5, 0, 3, PRINTF_NTOA_BUFFER_SIZE} :
    \/ precision > 0 /\ ("-" \in ToSet(flags) \/ width < 0)
    \/ printf_(Starred(flags, precision, spec), Arguments(width, precision, v)).out
         = Standard(v, spec, ToSet(flags), width, precision)

(* A number the console shows can be typed as an argument: as it stands, as *)
(* "0x" and the hexadecimal digits, or after a name and "=".                *)
ASSUME ReadsBack ==
  \A v \in 0 .. 33 \cup {2 ^ Bits["int"] - 1}, name \in {<<>>, <<"n", "_", "=">>},
     format \in {<<"%", "u">>, <<"0", "X", "%", "0", "4", "X">>, <<"%", "#", "x">>, <<"%", "#", "o">>} :
    parse_args_uint32(<<"m", " ">> \o name \o printf_(format, <<v>>).out \o <<" ", "1">>) = <<v, 1>>

(* A text is cut to the precision and padded to the width, and no call      *)
(* writes past the buffer or leaves it without a terminator; the return     *)
(* value says whether the text was cut.                                     *)
ASSUME TextFits ==
  \A s \in Texts({"a", "b"}, 3), width \in 0 .. 4, precision \in 0 .. 4, count \in 0 .. 6 :
    LET cut == SubSeq(s, 1, Min({precision, Len(s)}))
        short == snprintf_(count, <<"%", "*", ".", "*", "s">>, <<width, precision, s>>)
    IN /\ printf_(<<"%", "*", ".", "*", "s">>, <<width, precision, s>>).out = Blanks(width - Len(cut)) \o cut
       /\ printf_(<<"%", "-", "*", "s", "%", "%">>, <<width, s>>).out = s \o Blanks(width - Len(s)) \o <<"%">>
       /\ Len(short.out) <= count
       /\ count > 0 => short.out[Len(short.out)] = EOS /\ (short.ret >= count <=> Len(short.out) - 1 < short.ret)

(* "The number of characters that are WRITTEN" (printf.h:88): the return    *)
(* value of a call that prints.  It does not hold: a NUL character counts   *)
(* and is not sent.                                                         *)
ReturnsWritten(format, args) == LET call == printf_(format, args) IN call.ret = Len(call.out)

(* A precision adds zeros also with the minus flag, as the standard of C    *)
(* has it.  It does not hold: the padding with zeros is left out there.     *)
ZerosOnTheLeft(v, width, precision) ==
  printf_(Starred(<<"-">>, precision, "d"), <<width, precision, v>>).out = Standard(v, "d", {"-"}, width, precision)
=============================================================================
