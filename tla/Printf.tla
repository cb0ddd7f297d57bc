------------------------------- MODULE Printf -------------------------------
(***************************************************************************)
(* vsnprintf of printf.c.  A format and a text are sequences of            *)
(* characters, each a string of its own; NUL is the one behind the last.   *)
(* The state of the parser is a record, and each state of its automaton an *)
(* operator from a record to the next.                                     *)
(*                                                                         *)
(* The build defines none of the HAVE_ macros, so that intmax_t, long long *)
(* and long are one type, as wide as int on this processor.                *)
(***************************************************************************)
EXTENDS Integers, SequencesExt

CONSTANTS IntBits, ShortBits, CharBits    \* widths of the integers

ASSUME WidthsAssumption == IntBits \in Nat /\ ShortBits \in 1 .. IntBits /\ CharBits \in 1 .. ShortBits

NUL == "NUL"
Null == <<"NULL">>                        \* the pointer, for a string's
INT_MAX == 2^(IntBits - 1) - 1
Unsigned(n, bits) == n % 2^bits
Signed(n, bits) == ((n + 2^(bits - 1)) % 2^bits) - 2^(bits - 1)
WidthOf(mod) == CASE mod = "hh" -> CharBits [] mod = "h" -> ShortBits [] OTHER -> IntBits

Larger(a, b) == IF a >= b THEN a ELSE b
Fill(n, ch) == [i \in 1 .. Larger(n, 0) |-> ch]
Decimal == <<"0", "1", "2", "3", "4", "5", "6", "7", "8", "9">>
Lower == Decimal \o <<"a", "b", "c", "d", "e", "f">>
Upper == Decimal \o <<"A", "B", "C", "D", "E", "F">>
ISDIGIT(ch) == ch \in ToSet(Decimal)
CHARTOINT(ch) == (CHOOSE i \in 1 .. 10 : Decimal[i] = ch) - 1

-----------------------------------------------------------------------------
\* Numbers and strings as they are printed.  p has the flags, width and precision.
RECURSIVE convert(_, _, _)
convert(value, base, digits) ==
    IF value < base THEN <<digits[value + 1]>>
    ELSE Append(convert(value \div base, base, digits), digits[(value % base) + 1])

getnumsep(digits) == (digits - (IF digits % 3 = 0 THEN 1 ELSE 0)) \div 3
Separated(digits) ==
    FlattenSeq([i \in DOMAIN digits |->
        LET left == Len(digits) - i
        IN  IF left > 0 /\ left % 3 = 0 THEN <<digits[i], ",">> ELSE <<digits[i]>>])

Sign(p, value) ==
    IF value < 0 THEN <<"-">> ELSE IF "+" \in p.flags THEN <<"+">> ELSE IF " " \in p.flags THEN <<" ">> ELSE <<>>
Prefix(p, value, base, caps) ==
    IF "#" \in p.flags /\ value # 0 /\ base = 16 THEN <<"0", IF caps THEN "X" ELSE "x">> ELSE <<>>

\* fmtint: digits, their number pos, and what has to stand before and behind them.
Padded(p, before, digits, separators, precision) ==
    LET zeros == Larger(precision - Len(digits) - separators, 0)
        spaces == Larger(p.width - separators - Larger(precision, Len(digits)) - Len(before), 0)
        number == IF separators > 0 THEN Separated(digits) ELSE digits
    IN  CASE "-" \in p.flags -> before \o Fill(zeros, "0") \o number \o Fill(spaces, " ")
          [] "-" \notin p.flags /\ "0" \in p.flags /\ p.precision = -1 ->
                before \o Fill(zeros + spaces, "0") \o number
          [] OTHER -> Fill(spaces, " ") \o before \o Fill(zeros, "0") \o number

PrecisionKept(p, value, base, pos) == p.precision                              \* mistake
PrecisionFor(p, value, base, pos) ==
    IF "#" \in p.flags /\ value # 0 /\ base = 8 /\ p.precision <= pos THEN pos + 1 ELSE p.precision
Formatted(p, before, digits, precision) ==
    Padded(p, before, digits, IF "'" \in p.flags THEN getnumsep(Len(digits)) ELSE 0, precision)
fmtint(p, value, base, caps, unsigned) ==
    LET uvalue == IF value < 0 THEN Unsigned(-value, IntBits) ELSE value
        digits == convert(uvalue, base, IF caps THEN Upper ELSE Lower)
        before == (IF unsigned THEN <<>> ELSE Sign(p, value)) \o Prefix(p, value, base, caps)
    IN  Formatted(p, before, digits, PrecisionFor(p, value, base, Len(digits)))

\* fmtstr
fmtstr(p, value, precision) ==
    LET all == IF value = Null THEN <<"(", "n", "u", "l", "l", ")">> ELSE value
        shown == IF precision = -1 \/ Len(all) <= precision THEN all ELSE SubSeq(all, 1, precision)
        spaces == Fill(p.width - Len(shown), " ")
    IN  IF "-" \in p.flags THEN shown \o spaces ELSE spaces \o shown

-----------------------------------------------------------------------------
\* The automaton.
Char(p) == IF p.at <= Len(p.format) THEN p.format[p.at] ELSE NUL
Onward(p) == [p EXCEPT !.at = @ + 1]
To(p, state) == [p EXCEPT !.state = state]
Out(p, text) == [p EXCEPT !.out = @ \o text]
Overflow(p) == [p EXCEPT !.overflow = TRUE]
TooLarge(n, ch) == n > (INT_MAX - CHARTOINT(ch)) \div 10

Default(p) == IF Char(p) = "%" THEN Onward(To(p, "flags")) ELSE Onward(Out(p, <<Char(p)>>))
FlagChars == {"-", "+", " ", "#", "0", "'"}
Flags(p) == IF Char(p) \in FlagChars THEN Onward([p EXCEPT !.flags = @ \cup {Char(p)}]) ELSE To(p, "width")

\* A width is a number, or an argument, which if negative stands for the flag '-' too.
Width(p) ==
    IF ISDIGIT(Char(p))
    THEN IF TooLarge(p.width, Char(p)) THEN Overflow(p)
         ELSE Onward([p EXCEPT !.width = 10 * @ + CHARTOINT(Char(p))])
    ELSE IF Char(p) = "*"
         THEN LET n == Head(p.args)
                  given == [p EXCEPT !.args = Tail(@), !.width = IF n < 0 THEN -n ELSE n,
                                     !.flags = IF n < 0 THEN @ \cup {"-"} ELSE @]
              IN  Onward(To(given, "dot"))
    ELSE To(p, "dot")

Dot(p) == IF Char(p) = "." THEN Onward(To(p, "precision")) ELSE To(p, "mod")

\* A precision, a negative argument for none.
Precision(q) ==
    LET p == [q EXCEPT !.precision = Larger(@, 0)]
    IN  IF ISDIGIT(Char(p))
        THEN IF TooLarge(p.precision, Char(p)) THEN Overflow(p)
             ELSE Onward([p EXCEPT !.precision = 10 * @ + CHARTOINT(Char(p))])
        ELSE IF Char(p) = "*"
             THEN Onward(To([p EXCEPT !.args = Tail(@), !.precision = Larger(Head(p.args), -1)], "mod"))
        ELSE To(p, "mod")

Mod(p) ==
    LET next == Char(Onward(p))
    IN  IF Char(p) \in {"h", "l"}
        THEN IF next = Char(p) THEN To(Onward(Onward([p EXCEPT !.mod = Char(p) \o Char(p)])), "conv")
             ELSE To(Onward([p EXCEPT !.mod = Char(p)]), "conv")
        ELSE IF Char(p) \in {"j", "t", "z"} THEN To(Onward([p EXCEPT !.mod = Char(p)]), "conv")
        ELSE To(p, "conv")

\* The conversion; the next directive starts without flags, width and precision.
Base(ch) == CASE ch \in {"x", "X"} -> 16 [] ch = "o" -> 8 [] OTHER -> 10
Converted(p) ==
    LET arg == Head(p.args)
        used == [p EXCEPT !.args = Tail(@)]
    IN  CASE Char(p) \in {"d", "i"} -> Out(used, fmtint(p, Signed(arg, WidthOf(p.mod)), 10, FALSE, FALSE))
          [] Char(p) \in {"u", "o", "x", "X"} ->
                Out(used, fmtint(p, Unsigned(arg, WidthOf(p.mod)), Base(Char(p)), Char(p) = "X", TRUE))
          [] Char(p) = "c" -> Out(used, <<arg>>)
          [] Char(p) = "s" -> Out(used, fmtstr(p, arg, p.precision))
          [] Char(p) = "p" ->
                IF arg = 0 THEN Out(used, fmtstr(p, <<"(", "n", "i", "l", ")">>, -1))
                ELSE Out(used, fmtint([p EXCEPT !.flags = @ \cup {"#"}], arg, 16, FALSE, TRUE))
          [] Char(p) = "n" -> [p EXCEPT !.told = Append(@, Signed(Len(p.out), WidthOf(p.mod)))]
          [] Char(p) = "%" -> Out(p, <<"%">>)
          [] OTHER -> p
StateKept(p) == Onward(To([p EXCEPT !.mod = "", !.width = 0, !.precision = -1], "default"))   \* mistake
Reset(p) == Onward(To([p EXCEPT !.flags = {}, !.mod = "", !.width = 0, !.precision = -1], "default"))
Conv(p) == Reset(Converted(p))

Step(p) ==
    CASE p.state = "default" -> Default(p)
      [] p.state = "flags" -> Flags(p)
      [] p.state = "width" -> Width(p)
      [] p.state = "dot" -> Dot(p)
      [] p.state = "precision" -> Precision(p)
      [] p.state = "mod" -> Mod(p)
      [] p.state = "conv" -> Conv(p)
RECURSIVE Run(_)
Run(p) == IF p.overflow \/ Char(p) = NUL THEN p ELSE Run(Step(p))

Parsed(format, args) ==
    Run([format |-> format, args |-> args, at |-> 1, state |-> "default", flags |-> {}, width |-> 0,
         precision |-> -1, mod |-> "", out |-> <<>>, told |-> <<>>, overflow |-> FALSE])

\* OUTCHAR and the end: what of the text reaches the buffer, and where it ends.
StoredFull(out, size) == {i \in DOMAIN out : i <= size}                        \* mistake
Stored(out, size) == {i \in DOMAIN out : i < size}
Terminator(out, size) == IF Len(out) < size THEN Len(out) + 1 ELSE size
Filled(buffer, out, size) ==
    [i \in DOMAIN buffer |-> IF i \in Stored(out, size) THEN out[i]
                             ELSE IF i = Terminator(out, size) THEN NUL ELSE buffer[i]]
Answered(buffer, size, p) ==
    [buffer |-> Filled(buffer, p.out, size), told |-> p.told,
     ret |-> IF p.overflow \/ Len(p.out) >= INT_MAX THEN -1 ELSE Len(p.out)]
vsnprintf(buffer, size, format, args) == Answered(buffer, size, Parsed(format, args))
vsprintf(buffer, format, args) == vsnprintf(buffer, INT_MAX, format, args)

-----------------------------------------------------------------------------
\* What C99 (7.19.6.1) says of one directive: flags, width, precision (-1 for none),
\* modifier and conversion, with an argument.  How it may be written: flags in any
\* order, numbers as digits or as arguments.
Numeral(n, base, digits) ==
    LET size == CHOOSE k \in 1 .. IntBits : n < base^k /\ (k = 1 \/ n >= base^(k - 1))
    IN  [i \in 1 .. size |-> digits[((n \div base^(size - i)) % base) + 1]]
Number(n) == Numeral(n, 10, Decimal)

Written(d, order) ==
    <<"%">> \o order
      \o (IF d.width = 0 THEN <<>> ELSE IF d.star THEN <<"*">> ELSE Number(d.width))
      \o (IF d.precision = -1 THEN <<>> ELSE <<".">> \o (IF d.star THEN <<"*">> ELSE Number(d.precision)))
      \o (CASE d.mod = "" -> <<>> [] d.mod = "hh" -> <<"h", "h">> [] d.mod = "ll" -> <<"l", "l">> [] OTHER -> <<d.mod>>)
      \o <<d.conv>>
Arguments(d) ==
    (IF d.width # 0 /\ d.star THEN <<d.width>> ELSE <<>>)
      \o (IF d.precision # -1 /\ d.star THEN <<d.precision>> ELSE <<>>) \o <<d.arg>>

Left(d) == "-" \in d.flags
Spaced(d, text) == LET n == d.width - Len(text) IN IF Left(d) THEN text \o Fill(n, " ") ELSE Fill(n, " ") \o text
Zeroed(d, before, digits, min) == before \o Fill(min - Len(digits), "0") \o digits
Groups(digits) ==
    LET n == Len(digits) IN IF n <= 3 THEN digits ELSE SubSeq(digits, 1, n - 3) \o <<",">> \o SubSeq(digits, n - 2, n)
MeantInteger(d) ==
    LET v == IF d.conv \in {"d", "i"} THEN Signed(d.arg, WidthOf(d.mod)) ELSE Unsigned(d.arg, WidthOf(d.mod))
        base == CASE d.conv \in {"x", "X"} -> 16 [] d.conv = "o" -> 8 [] OTHER -> 10
        size == IF v < 0 THEN -v ELSE v
        plain == Numeral(size, base, IF d.conv = "X" THEN Upper ELSE Lower)
        octal == "#" \in d.flags /\ d.conv = "o" /\ v # 0 /\ d.precision <= Len(plain)
        digits == (IF octal THEN <<"0">> ELSE <<>>) \o (IF "'" \in d.flags THEN Groups(plain) ELSE plain)
        sign == IF d.conv \notin {"d", "i"} THEN <<>> ELSE IF v < 0 THEN <<"-">>
                ELSE IF "+" \in d.flags THEN <<"+">> ELSE IF " " \in d.flags THEN <<" ">> ELSE <<>>
        before == sign \o (IF "#" \in d.flags /\ d.conv \in {"x", "X"} /\ v # 0 THEN <<"0", d.conv>> ELSE <<>>)
    IN  IF "0" \in d.flags /\ ~Left(d) /\ d.precision = -1
        THEN Zeroed(d, before, digits, d.width - Len(before))
        ELSE Spaced(d, Zeroed(d, before, digits, d.precision))
MeantString(d) == Spaced(d, IF d.precision = -1 THEN d.arg ELSE SubSeq(d.arg, 1, CHOOSE n \in 0 .. Len(d.arg) :
                               n <= d.precision /\ (n = Len(d.arg) \/ n = d.precision)))
Meant(d) == IF d.conv = "s" THEN MeantString(d) ELSE MeantInteger(d)

\* Between other text, and with another directive behind it, a directive is printed as it
\* is meant; of the whole as much as has room reaches the buffer, nothing behind it.
PrintsRight(d, order, size) ==
    LET meant == <<"a">> \o Meant(d) \o <<"-", "7">>
        buffer == [i \in 1 .. size + 1 |-> "old"]
        r == vsnprintf(buffer, size, <<"a">> \o Written(d, order) \o <<"-", "%", "d">>, Append(Arguments(d), 7))
    IN  /\ r.ret = Len(meant)
        /\ \A i \in 1 .. size + 1 :
              r.buffer[i] = IF i < size /\ i <= Len(meant) THEN meant[i]
                            ELSE IF i = Terminator(meant, size) THEN NUL ELSE "old"

\* A width that no int holds is not taken for another one.
WidthsRight(n) ==
    vsnprintf(<<>>, 0, <<"%">> \o Number(n) \o <<"d">>, <<0>>).ret = IF n >= INT_MAX THEN -1 ELSE n

\* Directives C99 does not settle, or the code settles otherwise and nobody uses: zero
\* with a precision of zero is printed as "0", not left out; separators are counted
\* among the zeros of a precision, and stand behind an octal's zero.
Settled(d) ==
    /\ ~(d.conv # "s" /\ d.precision = 0 /\ Unsigned(d.arg, WidthOf(d.mod)) = 0)
    /\ ~("'" \in d.flags /\ (d.precision # -1 \/ d.conv = "o"))
=============================================================================
