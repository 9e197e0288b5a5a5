------------------------------- MODULE Printf -------------------------------
(***************************************************************************)
(* Formatted output (stdc/stdio/vcprintf.c): what is written for a format  *)
(* and its arguments, compared with what the C standard asks for.          *)
(* A text is a sequence of characters, strings of one; so are the formats. *)
(* Integers have few bits, for the code only cuts and extends them.        *)
(* Wide characters and floating point print nothing in the source.         *)
(***************************************************************************)
EXTENDS Integers, Sequences, SequencesExt, TLC

CONSTANT Bits  \* of "BYTE", "SHORT", "INT", "LONG" and "LONG_LONG"

Greater(a, b) == IF a < b THEN b ELSE a
Repeat(c, n) == [i \in 1 .. Greater(n, 0) |-> c]

hex_table == [n \in 0 .. 15 |-> <<"0", "1", "2", "3", "4", "5", "6", "7", "8", "9", "A", "B", "C", "D", "E", "F">>[n + 1]]
hex_table_lower == [n \in 0 .. 15 |-> IF n < 10 THEN hex_table[n] ELSE <<"a", "b", "c", "d", "e", "f">>[n - 9]]
Digits == {hex_table[n] : n \in 0 .. 9}
Value(c) == CHOOSE n \in 0 .. 9 : hex_table[n] = c
Number(cs) == FoldLeft(LAMBDA n, c : 10 * n + Value(c), 0, cs)

-----------------------------------------------------------------------------
(* decode_spec *)

CharAt(fmt, i) == IF i <= Len(fmt) THEN fmt[i] ELSE "end"
RECURSIVE After(_, _, _)
After(fmt, i, set) == IF CharAt(fmt, i) \in set THEN After(fmt, i + 1, set) ELSE i

Arg == -1  \* WIDTH_ARG, PREC_ARG
Auto == 0  \* WIDTH_AUTO, and a precision that is not given

Lengths == <<"h", "h">> :> "BYTE" @@ <<"h">> :> "SHORT" @@ <<"l", "l">> :> "LONG_LONG" @@ <<"l">> :> "LONG"
           @@ <<"j">> :> "INTMAX_T" @@ <<"z">> :> "SIZE_T" @@ <<"t">> :> "PTRDIFF_T" @@ <<"L">> :> "LONG_DOUBLE"
Unsigned == "BYTE" :> "UBYTE" @@ "SHORT" :> "USHORT" @@ "INT" :> "UINT" @@ "LONG" :> "ULONG" @@ "LONG_LONG" :> "ULONG_LONG"

Floats == {"f", "F", "e", "E", "g", "G", "a", "A"}
\* The type that a length and a specifier make; a specifier that is not known
\* leaves the type of the length, with base 0, and is written as it is.
Type(length, c) ==
    CASE c = "%" -> "PERCENT"
      [] c \in {"d", "i"} -> IF length = "LONG_DOUBLE" THEN "INVALID" ELSE length
      [] c \in {"u", "o", "x", "X"} ->
           IF length = "LONG_DOUBLE" THEN "INVALID" ELSE IF length \in DOMAIN Unsigned THEN Unsigned[length] ELSE length
      [] c \in Floats -> IF length = "INT" THEN "DOUBLE" ELSE IF length = "LONG_DOUBLE" THEN length ELSE "INVALID"
      [] c = "c" -> IF length = "INT" THEN "CHAR" ELSE IF length = "LONG" THEN "WCHAR" ELSE "INVALID"
      [] c = "s" -> IF length = "INT" THEN "STR" ELSE IF length = "LONG" THEN "WSTR" ELSE "INVALID"
      [] c = "p" -> IF length = "INT" THEN "PTR" ELSE "INVALID"
      [] OTHER -> length
Base(c) == CASE c \in {"d", "i", "u"} -> 10 [] c = "o" -> 8 [] c \in {"x", "X", "p"} -> 16 [] OTHER -> 0
Known == {"%", "d", "i", "u", "o", "x", "X", "c", "s", "p", "n"} \cup Floats

\* What is between a '%' and its specifier, and where the format goes on.
decode_spec(fmt, i) ==
    LET w == After(fmt, i, {"-", "+", " ", "#", "0"})
        flags == {fmt[k] : k \in i .. w - 1}
        wEnd == IF CharAt(fmt, w) = "*" THEN w + 1 ELSE After(fmt, w, Digits)
        dot == CharAt(fmt, wEnd) = "."
        pEnd == IF ~dot THEN wEnd ELSE IF CharAt(fmt, wEnd + 1) = "*" THEN wEnd + 2 ELSE After(fmt, wEnd + 1, Digits)
        Amount(a, b) == IF a <= b /\ fmt[a] = "*" THEN Arg ELSE Number(SubSeq(fmt, a, b))
        two == <<CharAt(fmt, pEnd), CharAt(fmt, pEnd + 1)>>
        l == IF two \in DOMAIN Lengths THEN two ELSE IF <<two[1]>> \in DOMAIN Lengths THEN <<two[1]>> ELSE <<>>
        length == IF l = <<>> THEN "INT" ELSE Lengths[l]
        c == CharAt(fmt, pEnd + Len(l))
        precision == IF dot THEN Amount(wEnd + 1, pEnd - 1) ELSE Auto
    IN [type |-> Type(length, c), base |-> Base(c), width |-> Amount(w, wEnd - 1),
        precision |-> IF Type(length, c) = "PTR" /\ precision = 0 THEN 8 ELSE precision,
        flags |-> flags \cup (IF c \in {"u", "o", "x"} THEN {"lower"} ELSE {}),
        next |-> pEnd + Len(l) + (IF c \in Known THEN 1 ELSE 0)]

-----------------------------------------------------------------------------
(* The conversions: what is written, and how many arguments are used *)

Text(s, n) == [out |-> s, used |-> n, fault |-> "no"]
Fault(f) == [out |-> <<>>, used |-> 0, fault |-> f]
ArgsOf(spec) == (IF spec.width = Arg THEN 1 ELSE 0) + (IF spec.precision = Arg THEN 1 ELSE 0)

\* Width and precision come before the value here ...
Ahead(spec, args) ==
    [width |-> IF spec.width = Arg THEN args[1] ELSE spec.width,
     precision |-> IF spec.precision = Arg THEN args[ArgsOf(spec)] ELSE spec.precision]

\* A loop down to zero never ends when it begins below.
print_char(spec, args) ==
    LET w == IF spec.width = Auto THEN 1 ELSE Ahead(spec, args).width
        ch == args[ArgsOf(spec) + 1]
        pad == Repeat(" ", w - 1)
    IN IF w < 1 THEN Fault("endless")
       ELSE Text(IF "-" \in spec.flags THEN <<ch>> \o pad ELSE pad \o <<ch>>, ArgsOf(spec) + 1)

print_str(spec, args) ==
    LET str == args[ArgsOf(spec) + 1]
        asked == Greater(Ahead(spec, args).width, 0)
        prec == Ahead(spec, args).precision
        limited == spec.precision # Auto /\ prec < Len(str)
        width == IF limited THEN prec ELSE Greater(asked, Len(str))
        pad == Repeat(" ", width - Len(str))
        shown == SubSeq(str, 1, IF limited THEN Greater(prec, 0) ELSE Len(str))
    IN Text(IF "-" \in spec.flags THEN shown \o pad ELSE pad \o shown, ArgsOf(spec) + 1)

RECURSIVE Figures(_, _, _)
Figures(n, base, table) == IF n < base THEN <<table[n]>> ELSE Append(Figures(n \div base, base, table), table[n % base])

Most == 2 ^ Bits["LONG_LONG"]

\* num is unsigned, of as many bits as there are.
do_print_int(num, width, given, spec, signed) ==
    LET minus == signed /\ spec.base = 10 /\ num >= Most \div 2
        sign == IF minus THEN <<"-">>
                ELSE IF " " \in spec.flags THEN <<" ">> ELSE IF "+" \in spec.flags THEN <<"+">> ELSE <<>>
        figures == Figures(IF minus THEN Most - num ELSE num, spec.base,
                           IF "lower" \in spec.flags THEN hex_table_lower ELSE hex_table)
        precision == IF "0" \in spec.flags THEN Greater(width, given) ELSE given
        pad == IF "0" \in spec.flags THEN <<>>
               ELSE Repeat(" ", width - Greater(given, Len(figures)) - Len(sign))
        number == Repeat("0", precision - Len(figures)) \o figures
    IN IF "-" \in spec.flags THEN sign \o number \o pad ELSE sign \o pad \o number

Signed == {"LONG_LONG", "LONG", "BYTE", "SHORT", "INT", "INTMAX_T", "PTRDIFF_T"}
BitsOf(type) ==
    CASE type \in DOMAIN Bits -> Bits[type]
      [] type \in {"UBYTE", "USHORT", "UINT", "ULONG", "ULONG_LONG"} -> Bits[CHOOSE t \in DOMAIN Unsigned : Unsigned[t] = type]
      [] type \in {"INTMAX_T", "UINTMAX_T"} -> Bits["LONG_LONG"]
      [] OTHER -> Bits["LONG"]
\* The value of an argument, cut to its type and extended.
Cut(type, v) ==
    LET n == 2 ^ BitsOf(type)
        low == v % n
    IN IF type \in Signed /\ low >= n \div 2 THEN low - n + Most ELSE low

\* ... and after it here, and so are taken for each other.
print_int(spec, args) ==
    LET num == Cut(spec.type, args[1])
        width == IF spec.width = Arg THEN args[2] ELSE spec.width
        precision == IF spec.precision = Arg THEN args[ArgsOf(spec) + 1] ELSE spec.precision
        zero == "#" \in spec.flags /\ spec.base # 10 /\ width > 0
        x == zero /\ width > 1 /\ spec.base = 16
        prefix == (IF zero THEN <<"0">> ELSE <<>>) \o (IF x THEN <<IF "lower" \in spec.flags THEN "x" ELSE "X">> ELSE <<>>)
    IN IF spec.base = 0 /\ num # 0 THEN Fault("divided")
       ELSE Text(prefix \o do_print_int(num, width - Len(prefix), precision,
                                        IF spec.base = 0 THEN [spec EXCEPT !.base = 1] ELSE spec, spec.type \in Signed),
                 ArgsOf(spec) + 1)

Converted(spec, args) ==
    CASE spec.type = "PERCENT" -> Text(<<"%">>, 0)
      [] spec.type = "CHAR" -> print_char(spec, args)
      [] spec.type = "STR" -> print_str(spec, args)
      [] spec.type \in {"WCHAR", "WSTR", "DOUBLE", "LONG_DOUBLE"} -> Text(<<>>, ArgsOf(spec) + 1)
      [] spec.type = "INVALID" -> Text(<<>>, 0)
      [] OTHER -> print_int(spec, args)

RECURSIVE Rest(_, _, _, _)
Rest(fmt, i, args, out) ==
    IF i > Len(fmt) THEN Text(out, 0)
    ELSE IF fmt[i] # "%" THEN Rest(fmt, i + 1, args, Append(out, fmt[i]))
    ELSE LET spec == decode_spec(fmt, i + 1)
             made == Converted(spec, args)
         IN IF made.fault # "no" THEN [made EXCEPT !.out = out]
            ELSE Rest(fmt, spec.next, SubSeq(args, made.used + 1, Len(args)), out \o made.out)
vcprintf(fmt, args) == Rest(fmt, 1, args, <<>>)

-----------------------------------------------------------------------------
(* What the standard asks for: a conversion is a record of its flags, its    *)
(* width and precision (or none), its length and specifier, and its value.   *)

RECURSIVE Numeral(_)
Numeral(n) == IF n < 10 THEN <<hex_table[n]>> ELSE Append(Numeral(n \div 10), hex_table[n % 10])
Letters(q) ==
    <<"%">> \o SetToSeq(q.flags)
    \o (IF q.width = <<>> THEN <<>> ELSE IF q.star THEN <<"*">> ELSE Numeral(q.width[1]))
    \o (IF q.precision = <<>> THEN <<>> ELSE <<".">> \o Numeral(q.precision[1])) \o q.length \o <<q.c>>

\* In the middle of other text; a width that is an argument comes first.
Printed(q) ==
    vcprintf(<<"a">> \o Letters(q) \o <<"%", "%">>, (IF q.star THEN q.width ELSE <<>>) \o <<q.value>>)

LengthOf(q) == IF q.length = <<>> THEN "INT" ELSE Lengths[q.length]
Filled(q, left, text, zeros) ==
    LET n == (IF q.width = <<>> THEN 0 ELSE q.width[1]) - Len(left) - Len(text)
    IN IF "-" \in q.flags THEN left \o text \o Repeat(" ", n)
       ELSE IF zeros THEN left \o Repeat("0", n) \o text ELSE Repeat(" ", n) \o left \o text

StandardInt(q) ==
    LET n == 2 ^ BitsOf(LengthOf(q))
        low == q.value % n
        signed == q.c \in {"d", "i"}
        minus == signed /\ low >= n \div 2
        size == IF minus THEN n - low ELSE low
        base == Base(q.c)
        bare == IF q.precision = <<0>> /\ size = 0 THEN <<>>
                ELSE Figures(size, base, IF q.c = "X" THEN hex_table ELSE hex_table_lower)
        figures == Repeat("0", (IF q.precision = <<>> THEN 0 ELSE q.precision[1]) - Len(bare)) \o bare
        octal == "#" \in q.flags /\ q.c = "o" /\ (figures = <<>> \/ figures[1] # "0")
        left == CASE minus -> <<"-">>
                  [] signed /\ ~minus /\ "+" \in q.flags -> <<"+">>
                  [] signed /\ ~minus /\ " " \in q.flags /\ "+" \notin q.flags -> <<" ">>
                  [] "#" \in q.flags /\ base = 16 /\ size # 0 -> <<"0", IF q.c = "X" THEN "X" ELSE "x">>
                  [] OTHER -> <<>>
    IN Filled(q, left, (IF octal THEN <<"0">> ELSE <<>>) \o figures, "0" \in q.flags /\ q.precision = <<>>)

Standard(q) ==
    CASE q.c = "s" -> Filled(q, <<>>, IF q.precision = <<>> \/ q.precision[1] >= Len(q.value) THEN q.value
                                      ELSE SubSeq(q.value, 1, q.precision[1]), FALSE)
      [] q.c = "c" -> Filled(q, <<>>, <<q.value>>, FALSE)
      [] OTHER -> StandardInt(q)

\* Where the code does as the standard says: a sign that meets no padding on
\* its left, a width that zeros fill without one, no '#', no precision of 0,
\* and a precision that is not both too small for a text and narrower than it.
Signs(q) ==
    q.c \in {"d", "i"} /\ (q.flags \cap {"+", " "} # {} \/ q.value % 2 ^ BitsOf(LengthOf(q)) >= 2 ^ (BitsOf(LengthOf(q)) - 1))
Meant(q) ==
    /\ q.precision # <<0>> /\ "#" \notin q.flags
    /\ q.c = "s" => (q.precision # <<>> /\ q.width # <<>> => Len(q.value) <= q.precision[1] \/ q.width[1] <= q.precision[1])
    /\ q.c \notin {"s", "c"} =>
         /\ q.width # <<>> /\ Signs(q) => "-" \in q.flags /\ "0" \notin q.flags
         /\ "0" \in q.flags /\ q.width # <<>> => "-" \notin q.flags /\ q.precision = <<>>
         /\ ~({"+", " "} \subseteq q.flags) /\ (q.c \notin {"d", "i"} => q.flags \cap {"+", " "} = {})

\* What is between blanks and zeros of an output, and its value.
Significant(s) == SelectSeq(s, LAMBDA c : c \notin {" ", "0", "+"})

(* A single conversion that is meant writes what the standard says; any      *)
(* conversion of an integer writes its digits in their order, with a minus   *)
(* if it is negative, and is at least as wide as asked.                      *)
IsPrinted(q, a) ==
    LET out == SubSeq(a.out, 2, Len(a.out) - 1)
    IN /\ a.fault = "no" /\ a.out[1] = "a" /\ Last(a.out) = "%"
       /\ Meant(q) => out = Standard(q)
       /\ q.c \notin {"s", "c"} /\ "#" \notin q.flags => Significant(out) = Significant(Standard(q))
       /\ q.width # <<>> /\ (q.c = "s" => q.precision = <<>>) => Len(out) >= q.width[1]
=============================================================================
