------------------------------- MODULE Numbers -------------------------------
(***************************************************************************)
(* Numbers in texts (stdc/stdlib), words of texts (stdc/string) and dates  *)
(* (stdc/time).  A signed number that overflows is undefined in C: the     *)
(* check for it may or may not be there, so a conversion yields the set of *)
(* what it may answer.                                                     *)
(***************************************************************************)
EXTENDS Integers, Sequences, SequencesExt

CONSTANT Bits, LongBits  \* of a long, and of a long long

DigitOf == [c \in {"0", "1", "2", "9", "a", "f", "A", "x", "X"} |->
              CASE c = "0" -> 0 [] c = "1" -> 1 [] c = "2" -> 2 [] c = "9" -> 9 [] c = "f" -> 15
                [] c \in {"x", "X"} -> 33 [] OTHER -> 10]
CharAt(str, i) == IF i \in DOMAIN str THEN str[i] ELSE "end"
\* A number of as many bits, and the last one on either side.
Signed(n, bits) == LET low == n % 2 ^ bits IN IF low >= 2 ^ (bits - 1) THEN low - 2 ^ bits ELSE low
Limit(minus, bits) == IF minus THEN -(2 ^ (bits - 1)) ELSE 2 ^ (bits - 1) - 1

\* A number, the place after it, and whether the caller is told that place.
Read(n, i, told) == [value |-> n, at |-> i, told |-> told]

RECURSIVE Blanks(_, _)
Blanks(str, i) == IF CharAt(str, i) = " " THEN Blanks(str, i + 1) ELSE i
Minus(str, i) == CharAt(str, i) = "-"
Sign(str, i) == IF CharAt(str, i) \in {"+", "-"} THEN i + 1 ELSE i

\* A first 0, with an x or without, is passed over whatever the base is.
Prefixed(str, i) == CharAt(str, i) = "0" /\ CharAt(str, i + 1) \in {"x", "X"}
Prefix(str, i) == IF Prefixed(str, i) THEN i + 2 ELSE IF CharAt(str, i) = "0" THEN i + 1 ELSE i
BaseOf(str, i, base) ==
    IF base # 0 THEN base ELSE IF Prefixed(str, i) THEN 16 ELSE IF CharAt(str, i) = "0" THEN 8 ELSE 0

IsDigit(c, base) == c \in DOMAIN DigitOf /\ DigitOf[c] < base

RECURSIVE Unsigned(_, _, _, _, _)
Unsigned(str, i, base, n, bits) ==
    IF IsDigit(CharAt(str, i), base) THEN Unsigned(str, i + 1, base, ((n * base) + DigitOf[str[i]]) % 2 ^ bits, bits) ELSE Read(n, i, TRUE)

RECURSIVE Signeds(_, _, _, _, _, _)
Signeds(str, i, base, n, minus, bits) ==
    LET more == (n * base) + DigitOf[CharAt(str, i)]
    IN IF ~IsDigit(CharAt(str, i), base) THEN {Read(IF minus THEN Signed(-n, bits) ELSE n, i, TRUE)}
       ELSE Signeds(str, i + 1, base, Signed(more, bits), minus, bits)
            \cup (IF more = Signed(more, bits) THEN {} ELSE {Read(Limit(minus, bits), i, FALSE)})

Misread == [value |-> 0, at |-> 0, told |-> FALSE]  \* a base that there is not
NoBase(base) == base < 0 \/ base = 1 \/ base > 36

SignedFrom(str, base, bits) ==
    LET i == Blanks(str, 1)
    IN IF NoBase(base) THEN {Misread}
       ELSE Signeds(str, Prefix(str, Sign(str, i)), BaseOf(str, Sign(str, i), base), 0, Minus(str, i), bits)
UnsignedFrom(str, base, bits) ==
    LET i == Blanks(str, 1)
    IN IF NoBase(base) THEN Misread ELSE Unsigned(str, Prefix(str, i), BaseOf(str, i, base), 0, bits)

strtol(str, base) == SignedFrom(str, base, Bits)
strtoll(str, base) == SignedFrom(str, base, LongBits)
strtoul(str, base) == UnsignedFrom(str, base, Bits)
\* It adds up in a signed number, which comes to the same.
strtoull(str, base) == UnsignedFrom(str, base, LongBits)

atoi(str) == Signeds(str, Sign(str, Blanks(str, 1)), 10, 0, Minus(str, Blanks(str, 1)), Bits)

-----------------------------------------------------------------------------
(* Words *)

\* What strtok(str), strtok(NULL), ... answer until there is nothing left:
\* a delimiter at the end is followed by an empty word.
RECURSIVE strtok(_, _)
strtok(str, delim) ==
    LET from == SelectInSeq(str, LAMBDA c : c \notin delim)
        trimmed == IF from = 0 THEN <<>> ELSE SubSeq(str, from, Len(str))
        end == SelectInSeq(trimmed, LAMBDA c : c \in delim)
    IN IF end = 0 THEN <<trimmed>>
       ELSE <<SubSeq(trimmed, 1, end - 1)>> \o strtok(SubSeq(trimmed, end + 1, Len(trimmed)), delim)

\* What is in the buffer dest after src was copied: a text that fits exactly,
\* its end included, is not ended, and a longer one is ended behind the buffer.
strncpy(dest, src, maxlen) ==
    LET n == IF Len(src) < maxlen THEN Len(src) ELSE maxlen
        ends == IF maxlen = Len(src) + 1 THEN 0 ELSE n + 1
        size == IF ends > Len(dest) THEN ends ELSE Len(dest)
    IN [k \in 1 .. size |-> IF k <= n THEN src[k] ELSE IF k = ends THEN "end" ELSE dest[k]]

\* Equal in their first maxlen characters; 0 means that all are compared.
SameFirst(p, q, maxlen) ==
    \/ p = q
    \/ maxlen > 0 /\ \A k \in 1 .. maxlen : CharAt(p, k) = CharAt(q, k)

-----------------------------------------------------------------------------
(* Dates: of times from 1970 on *)

IsLeap(year) == (year % 4 = 0 /\ year % 100 # 0) \/ year % 400 = 0

\* Years begin in March here, in eras of 400 years.
Civil(day) ==
    LET days == day + 719468
        era == days \div 146097
        doe == days % 146097
        yoe == (doe - (doe \div 1460) + (doe \div 36524) - (doe \div 146096)) \div 365
        doy == doe - ((365 * yoe) + (yoe \div 4) - (yoe \div 100))
        mp == ((5 * doy) + 2) \div 153
        m == IF mp < 10 THEN mp + 3 ELSE mp - 9
        d == doy - (((153 * mp) + 2) \div 5) + 1
        year == yoe + (era * 400) + (IF m <= 2 THEN 1 ELSE 0)
    IN [year |-> year - 1900, mon |-> m - 1, mday |-> d,
        yday |-> IF m = 1 THEN d - 1 ELSE IF m = 2 THEN 30 + d ELSE doy + 58 + (IF IsLeap(year) THEN 1 ELSE 0)]

gmtime_r(time) ==
    [sec |-> time % 60, min |-> (time \div 60) % 60, hour |-> (time \div 3600) % 24, date |-> Civil(time \div 86400)]

Day(date) ==
    LET mon == IF date.mon < 2 THEN date.mon + 12 ELSE date.mon
        year == date.year + 1900 - (IF date.mon < 2 THEN 1 ELSE 0)
    IN (year * 365) + (year \div 4) - (year \div 100) + (year \div 400)
       + (((153 * (mon - 2)) + 2) \div 5) + date.mday - 1 - 719468

mktime(tm) == (Day(tm.date) * 86400) + (tm.hour * 3600) + (tm.min * 60) + tm.sec

\* What the clock of the computer shows is the time of the place, or not.
time(rtc, utc, offset) == IF utc THEN mktime(rtc) ELSE mktime(rtc) - offset
localtime_r(t, offset) == gmtime_r(t + offset)

-----------------------------------------------------------------------------
(* Reference: numerals, and the calendar *)

Digits == <<"0", "1", "2", "3", "4", "5", "6", "7", "8", "9", "a", "b", "c", "d", "e", "f">>
RECURSIVE Value(_, _)
Value(digits, base) == IF digits = <<>> THEN 0 ELSE (Value(Front(digits), base) * base) + DigitOf[Last(digits)]
Numeral(q) == [k \in 1 .. q.blanks |-> " "] \o q.sign \o q.prefix \o q.digits
Base(q) == IF q.base # 0 THEN q.base ELSE IF q.prefix = <<>> THEN 0 ELSE IF Len(q.prefix) = 1 THEN 8 ELSE 16

(* A number that has room is read with its sign, in the base that was asked  *)
(* for or that its prefix shows, up to the first character that is no digit  *)
(* of it, and its place is told; without a base, decimals are not read,       *)
(* and an x after a single 0 is always passed over.                         *)
NumbersAreRead(q) ==
    LET str == Numeral(q) \o q.rest
        end == Len(Numeral(q)) + 1
        n == Value(q.digits, Base(q))
        size == IF q.sign = <<"-">> THEN -n ELSE n
        read == \A d \in 1 .. Len(q.digits) : IsDigit(q.digits[d], Base(q))
        x == q.prefix = <<>> /\ q.digits = <<"0">> /\ q.rest = <<"x">>
    IN read /\ ~x =>
         /\ n < 2 ^ (Bits - 1) => strtol(str, q.base) = {Read(size, end, TRUE)}
         /\ n < 2 ^ (LongBits - 1) => strtoll(str, q.base) = {Read(size, end, TRUE)}
         /\ q.sign = <<>> => strtoul(str, q.base) = Read(n % 2 ^ Bits, end, TRUE) /\ strtoull(str, q.base) = Read(n % 2 ^ LongBits, end, TRUE)
         /\ q.base = 10 /\ q.prefix = <<>> => {r.value : r \in atoi(str)} = {r.value : r \in strtol(str, 10)}

(* The words of a text are read in their order, and none is empty but the    *)
(* last, where a delimiter ends the text.                                    *)
WordsAreRead(str, delim) ==
    LET words == strtok(str, delim)
    IN /\ FlattenSeq(words) = SelectSeq(str, LAMBDA c : c \notin delim)
       /\ \A k \in 1 .. Len(words) - 1 : words[k] # <<>>
       /\ Last(words) = <<>> <=> str = <<>> \/ Last(str) \in delim

DaysIn(year, mon) == IF mon = 1 THEN (IF IsLeap(year + 1900) THEN 29 ELSE 28) ELSE IF mon \in {3, 5, 8, 10} THEN 30 ELSE 31
NextDay(d) ==
    IF d.mday < DaysIn(d.year, d.mon) THEN <<d.year, d.mon, d.mday + 1>>
    ELSE IF d.mon < 11 THEN <<d.year, d.mon + 1, 1>> ELSE <<d.year + 1, 0, 1>>

(* A day and the next one have dates that follow each other, a date is that  *)
(* of its day, the days of a year are counted up but for a step in March,    *)
(* and the time of a place is what its clock shows.                          *)
DatesAreRight(day, sec, offset) ==
    LET d == Civil(day)
        e == Civil(day + 1)
        shown == gmtime_r(sec)
    IN /\ NextDay(d) = <<e.year, e.mon, e.mday>> /\ Day(d) = day
       /\ e.yday = (IF e.yday = 0 THEN 0 ELSE IF e.mon = 2 /\ e.mday = 1 THEN d.yday ELSE d.yday + 1)
       /\ mktime(shown) = sec
       /\ sec >= offset => localtime_r(time(shown, FALSE, offset), offset) = shown
=============================================================================
