-------------------------------- MODULE Json --------------------------------
(***************************************************************************)
(* The reader of the boot configuration (json/json.c): recursive descent   *)
(* over a text that is not terminated.  A text t has its characters, the   *)
(* character that happens to be in memory behind them, and the number of   *)
(* blocks that may be allocated.  A keyword is one character here: "true", *)
(* "false", "null".  A step of the reader takes the place it is at and the *)
(* blocks in use, and yields whether it went well, a value, and both.      *)
(***************************************************************************)
EXTENDS Integers, Sequences, SequencesExt, TLC

Blank == {" "}
DigitOf == [c \in {"0", "1", "2"} |-> CHOOSE n \in 0 .. 2 : <<"0", "1", "2">>[n + 1] = c]
IsDigit(c) == c \in DOMAIN DigitOf
Keywords == {"true", "false", "null"}

At(t, i) == IF i <= Len(t.str) THEN t.str[i] ELSE IF i = Len(t.str) + 1 THEN t.beyond ELSE "other"
RECURSIVE skip_whitespace(_, _)
skip_whitespace(t, i) == IF i <= Len(t.str) /\ t.str[i] \in Blank THEN skip_whitespace(t, i + 1) ELSE i
\* Whether the text goes on after a character.
More(t, i) == i + 1 <= Len(t.str)

Ok(v, i, live, fits) == [ok |-> TRUE, value |-> v, at |-> i, live |-> live, fits |-> fits]
Bad(live, fits) == [ok |-> FALSE, value |-> <<>>, at |-> 0, live |-> live, fits |-> fits]
\* A value has one field, named for its type.
Val(type, v) == type :> v
Is(v, type) == type \in DOMAIN v

-----------------------------------------------------------------------------
(* Strings, numbers and keywords *)

RECURSIVE Count(_, _)
Count(t, i) ==
    IF i > Len(t.str) \/ t.str[i] = "quote" THEN 0
    ELSE IF t.str[i] = "\\" THEN 1 + Count(t, i + 2) ELSE 1 + Count(t, i + 1)
count_escaped_string_len(t, i) == Count(t, i)

\* The characters up to the quote, and the place after it; an escaped one is
\* dropped.  The quote itself must not be the last character.
RECURSIVE Characters(_, _, _)
Characters(t, i, buf) ==
    LET c == t.str[i]
        next == IF c = "\\" THEN i + 2 ELSE i + 1
    IN IF next > Len(t.str) THEN [ok |-> FALSE, str |-> buf, at |-> 0]
       ELSE IF c = "quote" THEN [ok |-> TRUE, str |-> buf, at |-> next]
       ELSE Characters(t, next, IF c = "\\" THEN buf ELSE Append(buf, c))

\* The buffer has room for what was counted before.
parse_string_literal(t, start, live) ==
    LET i == skip_whitespace(t, start)
        read == Characters(t, i + 1, <<>>)
        fits == Len(read.str) <= count_escaped_string_len(t, i + 1)
    IN IF At(t, i) # "quote" \/ ~More(t, i) \/ live >= t.room THEN Bad(live, TRUE)
       ELSE IF read.ok THEN Ok(read.str, read.at, live + 1, fits) ELSE Bad(live, fits)

parse_string(t, i, live) ==
    LET made == parse_string_literal(t, i, live + 1)
    IN IF live >= t.room THEN Bad(live, TRUE)
       ELSE IF made.ok THEN [made EXCEPT !.value = Val("string", made.value)] ELSE Bad(live, made.fits)

\* Digits are read for as long as there are any, even behind the text.
RECURSIVE DigitsFrom(_, _, _)
DigitsFrom(t, i, n) == IF IsDigit(At(t, i)) THEN DigitsFrom(t, i + 1, 10 * n + DigitOf[At(t, i)]) ELSE <<n, i>>
parse_number(t, i, live) ==
    LET negate == At(t, i) = "-"
        read == DigitsFrom(t, IF negate THEN i + 1 ELSE i, 0)
    IN IF ~More(t, i) \/ live >= t.room THEN Bad(live, TRUE)
       ELSE Ok(Val("number", IF negate THEN -read[1] ELSE read[1]), read[2], live + 1, TRUE)

\* A keyword must not be the end of the text.
parse_other(t, i, live) ==
    IF live >= t.room \/ ~More(t, i) THEN Bad(live, TRUE) ELSE Ok(Val("keyword", At(t, i)), i + 1, live + 1, TRUE)

-----------------------------------------------------------------------------
(* Objects, arrays and values *)

\* A slip to compare with: the place is moved once more after a comma.
FollowsTwice(t, i, end) ==
    CASE At(t, i) = end -> IF More(t, i) THEN [as |-> "end", at |-> i + 1] ELSE [as |-> "bad"]
      [] At(t, i) = "," -> IF More(t, i + 1) THEN [as |-> "comma", at |-> i + 3] ELSE [as |-> "bad"]
      [] OTHER -> [as |-> "bad"]

\* What follows an element: the end, or a comma, of which the character after
\* it is passed over too; then there must be more.
Follows(t, i, end) ==
    CASE At(t, i) = end -> IF More(t, i) THEN [as |-> "end", at |-> i + 1] ELSE [as |-> "bad"]
      [] At(t, i) = "," -> IF More(t, i) /\ More(t, i + 1) THEN [as |-> "comma", at |-> i + 2] ELSE [as |-> "bad"]
      [] OTHER -> [as |-> "bad"]

RECURSIVE parse_value(_, _, _), Elements(_, _, _, _, _)
\* The elements of an array or an object from a place on; blocks of elements
\* that are complete stay in use when a later one fails.
Elements(t, start, live, end, done) ==
    LET i == skip_whitespace(t, start)
        key == parse_string_literal(t, i, live + 1)
        colon == skip_whitespace(t, key.at)
        value == IF end = "]" THEN parse_value(t, i, live + 1) ELSE parse_value(t, skip_whitespace(t, colon + 1), key.live)
        after == Follows(t, skip_whitespace(t, value.at), end)
        all == Append(done, IF end = "]" THEN value.value ELSE <<key.value, value.value>>)
    IN IF live >= t.room THEN Bad(live, TRUE)
       ELSE IF end = "}" /\ ~key.ok THEN Bad(key.live, key.fits)
       ELSE IF end = "}" /\ (At(t, colon) # ":" \/ ~More(t, colon)) THEN Bad(key.live, key.fits)
       ELSE IF ~value.ok THEN Bad(value.live, value.fits)
       ELSE IF after.as = "bad" THEN Bad(value.live, value.fits)
       ELSE IF after.as = "end" THEN Ok(all, after.at, value.live, value.fits)
       ELSE Elements(t, after.at, value.live, end, all)

Composite(t, i, live, end, type) ==
    LET made == Elements(t, i + 1, live + 1, end, <<>>)
    IN IF ~More(t, i) \/ live >= t.room THEN Bad(live, TRUE)
       ELSE IF made.ok THEN [made EXCEPT !.value = Val(type, made.value)]
       \* The block of the array or object is the only one that is freed.
       ELSE Bad(made.live - 1, made.fits)

parse_object(t, i, live) == Composite(t, i, live, "}", "object")
parse_array(t, i, live) == Composite(t, i, live, "]", "array")

parse_value(t, start, live) ==
    LET i == skip_whitespace(t, start)
        c == At(t, i)
    IN CASE c = "{" -> parse_object(t, i, live)
         [] c = "[" -> parse_array(t, i, live)
         [] c = "quote" -> parse_string(t, i, live)
         [] IsDigit(c) \/ c = "-" -> parse_number(t, i, live)
         [] c \in Keywords -> parse_other(t, i, live)
         [] OTHER -> Bad(live, TRUE)

VlJson_Parse(t) == parse_value(t, 1, 0)

-----------------------------------------------------------------------------
(* Looking values up *)

Elem(key, v) == <<key, v>>
VlJson_GetObjectElementValue(obj, key) ==
    LET same == {k \in DOMAIN obj.object : obj.object[k][1] = key}
    IN IF same = {} THEN <<>> ELSE <<obj.object[CHOOSE k \in same : \A j \in same : k <= j][2]>>
VlJson_GetArrayElementValue(arr, idx) == IF idx + 1 \in DOMAIN arr.array THEN <<arr.array[idx + 1]>> ELSE <<>>
VlJson_GetArrayElementCount(arr) == Len(arr.array)

-----------------------------------------------------------------------------
(* What is read is what was written *)

\* A value as JSON has it: a blank after each comma, or none; and its blocks.
Comma(spaced) == IF spaced THEN <<",", " ">> ELSE <<",">>
Joined(parts, spaced) == FoldLeftDomain(LAMBDA s, i : IF i = 1 THEN parts[1] ELSE s \o Comma(spaced) \o parts[i], <<>>, parts)
Quoted(str) == <<"quote">> \o str \o <<"quote">>
RECURSIVE Numeral(_)
Numeral(n) == IF n < 0 THEN <<"-">> \o Numeral(-n)
              ELSE IF n < 3 THEN <<<<"0", "1", "2">>[n + 1]>> ELSE Append(Numeral(n \div 10), Numeral(n % 10)[1])
RECURSIVE Written(_, _)
Written(v, spaced) ==
    CASE Is(v, "string") -> Quoted(v.string)
      [] Is(v, "number") -> Numeral(v.number)
      [] Is(v, "keyword") -> <<v.keyword>>
      [] Is(v, "array") -> <<"[">> \o Joined([k \in DOMAIN v.array |-> Written(v.array[k], spaced)], spaced) \o <<"]">>
      [] Is(v, "object") ->
           <<"{">> \o Joined([k \in DOMAIN v.object |-> Quoted(v.object[k][1]) \o <<":">> \o Written(v.object[k][2], spaced)], spaced) \o <<"}">>
RECURSIVE Blocks(_)
Blocks(v) ==
    CASE Is(v, "string") -> 2
      [] Is(v, "number") \/ Is(v, "keyword") -> 1
      [] Is(v, "array") -> 1 + Len(v.array) + FoldLeft(+, 0, [k \in DOMAIN v.array |-> Blocks(v.array[k])])
      [] Is(v, "object") -> 1 + 2 * Len(v.object) + FoldLeft(+, 0, [k \in DOMAIN v.object |-> Blocks(v.object[k][2])])

\* Nothing is empty in it: the reader wants an element after each bracket.
RECURSIVE Full(_)
Full(v) ==
    CASE Is(v, "array") -> v.array # <<>> /\ \A k \in DOMAIN v.array : Full(v.array[k])
      [] Is(v, "object") -> v.object # <<>> /\ \A k \in DOMAIN v.object : Full(v.object[k][2])
      [] OTHER -> TRUE
RECURSIVE Commas(_)
Commas(v) ==
    CASE Is(v, "array") -> Len(v.array) > 1 \/ \E k \in DOMAIN v.array : Commas(v.array[k])
      [] Is(v, "object") -> Len(v.object) > 1 \/ \E k \in DOMAIN v.object : Commas(v.object[k][2])
      [] OTHER -> FALSE

\* A question about a value, and one about any text at all.
Parsed(q) == VlJson_Parse([str |-> IF q.any THEN q.str ELSE Written(q.value, q.spaced) \o q.end,
                           beyond |-> q.beyond, room |-> q.room])

(* A value without empty arrays and objects that is written with a blank     *)
(* after each comma and with something behind it is read as it is, if there  *)
(* is memory for its blocks, and these are all that stay in use; an empty    *)
(* one, or one that ends the text, is refused.  Whatever the text, strings   *)
(* fit their buffers, and what is behind it matters to no array and object.  *)
IsRead(q, r) ==
    /\ r.fits /\ r.live <= q.room
    /\ r = Parsed([q EXCEPT !.beyond = "other"]) \/ ~q.any \/ q.str[1] \notin {"{", "["}
    /\ r.ok => r.live = Blocks(r.value)
    /\ ~q.any =>
         /\ Full(q.value) /\ (q.spaced \/ ~Commas(q.value)) /\ q.end # <<>> =>
              r.ok = (Blocks(q.value) <= q.room) /\ (r.ok => r.value = q.value)
         /\ ~Full(q.value) \/ (q.end = <<>> /\ ~Is(q.value, "number")) => ~r.ok
=============================================================================
