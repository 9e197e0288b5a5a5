------------------------------- MODULE Options -------------------------------
(***************************************************************************)
(* The options of commands (lib/getopt), and the two commands that have    *)
(* some: echo and vmode.  The words of a line lie one behind the other in  *)
(* a buffer that is at the same place for each line, and the place in a    *)
(* group of options, optcursor, is kept from one call to the next, and     *)
(* from one command to the next.                                           *)
(***************************************************************************)
EXTENDS Numbers, FiniteSets

CONSTANTS Beginning,  \* what every byte at the beginning of memory is: "end", or no option
          Beyond      \* what is behind the words of a line, likewise

-----------------------------------------------------------------------------
(* getopt: words[1] is the name of the command *)

NULL == 0
\* The place after NULL is at the beginning of memory.
Low == -1
Memory(words) == FlattenSeq([k \in DOMAIN words |-> Append(words[k], "end")])
\* The place of a word's first character.
PlaceOf(words, k) == Len(Memory(SubSeq(words, 1, k - 1))) + 1
Byte(words, place) ==
    IF place = Low THEN Beginning ELSE IF place \in DOMAIN Memory(words) THEN Memory(words)[place] ELSE Beyond
After(place) == IF place = Low THEN Low ELSE place + 1
\* The text from a place to its end.
TextAt(words, place) ==
    LET tail == SubSeq(Memory(words), place, Len(Memory(words)))
    IN SubSeq(tail, 1, SelectInSeq(tail, LAMBDA c : c = "end") - 1)

\* What is known between the calls, with what the last one answered.
getopt_init(optcursor) == [optind |-> 2, optcursor |-> optcursor, optarg |-> <<>>, retval |-> "none"]
NoMore(s, optind) == [optind |-> optind, optcursor |-> NULL, optarg |-> <<>>, retval |-> "none"]
IsGroup(word) == Len(word) > 1 /\ word[1] = "-" /\ word # <<"-", "-">>

\* A colon behind an option is for an argument, and two for one it may have.
IsKnown(optstring, c) == c \in ToSet(optstring)
Colons(optstring, c) ==
    LET k == SelectInSeq(optstring, LAMBDA x : x = c)
    IN IF CharAt(optstring, k + 1) # ":" THEN 0 ELSE IF CharAt(optstring, k + 2) # ":" THEN 1 ELSE 2
Missing(optstring) == IF CharAt(optstring, 1) = ":" THEN ":" ELSE "?"

\* Of an option that had an argument the place is NULL, and one is added to it.
WithArgument(s, words, optstring, c, place) ==
    LET inside == Byte(words, After(place)) # "end"
        next == s.optind + 1
        Answer(optind, optarg, retval) == [optind |-> optind, optcursor |-> Low, optarg |-> optarg, retval |-> retval]
    IN IF inside THEN Answer(next, <<TextAt(words, After(place))>>, c)
       ELSE IF Colons(optstring, c) = 2 THEN Answer(next, <<>>, c)
       ELSE IF next \in DOMAIN words THEN Answer(next + 1, <<words[next]>>, c)
       ELSE Answer(next + 1, <<>>, Missing(optstring))

OptionAt(s, words, optstring, place) ==
    LET c == Byte(words, place)
    IN IF IsKnown(optstring, c) /\ Colons(optstring, c) > 0 THEN WithArgument(s, words, optstring, c, place)
       ELSE [optind |-> IF Byte(words, After(place)) = "end" THEN s.optind + 1 ELSE s.optind,
             optcursor |-> After(place), optarg |-> <<>>, retval |-> IF IsKnown(optstring, c) THEN c ELSE "?"]

getopt(s, words, optstring) ==
    IF s.optind \notin DOMAIN words THEN NoMore(s, s.optind)
    ELSE IF words[s.optind] = <<"-", "-">> THEN NoMore(s, s.optind + 1)
    ELSE IF ~IsGroup(words[s.optind]) THEN NoMore(s, s.optind)
    ELSE IF s.optcursor = NULL \/ Byte(words, s.optcursor) = "end"
    THEN OptionAt(s, words, optstring, PlaceOf(words, s.optind) + 1)
    ELSE OptionAt(s, words, optstring, s.optcursor)

IsLong(word) == Len(word) > 2 /\ word[1] = "-" /\ word[2] = "-"
NameIn(word) ==
    LET k == SelectInSeq(word, LAMBDA c : c = "=") IN IF k = 0 THEN SubSeq(word, 3, Len(word)) ELSE SubSeq(word, 3, k - 1)
ArgumentIn(word) ==
    LET k == SelectInSeq(word, LAMBDA c : c = "=") IN IF k = 0 THEN <<>> ELSE <<SubSeq(word, k + 1, Len(word))>>

\* The option with that very name, or those whose names begin with it.
Matches(word, longopts) ==
    LET text == SubSeq(word, 3, Len(word))
        name == NameIn(word)
        exact == {k \in DOMAIN longopts : longopts[k].name = name}
    IN IF exact # {} THEN exact ELSE {k \in DOMAIN longopts : SameFirst(longopts[k].name, text, Len(name))}

\* optcursor is left as it is, also when there are no words left.
getopt_long(s, words, optstring, longopts) ==
    LET word == words[s.optind]
        o == longopts[CHOOSE k \in Matches(word, longopts) : TRUE]
        next == s.optind + 1
        Answer(optind, optarg, retval) == [optind |-> optind, optcursor |-> s.optcursor, optarg |-> optarg, retval |-> retval]
    IN IF s.optind \notin DOMAIN words THEN Answer(s.optind, <<>>, "none")
       ELSE IF ~IsLong(word) THEN getopt(s, words, optstring)
       ELSE IF Cardinality(Matches(word, longopts)) # 1 THEN Answer(next, <<>>, "?")
       ELSE IF o.has_arg = "no" THEN Answer(next, <<>>, IF "=" \in ToSet(word) THEN "?" ELSE o.val)
       ELSE IF o.has_arg = "optional" \/ ArgumentIn(word) # <<>> THEN Answer(next, ArgumentIn(word), o.val)
       ELSE IF next \in DOMAIN words THEN Answer(next + 1, <<words[next]>>, o.val)
       ELSE Answer(next + 1, <<>>, ":")

\* A command reads its options until there are none, or one that it refuses.
RECURSIVE Reading(_, _, _, _), Next(_, _, _, _)
Reading(s, words, table, given) == Next(getopt_long(s, words, table.short, table.long), words, table, given)
Next(r, words, table, given) ==
    IF r.retval = "none" THEN [given |-> given, optind |-> r.optind, optcursor |-> r.optcursor]
    ELSE LET more == Append(given, [opt |-> r.retval, arg |-> r.optarg])
         IN IF r.retval \in {"?", ":"} THEN [given |-> more, optind |-> r.optind, optcursor |-> r.optcursor]
            ELSE Reading(r, words, table, more)
Refused(r) == r.given # <<>> /\ Last(r.given).opt \in {"?", ":"}
Operands(r, words) == SubSeq(words, r.optind, Len(words))

\* Lines that are read one after the other.
Readings(lines, table) ==
    FoldLeft(LAMBDA rs, words :
               Append(rs, Reading(getopt_init(IF rs = <<>> THEN NULL ELSE Last(rs).optcursor), words, table, <<>>)),
             <<>>, lines)

-----------------------------------------------------------------------------
(* The commands *)

Of(name, has_arg, val) == [name |-> name, has_arg |-> has_arg, val |-> val]
echo_opts == [short |-> <<"d", ":">>, long |-> <<Of(<<"d", "e", "v">>, "optional", "d")>>]
vmode_opts == [short |-> <<"l">>, long |-> <<Of(<<"l", "i", "s", "t">>, "optional", "l")>>]

\* Where the words go: <<>> is the terminal.
echo_handler(words, r, devices) ==
    LET asked == SelectSeq(r.given, LAMBDA g : g.opt = "d")
        device == IF asked = <<>> THEN <<>> ELSE Last(asked).arg
    IN IF Len(words) < 2 \/ Refused(r) \/ (device # <<>> /\ device[1] \notin devices) THEN {}
       ELSE {[to |-> device, words |-> Operands(r, words)]}

\* The modes are asked for one after the other, up to one that cannot be told.
Told(modes, fails) == IF fails \in DOMAIN modes THEN SubSeq(modes, 1, fails - 1) ELSE modes
Done(set, shown) == [set |-> set, shown |-> shown]
list_modes(modes, fails) == Done({}, Told(modes, fails))
set_mode(modes, fails, wanted) ==
    LET suits(k) == modes[k].text = wanted.text /\ modes[k].size = wanted.size /\ (wanted.text \/ modes[k].bpp = wanted.bpp)
    IN Done({k \in DOMAIN Told(modes, fails) : suits(k) /\ \A j \in 1 .. k - 1 : ~suits(j)}, <<>>)

\* Numbers that have room, with any one character between them: the one from
\* a place on, and the place after it.
NumberAt(str, place) ==
    LET n == CHOOSE n \in strtol(SubSeq(str, place, Len(str)), 10) : n.told IN [value |-> n.value, at |-> n.at + place - 1]
Sized(str, text, width, height, modes, fails) ==
    IF CharAt(str, width.at) = "end" \/ (~text /\ CharAt(str, height.at) = "end") THEN Done({}, <<>>)
    ELSE set_mode(modes, fails, [text |-> text, size |-> <<width.value, height.value>>,
                                 bpp |-> IF text THEN 0 ELSE NumberAt(str, height.at + 1).value])
vmode_handler(words, r, modes, fails) ==
    LET text == CharAt(words[2], 1) = "t"
        width == NumberAt(words[2], IF text THEN 2 ELSE 1)
    IN IF Len(words) < 2 \/ Refused(r) THEN Done({}, <<>>)
       ELSE IF r.given # <<>> THEN list_modes(modes, fails)
       ELSE Sized(words[2], text, width, NumberAt(words[2], width.at + 1), modes, fails)

-----------------------------------------------------------------------------
(* Reference: the options of the words from the k-th on, and the operands     *)

Option(opt, arg, short) == [opt |-> opt, arg |-> arg, short |-> short]
RECURSIVE Meant(_, _, _, _)
Meant(words, group, table, given) ==
    LET word == words[1]
        Goes(option, rest, inside) == Meant(rest, inside, table, Append(given, option))
        Stops(rest, left) == [given |-> given, operands |-> rest, stopped |-> left]
        Refuses(why, short) == [given |-> Append(given, Option(why, <<>>, short)), operands |-> <<>>, stopped |-> FALSE]
        NeedsWord(val, rest, why, short) ==
            IF rest = <<>> THEN Refuses(why, short) ELSE Goes(Option(val, <<rest[1]>>, short), Tail(rest), <<>>)
    IN IF group # <<>>
       THEN LET c == group[1]
                colons == IF c \in ToSet(table.short) THEN Colons(table.short, c) ELSE 0
            IN CASE c \notin ToSet(table.short) -> Refuses("?", TRUE)
                 [] colons = 0 -> Goes(Option(c, <<>>, TRUE), words, Tail(group))
                 [] colons > 0 /\ Len(group) > 1 -> Goes(Option(c, <<Tail(group)>>, TRUE), words, <<>>)
                 [] colons = 2 /\ Len(group) = 1 -> Goes(Option(c, <<>>, TRUE), words, <<>>)
                 [] OTHER -> NeedsWord(c, words, Missing(table.short), TRUE)
       ELSE IF words = <<>> THEN Stops(<<>>, FALSE)
       ELSE IF word = <<"-", "-">> THEN Stops(Tail(words), TRUE)
       ELSE IF ~IsGroup(word) THEN Stops(words, TRUE)
       ELSE IF word[2] # "-" THEN Meant(Tail(words), Tail(word), table, given)
       ELSE LET all == {k \in DOMAIN table.long : IsPrefix(NameIn(word), table.long[k].name)}
                same == {k \in all : table.long[k].name = NameIn(word)}
                o == table.long[CHOOSE k \in IF same # {} THEN same ELSE all : TRUE]
            IN CASE same = {} /\ Cardinality(all) # 1 -> Refuses("?", FALSE)
                 [] o.has_arg = "no" /\ "=" \in ToSet(word) -> Refuses("?", FALSE)
                 [] o.has_arg = "required" /\ ArgumentIn(word) = <<>> -> NeedsWord(o.val, Tail(words), ":", FALSE)
                 [] OTHER -> Goes(Option(o.val, ArgumentIn(word), FALSE), Tail(words), <<>>)

Pairs(given) == [k \in DOMAIN given |-> [opt |-> given[k].opt, arg |-> given[k].arg]]
MeantBy(words, table) == Meant(Tail(words), <<>>, table, <<>>)
\* The place in a group is forgotten where a word stops the reading.
Settled(m) == m.stopped \/ \A k \in DOMAIN m.given : ~m.given[k].short
\* No option in short form comes behind one with an argument.
Careful(m, table) ==
    \A k \in DOMAIN m.given, j \in DOMAIN m.given :
        k < j /\ m.given[j].short => ~m.given[k].short \/ Colons(table.short, m.given[k].opt) = 0

IsRead(words, r, m, table, devices) ==
    /\ r.given = Pairs(m.given)
    /\ ~Refused(r) => Operands(r, words) = m.operands
    /\ table = echo_opts => \A said \in echo_handler(words, r, devices) : said.words = m.operands
AreRead(lines, rs, ms, table, devices) ==
    \A k \in DOMAIN lines :
        Careful(ms[k], table) /\ (\A j \in 1 .. k - 1 : Settled(ms[j]) /\ Careful(ms[j], table))
          => IsRead(lines[k], rs[k], ms[k], table, devices)

(* A command is told the options and operands it was given, whatever the     *)
(* bytes are that getopt reads beside the words; but a short option behind   *)
(* one with an argument may be taken for another, and so may those of a line *)
(* after one whose last word was an option: the place is kept.               *)
OptionsAreRead(lines, table, devices) ==
    AreRead(lines, Readings(lines, table), [k \in DOMAIN lines |-> MeantBy(lines[k], table)], table, devices)

(* The mode that is set is the first with the size that was typed, and none  *)
(* is set without one, or when one before cannot be told.                     *)
ModesAreChosen(q) ==
    LET x(n) == IF n = <<>> THEN <<>> ELSE <<"x">> \o n
        word == (IF q.text THEN <<"t">> ELSE <<>>) \o q.width \o x(q.height) \o x(q.bpp)
        words == IF q.list THEN <<<<"v">>, <<"-", "l">>, word>> ELSE <<<<"v">>, word>>
        size == <<Value(q.width, 10), Value(q.height, 10)>>
        Same(k) == /\ q.modes[k].text = q.text /\ q.modes[k].size = size
                   /\ q.text \/ (q.bpp # <<>> /\ q.modes[k].bpp = Value(q.bpp, 10))
        told == {k \in DOMAIN q.modes : q.fails = 0 \/ k < q.fails}
        suits == {k \in told : ~q.list /\ q.height # <<>> /\ Same(k)}
    IN \A done \in {vmode_handler(words, Reading(getopt_init(NULL), words, vmode_opts, <<>>), q.modes, q.fails)} :
         /\ done.set = {} <=> suits = {}
         /\ done.set \subseteq suits /\ \A k \in done.set, j \in suits : k <= j
         /\ q.list => Len(done.shown) = Cardinality(told)
=============================================================================
