------------------------------ MODULE MCConsole ------------------------------
(* The parts of the console, each on its own: "part" says which one a       *)
(* behaviour is about.  The functions on texts, figures, screens and disks   *)
(* have no steps: an initial state is a question to one of them.             *)
EXTENDS Display, Ansiterm, Sequences, SequencesExt, TLC

-----------------------------------------------------------------------------
(* What the functions on texts, numbers, dates, figures, pixels and boot     *)
(* disks are asked: small inputs that reach each of their branches, and what *)
(* must hold of the answers.                                                 *)

P == INSTANCE Printf WITH
       Bits <- "BYTE" :> 4 @@ "SHORT" :> 5 @@ "INT" :> 6 @@ "LONG" :> 6 @@ "LONG_LONG" :> 7
J == INSTANCE Json
H == INSTANCE Paths
U == INSTANCE Numbers WITH Bits <- 7, LongBits <- 12
\* Zeros beside the words of a line, and bytes that are no option.
O == INSTANCE Options WITH Bits <- 7, LongBits <- 12, Beginning <- "end", Beyond <- "end"
Q == INSTANCE Options WITH Bits <- 7, LongBits <- 12, Beginning <- "?", Beyond <- "?"
F == INSTANCE Drawing WITH width <- 4, height <- 3, MaxSplit <- 3
V == INSTANCE Video WITH RegionSize <- 2
B == INSTANCE Boot WITH PerSector <- 2, SectorBytes <- 8, FatRead <- 2, Cylinders <- 3, Byte <- 8

-----------------------------------------------------------------------------
(* Conversions *)

Given(ns) == {<<>>} \cup {<<n>> : n \in ns}
Integers_ ==
    [flags : {f \in SUBSET {"-", "+", " ", "#", "0"} : Cardinality(f) <= 2}, width : Given({1, 4, 10}), precision : Given({0, 4}),
     star : {FALSE}, length : {<<>>, <<"h", "h">>, <<"h">>, <<"l", "l">>}, c : {"d", "u", "x", "o", "X"}, value : {0, 5, 33, -1}]
Strings ==
    [flags : SUBSET {"-"}, width : Given({1, 3, 5}), precision : Given({0, 2, 4}), star : BOOLEAN, length : {<<>>}, c : {"s"},
     value : {<<>>, <<"a">>, <<"a", "b", "c">>}]
Characters ==
    [flags : SUBSET {"-"}, width : Given({1, 3}), precision : {<<>>}, star : BOOLEAN, length : {<<>>}, c : {"c"}, value : {"a"}]
Possible(q) == q.star => q.width # <<>>

-----------------------------------------------------------------------------
(* Texts of JSON: what is written for values, and any texts *)

Leaves == {J!Val("number", -12), J!Val("number", 1), J!Val("string", <<"a">>), J!Val("string", <<>>), J!Val("keyword", "true")}
Pair(a, b) == <<a, b>>
Flat ==
    {J!Val("array", s) : s \in SeqOf(Leaves, 2)} \cup {J!Val("object", <<>>)}
    \cup {J!Val("object", <<Pair(<<"a">>, x), Pair(<<"b">>, y)>>) : x \in Leaves, y \in Leaves}
Nested ==
    {J!Val("array", <<x, y>>) : x \in Flat, y \in {J!Val("number", 0), J!Val("array", <<>>)}}
    \cup {J!Val("object", <<Pair(<<"a">>, x)>>) : x \in Flat}
Values ==
    [any : {FALSE}, value : Leaves \cup Flat \cup Nested, spaced : BOOLEAN, end : {<<>>, <<"other">>, <<" ">>}, beyond : {"}"}, room : {3, 20}]
Texts ==
    [any : {TRUE}, beyond : {"1", "}"}, room : {20},
     str : (SeqOf({"[", "{", "]", "}", "quote", "1", "-", ",", ":", "\\", " "}, 3) \ {<<>>})
           \cup {<<"{", "quote">> \o s : s \in SeqOf({"quote", "}", "1", ",", ":", "\\", " "}, 4)}]

-----------------------------------------------------------------------------
(* Paths, numerals, words, dates *)

Roads == [len : {4, 12}, src : SeqOf({"a", ".", "/", ":"}, 5), dir : {<<"f", ":", "/">>}]
Numerals ==
    [blanks : {0, 2}, sign : {<<>>, <<"-">>, <<"+">>}, prefix : {<<>>, <<"0">>, <<"0", "x">>, <<"0", "X">>},
     digits : SeqOf({"0", "1", "2", "9", "a", "f"}, 2) \ {<<>>}, base : {0, 2, 8, 10, 16}, rest : {<<>>, <<"x">>, <<" ", "1">>}]
Sentences == SeqOf({"a", " ", ";"}, 5)
\* Two leap days and none, at the end of February and of December.
Days == [day : 58 .. 60 \cup 364 .. 366 \cup 788 .. 790 \cup 11015 .. 11017 \cup 47540 .. 47542 \cup 157000 .. 157002 \cup 1 .. 31,
         sec : {0, 59, 86399, 951782400, 2000000000}, offset : {-3600, 32400}]

-----------------------------------------------------------------------------
(* Options: of echo, of vmode, and of a command that has every kind of them *)

AnyOptions ==
    [short |-> <<"a", "o", ":", ":", "d", ":">>,
     long |-> <<[name |-> <<"a", "l">>, has_arg |-> "no", val |-> "a"], [name |-> <<"a", "r">>, has_arg |-> "required", val |-> "d"]>>]
Short(c) == <<"-", c>>
Long(s) == <<"-", "-">> \o s
FewWords == {<<"t">>, Short("d"), <<"-", "d", "t">>, <<"-", "x", "d">>, Long(<<"d", "=", "t">>)}
EchoWords == FewWords \cup {<<>>, <<"-">>, <<"-", "-">>, Long(<<"d", "e", "v">>)}
AnyWords ==
    {<<"t">>, <<"-", "-">>, Short("a"), Short("d"), <<"-", "a", "o">>, <<"-", "o", "t">>, <<"-", "a", "d", "a">>, <<"-", "a", "x">>,
     Long(<<"a">>), Long(<<"a", "l">>), Long(<<"a", "l", "=", "t">>), Long(<<"a", "r">>), Long(<<"a", "r", "=", "a">>)}
Lines(words, n) == {<<<<"e">>>> \o s : s \in SeqOf(words, n)}
Commands ==
    [echo : {TRUE}, lines : (Lines(FewWords, 2) \X Lines(FewWords, 2)) \cup {<<l>> : l \in Lines(EchoWords, 3)}]
    \cup [echo : {FALSE}, lines : {<<l>> : l \in Lines(AnyWords, 3)}]
Screens == [text |-> TRUE, size |-> <<2, 1>>, bpp |-> 0]
Pixels(w, h, b) == [text |-> FALSE, size |-> <<w, h>>, bpp |-> b]
ModeWords ==
    [text : BOOLEAN, list : BOOLEAN, width : {<<"2">>, <<"2", "0">>}, height : {<<>>, <<"1">>}, bpp : {<<>>, <<"9">>, <<"1", "2">>}, fails : 0 .. 3,
     modes : {<<>>, <<Screens, Pixels(2, 1, 9), Pixels(20, 1, 12)>>, <<Pixels(20, 1, 9), Pixels(20, 1, 12), Pixels(20, 1, 12), Screens>>}]

-----------------------------------------------------------------------------
(* Figures *)

Grid(n) == (0 .. n) \X (0 .. n)
Dot(wide, dots) == [wide |-> wide, dots |-> dots]
Letter(wide, glyph) == [cells |-> wide, glyph |-> glyph]
Alphabet ==
    {Letter(1, <<>>), Letter(1, <<Dot(8, {<<0, 0>>, <<7, 15>>})>>), Letter(2, <<Dot(16, {<<15, 3>>, <<8, 3>>})>>),
     Letter(0, <<Dot(8, {<<1, 1>>})>>), Letter(1, <<Dot(9, {<<8, 1>>})>>)}
Shapes ==
    [kind : {"line"}, at : {<<0, 0>>, <<3, 2>>}, to : (-3 .. 5) \X (-3 .. 5)]
    \cup [kind : {"circle"}, at : {<<2, 1>>}, radius : 1 .. 8, fill : BOOLEAN]
    \cup [kind : {"ellipse"}, at : {<<1, 1>>, <<4, 0>>}, to : (1 .. 8) \X (1 .. 7), fill : BOOLEAN]
    \cup [kind : {"curve"}, points : {<<p, q, r>> : p \in {<<0, 0>>, <<3, 1>>}, q \in Grid(4), r \in {<<4, 2>>, <<1, 4>>, <<0, 1>>}}]
    \cup [kind : {"cubic"}, points : {<<p, q, r, s>> : p \in {<<0, 0>>}, q \in Grid(3), r \in Grid(3), s \in {<<3, 1>>, <<0, 3>>}}]
    \cup [kind : {"polygon"}, fill : BOOLEAN,
          points : {<<p, q, r>> : p \in Grid(2), q \in Grid(3), r \in Grid(2)}
                   \cup {<<p, q, r, s>> : p \in {<<0, 0>>, <<1, 1>>}, q \in Grid(2), r \in {<<3, 2>>, <<0, 2>>}, s \in Grid(3)}]
    \cup [kind : {"text"}, str : SeqOf(Alphabet, 3)]
    \cup [kind : {"window"}, w : {70, 71}, h : {30}] \cup [kind : {"frame"}, w : 3 .. 5, h : 3 .. 5]
    \cup [kind : {"blend"}, upper : 0 .. 4, lower : 0 .. 4, most : {4, 7}]

-----------------------------------------------------------------------------
(* Pixels, colours, modes, glyphs: seven pixels are three regions and a rest *)

Format(bpp, bits, position) == [bpp |-> bpp, bits |-> bits, position |-> position]
Formats ==
    {Format(32, <<8, 8, 8>>, <<16, 8, 0>>), Format(24, <<8, 8, 8>>, <<16, 8, 0>>), Format(18, <<6, 6, 6>>, <<12, 6, 0>>),
     Format(16, <<5, 6, 5>>, <<11, 5, 0>>), Format(15, <<5, 5, 5>>, <<10, 5, 0>>), Format(8, <<3, 3, 2>>, <<5, 2, 0>>)}
Dark == <<0, 7, 130, 9>>
Light == <<255, 254, 129, 0>>
Rows == {<<Dark, Light, Dark, Dark, Light, Light, Dark>>, [k \in 1 .. 7 |-> Light], [k \in 1 .. 6 |-> <<17 * k, 250 - k, 40 * k, k>>]}
Levels == {0, 63, 79, 80, 85, 127, 128, 129, 170, 191, 192, 255}
Listed(num, kind) == [num |-> num, kind |-> kind, width |-> num + 1, height |-> 2 * num, bpp |-> IF kind = "direct" THEN num - 240 ELSE 0]
Listings == {s \in SeqOf({Listed(n, k) : n \in {3, 257, 258, 260}, k \in {"direct", "text", "other", "none"}}, 3) :
                \A i, j \in DOMAIN s : i # j => s[i].num # s[j].num}
Codepoints ==
    0 .. 3 \cup {31, 32, 126, 127, 159, 160, 255, 256, 401, 402, 403, 767, 768, 911, 912, 967, 968, 1023, 1024, 8226, 8227, 8993,
                9471, 9472, 9695, 9696, 9775, 9776, 9839, 9840, 128512}

-----------------------------------------------------------------------------
(* Disks, tables of partitions and devices: three cylinders of ten sectors,  *)
(* or four; clusters of the first and the second sector of the table, with   *)
(* gaps, and one whose link is in two sectors.                               *)

Links == <<4080, 4095, 4, 4088, 3, 6, 4095, 5, 4095, 4095>>
Directories ==
    {<<>>} \cup {<<[name |-> n, cluster |-> a]>> : n \in {"VELLUM", "STAGE1"}, a \in {2, 5}} \cup
    {<<[name |-> n, cluster |-> a], [name |-> m, cluster |-> b], [name |-> "VELLUM", cluster |-> 8]>> :
        n \in {"VELLUM", "other"}, m \in {"STAGE1", "other"}, a \in {2, 5, 7}, b \in {2, 3, 4, 5, 9}}
Disks ==
    [heads : {2}, spt : {5}, size : {30, 40}, bad : {{}, {5}, {16}}, strict : BOOLEAN, hidden : {0, 2, 21, 27}, reserved : {1}, fats : 1 .. 2,
     fatsize : {2}, entries : {0, 4}, spc : 1 .. 2, root : Directories, fat : {Links}]
Entries4 == [flag : {0, 1, 128, 129}, lba : {7}, good : {"unreadable", "unsigned", "good"}]
Device == [block : BOOLEAN, size : {512, 2048}, ok : BOOLEAN, first : {0, 2}]

-----------------------------------------------------------------------------
\* A question is of its kind, and is answered as it should be.
Asked(kind, q) ==
    \/ kind = "conversion" /\ (q \in Integers_ \/ (q \in Strings /\ Possible(q)) \/ (q \in Characters /\ Possible(q)))
    \/ kind = "json" /\ (q \in Values \/ q \in Texts)
    \/ kind = "path" /\ q \in Roads
    \/ kind = "number" /\ q \in Numerals
    \/ kind = "words" /\ q \in Sentences
    \/ kind = "date" /\ q \in Days
    \/ kind = "options" /\ q \in Commands
    \/ kind = "mode" /\ q \in ModeWords /\ (q.height = <<>> => q.bpp = <<>>)
    \/ kind = "figure" /\ q \in Shapes
    \/ kind = "pixels" /\ q \in [format : Formats, row : Rows, marked : SUBSET (0 .. 2), odd : 0 .. 1]
    \/ kind = "colour" /\ q \in Levels \X Levels \X Levels
    \/ kind = "list" /\ q \in [vbe : BOOLEAN, legacy : SUBSET {0, 3}, list : Listings]
    \/ kind = "loader" /\ q \in Disks /\ Len(q.root) <= q.entries
    \/ kind = "record" /\ q \in Entries4 \X Entries4 \X {[flag |-> f, lba |-> 9, good |-> "good"] : f \in {0, 128}}
    \/ kind = "volume" /\ q \in {d \in Disks : d.entries = 0 /\ d.root = <<>>} \X SeqOf(Device, 2)
    \/ kind = "glyph" /\ q \in [font : SeqOf({"none", "narrow", "wide"}, 2), codepoint : Codepoints, entry : BOOLEAN]
Kinds == {"conversion", "json", "path", "number", "words", "date", "options", "mode", "figure", "pixels", "colour", "list", "glyph", "loader", "record", "volume"}

Answered(kind, q) ==
    CASE kind = "conversion" -> P!IsPrinted(q, P!Printed(q))
      [] kind = "json" -> J!IsRead(q, J!Parsed(q))
      [] kind = "path" -> H!PathsAreKept(q.len, q.src, q.dir)
      [] kind = "number" -> U!NumbersAreRead(q)
      [] kind = "words" -> U!WordsAreRead(q, {" ", ";"})
      [] kind = "date" -> U!DatesAreRight(q.day, q.sec, q.offset)
      [] kind = "options" ->
           LET table == IF q.echo THEN O!echo_opts ELSE AnyOptions
           IN O!OptionsAreRead(q.lines, table, {<<"t">>}) /\ Q!OptionsAreRead(q.lines, table, {<<"t">>})
      [] kind = "mode" -> O!ModesAreChosen(q)
      [] kind = "figure" -> F!IsFigure(q, F!Draw(q))
      [] kind = "pixels" -> V!PixelsAreShown(q)
      [] kind = "colour" -> V!ColoursAreKept(q)
      [] kind = "list" -> V!ModesAreListed(q)
      [] kind = "glyph" -> V!GlyphsFit(q.font, q.codepoint, q.entry)
      [] kind = "loader" -> B!LoadersLoad(q)
      [] kind = "record" -> B!OneIsBooted(q)
      [] kind = "volume" -> B!BootIsMounted(q[1], q[2])

-----------------------------------------------------------------------------
(* The parts *)

VARIABLES part,
          text, buf, frag, out, writing, all, sound,
          question

writeVars == <<text, buf, frag, out, writing, all, sound>>

\* What a terminal is sent: every control character, and in a sequence every
\* final one.
SentAsText == {"char", "wide", "joiner", "DEL", "BEL", "FF", "low", "BS", "TAB", "LF", "VT", "CR", "ESC"}
SentInSequences ==
    {"[", "]", "other", "A", "B", "C", "D", "E", "F", "G", "H", "J", "K", "S", "T", "m", "n", "s", "u", "h", "l", "digit", "?", ";"}

\* "A", an e with an accent, the sign of the Euro, a face; and what is not UTF-8.
W == INSTANCE TermWrite WITH
       FragmentMax <- 6,
       Texts <- {<<65, 195, 169, 226, 130, 172, 240, 159, 152, 128, 66>>,
                 <<226, 130, 65, 66>>, <<130, 65, 226, 195, 169>>, <<240, 159, 65, 172, 66>>,
                 <<65, 255, 66, 67, 68, 69, 70, 71, 72>>}

Mode(kind, vbe, cols, rows) == [text |-> kind = "text", vbe |-> vbe, cols |-> cols, rows |-> rows]
\* Two text modes of the VGA, one of the VBE, and graphics modes with room for
\* whole bytes and whole regions, or not.
ConsoleModes ==
    0 :> Mode("text", FALSE, 2, 4) @@ 3 :> Mode("text", FALSE, 4, 2) @@ 264 :> Mode("text", TRUE, 8, 1)
    @@ 257 :> Mode("graphics", TRUE, 4, 2) @@ 258 :> Mode("graphics", TRUE, 3, 3)

NoText == text = <<>> /\ buf = <<>> /\ frag = <<>> /\ out = <<>> /\ writing = "no" /\ all = <<>> /\ sound = TRUE
NoTerminal ==
    /\ cells = <<>> /\ cursor = <<0, 0>> /\ visible = TRUE /\ graphics = FALSE /\ esc = Default /\ saved_cursor = <<0, 0>>
    /\ attr = Plain /\ outside = FALSE /\ sent = 0 /\ typed = <<>> /\ tame = TRUE
NoDisplay ==
    /\ vga = <<>> /\ vc = <<>> /\ screen = <<>> /\ stage = "none" /\ next = 0 /\ logs = FALSE
    /\ puts = 0 /\ stray = FALSE /\ flushed = FALSE /\ careful = TRUE

Init ==
    \/ part = "terminal" /\ TerminalInit /\ NoText /\ NoDisplay /\ question = <<>>
    \/ part = "write" /\ W!Init /\ NoTerminal /\ NoDisplay /\ question = <<>>
    \/ part = "display" /\ DisplayInit /\ NoTerminal /\ NoText /\ question = <<>>
    \/ part \in Kinds /\ Asked(part, question) /\ NoTerminal /\ NoText /\ NoDisplay

Terminal == part = "terminal" /\ TerminalNext /\ UNCHANGED <<part, writeVars, displayVars, question>>
Writes == part = "write" /\ W!Next /\ UNCHANGED <<part, terminalVars, displayVars, question>>
Displays == part = "display" /\ DisplayNext /\ UNCHANGED <<part, terminalVars, writeVars, question>>
Next == Terminal \/ Writes \/ Displays

vars == <<part, question, terminalVars, writeVars, displayVars>>
Spec == Init /\ [][Next]_vars

(* A sequence has the arguments that were typed, as long as there is room;  *)
(* and however a text is cut into pieces, the terminal is sent the          *)
(* characters of the whole, unless a piece ends in a character that is      *)
(* broken already.                                                          *)
WritingIsHeard == ArgumentsAreRead /\ (part = "write" => W!CutsDoNotMatter)

(* Conversions of printf that a caller would mean write what the standard    *)
(* says, values of JSON are read as they were written, paths keep their      *)
(* meaning, numerals, words and dates are read, figures look like it, pixels *)
(* and colours are shown, modes are listed, glyphs fit, and the boot loaders *)
(* load the files they look for and the volume they came from is mounted.    *)
FunctionsAreRight == part \in Kinds => Answered(part, question)
=============================================================================
