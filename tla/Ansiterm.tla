------------------------------ MODULE Ansiterm ------------------------------
(***************************************************************************)
(* The terminal (device/char/ansiterm.c): one character of put_char at a   *)
(* time, on a console of Width x Height cells.  The console below either   *)
(* takes a negative coordinate for "as it is" (the text modes of vga.c) or *)
(* takes it as it comes (the graphics modes of vconsole.c).                *)
(* A cell keeps what the code tells apart: nothing, a character, or the    *)
(* second half of a wide one.  A step that reaches outside the cells sets  *)
(* "outside", and the terminal stops there: what it destroyed is not       *)
(* modelled.                                                               *)
(***************************************************************************)
EXTENDS Integers, Sequences, SequencesExt

CONSTANTS Width, Height,  \* of the console, in cells
          TabStop,        \* 8
          MaxArgs,        \* 8, escape_seq_args
          TextChars,      \* characters sent outside a sequence: strings
          SequenceChars,  \* characters sent inside one: strings
          DigitValues,    \* digits sent inside one
          NumberCap,      \* no digit follows a larger number: a bound
          MaxSent         \* characters sent in all: a bound

(* No row is shorter than a tab: a tab clears the cell at the stop, too, and *)
(* on such a row that may be beyond the end of the next one.                 *)
ASSUME TerminalAssumption ==
    /\ Width \in Nat \ {0} /\ Height \in Nat \ {0} /\ MaxArgs \in Nat \ {0}
    /\ TabStop \in 1 .. Width /\ DigitValues \subseteq 0 .. 9

VARIABLES cells, cursor, visible, graphics, esc, saved_cursor, attr, outside, sent, typed, tame

terminalVars == <<cells, cursor, visible, graphics, esc, saved_cursor, attr, outside, sent, typed, tame>>

Nothing == "empty"
Half == "half"          \* 0xFFFFFFFF
Question == -63         \* what '?' leaves in the list of arguments
Semicolon == -1         \* in "typed", which keeps what was typed of a sequence

Positions == 0 .. Width * Height - 1
CellAt(x, y) == y * Width + x
Box(x0, y0, x1, y1) == {CellAt(x, y) : x \in x0 .. x1, y \in y0 .. y1}
Capped(a, b) == IF a < b THEN a ELSE b

cx == cursor[1]
cy == cursor[2]

Default == [state |-> "default"]
Csi(args, digits) == [state |-> "csi", args |-> args, digits |-> digits]
Plain == [fg |-> 15, bg |-> 0, blink |-> 0, marks |-> {}]

\* The state of a new terminal is not set: it holds what the memory held.
\* Inside a sequence, with a number begun that is in no argument, is the worst.
TerminalInit ==
    /\ cells = [i \in Positions |-> Nothing] /\ cursor = <<0, 0>> /\ visible = TRUE
    /\ graphics \in BOOLEAN
    /\ esc \in {Default, [state |-> "esc"], [state |-> "other"], Csi(<<>>, TRUE)}
    /\ saved_cursor = <<0, 0>> /\ attr = Plain
    /\ outside = FALSE /\ sent = 0 /\ typed = <<>> /\ tame = (esc.state # "csi")

-----------------------------------------------------------------------------
(* The console below *)

\* Where set_cursor_pos puts the cursor.
PlacedAt(x, y) ==
    IF graphics THEN <<x, y>> ELSE <<IF x < 0 THEN cx ELSE x, IF y < 0 THEN cy ELSE y>>

Reaches(places) == outside' = (places \notin SUBSET Positions)
Keep == UNCHANGED <<cells, outside>>

console_erase(box) ==
    /\ Reaches(box)
    /\ cells' = [i \in Positions |-> IF i \in box THEN Nothing ELSE cells[i]]

\* What scrolling by n rows copies, before it clears the rows that came free.
\* Downwards it clears one row more than it moved.
Moved(n) ==
    [i \in Positions |->
        LET y == i \div Width
        IN IF n >= 0 THEN IF y + n < Height THEN cells[i + n * Width] ELSE cells[i]
           ELSE IF y + n >= 0 THEN cells[i + n * Width] ELSE cells[i]]
\* A slip to compare with: the row below the last is cleared, too.
FreeRowsBelow(n) ==
    IF n > 0 THEN Box(0, Height - n, Width - 1, Height) ELSE Box(0, 0, Width - 1, -n)

FreeRows(n) ==
    IF n > 0 THEN Box(0, Height - n, Width - 1, Height - 1) ELSE Box(0, 0, Width - 1, -n)

console_scroll(n) ==
    IF n = 0 THEN Keep
    ELSE /\ Reaches(FreeRows(n))
         /\ cells' = [i \in Positions |-> IF i \in FreeRows(n) THEN Nothing ELSE Moved(n)[i]]

\* The cursor one row down, with the screen scrolled when there is none.
NewLine(x, y) ==
    IF y + 1 < Height THEN cursor' = PlacedAt(x, y + 1) /\ Keep
    ELSE cursor' = PlacedAt(x, Height - 1) /\ console_scroll(1)

-----------------------------------------------------------------------------
(* put_char outside of escape sequences *)

Sends(ch) == /\ ~outside /\ sent < MaxSent /\ sent' = sent + 1
             /\ ch \in IF esc.state = "default" THEN TextChars ELSE SequenceChars

\* A control character may be sent inside a sequence, but is an ordinary
\* character there.
Text(ch) == Sends(ch) /\ esc.state = "default" /\ UNCHANGED <<visible, graphics, saved_cursor, attr, typed>>

\* The width that wcwidth answers.
wcwidth(ch) == CASE ch = "wide" -> 2 [] ch = "joiner" -> 0 [] ch = "DEL" -> -1 [] OTHER -> 1

NextStop(x) == ((IF x < 0 THEN -((-x) \div TabStop) ELSE x \div TabStop) + 1) * TabStop

bell ==
    \E ch \in {"BEL", "FF", "low"} :
        Text(ch) /\ cursor' = PlacedAt(cx, cy) /\ UNCHANGED <<esc, tame>> /\ Keep

\* Where the character before the cursor starts: behind the last cell in use,
\* down to the tab stop.
console_backspace ==
    LET used == {x \in (((cx - 1) \div TabStop) * TabStop) .. (cx - 1) :
                   CellAt(x, cy) \in Positions /\ cells[CellAt(x, cy)] # Nothing}
    IN IF cells[CellAt(cx - 1, cy)] # Nothing THEN cx - 1
       ELSE IF used = {} THEN ((cx - 1) \div TabStop) * TabStop
       ELSE 1 + CHOOSE x \in used : \A other \in used : other <= x

backspace ==
    /\ Text("BS")
    /\ IF cx < 1 THEN cursor' = PlacedAt(cx, cy) /\ Keep
       ELSE IF CellAt(cx - 1, cy) \notin Positions THEN outside' = TRUE /\ UNCHANGED <<cells, cursor>>
       ELSE cursor' = PlacedAt(console_backspace, cy) /\ Keep
    /\ UNCHANGED <<esc, tame>>

\* The cells up to the stop are cleared, and the one at the stop.
tab ==
    LET line == Box(cx, cy, NextStop(cx), cy)
        cleared == [i \in Positions |-> IF i \in line THEN Nothing ELSE cells[i]]
    IN /\ Text("TAB")
       /\ Reaches(line)
       /\ IF NextStop(cx) < Width THEN cells' = cleared /\ cursor' = PlacedAt(NextStop(cx), cy)
          ELSE IF cy + 1 < Height THEN cells' = cleared /\ cursor' = PlacedAt(0, cy + 1)
          ELSE /\ cursor' = PlacedAt(0, Height - 1)
               /\ cells' = [i \in Positions |-> IF i + Width \in Positions THEN cleared[i + Width] ELSE Nothing]
       /\ tame' = (tame /\ (NextStop(cx) < Width \/ cy < Height - 1))
       /\ UNCHANGED esc

newline == Text("LF") /\ NewLine(0, cy) /\ UNCHANGED <<esc, tame>>
vertical_tab == Text("VT") /\ NewLine(cx, cy) /\ UNCHANGED <<esc, tame>>
carriage_return == Text("CR") /\ cursor' = PlacedAt(0, cy) /\ UNCHANGED <<esc, tame>> /\ Keep
escape == Text("ESC") /\ esc' = [state |-> "esc"] /\ cursor' = PlacedAt(cx, cy) /\ UNCHANGED tame /\ Keep

\* A wide character that does not fit goes to the next line, whole.
Wraps(ch) == wcwidth(ch) > 1 /\ cx + wcwidth(ch) > Width

Scrolls(ch) == Wraps(ch) /\ cy + 1 >= Height
Start(ch) ==
    IF ~Wraps(ch) THEN cursor
    ELSE PlacedAt(0, IF Scrolls(ch) THEN Height - 1 ELSE cy + 1)

\* console_putchar: the second half only where the row has room for it.
Printed(ch) ==
    LET place == CellAt(Start(ch)[1], Start(ch)[2])
        half == IF wcwidth(ch) = 2 /\ Start(ch)[1] + 1 < Width THEN {place + 1} ELSE {}
        before == IF Scrolls(ch)
                  THEN [i \in Positions |-> IF i + Width \in Positions THEN cells[i + Width] ELSE Nothing]
                  ELSE cells
    IN [touched |-> {place} \cup half,
        cells |-> [i \in Positions |-> IF i = place THEN "char"
                                    ELSE IF i \in half THEN Half ELSE before[i]]]

print ==
    \E ch \in {"char", "wide", "joiner", "DEL"} :
        LET p == Printed(ch)
            x == (IF Wraps(ch) THEN 0 ELSE cx) + wcwidth(ch)
            y == Start(ch)[2]
        IN /\ Text(ch)
           /\ Reaches(p.touched)
           /\ IF x < Width THEN cursor' = PlacedAt(x, y) /\ cells' = p.cells
              ELSE IF y + 1 < Height THEN cursor' = PlacedAt(0, y + 1) /\ cells' = p.cells
              ELSE /\ cursor' = PlacedAt(0, Height - 1)
                   /\ cells' = [i \in Positions |-> IF i + Width \in Positions THEN p.cells[i + Width] ELSE Nothing]
           /\ tame' = (tame /\ ~(graphics /\ ch = "DEL" /\ cx = 0))
           /\ UNCHANGED esc

-----------------------------------------------------------------------------
(* The characters of a sequence *)

In(state, ch) == Sends(ch) /\ esc.state = state

handle_esc ==
    \E ch \in {"[", "]", "other"} :
        /\ In("esc", ch)
        /\ esc' = CASE ch = "[" -> Csi(<<>>, FALSE)
                    [] ch = "]" -> [state |-> "other"]
                    [] OTHER -> Default
        /\ typed' = <<>>
        /\ UNCHANGED <<cells, cursor, visible, graphics, saved_cursor, attr, outside, tame>>

\* Of an SS2, SS3, DCS, OSC, ... the first character is dropped.
drop_other ==
    /\ In("other", "other") /\ esc' = Default
    /\ UNCHANGED <<cells, cursor, visible, graphics, saved_cursor, attr, outside, typed, tame>>

\* The n-th argument, or what it is when it was not given.
Arg(n, otherwise) == IF Len(esc.args) < n THEN otherwise ELSE esc.args[n]

Final(ch) == In("csi", ch) /\ esc' = Default /\ typed' = <<>> /\ UNCHANGED graphics

(* Cursor moves: where they send the cursor, -1 for a coordinate that is    *)
(* not meant to change.                                                     *)
Up == Capped(Arg(1, 1), cy)
Down == Capped(Arg(1, 1), Height - cy)
Target(ch) ==
    CASE ch = "A" -> <<-1, cy - Up>>                            \* handle_cuu
      [] ch = "B" -> <<-1, cy + Down>>                          \* handle_cud
      [] ch = "C" -> <<cx + Capped(Arg(1, 1), Width - cx), -1>> \* handle_cuf
      [] ch = "D" -> <<cx - Capped(Arg(1, 1), cx), -1>>         \* handle_cub
      [] ch = "E" -> <<0, cy + Down>>                           \* handle_cnl
      [] ch = "F" -> <<0, cy - Up>>                             \* handle_cpl
      [] ch = "G" -> <<IF Arg(1, 1) < 1 THEN 0 ELSE Arg(1, 1) - 1, -1>>
      [] OTHER -> <<IF Arg(2, 1) < 1 THEN 0 ELSE Arg(2, 1) - 1,
                    IF Arg(1, 1) < 1 THEN 0 ELSE Arg(1, 1) - 1>>
Moves == {"A", "B", "C", "D", "E", "F", "G", "H"}

OnTerminal(place) == place[1] \in 0 .. Width - 1 /\ place[2] \in 0 .. Height - 1

\* Some moves cannot leave the screen whatever their argument is: "F" never,
\* "A" and "D" only on a console that takes -1 as it comes.
Confined(ch) ==
    \/ ch = "F"
    \/ ch \in {"A", "D"} /\ ~graphics
    \/ ch = "B" /\ ~graphics /\ cy + Arg(1, 1) < Height
    \/ ch = "C" /\ ~graphics /\ cx + Arg(1, 1) < Width
    \/ ch = "E" /\ cy + Arg(1, 1) < Height
    \/ ch = "G" /\ ~graphics /\ Arg(1, 1) <= Width
    \/ ch = "H" /\ Arg(1, 1) <= Height /\ Arg(2, 1) <= Width

move ==
    \E ch \in Moves :
        /\ Final(ch)
        /\ cursor' = PlacedAt(Target(ch)[1], Target(ch)[2])
        /\ tame' = (tame /\ Confined(ch) /\ Arg(1, 1) >= 0)
        /\ UNCHANGED <<cells, visible, saved_cursor, attr, outside>>

\* What "J" clears.  The rows below are left out except on the last row,
\* which has none; the rows above except in the first column.
ErasedScreen ==
    CASE Arg(1, 0) = 0 -> Box(cx, cy, Width - 1, cy)
                          \cup (IF cy < Height - 1 THEN {} ELSE Box(0, cy + 1, Width - 1, Height - 1))
      [] Arg(1, 0) = 1 -> Box(0, cy, cx, cy)
                          \cup (IF cx > 0 THEN {} ELSE Box(0, 0, Width - 1, cy - 1))
      [] Arg(1, 0) \in {2, 3} -> Positions
      [] OTHER -> {}
ErasedLine ==
    CASE Arg(1, 0) = 0 -> Box(cx, cy, Width - 1, cy)
      [] Arg(1, 0) = 1 -> Box(0, cy, cx, cy)
      [] Arg(1, 0) = 2 -> Box(0, cy, Width - 1, cy)
      [] OTHER -> {}

handle_ed == Final("J") /\ console_erase(ErasedScreen) /\ UNCHANGED <<cursor, visible, saved_cursor, attr, tame>>
handle_el == Final("K") /\ console_erase(ErasedLine) /\ UNCHANGED <<cursor, visible, saved_cursor, attr, tame>>

scroll ==
    \E ch \in {"S", "T"} :
        LET n == IF ch = "S" THEN Arg(1, 1) ELSE -Arg(1, 1)
        IN /\ Final(ch)
           /\ console_scroll(n)
           /\ tame' = (tame /\ n <= Height /\ -n < Height)
           /\ UNCHANGED <<cursor, visible, saved_cursor, attr>>

(* Colours and marks *)

\* The marks that a code sets and clears.
Sets == [c \in {1, 2, 3, 4, 7, 9, 53} |->
            CASE c = 1 -> "bold" [] c = 2 -> "dim" [] c = 3 -> "italic" [] c = 4 -> "underline"
              [] c = 7 -> "reversed" [] c = 9 -> "strike" [] OTHER -> "overlined"]
Clears == [c \in {22, 23, 24, 27, 29, 55} |->
            CASE c = 22 -> {"bold", "dim"} [] c = 23 -> {"italic"} [] c = 24 -> {"underline"}
              [] c = 27 -> {"reversed"} [] c = 29 -> {"strike"} [] OTHER -> {"overlined"}]
Blinks == [c \in {5, 6, 8, 25, 28} |-> CASE c = 5 -> 1 [] c = 6 -> 2 [] c = 8 -> 3 [] OTHER -> 0]

\* The colour that 38 and 48 ask for: of the palette, or mixed.
Mixed(args, old) ==
    CASE Len(args) >= 3 /\ args[2] = 5 -> args[3]
      [] Len(args) >= 5 /\ args[2] = 2 -> <<args[3] % 256, args[4] % 256, args[5] % 256>>
      [] OTHER -> old

\* Of several codes in one sequence only the first counts.
Sgr(a, args) ==
    LET code == IF args = <<>> THEN 0 ELSE args[1]
    IN CASE code = 0 -> Plain
         [] code \in DOMAIN Sets -> [a EXCEPT !.marks = @ \cup {Sets[code]}]
         [] code \in DOMAIN Clears -> [a EXCEPT !.marks = @ \ Clears[code]]
         [] code \in DOMAIN Blinks -> [a EXCEPT !.blink = Blinks[code]]
         [] code \in 30 .. 37 -> [a EXCEPT !.fg = code - 30]
         [] code \in 90 .. 97 -> [a EXCEPT !.fg = code - 82]
         [] code \in 40 .. 47 -> [a EXCEPT !.bg = code - 40]
         [] code \in 100 .. 107 -> [a EXCEPT !.bg = code - 92]
         [] code = 38 -> [a EXCEPT !.fg = Mixed(args, @)]
         [] code = 48 -> [a EXCEPT !.bg = Mixed(args, @)]
         [] code = 39 -> [a EXCEPT !.fg = 7]
         [] code = 49 -> [a EXCEPT !.bg = 0]
         [] OTHER -> a

\* The palette: 16 colours by name, a cube of 6 x 6 x 6, and 24 greys.
Level(n) == IF n = 0 THEN 0 ELSE 55 + 40 * n
CubeColor(n) == <<Level(n \div 36), Level((n \div 6) % 6), Level(n % 6)>>
Grey(n) == <<8 + 10 * n, 8 + 10 * n, 8 + 10 * n>>

handle_sgr ==
    /\ Final("m") /\ attr' = Sgr(attr, esc.args)
    /\ UNCHANGED <<cells, cursor, visible, saved_cursor, outside, tame>>

\* A report is never sent; "h" and "l" are the cursor whatever their argument is.
handle_dsr == Final("n") /\ UNCHANGED <<cells, cursor, visible, saved_cursor, attr, outside, tame>>
handle_scosc == Final("s") /\ saved_cursor' = cursor /\ UNCHANGED <<cells, cursor, visible, attr, outside, tame>>
handle_scorc ==
    /\ Final("u") /\ cursor' = PlacedAt(saved_cursor[1], saved_cursor[2])
    /\ UNCHANGED <<cells, visible, saved_cursor, attr, outside, tame>>
handle_dectcem ==
    \E ch \in {"h", "l"} :
        Final(ch) /\ visible' = (ch = "h") /\ UNCHANGED <<cells, cursor, saved_cursor, attr, outside, tame>>
unknown == Final("other") /\ UNCHANGED <<cells, cursor, visible, saved_cursor, attr, outside, tame>>

(* Arguments *)

Full == Len(esc.args) >= MaxArgs
NowhereToGo == esc.digits /\ esc.args = <<>>
Argument(ch, sign) ==
    /\ In("csi", ch) /\ typed' = Append(typed, sign)
    /\ UNCHANGED <<cells, cursor, visible, graphics, saved_cursor, attr, tame>>

\* A slip to compare with: the argument goes on behind a ";".
DigitJoins(d) ==
    IF Full THEN esc
    ELSE IF esc.args # <<>> THEN Csi(Front(esc.args) \o <<Last(esc.args) * 10 + d>>, TRUE)
    ELSE Csi(Append(esc.args, d), TRUE)

\* A digit starts an argument or is one more of it.  When the list is full it
\* is lost, though it may be the second of the last argument.
Digit(d) ==
    IF Full \/ NowhereToGo THEN esc
    ELSE IF esc.digits THEN Csi(Front(esc.args) \o <<Last(esc.args) * 10 + d>>, TRUE)
    ELSE Csi(Append(esc.args, d), TRUE)

digit == \E d \in DigitValues : /\ Argument("digit", d) /\ esc' = Digit(d) /\ outside' = NowhereToGo
                            /\ \A a \in ToSet(esc.args) : a \in Question .. NumberCap
question_mark ==
    /\ Argument("?", Question)
    /\ esc' = IF Full THEN esc ELSE Csi(Append(esc.args, Question), esc.digits)
    /\ UNCHANGED outside
separator == Argument(";", Semicolon) /\ esc' = Csi(esc.args, FALSE) /\ UNCHANGED outside

TerminalNext ==
    \/ bell \/ backspace \/ tab \/ newline \/ vertical_tab \/ carriage_return \/ escape \/ print
    \/ handle_esc \/ drop_other \/ move \/ handle_ed \/ handle_el \/ scroll \/ handle_sgr \/ handle_dsr
    \/ handle_scosc \/ handle_scorc \/ handle_dectcem \/ unknown \/ digit \/ question_mark \/ separator

TerminalSpec == TerminalInit /\ [][TerminalNext]_terminalVars

-----------------------------------------------------------------------------
(* Text and the sequences that are confined, in any mix, keep the cursor on *)
(* the screen and write nothing outside of its cells.                       *)
StaysOnScreen == tame => ~outside /\ OnTerminal(cursor)

\* The numbers of a list "1;23;...", read independently of the code.
NumbersOf(text) ==
    LET first[n \in 0 .. Len(text)] ==  \* of the first n that were typed
            IF n = 0 THEN <<>>
            ELSE IF text[n] = Semicolon THEN first[n - 1]
            ELSE IF n > 1 /\ text[n - 1] # Semicolon
            THEN Front(first[n - 1]) \o <<Last(first[n - 1]) * 10 + text[n]>>
            ELSE Append(first[n - 1], text[n])
    IN first[Len(text)]

(* A sequence has the arguments that were typed, as long as there is room   *)
(* for one more than it has; of the last one only the first digit is sure.  *)
ArgumentsAreRead ==
    esc.state = "csi" /\ ~outside /\ Question \notin ToSet(typed) =>
        LET numbers == NumbersOf(typed)
            sure == Capped(Len(numbers), MaxArgs - 1)
        IN /\ Len(esc.args) <= MaxArgs
           /\ SubSeq(esc.args, 1, sure) = SubSeq(numbers, 1, sure)
=============================================================================
