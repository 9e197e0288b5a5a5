------------------------------ MODULE Display ------------------------------
(***************************************************************************)
(* The virtual console (device/video/vconsole.c) on the video driver       *)
(* (device/video/vga.c): in a text mode the console hands every call down, *)
(* in a graphics mode it draws its own cells into the frame buffer, which  *)
(* the driver copies to the screen by regions.  A picture is kept by cells *)
(* of 8 x 16 pixels, a region is two of them.                              *)
(***************************************************************************)
EXTENDS Integers, FiniteSets

CONSTANTS VideoModes,   \* number -> [text, vbe, cols, rows]
          RefusedModes, \* numbers that no mode has information for
          FirstMode,    \* the mode that probe sets
          Chars,        \* characters that are written
          MaxPuts       \* characters written in all: a bound

(* probe sets a text mode of the VGA, which fills whole bytes.  On a mode     *)
(* that is refused the VBE has no information: its size, which the console    *)
(* is told, is from the table of the VGA, and that has text modes only.       *)
ASSUME ModesAssumption ==
    /\ \A m \in DOMAIN VideoModes : VideoModes[m] \in [text : BOOLEAN, vbe : BOOLEAN, cols : Nat \ {0}, rows : Nat \ {0}]
    /\ FirstMode \in DOMAIN VideoModes
    /\ VideoModes[FirstMode].text /\ (VideoModes[FirstMode].cols * VideoModes[FirstMode].rows) % 8 = 0
    /\ \A m \in DOMAIN VideoModes \cap RefusedModes : VideoModes[m].text

VARIABLES vga,          \* vga_data
          vc,           \* vconsole_data
          screen,       \* what is to be seen
          stage, next,  \* how far set_mode is, and for which mode
          logs,         \* whether log messages are on: a debug build
          puts, stray,  \* characters written; whether one went outside a buffer
          flushed,      \* nothing was called since the last flush
          careful       \* only modes that suit the buffers were set

displayVars == <<vga, vc, screen, stage, next, logs, puts, stray, flushed, careful>>

Blank == "blank"
Freed == <<>>           \* a buffer that is not allocated: NULL
Cells(info) == 0 .. info.cols * info.rows - 1
Cleared(info) == [i \in Cells(info) |-> Blank]

\* The bits of a buffer of n / 8 bytes.
DiffBits(n) == 0 .. (n \div 8) * 8 - 1

\* Regions are counted by pixels, and a region of half a width by none.
Region(info, col, row) == (row * info.cols) \div 2 + col \div 2
Regions(info) == 0 .. (info.cols \div 2) * info.rows - 1

\* The cells fill whole bytes, the rows whole regions; and no VBE text mode
\* is set from a graphics mode, for then the cursor stays where it was.
Suits(info) ==
    /\ (info.cols * info.rows) % 8 = 0
    /\ info.text \/ info.cols % 2 = 0
    /\ info.text /\ info.vbe => vga.info.text

-----------------------------------------------------------------------------
(* What the console answers *)

Dimension == IF vc.info.text THEN vga.info ELSE vc.info
\* get_dimension of the driver knows no size in a graphics mode.
Known == vc.info.text => vga.info.text

Buffer == IF vc.info.text THEN vga.chars ELSE vc.chars
Cursor == IF vc.info.text THEN vga.cursor ELSE vc.cursor
Place == Cursor[2] * Dimension.cols + Cursor[1]
OnScreen == Cursor[1] \in 0 .. Dimension.cols - 1 /\ Cursor[2] \in 0 .. Dimension.rows - 1

Advanced ==
    CASE Cursor[1] + 1 < Dimension.cols -> <<Cursor[1] + 1, Cursor[2]>>
      [] Cursor[2] + 1 < Dimension.rows -> <<0, Cursor[2] + 1>>
      [] OTHER -> <<0, 0>>

\* A call is refused while the side that carries it out is switching.
Switching == IF vc.info.text THEN vga.switching ELSE vc.switching

(* A character as the terminal writes it: the cell at the cursor, its mark  *)
(* in the list of what has changed, and the cursor moved on.  Behind the    *)
(* last cell this one starts over, where the terminal scrolls.              *)
Write(ch) ==
    IF ~Known THEN UNCHANGED <<vga, vc, stray>>
    ELSE IF Buffer = Freed \/ ~OnScreen \/ Place \notin DOMAIN Buffer
         THEN stray' = TRUE /\ UNCHANGED <<vga, vc>>
    ELSE IF Switching      \* invalidate fails, and the cursor stays
         THEN /\ UNCHANGED stray
              /\ IF vc.info.text THEN vga' = [vga EXCEPT !.chars[Place] = ch] /\ UNCHANGED vc
                 ELSE vc' = [vc EXCEPT !.chars[Place] = ch] /\ UNCHANGED vga
    ELSE IF vc.info.text
         THEN /\ vga' = [vga EXCEPT !.chars[Place] = ch, !.diff = @ \cup {Place}, !.cursor = Advanced]
              /\ stray' = (Place \notin DiffBits(Cardinality(DOMAIN vga.chars)))
              /\ UNCHANGED vc
    ELSE /\ vc' = [vc EXCEPT !.chars[Place] = ch, !.diff = @ \cup {Place}, !.cursor = Advanced]
         /\ stray' = (Place \notin DiffBits(Cardinality(DOMAIN vc.chars)))
         /\ UNCHANGED vga

-----------------------------------------------------------------------------
(* flush *)

\* con_flush: each cell that has changed goes to the text memory.
FlushText ==
    /\ screen' = [i \in Cells(vga.info) |->
                    IF i \in vga.diff THEN [ch |-> vga.chars[i], cursor |-> FALSE] ELSE screen[i]]
    /\ vga' = [vga EXCEPT !.diff = {}]
    /\ UNCHANGED <<vc, stray>>

CursorMoved == vc.prev # vc.cursor
PrevPlace == IF vc.prev[1] < 0 THEN -1 ELSE vc.prev[2] * vc.info.cols + vc.prev[1]
CursorPlace == vc.cursor[2] * vc.info.cols + vc.cursor[1]

\* A slip to compare with: the place the cursor has left is not drawn again.
DrawnChanged == {i \in Cells(vc.info) : i \in vc.diff}

\* The cells to draw: what has changed, and the place the cursor has left.
Drawn == {i \in Cells(vc.info) : i \in vc.diff \/ (CursorMoved /\ i = PrevPlace)}
Underlined(visible) == IF CursorMoved /\ visible THEN {CursorPlace} ELSE {}
Frame(visible) ==
    [i \in DOMAIN vga.frame |->
        IF i \in Underlined(visible) THEN [ch |-> IF i \in Drawn THEN vc.chars[i] ELSE vga.frame[i].ch, cursor |-> TRUE]
        ELSE IF i \in Drawn THEN [ch |-> vc.chars[i], cursor |-> FALSE]
        ELSE vga.frame[i]]

\* fb_invalidate and fb_flush: the regions that were drawn go to the screen.
Invalidated(drawn) == {Region(vga.info, i % vga.info.cols, i \div vga.info.cols) : i \in drawn}
Shown(info, regions) ==
    {i \in Cells(info) : /\ (i % info.cols) \div 2 < info.cols \div 2
                         /\ Region(info, i % info.cols, i \div info.cols) \in regions}

FlushGraphics(visible) ==
    LET marked == Invalidated(Drawn \cup Underlined(visible))
        shown == Shown(vga.info, marked)
    IN /\ vga' = [vga EXCEPT !.frame = Frame(visible)]
       /\ screen' = [i \in Cells(vga.info) |-> IF i \in shown THEN Frame(visible)[i] ELSE screen[i]]
       /\ vc' = [vc EXCEPT !.diff = {}, !.prev = vc.cursor, !.visible = visible]
       /\ stray' = ~(marked \subseteq Regions(vga.info))

flush(visible) ==
    IF Switching \/ ~Known THEN UNCHANGED <<vga, vc, screen, stray>>
    ELSE IF vc.info.text THEN FlushText
    ELSE FlushGraphics(visible)

-----------------------------------------------------------------------------
(* What programs do *)

Busy == stray \/ stage = "panic"

Put ==
    \E ch \in Chars :
        /\ stage = "idle" /\ ~Busy /\ puts < MaxPuts
        /\ Write(ch)
        /\ puts' = puts + 1 /\ flushed' = FALSE
        /\ UNCHANGED <<screen, stage, next, logs, careful>>

Flush ==
    /\ stage = "idle" /\ ~Busy /\ ~flushed
    /\ flush(vc.visible)
    /\ flushed' = TRUE
    /\ UNCHANGED <<stage, next, logs, puts, careful>>

\* set_cursor_pos to the start of the first or the last row.
set_cursor_pos ==
    \E row \in {0, Dimension.rows - 1} :
        /\ stage = "idle" /\ ~Busy
        /\ IF ~vc.info.text THEN vc' = [vc EXCEPT !.cursor = <<0, row>>] /\ UNCHANGED vga
           ELSE IF Known THEN vga' = [vga EXCEPT !.cursor = <<0, row>>] /\ UNCHANGED vc
           ELSE UNCHANGED <<vga, vc>>
        /\ flushed' = FALSE
        /\ UNCHANGED <<screen, stage, next, logs, puts, stray, careful>>

\* On a graphics screen, which it flushes; the mark of the cursor follows only
\* when the cursor moves.  In a text mode it is a register of the hardware.
set_cursor_visibility ==
    \E visible \in BOOLEAN :
        /\ stage = "idle" /\ ~Busy /\ ~vc.info.text
        /\ flush(visible)
        /\ flushed' = TRUE
        /\ UNCHANGED <<stage, next, logs, puts, careful>>

-----------------------------------------------------------------------------
(* set_mode *)

\* A mode without information is refused, and still announced to the console.
set_mode ==
    \E mode \in DOMAIN VideoModes :
        /\ stage = "idle" /\ ~Busy /\ mode # vga.mode
        /\ next' = mode
        /\ IF mode \in RefusedModes THEN stage' = "announce" /\ UNCHANGED vga
           ELSE /\ stage' = "buffers"
                /\ vga' = IF VideoModes[mode].text THEN [vga EXCEPT !.switching = TRUE, !.frame = Freed]
                          ELSE [vga EXCEPT !.switching = TRUE, !.chars = Freed]
        /\ flushed' = FALSE
        /\ careful' = (careful /\ Suits(VideoModes[mode]))
        /\ UNCHANGED <<vc, screen, logs, puts, stray>>

\* setup_text_buffer and setup_bitmap_buffer.
setup_buffer ==
    LET info == VideoModes[next]
    IN /\ stage = "buffers" /\ ~Busy
       /\ stage' = "hardware"
       /\ vga' = IF info.text
                 THEN [vga EXCEPT !.chars = Cleared(info), !.diff = {}]
                 ELSE [vga EXCEPT !.frame = [i \in Cells(info) |-> [ch |-> Blank, cursor |-> FALSE]]]
       /\ UNCHANGED <<vc, screen, next, logs, puts, stray, flushed, careful>>

setup_buffer_fails ==
    /\ stage = "buffers" /\ ~Busy /\ stage' = "panic"
    /\ UNCHANGED <<vga, vc, screen, next, logs, puts, stray, flushed, careful>>

\* A slip to compare with: the cursor stays where it is.
HomedNever(info) == vga.cursor

\* The cursor goes to the first cell, unless the size that is in force until
\* now is that of a graphics mode: of a VBE mode the size comes after.
Homed(info) ==
    IF info.text /\ (vga.info.text \/ ~info.vbe) THEN <<0, 0>> ELSE vga.cursor

set_hardware_mode ==
    LET info == VideoModes[next]
    IN /\ stage = "hardware" /\ ~Busy
       /\ stage' = "announce"
       /\ vga' = [vga EXCEPT !.mode = next, !.info = info, !.switching = FALSE, !.cursor = Homed(info)]
       /\ screen' = [i \in Cells(info) |-> [ch |-> Blank, cursor |-> FALSE]]
       /\ UNCHANGED <<vc, next, logs, puts, stray, flushed, careful>>

\* video_mode_callback, up to the allocations.
video_mode_callback ==
    /\ stage = "announce" /\ ~Busy
    /\ vc' = [vc EXCEPT !.switching = TRUE, !.info = VideoModes[next]]
    /\ stage' = "callback"
    /\ UNCHANGED <<vga, screen, next, logs, puts, stray, flushed, careful>>

\* Its own invalidate and flush are refused, for it is switching itself.
Resized ==
    [vc EXCEPT !.chars = IF vc.info.text THEN Freed ELSE Cleared(vc.info),
               !.diff = {}, !.cursor = <<0, 0>>, !.prev = <<0, 0>>, !.switching = FALSE]

video_mode_callback_end ==
    /\ stage = "callback" /\ ~Busy
    /\ stage' = "idle"
    /\ vc' = Resized
    /\ UNCHANGED <<vga, screen, next, logs, puts, stray, flushed, careful>>

video_mode_callback_fails ==
    /\ stage = "callback" /\ ~Busy /\ stage' = "panic"
    /\ UNCHANGED <<vga, vc, screen, next, logs, puts, stray, flushed, careful>>

\* In a debug build the driver and the console write to the log, and so to
\* the terminal, between the steps of the switch.
log_message ==
    \E ch \in Chars :
        /\ logs /\ stage \notin {"idle", "panic"} /\ ~stray /\ puts < MaxPuts
        /\ Write(ch)
        /\ puts' = puts + 1
        /\ UNCHANGED <<screen, stage, next, logs, flushed, careful>>

DisplayInit ==
    LET info == VideoModes[FirstMode]
    IN /\ vga = [mode |-> FirstMode, info |-> info, switching |-> FALSE, chars |-> Cleared(info),
                 frame |-> Freed, diff |-> {}, cursor |-> <<0, 0>>]
       /\ vc = [info |-> info, switching |-> FALSE, chars |-> Freed, diff |-> {},
                cursor |-> <<0, 0>>, prev |-> <<0, 0>>, visible |-> TRUE]
       /\ screen = [i \in Cells(info) |-> [ch |-> Blank, cursor |-> FALSE]]
       /\ stage = "idle" /\ next = FirstMode /\ logs \in BOOLEAN
       /\ puts = 0 /\ stray = FALSE /\ flushed = TRUE /\ careful = TRUE

DisplayNext ==
    \/ Put \/ Flush \/ set_cursor_pos \/ set_cursor_visibility \/ log_message
    \/ set_mode \/ setup_buffer \/ setup_buffer_fails \/ set_hardware_mode
    \/ video_mode_callback \/ video_mode_callback_end \/ video_mode_callback_fails

-----------------------------------------------------------------------------
(* In modes that suit the regions, and without log messages, whose text is  *)
(* written but not marked while a mode is being set, the screen shows the   *)
(* console's cells after each flush, through every change of the mode, and  *)
(* the mark of the cursor in no place but its last.                         *)
FlushedIsShown ==
    flushed /\ stage = "idle" /\ careful /\ ~logs /\ vc.info = vga.info =>
        \A i \in DOMAIN screen :
            /\ screen[i].ch = Buffer[i]
            /\ screen[i].cursor => i = PrevPlace

(* Without log messages nothing is written outside of a buffer as long as   *)
(* the modes that are set suit the buffers, whatever was refused between.   *)
BuffersAreKept == careful /\ ~logs => ~stray

DisplaySpec == DisplayInit /\ [][DisplayNext]_displayVars
=============================================================================
