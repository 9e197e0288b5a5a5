------------------------------ MODULE Guishell ------------------------------
(***************************************************************************)
(* The command of the graphical shell (modules/guishell/main.c): it draws  *)
(* a picture, moves an arrow over it, and draws a polygon of the points    *)
(* that were clicked.  The arrow lives in the frame buffer: what it covers *)
(* is kept aside and put back before it moves.  What is drawn before the   *)
(* loop is one colour, "desk"; the keyboard and the mouse are polled in    *)
(* turn, and a pass of the loop is one step.                               *)
(***************************************************************************)
EXTENDS Integers, Sequences

CONSTANTS width, height,    \* of the screen
          Wide, High,       \* 12 and 21, the size of the arrow
          cursor_data,      \* the places in it that cover the picture
          PolygonPixels(_, _), \* the pixels of a polygon, by its corners: Drawing's
          CloseButton,      \* 54 .. 73 by 54 .. 73
          MaxPoints,        \* 9, of a polygon
          Jumps,            \* how far the mouse is reported to move
          MaxClicks, MaxRuns  \* bounds

ASSUME ScreenAssumption ==
    /\ width \in Nat \ {0} /\ height \in Nat \ {0} /\ Wide \in Nat /\ High \in Nat /\ Jumps \subseteq Nat
    /\ cursor_data \subseteq (0 .. Wide - 1) \X (0 .. High - 1)

VARIABLES framebuffer, saved, prev, pos, points, hasMouse, running,
          picture, damaged, clicks, runs  \* what is meant to be below the arrow; where it is not

guiVars == <<framebuffer, saved, prev, pos, points, hasMouse, running, picture, damaged, clicks, runs>>

Lesser(a, b) == IF a < b THEN a ELSE b
Pixels == (0 .. width - 1) \X (0 .. height - 1)
\* The part of the screen below an arrow.
Area(at) == (at[1] .. Lesser(at[1] + Wide, width) - 1) \X (at[2] .. Lesser(at[2] + High, height) - 1)
Covers(at, p) == <<p[1] - at[1], p[2] - at[2]>> \in cursor_data
Desk == [p \in Pixels |-> "desk"]
Nowhere == <<>>  \* has_drawn_before is not set

GuiInit ==
    /\ framebuffer = Desk /\ picture = Desk /\ saved = <<>> /\ prev = Nowhere
    /\ pos = <<0, 0>> /\ points = <<>> /\ hasMouse \in BOOLEAN /\ running = FALSE
    /\ damaged = {} /\ clicks = 0 /\ runs = 0

-----------------------------------------------------------------------------
(* The arrow *)

Restored(fb) == [p \in Pixels |-> IF prev # Nowhere /\ p \in DOMAIN saved THEN saved[p] ELSE fb[p]]

Placed(fb, at) ==
    /\ saved' = [p \in Area(at) |-> fb[p]]
    /\ framebuffer' = [p \in Pixels |-> IF p \in Area(at) /\ Covers(at, p) THEN "arrow" ELSE fb[p]]
    /\ prev' = at

\* A slip to compare with: what is below the new place is kept aside first.
MoveSavingFirst(fb, at) ==
    /\ saved' = [p \in Area(at) |-> fb[p]]
    /\ framebuffer' = [p \in Pixels |-> IF p \in Area(at) /\ Covers(at, p) THEN "arrow" ELSE Restored(fb)[p]]
    /\ prev' = at

mouse_move_to(fb, at) == Placed(Restored(fb), at)

-----------------------------------------------------------------------------
(* The command *)

\* The arrow's place of the run before is still known, and is put back into
\* the new picture.
guishell_handler ==
    /\ ~running /\ runs < MaxRuns
    /\ running' = TRUE /\ runs' = runs + 1 /\ points' = <<>> /\ clicks' = 0
    /\ picture' = Desk
    /\ IF hasMouse
       THEN pos' = <<width \div 2, height \div 2>> /\ mouse_move_to(Desk, pos')
       ELSE pos' = <<0, 0>> /\ framebuffer' = Desk /\ UNCHANGED <<saved, prev>>
    /\ damaged' = {p \in Pixels : hasMouse /\ Restored(Desk)[p] # "desk"}
    /\ UNCHANGED hasMouse

\* In each pass the keyboard comes first: the release of a key ends the pass,
\* and Escape the command, after the mouse had its turn.
Keys == {"none", "release", "escape", "other"}
Pass(key) == running /\ hasMouse /\ key # "release" /\ running' = (key # "escape")

keyboard_only ==
    /\ running
    /\ \E key \in Keys : running' = (key # "escape")
    /\ UNCHANGED <<framebuffer, saved, prev, pos, points, hasMouse, picture, damaged, clicks, runs>>

\* The button itself is looked for where it was drawn in a window at 50, 50.
click ==
    /\ running /\ hasMouse /\ clicks < MaxClicks
    /\ clicks' = clicks + 1
    /\ \/ /\ pos \in CloseButton
          /\ running' = FALSE
          /\ UNCHANGED <<framebuffer, points, picture, damaged>>
       \/ /\ pos \notin CloseButton
          /\ \E key \in Keys : Pass(key)
          /\ IF Len(points) < MaxPoints - 1
             THEN points' = Append(points, pos) /\ UNCHANGED <<framebuffer, picture, damaged>>
             ELSE LET polygon == PolygonPixels(Append(points, pos), TRUE)
                      Drawn(fb) == [p \in Pixels |-> IF p \in polygon THEN "black" ELSE fb[p]]
                  IN /\ points' = <<>>
                     /\ framebuffer' = Drawn(framebuffer) /\ picture' = Drawn(picture)
                     /\ damaged' = (damaged \ polygon) \cup {p \in polygon \cap DOMAIN saved : saved[p] # "black"}
    /\ UNCHANGED <<saved, prev, pos, hasMouse, runs>>

\* The arrow follows with the next movement up or down.
move_x ==
    /\ \E key \in Keys : Pass(key)
    /\ \E n \in Jumps :
          \/ pos' = <<IF pos[1] < n THEN 0 ELSE pos[1] - n, pos[2]>>
          \/ pos' = <<IF width <= pos[1] + n THEN width - 1 ELSE pos[1] + n, pos[2]>>
    /\ UNCHANGED <<framebuffer, saved, prev, points, hasMouse, picture, damaged, clicks, runs>>

move_y ==
    /\ \E key \in Keys : Pass(key)
    /\ \E n \in Jumps :
          \/ pos' = <<pos[1], IF height <= pos[2] + n THEN height - 1 ELSE pos[2] + n>>
          \/ pos' = <<pos[1], IF pos[2] < n THEN 0 ELSE pos[2] - n>>
    /\ mouse_move_to(framebuffer, pos')
    /\ UNCHANGED <<points, hasMouse, picture, damaged, clicks, runs>>

GuiNext == guishell_handler \/ keyboard_only \/ click \/ move_x \/ move_y

GuiSpec == GuiInit /\ [][GuiNext]_guiVars

-----------------------------------------------------------------------------
(* With what the arrow covers put back, the frame buffer is the picture, but *)
(* for what a polygon drew below the arrow and for what the run before had   *)
(* there; and there is no trace of the arrow but where it was last drawn.    *)
PictureIsKept ==
    running =>
        /\ \A p \in Pixels \ damaged : Restored(framebuffer)[p] = picture[p]
        /\ \A p \in Pixels : framebuffer[p] = "arrow" => Covers(prev, p)
=============================================================================
