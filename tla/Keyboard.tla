------------------------------ MODULE Keyboard ------------------------------
(***************************************************************************)
(* The PS/2 keyboard driver, vellum/device/hid/ps2_keyboard.c: a keyboard  *)
(* sends the bytes of each stroke, the interrupt handler queues them in a  *)
(* SeqBuf ring, and poll_event decodes one byte per call.                  *)
(*                                                                         *)
(* A stroke is what the keyboard sends when a key goes down or up. The     *)
(* model keeps the bytes whole, because the decoder mistakes one sequence  *)
(* for another, and stands for all keys by a few.                          *)
(***************************************************************************)
EXTENDS SeqBuf

CONSTANTS
  Strokes,       \* scan code set -> strokes a user makes: [bytes, events]
  MaxStrokes     \* bound, for each set: strokes in one behaviour

ASSUME KeyboardAssumption ==
  /\ DOMAIN Strokes \subseteq {1, 2}
  /\ \A set \in DOMAIN Strokes : \A s \in Strokes[set] : s.bytes \in Seq(Bytes)

VARIABLES
  scancode_set,  \* what probe and the keyboard agreed on, 1 or 2
  seq_state,     \* data->seq_state
  wire,          \* bytes of the current stroke the keyboard has still to send
  typed,         \* history: the events the strokes so far stand for
  reported,      \* history: the events poll_event has returned
  strokes,       \* how many strokes so far
  lost           \* history: a byte of "any" stroke, or of "this" one, was lost

kbvars == <<scancode_set, seq_state, wire, typed, reported, strokes, lost>>
vars   == <<sbvars, kbvars>>

Key(table, code)     == [key |-> <<table, code>>, break |-> FALSE]
KeyUp(table, code)   == [key |-> <<table, code>>, break |-> TRUE]
NoKey                == [key |-> <<"KEY_NONE">>, break |-> FALSE]
Pause                == [key |-> <<"KEY_PAUSE">>, break |-> FALSE]
PauseUp              == [key |-> <<"KEY_PAUSE">>, break |-> TRUE]

BREAK == 240  \* 0xF0
EXT   == 224  \* 0xE0
PAUSE == 225  \* 0xE1
Unused == {241, 242, 252}  \* LANG2, LANG1, POST fail: no event

(* The first byte of a pause is followed by these, one state each.         *)
Pause1 == [SS_PAUSE_1 |-> 29, SS_PAUSE_2 |-> 69, SS_PAUSE_3 |-> 225,
           SS_PAUSE_4 |-> 157, SS_PAUSE_5 |-> 197]
Pause2 == [SS_PAUSE_1 |-> 20, SS_PAUSE_2 |-> 119, SS_PAUSE_3 |-> 225, SS_PAUSE_4 |-> 240,
           SS_PAUSE_5 |-> 20, SS_PAUSE_6 |-> 240, SS_PAUSE_7 |-> 119]
CtrlPause1 == [SS_CTRLPAUSE_1 |-> 224, SS_CTRLPAUSE_2 |-> 198]
CtrlPause2 == [SS_CTRLPAUSE_1 |-> 224, SS_CTRLPAUSE_2 |-> 240, SS_CTRLPAUSE_3 |-> 126]

NextState == [SS_PAUSE_1 |-> "SS_PAUSE_2", SS_PAUSE_2 |-> "SS_PAUSE_3", SS_PAUSE_3 |-> "SS_PAUSE_4",
              SS_PAUSE_4 |-> "SS_PAUSE_5", SS_PAUSE_5 |-> "SS_PAUSE_6", SS_PAUSE_6 |-> "SS_PAUSE_7",
              SS_CTRLPAUSE_1 |-> "SS_CTRLPAUSE_2", SS_CTRLPAUSE_2 |-> "SS_CTRLPAUSE_3"]

(* What one byte does: the next state, and the events, none or one, that   *)
(* the call returns (none stands for STATUS_BUFFER_UNDERFLOW).             *)
Silent == <<>>
Goes(state, events) == [state |-> state, events |-> events]

(* A step of a fixed sequence, whose last byte stands for the event.       *)
Follow(sequence, last, state, b, otherwise, key) ==
  IF b # sequence[state] THEN Goes("SS_DEFAULT", otherwise)
  ELSE IF state = last   THEN Goes("SS_DEFAULT", <<key>>)
  ELSE Goes(NextState[state], otherwise)

(* The tables have 128 (set 1) and 132 or 128 (set 2) entries of two       *)
(* bytes, and the guards compare the byte with sizeof: a byte past the     *)
(* table yields whatever lies behind it. KEY_FLAG_BREAK comes of the state. *)
Lookup(table, entries, b, state) ==
  <<[key   |-> IF b < entries THEN <<table, b>> ELSE <<"past the table", b>>,
     break |-> state \in {"SS_BREAK", "SS_BREAK_EXTENDED"}]>>

translate_scancode_set1(state, b) ==
  CASE b = EXT   -> Goes("SS_EXTENDED", <<NoKey>>)
    [] b = PAUSE -> Goes("SS_PAUSE_1", <<NoKey>>)
    [] OTHER ->
      CASE state = "SS_DEFAULT" ->
             Goes("SS_DEFAULT", IF b \in Unused THEN <<NoKey>> ELSE Lookup("plain", 128, b, state))
        [] state = "SS_EXTENDED" ->
             IF b = 70 THEN Goes("SS_CTRLPAUSE_1", <<NoKey>>)
                       ELSE Goes("SS_DEFAULT", IF b < 128 THEN <<NoKey>> ELSE Lookup("ext", 128, b, state))
        [] state \in DOMAIN Pause1     -> Follow(Pause1, "SS_PAUSE_5", state, b, <<NoKey>>, Pause)
        [] state \in DOMAIN CtrlPause1 -> Follow(CtrlPause1, "SS_CTRLPAUSE_2", state, b, <<NoKey>>, PauseUp)

(* Slips to compare with: the break state is not left; a break after a     *)
(* prefix forgets the prefix.                                              *)
StaysBroken(state) == IF state = "SS_BREAK" THEN "SS_BREAK" ELSE "SS_DEFAULT"
BreakForgets(state) == "SS_BREAK"

AfterKey(state) == "SS_DEFAULT"
AfterBreak(state) == IF state = "SS_EXTENDED" THEN "SS_BREAK_EXTENDED" ELSE "SS_BREAK"

translate_scancode_set2(state, b) ==
  CASE b = BREAK -> Goes(AfterBreak(state), Silent)
    [] b = EXT   -> Goes("SS_EXTENDED", Silent)
    [] b = PAUSE -> Goes("SS_PAUSE_1", Silent)
    [] OTHER ->
      CASE state \in {"SS_DEFAULT", "SS_BREAK"} ->
             Goes(AfterKey(state), IF b \in Unused THEN Silent ELSE Lookup("plain", 132, b, state))
        [] state \in {"SS_EXTENDED", "SS_BREAK_EXTENDED"} ->
             Goes("SS_DEFAULT", Lookup("ext", 128, b, state))
        [] state \in DOMAIN Pause2     -> Follow(Pause2, "SS_PAUSE_7", state, b, Silent, Pause)
        [] state \in DOMAIN CtrlPause2 -> Follow(CtrlPause2, "SS_CTRLPAUSE_3", state, b, Silent, PauseUp)

Translate(set, state, b) ==
  IF set = 1 THEN translate_scancode_set1(state, b) ELSE translate_scancode_set2(state, b)

-----------------------------------------------------------------------------
Init ==
  /\ InitSeqBuf
  /\ scancode_set \in DOMAIN Strokes
  /\ seq_state = "SS_DEFAULT"
  /\ wire = <<>> /\ typed = <<>> /\ reported = <<>>
  /\ strokes = 0
  /\ lost = {}

(* A key goes down or up once the keyboard has sent its last stroke.       *)
Stroke(s) ==
  /\ s \in Strokes[scancode_set] /\ strokes < MaxStrokes[scancode_set]
  /\ wire = <<>> /\ output = NoByte
  /\ wire' = s.bytes
  /\ typed' = typed \o s.events
  /\ strokes' = strokes + 1
  /\ lost' = lost \ {"this"}
  /\ UNCHANGED <<sbvars, scancode_set, seq_state, reported>>

SendByte ==
  /\ wire # <<>>
  /\ Send(Head(wire))
  /\ wire' = Tail(wire)
  /\ UNCHANGED <<scancode_set, seq_state, typed, reported, strokes, lost>>

keyboard_isr ==
  /\ Isr
  /\ lost' = IF IsFull THEN {"any", "this"} ELSE lost
  /\ UNCHANGED <<scancode_set, seq_state, wire, typed, reported, strokes>>

(* The foreground, in poll_event or in the loop of translate_scancode.     *)
Look   == FindByte /\ UNCHANGED kbvars
MaskIt == (Mask \/ ReadByte \/ Unmask) /\ UNCHANGED kbvars

TranslateByte ==
  /\ Decode /\ Advance
  /\ seq_state' = Translate(scancode_set, seq_state, byte).state
  /\ reported' = reported \o Translate(scancode_set, seq_state, byte).events
  /\ UNCHANGED <<scancode_set, wire, typed, strokes, lost>>

Foreground == Look \/ MaskIt \/ TranslateByte

KbNext ==
  \/ \E s \in UNION {Strokes[set] : set \in DOMAIN Strokes} : Stroke(s)
  \/ SendByte \/ keyboard_isr \/ Foreground

KbSpec == /\ Init /\ [][KbNext]_vars
          /\ WF_vars(SendByte) /\ SF_vars(keyboard_isr) /\ WF_vars(Foreground)

-----------------------------------------------------------------------------
KbTypeOK ==
  /\ TypeOK
  /\ seq_state \in {"SS_DEFAULT", "SS_EXTENDED", "SS_BREAK", "SS_BREAK_EXTENDED"}
                     \cup DOMAIN Pause2 \cup DOMAIN CtrlPause2
  /\ scancode_set \in {1, 2}
  /\ lost \subseteq {"any", "this"}

Quiet == wire = <<>> /\ output = NoByte /\ IsEmpty /\ reader = "idle"

(* In set 2, as long as no byte is lost, poll_event reports exactly the     *)
(* keys that went down and up, in their order, and all of them once it has  *)
(* caught up. (Set 1 reads past its table when a key goes up.)              *)
StrokesAreReported ==
  scancode_set = 2 /\ "any" \notin lost =>
     /\ \E n \in 0 .. Len(typed) : reported = SubSeq(typed, 1, n)
     /\ Quiet => reported = typed

(* However many bytes were lost before, one stroke that arrives whole       *)
(* brings the decoder back to its initial state, unless its only byte is    *)
(* one that a torn sequence still waits for.                                *)
Resynchronises ==
  Quiet /\ strokes > 0 /\ "this" \notin lost => seq_state = "SS_DEFAULT"

(* The driver catches up with the keyboard. *)
CatchesUp == (strokes = MaxStrokes[scancode_set]) ~> Quiet
-----------------------------------------------------------------------------
(* Strokes of scan code sets 1 and 2, for the model checker. Pause sends no *)
(* bytes when it goes up.                                                   *)


Down(bytes, table, code) == [bytes |-> bytes, events |-> <<Key(table, code)>>]
Up(bytes, table, code)   == [bytes |-> bytes, events |-> <<KeyUp(table, code)>>]

(* A, right control (which shares 0x14 with pause), and print screen, which  *)
(* sends two extended codes at a time.                                       *)
Set2Strokes ==
  { Down(<<28>>, "plain", 28),            Up(<<240, 28>>, "plain", 28),
    Down(<<224, 20>>, "ext", 20),         Up(<<224, 240, 20>>, "ext", 20),
    [bytes |-> <<224, 18, 224, 124>>, events |-> <<Key("ext", 18), Key("ext", 124)>>] }

Set1Strokes ==
  { Down(<<30>>, "plain", 30),       Up(<<158>>, "plain", 30),
    Down(<<224, 29>>, "ext", 29),    [bytes |-> <<224, 70, 224, 198>>, events |-> <<PauseUp>>],
    [bytes |-> <<225, 29, 69, 225, 157, 197>>, events |-> <<Pause>>] }

AllStrokes   == <<Set1Strokes, Set2Strokes>>

Limits   == <<2, 3>>

BytesOf(set) == UNION {{s.bytes[k] : k \in DOMAIN s.bytes} : s \in set}
AllBytes == BytesOf(Set1Strokes \cup Set2Strokes)
=============================================================================
