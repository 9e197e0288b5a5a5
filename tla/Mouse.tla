------------------------------- MODULE Mouse -------------------------------
(***************************************************************************)
(* The PS/2 mouse driver, vellum/device/hid/ps2_mouse.c: packets of three  *)
(* bytes, queued by the interrupt handler in a SeqBuf ring; poll_event     *)
(* turns the first byte into one event for each button that changed, one   *)
(* event per call, and the other two into a movement each.                 *)
(***************************************************************************)
EXTENDS SeqBuf

CONSTANTS
  Packets,     \* packets the mouse sends: [bytes, buttons, dx, dy]
  MaxPackets   \* bound: packets in one behaviour

ASSUME MouseAssumption == \A p \in Packets : p.bytes \in Seq(Bytes)

VARIABLES
  seq_state, byte0,
  prev_button_state,  \* buttons the driver believes to be down
  wire,               \* bytes of the current packet the mouse has still to send
  sent,               \* history: the packets sent
  moves,              \* history: the movements reported
  down,               \* history: buttons reported down and not up again
  unheard,            \* history: buttons malloc's memory had down, of which no event told
  lost                \* history: a byte was lost, or a packet was refused

msvars == <<seq_state, byte0, prev_button_state, wire, sent, moves, down, unheard, lost>>
vars   == <<sbvars, msvars>>

Bit(b, value) == (b \div value) % 2 = 1

(* The three buttons, in the order they are looked at, with their bits.    *)
Buttons == <<4, 2, 1>>
ButtonSet == {1, 2, 4}
Pressed(b) == {v \in ButtonSet : Bit(b, v)}
Changed(b) == {v \in ButtonSet : Bit(b, v) # (v \in prev_button_state)}

(* The first byte of a packet has bit 3 set; the packet of a movement past *)
(* nine bits (0x40, 0x80) is not taken.                                    *)
AnyFirst(b) == Bit(b, 8)  \* a slip to compare with
IsFirst(b) == Bit(b, 8) /\ ~Bit(b, 64) /\ ~Bit(b, 128)

Unsigned(b, sign) == b  \* a slip to compare with

(* A movement: its axis and its value, negative when the sign bit is set.  *)
Distance(b, sign) == IF Bit(byte0, sign) THEN b - 256 ELSE b

-----------------------------------------------------------------------------
(* What poll_event does with the byte at the start of the ring. The event  *)
(* of a button leaves the byte for the next call.                          *)

AllAtOnce(v) == prev_button_state' = Pressed(byte)  \* a slip to compare with

NoteButton(v) ==
  prev_button_state' = IF v \in prev_button_state THEN prev_button_state \ {v}
                                                  ELSE prev_button_state \cup {v}

ButtonEvent ==
  /\ seq_state = "SS_DEFAULT" /\ IsFirst(byte) /\ Changed(byte) # {}
  /\ LET k == CHOOSE k \in 1 .. 3 : /\ Buttons[k] \in Changed(byte)
                                    /\ \A j \in 1 .. k - 1 : Buttons[j] \notin Changed(byte)
     IN  /\ NoteButton(Buttons[k])
         /\ down' = IF Bit(byte, Buttons[k]) THEN down \cup {Buttons[k]} ELSE down \ {Buttons[k]}
         /\ unheard' = unheard \ {Buttons[k]}
  /\ Stay
  /\ UNCHANGED <<seq_state, byte0, moves>>

FirstByte ==
  /\ seq_state = "SS_DEFAULT" /\ IsFirst(byte) /\ Changed(byte) = {}
  /\ byte0' = byte
  /\ seq_state' = "SS_XMOVEMENT"
  /\ Advance
  /\ UNCHANGED <<prev_button_state, down, unheard, moves>>

RefuseByte ==
  /\ seq_state = "SS_DEFAULT" /\ ~IsFirst(byte)
  /\ Advance
  /\ UNCHANGED <<seq_state, byte0, prev_button_state, down, unheard, moves>>

(* The first byte said the movement overflows: the call returns an empty   *)
(* event and uses nothing up.                                              *)
Overflow ==
  /\ \/ seq_state = "SS_XMOVEMENT" /\ Bit(byte0, 64)
     \/ seq_state = "SS_YMOVEMENT" /\ Bit(byte0, 128)
  /\ Stay
  /\ UNCHANGED <<seq_state, byte0, prev_button_state, down, unheard, moves>>

XMove ==
  /\ seq_state = "SS_XMOVEMENT" /\ ~Bit(byte0, 64)
  /\ moves' = Append(moves, <<"x", Distance(byte, 16)>>)
  /\ seq_state' = "SS_YMOVEMENT"
  /\ Advance
  /\ UNCHANGED <<byte0, prev_button_state, down, unheard>>

YMove ==
  /\ seq_state = "SS_YMOVEMENT" /\ ~Bit(byte0, 128)
  /\ moves' = Append(moves, <<"y", Distance(byte, 32)>>)
  /\ seq_state' = "SS_DEFAULT"
  /\ Advance
  /\ UNCHANGED <<byte0, prev_button_state, down, unheard>>

PollByte ==
  /\ Decode
  /\ ButtonEvent \/ FirstByte \/ RefuseByte \/ Overflow \/ XMove \/ YMove
  /\ UNCHANGED <<wire, sent, lost>>

-----------------------------------------------------------------------------
(* malloc leaves prev_button_state as it finds it: nothing was reported of *)
(* the buttons it has down.                                                *)
Init ==
  /\ InitSeqBuf
  /\ seq_state = "SS_DEFAULT"
  /\ byte0 = 0
  /\ prev_button_state \in SUBSET ButtonSet
  /\ down = {} /\ unheard = prev_button_state
  /\ wire = <<>> /\ sent = <<>> /\ moves = <<>>
  /\ lost = FALSE

Packet(p) ==
  /\ Len(sent) < MaxPackets
  /\ wire = <<>> /\ output = NoByte
  /\ wire' = p.bytes
  /\ sent' = Append(sent, p)
  /\ lost' = (lost \/ Bit(p.bytes[1], 64) \/ Bit(p.bytes[1], 128))
  /\ UNCHANGED <<sbvars, seq_state, byte0, prev_button_state, moves, down, unheard>>

SendByte ==
  /\ wire # <<>>
  /\ Send(Head(wire))
  /\ wire' = Tail(wire)
  /\ UNCHANGED <<seq_state, byte0, prev_button_state, sent, moves, down, unheard, lost>>

mouse_isr ==
  /\ Isr
  /\ lost' = (lost \/ IsFull)
  /\ UNCHANGED <<seq_state, byte0, prev_button_state, wire, sent, moves, down, unheard>>

Foreground == PollByte \/ ((FindByte \/ Mask \/ ReadByte \/ Unmask) /\ UNCHANGED msvars)

MsNext ==
  \/ \E p \in Packets : Packet(p)
  \/ SendByte \/ mouse_isr \/ Foreground

MsSpec == /\ Init /\ [][MsNext]_vars
          /\ WF_vars(SendByte) /\ SF_vars(mouse_isr) /\ WF_vars(Foreground)

-----------------------------------------------------------------------------
MsTypeOK ==
  /\ TypeOK
  /\ seq_state \in {"SS_DEFAULT", "SS_XMOVEMENT", "SS_YMOVEMENT"}
  /\ prev_button_state \subseteq ButtonSet /\ down \subseteq ButtonSet /\ unheard \subseteq ButtonSet

Quiet == wire = <<>> /\ output = NoByte /\ IsEmpty /\ reader = "idle"

(* The movements the packets stand for. *)
Movements == [k \in 1 .. 2 * Len(sent) |->
                IF k % 2 = 1 THEN <<"x", sent[(k + 1) \div 2].dx>> ELSE <<"y", sent[k \div 2].dy>>]

(* Unless a byte was lost or a packet overflowed, poll_event reports the    *)
(* movements of the packets, none twice and none out of order. Once it has  *)
(* caught up, the buttons reported down are down in the last packet, and a  *)
(* button that is down there and was not reported has been down in every    *)
(* packet since the driver started: the memory it started with had it down. *)
PacketsAreReported ==
  ~lost =>
    /\ \E n \in 0 .. Len(Movements) : moves = SubSeq(Movements, 1, n)
    /\ Quiet => moves = Movements
    /\ Quiet /\ sent # <<>> =>
         /\ down \subseteq sent[Len(sent)].buttons
         /\ \A v \in sent[Len(sent)].buttons \ down : \A k \in 1 .. Len(sent) : v \in sent[k].buttons

(* Also in a stream out of step with its packets, a caller that follows the *)
(* events knows the buttons the driver believes to be down, but for those   *)
(* it was started with and no event has told of: of a button it can be told *)
(* one release without a press, and never a second one or two presses.      *)
ButtonsAgree == prev_button_state = down \cup unheard /\ down \cap unheard = {}

(* poll_event does not stay at one byte for ever: also after losses and     *)
(* overflowing packets the driver gets to the end of what was sent.         *)
CatchesUp == (Len(sent) = MaxPackets) ~> Quiet
-----------------------------------------------------------------------------
(* Packets for the model checker: two buttons pressed at once, a release    *)
(* with a movement to the left and down whose bytes look like first bytes,  *)
(* and a movement that overflows.                                           *)

MCPackets ==
  { [bytes |-> <<8 + 5, 3, 0>>,              buttons |-> {1, 4}, dx |-> 3, dy |-> 0],
    [bytes |-> <<8 + 16 + 32, 40, 251>>,     buttons |-> {}, dx |-> -216, dy |-> -5],
    [bytes |-> <<8 + 1 + 64, 12, 2>>,        buttons |-> {1}, dx |-> 12, dy |-> 2] }

MCBytes == UNION {{p.bytes[k] : k \in 1 .. 3} : p \in MCPackets}
=============================================================================
