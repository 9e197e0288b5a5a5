---------------------------- MODULE MouseProofs ----------------------------
(***************************************************************************)
(* The mouse driver uses its ring as SeqBuf says, so what is proved of the *)
(* ring holds of the driver; and the buttons its events describe are those *)
(* it remembers, for any packets, any losses and a ring of any size.       *)
(***************************************************************************)
EXTENDS Mouse, SeqBufProofs

WireType == wire \in Seq(Bytes)

LEMMA WireTypeInvariant == MsSpec => []WireType
<1>1. Init => WireType
  BY DEF Init, WireType
<1>2. WireType /\ [MsNext]_vars => WireType'
  <2> SUFFICES ASSUME WireType, [MsNext]_vars PROVE WireType'
    OBVIOUS
  <2> USE DEF WireType
  <2>1. ASSUME NEW p \in Packets, Packet(p) PROVE WireType'
    BY <2>1, MouseAssumption DEF Packet
  <2>2. CASE SendByte
    BY <2>2 DEF SendByte
  <2>3. CASE UNCHANGED wire
    BY <2>3
  <2> QED BY <2>1, <2>2, <2>3 DEF MsNext, mouse_isr, Foreground, PollByte, msvars, vars
<1> QED BY <1>1, <1>2, PTL DEF MsSpec

LEMMA StepOfRing == WireType /\ [MsNext]_vars => [Next]_sbvars
<1> SUFFICES ASSUME WireType, [MsNext]_vars PROVE Next \/ UNCHANGED sbvars
  OBVIOUS
<1>1. ASSUME NEW p \in Packets, Packet(p) PROVE UNCHANGED sbvars
  BY <1>1 DEF Packet
<1>2. CASE SendByte
  <2>1. Head(wire) \in Bytes /\ Send(Head(wire))
    BY <1>2 DEF SendByte, WireType
  <2> QED BY <2>1 DEF Next
<1>3. CASE mouse_isr
  BY <1>3 DEF mouse_isr, Next
<1>4. CASE Foreground
  BY <1>4 DEF Foreground, PollByte, Next, Poll
<1>5. CASE UNCHANGED vars
  BY <1>5 DEF vars
<1> QED BY <1>1, <1>2, <1>3, <1>4, <1>5 DEF MsNext

(* The driver is one use of the ring, so the ring's theorems are its own.  *)
THEOREM MouseUsesRing == MsSpec => Spec
<1>1. Init => InitSeqBuf
  BY DEF Init
<1> QED BY <1>1, StepOfRing, WireTypeInvariant, PTL DEF MsSpec, Spec

(* poll_event of the mouse reads bytes its interrupt handler stored.       *)
THEOREM MouseReadsCorrect == MsSpec => []OnlyWrittenIsRead
BY MouseUsesRing, ReadsCorrect, PTL

(* The bytes of the mouse pass through a bounded queue.                    *)
THEOREM MouseQueue == MsSpec => QueueSpec
BY MouseUsesRing, RingIsQueue, PTL

-----------------------------------------------------------------------------
(* One call reports the change of one button and notes the same change.    *)
LEMMA ButtonChosen ==
  ASSUME ButtonEvent
  PROVE  \E v \in Changed(byte) :
            /\ NoteButton(v)
            /\ down' = IF Bit(byte, v) THEN down \cup {v} ELSE down \ {v}
            /\ unheard' = unheard \ {v}
<1> DEFINE First(k) == /\ Buttons[k] \in Changed(byte)
                       /\ \A j \in 1 .. k - 1 : Buttons[j] \notin Changed(byte)
           k0 == CHOOSE k \in 1 .. 3 : First(k)
<1>1. \E k \in 1 .. 3 : First(k)
  <2>1. Changed(byte) # {} /\ Changed(byte) \subseteq {1, 2, 4}
    BY DEF ButtonEvent, Changed, ButtonSet
  <2>2. Buttons[1] = 4 /\ Buttons[2] = 2 /\ Buttons[3] = 1
    BY DEF Buttons
  <2>3. CASE 4 \in Changed(byte)
    BY <2>2, <2>3
  <2>4. CASE 4 \notin Changed(byte) /\ 2 \in Changed(byte)
    BY <2>2, <2>4
  <2>5. CASE 4 \notin Changed(byte) /\ 2 \notin Changed(byte)
    <3>1. 1 \in Changed(byte)
      BY <2>1, <2>5
    <3>2. \A j \in 1 .. 2 : j = 1 \/ j = 2
      OBVIOUS
    <3> QED BY <2>2, <2>5, <3>1, <3>2
  <2> QED BY <2>3, <2>4, <2>5
<1>2. Buttons[k0] \in Changed(byte)
  BY <1>1
<1> HIDE DEF k0
<1>3. /\ NoteButton(Buttons[k0])
      /\ down' = IF Bit(byte, Buttons[k0]) THEN down \cup {Buttons[k0]} ELSE down \ {Buttons[k0]}
      /\ unheard' = unheard \ {Buttons[k0]}
  BY DEF ButtonEvent, k0
<1> QED BY <1>2, <1>3

LEMMA ButtonNoted ==
  ASSUME ButtonsAgree, ButtonEvent
  PROVE  ButtonsAgree'
<1>1. PICK v \in Changed(byte) :
         /\ NoteButton(v)
         /\ down' = IF Bit(byte, v) THEN down \cup {v} ELSE down \ {v}
         /\ unheard' = unheard \ {v}
  BY ButtonChosen
<1>2. Bit(byte, v) # (v \in prev_button_state) /\ Bit(byte, v) \in BOOLEAN
  BY <1>1 DEF Changed, Bit
<1>3. CASE Bit(byte, v)
  BY <1>1, <1>2, <1>3 DEF NoteButton, ButtonsAgree
<1>4. CASE ~Bit(byte, v)
  BY <1>1, <1>2, <1>4 DEF NoteButton, ButtonsAgree
<1> QED BY <1>3, <1>4

(* A caller that follows the events knows the buttons the driver remembers, *)
(* but for those malloc's memory had down and no event has told of.         *)
THEOREM ButtonsCorrect == MsSpec => []ButtonsAgree
<1>1. Init => ButtonsAgree
  BY DEF Init, ButtonsAgree
<1>2. ButtonsAgree /\ [MsNext]_vars => ButtonsAgree'
  <2> SUFFICES ASSUME ButtonsAgree, [MsNext]_vars PROVE ButtonsAgree'
    OBVIOUS
  <2>1. CASE PollByte /\ ButtonEvent
    BY <2>1, ButtonNoted
  <2>2. CASE UNCHANGED <<down, unheard, prev_button_state>>
    BY <2>2 DEF ButtonsAgree
  <2>3. CASE PollByte /\ ~ButtonEvent
    BY <2>2, <2>3 DEF PollByte, FirstByte, RefuseByte, Overflow, XMove, YMove
  <2> QED BY <2>1, <2>2, <2>3
       DEF MsNext, Packet, SendByte, mouse_isr, Foreground, msvars, vars
<1> QED BY <1>1, <1>2, PTL DEF MsSpec

-----------------------------------------------------------------------------
(* What a mouse sends: three bytes, of which the first has bit 3 set, the  *)
(* buttons and the signs of the movements, and the others the movements.   *)
WellFormed(p) ==
  /\ Len(p.bytes) = 3 /\ Bit(p.bytes[1], 8)
  /\ p.buttons = Pressed(p.bytes[1])
  /\ p.dx = IF Bit(p.bytes[1], 16) THEN p.bytes[2] - 256 ELSE p.bytes[2]
  /\ p.dy = IF Bit(p.bytes[1], 32) THEN p.bytes[3] - 256 ELSE p.bytes[3]

(* Of the packets "all" the bytes of the first n and "into" of the next    *)
(* have been taken, and those on the way are the others.                   *)
Ahead(all, way, n, into) ==
  /\ Len(way) = 3 * (Len(all) - n) - into
  /\ \A i \in n + 1 .. Len(all), j \in 1 .. 3 :
       3 * (i - n - 1) + j > into => way[3 * (i - n - 1) + j - into] = all[i].bytes[j]

(* Of the packets "all" the movements of the first n have been reported,   *)
(* and perhaps the first movement of the next.                             *)
XOf(p) == <<"x", p.dx>>
YOf(p) == <<"y", p.dy>>

Told(all, done, n, more) ==
  /\ Len(done) = 2 * n + more
  /\ \A k \in 1 .. n : done[2 * k - 1] = XOf(all[k]) /\ done[2 * k] = YOf(all[k])
  /\ more = 1 => done[2 * n + 1] = XOf(all[n + 1])

LEMMA AheadNext ==
  ASSUME NEW all \in Seq(Packets), NEW way \in Seq(Bytes), way # <<>>,
         NEW n \in 0 .. Len(all), NEW into \in 0 .. 2, Ahead(all, way, n, into)
  PROVE  /\ n + 1 \in 1 .. Len(all) /\ Head(way) = all[n + 1].bytes[into + 1]
         /\ into < 2 => Ahead(all, Tail(way), n, into + 1)
         /\ into = 2 => Ahead(all, Tail(way), n + 1, 0)
<1>1. /\ Len(way) = 3 * (Len(all) - n) - into /\ Len(way) > 0 /\ Len(way) \in Nat
      /\ Len(all) \in Nat /\ Head(way) = way[1]
      /\ Len(Tail(way)) = Len(way) - 1
      /\ \A m \in 1 .. Len(way) - 1 : Tail(way)[m] = way[m + 1]
  BY DEF Ahead
<1>2. n + 1 \in 1 .. Len(all)
  BY <1>1
<1>3. Head(way) = all[n + 1].bytes[into + 1]
  <2>1. n + 1 \in n + 1 .. Len(all) /\ into + 1 \in 1 .. 3 /\ 3 * (n + 1 - n - 1) + (into + 1) > into
        /\ 3 * (n + 1 - n - 1) + (into + 1) - into = 1
    BY <1>2
  <2>2. way[3 * (n + 1 - n - 1) + (into + 1) - into] = all[n + 1].bytes[into + 1]
    BY <2>1 DEF Ahead
  <2> QED BY <1>1, <2>1, <2>2
<1>4. ASSUME into < 2 PROVE Ahead(all, Tail(way), n, into + 1)
  <2>1. ASSUME NEW i \in n + 1 .. Len(all), NEW j \in 1 .. 3, 3 * (i - n - 1) + j > into + 1
        PROVE  Tail(way)[3 * (i - n - 1) + j - (into + 1)] = all[i].bytes[j]
    <3>1. PICK m \in 1 .. Len(way) - 1 : m = 3 * (i - n - 1) + j - (into + 1)
      BY <1>1, <2>1
    <3>2. m + 1 = 3 * (i - n - 1) + j - into
      BY <3>1
    <3>3. way[m + 1] = all[i].bytes[j]
      BY <2>1, <3>2, SMTT(20) DEF Ahead
    <3> QED BY <1>1, <3>1, <3>3
  <2>2. Len(Tail(way)) = 3 * (Len(all) - n) - (into + 1)
    BY <1>1
  <2> QED BY <2>1, <2>2 DEF Ahead
<1>5. ASSUME into = 2 PROVE Ahead(all, Tail(way), n + 1, 0)
  <2>1. ASSUME NEW i \in n + 2 .. Len(all), NEW j \in 1 .. 3
        PROVE  Tail(way)[3 * (i - (n + 1) - 1) + j - 0] = all[i].bytes[j]
    <3>1. PICK m \in 1 .. Len(way) - 1 : m = 3 * (i - (n + 1) - 1) + j - 0
      BY <1>1, <1>5, <2>1
    <3>2. m + 1 = 3 * (i - n - 1) + j - into /\ i \in n + 1 .. Len(all) /\ 3 * (i - n - 1) + j > into
      BY <1>5, <3>1
    <3>3. way[m + 1] = all[i].bytes[j]
      BY <3>2 DEF Ahead
    <3> QED BY <1>1, <3>1, <3>3
  <2>2. Len(Tail(way)) = 3 * (Len(all) - (n + 1)) - 0 /\ (n + 1) + 1 = n + 2
    BY <1>1, <1>5
  <2> QED BY <2>1, <2>2 DEF Ahead
<1> QED BY <1>2, <1>3, <1>4, <1>5

LEMMA JoinAt ==
  ASSUME NEW a \in Seq(Bytes), NEW b \in Seq(Bytes)
  PROVE  /\ Len(a \o b) = Len(a) + Len(b)
         /\ \A m \in 1 .. Len(a) : (a \o b)[m] = a[m]
         /\ \A j \in 1 .. Len(b) : (a \o b)[Len(a) + j] = b[j]
<1>1. Len(a \o b) = Len(a) + Len(b)
  OBVIOUS
<1>2. ASSUME NEW m \in 1 .. Len(a) PROVE (a \o b)[m] = a[m]
  OBVIOUS
<1>3. ASSUME NEW j \in 1 .. Len(b) PROVE (a \o b)[Len(a) + j] = b[j]
  OBVIOUS
<1> QED BY <1>1, <1>2, <1>3

LEMMA AheadMore ==
  ASSUME NEW all \in Seq(Packets), NEW p \in Packets, Len(p.bytes) = 3, NEW way \in Seq(Bytes),
         NEW n \in 0 .. Len(all), NEW into \in 0 .. 2, Ahead(all, way, n, into)
  PROVE  Ahead(Append(all, p), way \o p.bytes, n, into)
<1>1. PICK b \in Seq(Bytes) : b = p.bytes
  BY MouseAssumption
<1>2. /\ Len(way) \in Nat /\ Len(all) \in Nat /\ Len(b) = 3
      /\ Len(way) = 3 * (Len(all) - n) - into
  BY <1>1 DEF Ahead
<1>3. /\ Len(Append(all, p)) = Len(all) + 1 /\ Append(all, p)[Len(all) + 1] = p
      /\ \A i \in 1 .. Len(all) : Append(all, p)[i] = all[i]
  BY <1>2
<1>4. /\ Len(way \o b) = Len(way) + 3
      /\ \A m \in 1 .. Len(way) : (way \o b)[m] = way[m]
      /\ \A j \in 1 .. 3 : (way \o b)[Len(way) + j] = b[j]
  <2>1. b \in Seq(Bytes)
    BY <1>1
  <2>2. /\ Len(way \o b) = Len(way) + Len(b)
        /\ \A m \in 1 .. Len(way) : (way \o b)[m] = way[m]
        /\ \A j \in 1 .. Len(b) : (way \o b)[Len(way) + j] = b[j]
    BY <2>1, JoinAt
  <2> QED BY <1>2, <2>2
<1>5. ASSUME NEW i \in n + 1 .. Len(all) + 1, NEW j \in 1 .. 3, 3 * (i - n - 1) + j > into
      PROVE  (way \o b)[3 * (i - n - 1) + j - into] = Append(all, p)[i].bytes[j]
  <2>1. CASE i = Len(all) + 1
    <3>1. 3 * (i - n - 1) + j - into = Len(way) + j
      BY <1>2, <2>1
    <3>2. Append(all, p)[i].bytes[j] = b[j]
      BY <1>1, <1>3, <2>1
    <3> QED BY <1>4, <3>1, <3>2
  <2>2. CASE i \in n + 1 .. Len(all)
    <3>1. PICK m \in 1 .. Len(way) : m = 3 * (i - n - 1) + j - into
      BY <1>2, <1>5, <2>2
    <3>2. way[m] = all[i].bytes[j]
      BY <1>5, <2>2, <3>1 DEF Ahead
    <3>3. Append(all, p)[i] = all[i]
      BY <1>3, <2>2
    <3> QED BY <1>4, <3>1, <3>2, <3>3
  <2>3. i = Len(all) + 1 \/ i \in n + 1 .. Len(all)
    BY <1>2
  <2> QED BY <2>1, <2>2, <2>3
<1>6. Len(way \o b) = 3 * (Len(Append(all, p)) - n) - into
  BY <1>2, <1>3, <1>4
<1> QED BY <1>1, <1>3, <1>5, <1>6 DEF Ahead

Moved == {"x", "y"} \X (Bytes \cup {b - 256 : b \in Bytes})

LEMMA AppendAt ==
  ASSUME NEW done \in Seq(Moved), NEW m \in Moved
  PROVE  /\ Len(done) \in Nat /\ Len(Append(done, m)) = Len(done) + 1
         /\ Append(done, m)[Len(done) + 1] = m
         /\ \A k \in 1 .. Len(done) : Append(done, m)[k] = done[k]
OBVIOUS

LEMMA ToldMore ==
  ASSUME NEW all \in Seq(Packets), NEW p \in Packets, NEW done, NEW more \in {0, 1},
         NEW n \in 0 .. Len(all), more = 1 => n < Len(all), Told(all, done, n, more)
  PROVE  Told(Append(all, p), done, n, more)
<1>1. \A i \in 1 .. Len(all) : Append(all, p)[i] = all[i]
  OBVIOUS
<1>2. \A k \in 1 .. n : k \in 1 .. Len(all)
  OBVIOUS
<1>3. more = 1 => n + 1 \in 1 .. Len(all)
  OBVIOUS
<1> QED BY <1>1, <1>2, <1>3, Zenon DEF Told

LEMMA ToldFirst ==
  ASSUME NEW all \in Seq(Packets), NEW done \in Seq(Moved), NEW n \in Nat,
         XOf(all[n + 1]) \in Moved, Told(all, done, n, 0)
  PROVE  Told(all, Append(done, XOf(all[n + 1])), n, 1)
<1>1. PICK m \in Moved : m = XOf(all[n + 1])
  OBVIOUS
<1>2. Len(done) = 2 * n
  BY DEF Told
<1>3. /\ Len(Append(done, m)) = 2 * n + 1 /\ Append(done, m)[2 * n + 1] = m
      /\ \A k \in 1 .. 2 * n : Append(done, m)[k] = done[k]
  BY <1>1, <1>2, AppendAt
<1>4. ASSUME NEW k \in 1 .. n
      PROVE  Append(done, m)[2 * k - 1] = XOf(all[k]) /\ Append(done, m)[2 * k] = YOf(all[k])
  <2>1. 2 * k - 1 \in 1 .. 2 * n /\ 2 * k \in 1 .. 2 * n
    OBVIOUS
  <2>2. done[2 * k - 1] = XOf(all[k]) /\ done[2 * k] = YOf(all[k])
    BY DEF Told
  <2> QED BY <1>3, <2>1, <2>2
<1> QED BY <1>1, <1>3, <1>4 DEF Told

LEMMA ToldSecond ==
  ASSUME NEW all \in Seq(Packets), NEW done \in Seq(Moved), NEW n \in Nat,
         YOf(all[n + 1]) \in Moved, Told(all, done, n, 1)
  PROVE  Told(all, Append(done, YOf(all[n + 1])), n + 1, 0)
<1>1. PICK m \in Moved : m = YOf(all[n + 1])
  OBVIOUS
<1>2. Len(done) = 2 * n + 1
  BY DEF Told
<1>3. /\ Len(Append(done, m)) = 2 * (n + 1) /\ Append(done, m)[2 * (n + 1)] = m
      /\ \A k \in 1 .. 2 * n + 1 : Append(done, m)[k] = done[k]
  <2>1. Len(done) + 1 = 2 * (n + 1)
    BY <1>2
  <2>2. Len(Append(done, m)) = Len(done) + 1 /\ Append(done, m)[Len(done) + 1] = m
    BY <1>1, AppendAt
  <2>3. \A k \in 1 .. Len(done) : Append(done, m)[k] = done[k]
    BY <1>1, AppendAt
  <2> QED BY <1>2, <2>1, <2>2, <2>3
<1>4. ASSUME NEW k \in 1 .. n + 1
      PROVE  Append(done, m)[2 * k - 1] = XOf(all[k]) /\ Append(done, m)[2 * k] = YOf(all[k])
  <2>1. 2 * k - 1 \in 1 .. 2 * n + 1
    OBVIOUS
  <2>2. CASE k \in 1 .. n
    <3>1. 2 * k \in 1 .. 2 * n + 1
      BY <2>2
    <3>2. done[2 * k - 1] = XOf(all[k]) /\ done[2 * k] = YOf(all[k])
      BY <2>2 DEF Told
    <3> QED BY <1>3, <2>1, <3>1, <3>2
  <2>3. CASE k = n + 1
    <3>1. done[2 * n + 1] = XOf(all[n + 1]) /\ 2 * k - 1 = 2 * n + 1
      BY <2>3 DEF Told
    <3> QED BY <1>1, <1>3, <2>1, <2>3, <3>1
  <2>4. k \in 1 .. n \/ k = n + 1
    OBVIOUS
  <2> QED BY <2>2, <2>3, <2>4
<1>5. Told(all, Append(done, m), n + 1, 0)
  <2>1. 2 * (n + 1) + 0 = 2 * (n + 1) /\ ~(0 = 1)
    OBVIOUS
  <2> QED BY <1>3, <1>4, <2>1, Zenon DEF Told
<1> QED BY <1>1, <1>5

-----------------------------------------------------------------------------
OnTheWay == Stream(wire)

(* How many bytes of a packet the decoder has behind it, and movements.    *)
Into == IF seq_state = "SS_DEFAULT" THEN 0 ELSE IF seq_state = "SS_XMOVEMENT" THEN 1 ELSE 2
Half == IF Into = 2 THEN 1 ELSE 0

(* A button no event has told of was down in each of the first n packets.  *)
Held(all, n) == \A i \in 1 .. n : unheard \subseteq Pressed(all[i].bytes[1])

(* The packets sent are the n decoded ones, the one the decoder is in, and *)
(* those on the way.                                                       *)
Decoded(n) ==
  /\ Ahead(sent, OnTheWay, n, Into) /\ Told(sent, moves, n, Half) /\ Held(sent, n)
  /\ Into > 0 => byte0 = sent[n + 1].bytes[1] /\ prev_button_state = Pressed(byte0)
  /\ OnTheWay = <<>> /\ n > 0 => prev_button_state = Pressed(sent[n].bytes[1])

NoOverflow == \A i \in 1 .. Len(sent) : ~Bit(sent[i].bytes[1], 64) /\ ~Bit(sent[i].bytes[1], 128)

InStep == ~lost => NoOverflow /\ \E n \in 0 .. Len(sent) : Decoded(n)

MouseType ==
  /\ sent \in Seq(Packets) /\ moves \in Seq(Moved)
  /\ seq_state \in {"SS_DEFAULT", "SS_XMOVEMENT", "SS_YMOVEMENT"}
  /\ prev_button_state \subseteq ButtonSet

MInv == IInv /\ WireType /\ MouseType /\ ButtonsAgree

LEMMA DecodedByte ==
  ASSUME IInv, reader = "decode"
  PROVE  byte \in Bytes /\ \A sign : <<"x", Distance(byte, sign)>> \in Moved /\ <<"y", Distance(byte, sign)>> \in Moved
<1>1. byte \in Bytes
  <2>1. Contents \in Seq(Bytes) /\ Contents # <<>> /\ Head(Contents) = byte
    <3>1. <<>> \in Seq(Bytes)
      OBVIOUS
    <3> QED BY <3>1, DecodesHead, StreamType
  <2> QED BY <2>1
<1>2. ASSUME NEW sign PROVE Distance(byte, sign) \in Bytes \cup {b - 256 : b \in Bytes}
  BY <1>1 DEF Distance
<1> QED BY <1>1, <1>2 DEF Moved

LEMMA MInvInvariant == MsSpec => []MInv
<1>1. MsSpec => [](IInv /\ WireType /\ ButtonsAgree)
  BY MouseUsesRing, Invariance, WireTypeInvariant, ButtonsCorrect, PTL
<1>2. Init => MouseType
  BY DEF Init, MouseType
<1>3. IInv /\ MouseType /\ [MsNext]_vars => MouseType'
  <2> SUFFICES ASSUME IInv, MouseType, [MsNext]_vars PROVE MouseType'
    OBVIOUS
  <2>1. ASSUME NEW p \in Packets, Packet(p) PROVE MouseType'
    BY <2>1 DEF Packet, MouseType
  <2>2. CASE UNCHANGED <<sent, moves, seq_state, prev_button_state>>
    BY <2>2 DEF MouseType
  <2>3. CASE PollByte
    <3>1. sent' = sent /\ reader = "decode"
      BY <2>3 DEF PollByte, Decode
    <3>2. CASE ButtonEvent
      <4>1. PICK v \in Changed(byte) : NoteButton(v)
        BY <3>2, ButtonChosen
      <4>2. prev_button_state' \subseteq ButtonSet
        BY <4>1 DEF NoteButton, MouseType, Changed
      <4> QED BY <3>1, <3>2, <4>2 DEF ButtonEvent, MouseType
    <3>3. CASE FirstByte \/ RefuseByte \/ Overflow
      BY <3>1, <3>3 DEF FirstByte, RefuseByte, Overflow, MouseType
    <3>4. CASE XMove
      <4>1. <<"x", Distance(byte, 16)>> \in Moved
        BY <3>1, DecodedByte
      <4> QED BY <3>1, <3>4, <4>1 DEF XMove, MouseType
    <3>5. CASE YMove
      <4>1. <<"y", Distance(byte, 32)>> \in Moved
        BY <3>1, DecodedByte
      <4> QED BY <3>1, <3>5, <4>1 DEF YMove, MouseType
    <3> QED BY <2>3, <3>2, <3>3, <3>4, <3>5 DEF PollByte
  <2> QED BY <2>1, <2>2, <2>3 DEF MsNext, SendByte, mouse_isr, Foreground, msvars, vars
<1> QED BY <1>1, <1>2, <1>3, PTL DEF MsSpec, MInv

(* What a step does to the bytes on the way.                               *)
Comes == \E p \in Packets : Packet(p) /\ OnTheWay' = OnTheWay \o p.bytes
Moves == /\ OnTheWay' = OnTheWay
         /\ lost => lost'
         /\ UNCHANGED <<seq_state, byte0, prev_button_state, sent, moves, down, unheard>>
Takes == /\ PollByte /\ OnTheWay # <<>> /\ Head(OnTheWay) = byte
         /\ Advance => OnTheWay' = Tail(OnTheWay)
         /\ Stay => OnTheWay' = OnTheWay

LEMMA StepOfStream ==
  ASSUME IInv, IInv', WireType, [MsNext]_vars
  PROVE  Comes \/ Moves \/ lost' \/ Takes
<1>1. Contents \in Seq(Bytes) /\ wire \in Seq(Bytes)
  BY StreamType DEF WireType
<1>2. ASSUME NEW p \in Packets, Packet(p) PROVE Comes
  <2>1. p.bytes \in Seq(Bytes) /\ wire = <<>> /\ output = NoByte /\ wire' = p.bytes
    BY <1>2, MouseAssumption DEF Packet
  <2>2. Contents' = Contents /\ Waiting' = Waiting
    BY <1>2, StreamKept DEF Packet, sbvars, ring
  <2>3. Waiting = <<>> /\ OnTheWay = Contents
    BY <1>1, <2>1, StreamAtRest, BytesJoin DEF OnTheWay
  <2>4. OnTheWay' = Contents \o (<<>> \o p.bytes)
    BY <2>1, <2>2, <2>3 DEF OnTheWay, Stream
  <2> QED BY <1>2, <2>1, <2>3, <2>4, BytesJoin DEF Comes
<1>3. CASE SendByte
  <2>1. wire # <<>> /\ Send(Head(wire)) /\ wire' = Tail(wire)
    BY <1>3 DEF SendByte
  <2>2. Contents' = Contents /\ Waiting' \o wire' = Waiting \o wire
    BY <1>1, <2>1, SendKeeps
  <2> QED BY <1>3, <2>2 DEF SendByte, Moves, OnTheWay, Stream
<1>4. CASE mouse_isr
  <2>1. Isr /\ wire' = wire
    BY <1>4 DEF mouse_isr
  <2>2. CASE IsFull
    BY <1>4, <2>2 DEF mouse_isr
  <2>3. CASE ~IsFull
    <3>1. OnTheWay' = OnTheWay
      BY <1>1, <2>1, <2>3, StoreKeeps DEF OnTheWay, Stream
    <3> QED BY <1>4, <3>1 DEF mouse_isr, Moves
  <2> QED BY <2>2, <2>3
<1>5. CASE UNCHANGED <<ring, output>> /\ UNCHANGED msvars
  <2>1. Contents' = Contents /\ OnTheWay' = OnTheWay
    BY <1>5, StreamKept DEF OnTheWay, Stream, msvars
  <2> QED BY <1>5, <2>1 DEF Moves, msvars
<1>6. CASE PollByte
  <2>1. Decode /\ wire' = wire /\ reader = "decode" /\ UNCHANGED <<seqbuf, seqbuf_end, output>>
    BY <1>6 DEF PollByte, Decode
  <2>2. OnTheWay # <<>> /\ Head(OnTheWay) = byte
    BY <1>1, <2>1, HeadOfStream DEF OnTheWay
  <2>3. Advance => OnTheWay' = Tail(OnTheWay)
    BY <1>1, <2>1, TakeShortens DEF OnTheWay, Stream
  <2>4. ASSUME Stay PROVE OnTheWay' = OnTheWay
    <3>1. UNCHANGED <<ring, output>>
      BY <2>1, <2>4 DEF Stay, ring
    <3> QED BY <2>1, <3>1, StreamKept DEF OnTheWay, Stream
  <2> QED BY <1>6, <2>2, <2>3, <2>4 DEF Takes
<1>7. CASE (FindByte \/ Mask \/ ReadByte \/ Unmask) /\ UNCHANGED msvars
  BY <1>5, <1>7 DEF FindByte, Mask, ReadByte, Unmask, ring
<1>8. CASE UNCHANGED vars
  BY <1>5, <1>8 DEF vars, sbvars, ring
<1> QED BY <1>2, <1>3, <1>4, <1>6, <1>7, <1>8 DEF MsNext, Foreground

-----------------------------------------------------------------------------
LEMMA InitInStep == Init => InStep
<1> SUFFICES ASSUME Init PROVE NoOverflow /\ Decoded(0) /\ 0 \in 0 .. Len(sent)
  BY DEF InStep
<1>1. Contents = <<>> /\ Waiting = <<>> /\ wire = <<>>
  BY InitIInv, ContentsIsSeq DEF Init, InitSeqBuf, IInv, IsEmpty, Waiting
<1>2. OnTheWay = <<>>
  BY <1>1 DEF OnTheWay, Stream
<1>3. sent = <<>> /\ moves = <<>> /\ Into = 0 /\ Half = 0 /\ Len(sent) = 0 /\ Len(moves) = 0
  BY DEF Init, Into, Half
<1>4. Ahead(sent, OnTheWay, 0, Into)
  BY <1>2, <1>3 DEF Ahead
<1>5. Told(sent, moves, 0, Half)
  BY <1>3 DEF Told
<1>6. Held(sent, 0)
  BY DEF Held
<1> QED BY <1>3, <1>4, <1>5, <1>6 DEF NoOverflow, Decoded

(* A byte taken in step is the next of its packet.                         *)
LEMMA TakesInStep ==
  ASSUME \A p \in Packets : WellFormed(p), MInv, NoOverflow, Takes,
         NEW n \in 0 .. Len(sent), Decoded(n)
  PROVE  \E m \in 0 .. Len(sent) : Decoded(m)'
<1> DEFINE p == sent[n + 1]
<1>1. /\ sent \in Seq(Packets) /\ OnTheWay \in Seq(Bytes) /\ OnTheWay # <<>> /\ Head(OnTheWay) = byte
      /\ Into \in 0 .. 2 /\ reader = "decode" /\ sent' = sent /\ IInv /\ moves \in Seq(Moved)
      /\ prev_button_state \subseteq ButtonSet
  BY StreamType DEF MInv, MouseType, WireType, Into, Takes, PollByte, Decode, OnTheWay
<1>2. /\ n + 1 \in 1 .. Len(sent) /\ byte = p.bytes[Into + 1]
      /\ Into < 2 => Ahead(sent, Tail(OnTheWay), n, Into + 1)
      /\ Into = 2 => Ahead(sent, Tail(OnTheWay), n + 1, 0)
  BY <1>1, AheadNext DEF Decoded
<1>3. WellFormed(p) /\ ~Bit(p.bytes[1], 64) /\ ~Bit(p.bytes[1], 128)
  BY <1>1, <1>2 DEF NoOverflow
<1>4. Told(sent, moves, n, Half)
  BY DEF Decoded
<1>5. /\ Into > 0 => byte0 = p.bytes[1] /\ prev_button_state = Pressed(byte0)
      /\ Held(sent, n)
  BY DEF Decoded
<1> HIDE DEF p
<1>6. CASE ButtonEvent
  <2>1. Into = 0 /\ Into' = 0 /\ Half' = Half /\ OnTheWay' = OnTheWay /\ moves' = moves
    BY <1>6 DEF ButtonEvent, Into, Half, Takes
  <2>2. Held(sent, n)'
    <3>1. PICK v \in Changed(byte) : unheard' = unheard \ {v}
      BY <1>6, ButtonChosen
    <3> QED BY <1>1, <1>5, <3>1 DEF Held
  <2>3. Decoded(n)'
    BY <1>1, <1>4, <2>1, <2>2 DEF Decoded
  <2> QED BY <2>3
<1>7. CASE FirstByte
  <2>1. Into = 0 /\ Into' = 1 /\ OnTheWay' = Tail(OnTheWay) /\ moves' = moves /\ byte0' = byte
        /\ prev_button_state' = prev_button_state /\ Changed(byte) = {} /\ unheard' = unheard
    BY <1>7 DEF FirstByte, Into, Takes
  <2>2. prev_button_state = Pressed(byte)
    BY <1>1, <2>1 DEF Changed, Pressed
  <2>3. Ahead(sent, OnTheWay', n, 1) /\ OnTheWay' # <<>>
    <3>1. Ahead(sent, OnTheWay', n, 1)
      BY <1>2, <2>1
    <3>2. Len(OnTheWay') # 0
      BY <1>1, <1>2, <3>1 DEF Ahead
    <3> QED BY <3>1, <3>2
  <2>4. Told(sent, moves', n, 0) /\ Half' = 0
    BY <1>4, <2>1 DEF Half
  <2>5. Decoded(n)'
    <3>1. Held(sent, n)'
      BY <1>1, <1>5, <2>1 DEF Held
    <3> QED BY <1>1, <1>2, <1>4, <2>1, <2>2, <2>3, <2>4, <3>1 DEF Decoded, p
  <2> QED BY <2>5
<1>8. ~RefuseByte
  BY <1>2, <1>3 DEF RefuseByte, IsFirst, WellFormed, Into
<1>9. ~Overflow
  BY <1>3, <1>5 DEF Overflow, Into
<1>10. CASE XMove
  <2>1. Into = 1 /\ Into' = 2 /\ Half = 0 /\ Half' = 1 /\ OnTheWay' = Tail(OnTheWay) /\ byte0' = byte0
        /\ prev_button_state' = prev_button_state /\ unheard' = unheard
        /\ moves' = Append(moves, <<"x", Distance(byte, 16)>>)
    BY <1>10 DEF XMove, Into, Half, Takes
  <2>2. XOf(p) \in Moved /\ moves' = Append(moves, XOf(p))
    <3>1. byte = p.bytes[2] /\ byte0 = p.bytes[1]
      BY <1>2, <1>5, <2>1
    <3>2. Distance(byte, 16) = p.dx
      BY <1>3, <3>1 DEF Distance, WellFormed
    <3>3. <<"x", Distance(byte, 16)>> \in Moved
      BY <1>1, DecodedByte
    <3> QED BY <2>1, <3>2, <3>3 DEF XOf
  <2>3. Told(sent, moves', n, 1)
    <3>1. Told(sent, moves, n, 0) /\ XOf(sent[n + 1]) \in Moved
      BY <1>4, <2>1, <2>2 DEF p
    <3>2. Told(sent, Append(moves, XOf(sent[n + 1])), n, 1)
      BY <1>1, <3>1, ToldFirst
    <3> QED BY <2>2, <3>2 DEF p
  <2>4. Ahead(sent, OnTheWay', n, 2) /\ OnTheWay' # <<>>
    <3>1. Ahead(sent, OnTheWay', n, 2)
      BY <1>2, <2>1
    <3>2. Len(OnTheWay') # 0
      BY <1>1, <1>2, <3>1 DEF Ahead
    <3> QED BY <3>1, <3>2
  <2>5. Decoded(n)'
    <3>1. Held(sent, n)'
      BY <1>1, <1>5, <2>1 DEF Held
    <3> QED BY <1>1, <1>5, <2>1, <2>3, <2>4, <3>1 DEF Decoded, p
  <2> QED BY <2>5
<1>11. CASE YMove
  <2>1. Into = 2 /\ Into' = 0 /\ Half = 1 /\ Half' = 0 /\ OnTheWay' = Tail(OnTheWay) /\ byte0' = byte0
        /\ prev_button_state' = prev_button_state /\ unheard' = unheard
        /\ moves' = Append(moves, <<"y", Distance(byte, 32)>>)
    BY <1>11 DEF YMove, Into, Half, Takes
  <2>2. YOf(p) \in Moved /\ moves' = Append(moves, YOf(p))
    <3>1. byte = p.bytes[3] /\ byte0 = p.bytes[1]
      BY <1>2, <1>5, <2>1
    <3>2. Distance(byte, 32) = p.dy
      BY <1>3, <3>1 DEF Distance, WellFormed
    <3>3. <<"y", Distance(byte, 32)>> \in Moved
      BY <1>1, DecodedByte
    <3> QED BY <2>1, <3>2, <3>3 DEF YOf
  <2>3. Told(sent, moves', n + 1, 0)
    <3>1. Told(sent, moves, n, 1) /\ YOf(sent[n + 1]) \in Moved
      BY <1>4, <2>1, <2>2 DEF p
    <3>2. Told(sent, Append(moves, YOf(sent[n + 1])), n + 1, 0)
      BY <1>1, <3>1, ToldSecond
    <3> QED BY <2>2, <3>2 DEF p
  <2>4. Ahead(sent, OnTheWay', n + 1, 0)
    BY <1>2, <2>1
  <2>5. Held(sent, n + 1)'
    <3> SUFFICES ASSUME NEW i \in 1 .. n + 1 PROVE unheard \subseteq Pressed(sent[i].bytes[1])
      BY <1>1, <2>1 DEF Held
    <3>1. CASE i \in 1 .. n
      BY <1>5, <3>1 DEF Held
    <3>2. CASE i = n + 1
      BY <1>5, <2>1, <3>2 DEF MInv, ButtonsAgree, p
    <3> QED BY <3>1, <3>2
  <2>6. Decoded(n + 1)'
    BY <1>1, <1>5, <2>1, <2>3, <2>4, <2>5 DEF Decoded, p
  <2> QED BY <1>2, <2>6
<1> QED BY <1>6, <1>7, <1>8, <1>9, <1>10, <1>11 DEF Takes, PollByte

LEMMA ComesInStep ==
  ASSUME \A p \in Packets : WellFormed(p), MInv, NoOverflow, ~lost', Comes,
         NEW n \in 0 .. Len(sent), Decoded(n)
  PROVE  NoOverflow' /\ \E m \in 0 .. Len(sent') : Decoded(m)'
<1>1. PICK p \in Packets : Packet(p) /\ OnTheWay' = OnTheWay \o p.bytes
  BY DEF Comes
<1>2. /\ sent \in Seq(Packets) /\ OnTheWay \in Seq(Bytes) /\ Into \in 0 .. 2 /\ p.bytes \in Seq(Bytes)
      /\ WellFormed(p) /\ Half \in {0, 1} /\ (Half = 1 => Into > 0) /\ Len(sent) \in Nat
  BY MouseAssumption, StreamType DEF MInv, MouseType, WireType, Into, Half, OnTheWay
<1>3. /\ sent' = Append(sent, p) /\ UNCHANGED <<seq_state, byte0, prev_button_state, moves, unheard>>
      /\ ~Bit(p.bytes[1], 64) /\ ~Bit(p.bytes[1], 128)
  BY <1>1 DEF Packet
<1>4. /\ Len(sent') = Len(sent) + 1 /\ sent'[Len(sent) + 1] = p
      /\ \A i \in 1 .. Len(sent) : sent'[i] = sent[i]
  BY <1>2, <1>3
<1>5. NoOverflow'
  <2> SUFFICES ASSUME NEW i \in 1 .. Len(sent')
               PROVE  ~Bit(sent'[i].bytes[1], 64) /\ ~Bit(sent'[i].bytes[1], 128)
    BY DEF NoOverflow
  <2>1. CASE i = Len(sent) + 1
    BY <1>3, <1>4, <2>1
  <2>2. CASE i \in 1 .. Len(sent)
    BY <1>4, <2>2 DEF NoOverflow
  <2>3. i = Len(sent) + 1 \/ i \in 1 .. Len(sent)
    BY <1>2, <1>4
  <2> QED BY <2>1, <2>2, <2>3
<1>6. Ahead(sent', OnTheWay', n, Into)
  BY <1>1, <1>2, <1>3, AheadMore DEF Decoded, WellFormed
<1>7. Into > 0 => n + 1 \in 1 .. Len(sent)
  <2>1. Len(OnTheWay) = 3 * (Len(sent) - n) - Into /\ Len(OnTheWay) \in Nat
    BY <1>2 DEF Decoded, Ahead
  <2> QED BY <1>2, <2>1
<1>8. Told(sent', moves', n, Half)
  <2>1. Half = 1 => n < Len(sent)
    BY <1>2, <1>7
  <2> QED BY <1>2, <1>3, <2>1, ToldMore DEF Decoded
<1>9. OnTheWay' # <<>>
  <2>1. Len(OnTheWay') # 0
    BY <1>2, <1>4, <1>6 DEF Ahead
  <2> QED BY <2>1
<1>10. Into' = Into /\ Half' = Half
  BY <1>3 DEF Into, Half
<1>11. Decoded(n)'
  <2>1. Into > 0 => byte0 = sent'[n + 1].bytes[1] /\ prev_button_state = Pressed(byte0)
    BY <1>4, <1>7 DEF Decoded
  <2>2. Held(sent, n)' /\ Held(sent, n)
    BY <1>2, <1>3, <1>4 DEF Decoded, Held
  <2> QED BY <1>3, <1>6, <1>8, <1>9, <1>10, <2>1, <2>2 DEF Decoded
<1> QED BY <1>2, <1>4, <1>5, <1>11

LEMMA NextInStep ==
  ASSUME \A p \in Packets : WellFormed(p), MInv, MInv', InStep, [MsNext]_vars
  PROVE  InStep'
<1> SUFFICES ASSUME ~lost' PROVE NoOverflow' /\ \E m \in 0 .. Len(sent') : Decoded(m)'
  BY DEF InStep
<1>1. ASSUME ~lost PROVE NoOverflow /\ \E n \in 0 .. Len(sent) : Decoded(n)
  BY <1>1 DEF InStep
<1>2. CASE Comes
  <2>1. ~lost
    BY <1>2 DEF Comes, Packet
  <2>2. PICK n \in 0 .. Len(sent) : Decoded(n)
    BY <1>1, <2>1
  <2> QED BY <1>1, <1>2, <2>1, <2>2, ComesInStep
<1>3. CASE Moves
  <2>1. PICK n \in 0 .. Len(sent) : Decoded(n)
    BY <1>1, <1>3 DEF Moves
  <2>2. Into' = Into /\ Half' = Half
    BY <1>3 DEF Moves, Into, Half
  <2>3. Decoded(n)' /\ NoOverflow' /\ n \in 0 .. Len(sent')
    BY <1>1, <1>3, <2>1, <2>2 DEF Moves, Decoded, NoOverflow, Held
  <2> QED BY <2>3
<1>4. CASE Takes
  <2>1. ~lost /\ sent' = sent
    BY <1>4 DEF Takes, PollByte
  <2>2. PICK n \in 0 .. Len(sent) : Decoded(n)
    BY <1>1, <2>1
  <2>3. \E m \in 0 .. Len(sent) : Decoded(m)'
    BY <1>1, <1>4, <2>1, <2>2, TakesInStep
  <2> QED BY <1>1, <2>1, <2>3 DEF NoOverflow
<1> QED BY <1>2, <1>3, <1>4, StepOfStream DEF MInv

LEMMA InStepReports ==
  ASSUME \A p \in Packets : WellFormed(p), MInv, InStep
  PROVE  PacketsAreReported
<1> SUFFICES ASSUME ~lost
             PROVE  /\ \E n \in 0 .. Len(Movements) : moves = SubSeq(Movements, 1, n)
                    /\ Quiet => moves = Movements
                    /\ Quiet /\ sent # <<>> =>
                         /\ down \subseteq sent[Len(sent)].buttons
                         /\ \A v \in sent[Len(sent)].buttons \ down :
                              \A k \in 1 .. Len(sent) : v \in sent[k].buttons
  BY DEF PacketsAreReported
<1>1. PICK n \in 0 .. Len(sent) : Decoded(n)
  BY DEF InStep
<1>2. /\ sent \in Seq(Packets) /\ moves \in Seq(Moved) /\ Len(sent) \in Nat
      /\ OnTheWay \in Seq(Bytes) /\ Into \in 0 .. 2 /\ Half \in {0, 1} /\ (Half = 1 => Into > 0)
  BY StreamType DEF MInv, MouseType, WireType, Into, Half, OnTheWay
<1>3. /\ Len(moves) = 2 * n + Half
      /\ Len(OnTheWay) = 3 * (Len(sent) - n) - Into /\ Len(OnTheWay) \in Nat
  BY <1>1, <1>2 DEF Decoded, Told, Ahead
<1>4. Len(moves) \in 0 .. 2 * Len(sent)
  BY <1>2, <1>3
<1>5. ASSUME NEW k \in 1 .. Len(moves) PROVE moves[k] = Movements[k]
  <2>1. k \in 1 .. 2 * Len(sent)
    BY <1>2, <1>4
  <2>2. Movements[k] = IF k % 2 = 1 THEN XOf(sent[(k + 1) \div 2]) ELSE YOf(sent[k \div 2])
    BY <2>1 DEF Movements, XOf, YOf
  <2>3. CASE k % 2 = 1
    <3>1. PICK i \in 1 .. n + 1 : k = 2 * i - 1 /\ i = (k + 1) \div 2
      BY <1>2, <1>3, <2>3
    <3>2. CASE i \in 1 .. n
      BY <1>1, <2>2, <2>3, <3>1, <3>2 DEF Decoded, Told
    <3>3. CASE i = n + 1
      <4>1. Half = 1 /\ k = 2 * n + 1
        BY <1>2, <1>3, <3>1, <3>3
      <4> QED BY <1>1, <2>2, <2>3, <3>1, <3>3, <4>1 DEF Decoded, Told
    <3>4. i \in 1 .. n \/ i = n + 1
      BY <3>1
    <3> QED BY <3>2, <3>3, <3>4
  <2>4. CASE k % 2 # 1
    <3>1. PICK i \in 1 .. n : k = 2 * i /\ i = k \div 2
      BY <1>2, <1>3, <2>4
    <3> QED BY <1>1, <2>2, <2>4, <3>1 DEF Decoded, Told
  <2> QED BY <2>3, <2>4
<1>6. /\ Len(Movements) = 2 * Len(sent)
      /\ DOMAIN Movements = 1 .. 2 * Len(sent)
      /\ Movements = [k \in 1 .. 2 * Len(sent) |-> Movements[k]]
  BY <1>2 DEF Movements
<1>7. moves = [k \in 1 .. Len(moves) |-> moves[k]]
  BY <1>2
<1>8. moves = SubSeq(Movements, 1, Len(moves))
  <2>1. SubSeq(Movements, 1, Len(moves)) = [k \in 1 .. Len(moves) |-> Movements[k]]
    BY <1>4
  <2> QED BY <1>5, <1>7, <2>1, Zenon
<1>9. ASSUME Quiet PROVE moves = Movements /\ n = Len(sent) /\ OnTheWay = <<>>
  <2>1. OnTheWay = <<>>
    BY <1>9, ContentsIsSeq DEF MInv, IInv, Quiet, Waiting, OnTheWay, Stream
  <2>2. n = Len(sent) /\ Half = 0 /\ Len(moves) = 2 * Len(sent)
    BY <1>2, <1>3, <2>1
  <2>3. moves = Movements
    BY <1>5, <1>6, <1>7, <2>2, Zenon
  <2> QED BY <2>1, <2>2, <2>3
<1>10. ASSUME NEW k \in 1 .. Len(sent) PROVE sent[k].buttons = Pressed(sent[k].bytes[1])
  BY <1>2 DEF WellFormed
<1>11. ASSUME Quiet, sent # <<>>
       PROVE  /\ sent[Len(sent)].buttons = down \cup unheard
              /\ \A k \in 1 .. Len(sent) : unheard \subseteq sent[k].buttons
  <2>1. n > 0 /\ n \in 1 .. Len(sent) /\ n = Len(sent) /\ OnTheWay = <<>>
    BY <1>2, <1>9, <1>11
  <2>2. prev_button_state = Pressed(sent[n].bytes[1]) /\ Held(sent, n)
    BY <1>1, <2>1 DEF Decoded
  <2> QED BY <1>10, <2>1, <2>2 DEF Held, MInv, ButtonsAgree
<1> QED BY <1>4, <1>6, <1>8, <1>9, <1>11

(* As long as no byte is lost and no packet overflows, poll_event reports   *)
(* the movements of the packets in order, none twice, and once it has       *)
(* caught up all of them; the buttons reported down are then down in the    *)
(* last packet, and one that is down there unreported has been down in      *)
(* every packet: for any packets a mouse can send, wherever the interrupts  *)
(* fall and whatever prev_button_state was when the driver started.         *)
THEOREM PacketsCorrect ==
  ASSUME \A p \in Packets : WellFormed(p)
  PROVE  MsSpec => []PacketsAreReported
<1>1. Init => InStep
  BY InitInStep
<1>2. MInv /\ MInv' /\ InStep /\ [MsNext]_vars => InStep'
  BY NextInStep
<1>3. MInv /\ InStep => PacketsAreReported
  BY InStepReports
<1> QED BY <1>1, <1>2, <1>3, MInvInvariant, PTL DEF MsSpec
=============================================================================
