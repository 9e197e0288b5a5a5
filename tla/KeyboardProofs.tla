--------------------------- MODULE KeyboardProofs ---------------------------
(***************************************************************************)
(* The keyboard driver uses its ring as SeqBuf says, so what is proved of  *)
(* the ring holds of the driver, whatever strokes are made, in either scan *)
(* code set and for a ring of any size.                                    *)
(*                                                                         *)
(* What the decoder makes of the bytes that are on their way is a relation *)
(* between states and events, Leads, that can be cut and joined where the  *)
(* byte stream is: the bytes still to decode lead from the state of the    *)
(* decoder to its initial state, and yield the events not yet reported.    *)
(***************************************************************************)
EXTENDS Keyboard, SeqBufProofs

WireType == wire \in Seq(Bytes) /\ scancode_set \in DOMAIN Strokes

LEMMA WireTypeInvariant == KbSpec => []WireType
<1>1. Init => WireType
  BY DEF Init, WireType
<1>2. WireType /\ [KbNext]_vars => WireType'
  <2> SUFFICES ASSUME WireType, [KbNext]_vars PROVE WireType'
    OBVIOUS
  <2> USE DEF WireType
  <2>1. ASSUME NEW s, Stroke(s) PROVE WireType'
    BY <2>1, KeyboardAssumption DEF Stroke
  <2>2. CASE SendByte
    BY <2>2 DEF SendByte
  <2>3. CASE UNCHANGED <<wire, scancode_set>>
    BY <2>3
  <2> QED BY <2>1, <2>2, <2>3
       DEF KbNext, keyboard_isr, Foreground, Look, MaskIt, TranslateByte, kbvars, vars
<1> QED BY <1>1, <1>2, PTL DEF KbSpec

LEMMA StepOfRing == WireType /\ [KbNext]_vars => [Next]_sbvars
<1> SUFFICES ASSUME WireType, [KbNext]_vars PROVE Next \/ UNCHANGED sbvars
  OBVIOUS
<1>1. ASSUME NEW s, Stroke(s) PROVE UNCHANGED sbvars
  BY <1>1 DEF Stroke
<1>2. CASE SendByte
  <2>1. Head(wire) \in Bytes /\ Send(Head(wire))
    BY <1>2 DEF SendByte, WireType
  <2> QED BY <2>1 DEF Next
<1>3. CASE keyboard_isr
  BY <1>3 DEF keyboard_isr, Next
<1>4. CASE Foreground
  BY <1>4 DEF Foreground, Look, MaskIt, TranslateByte, Next, Poll
<1>5. CASE UNCHANGED vars
  BY <1>5 DEF vars
<1> QED BY <1>1, <1>2, <1>3, <1>4, <1>5 DEF KbNext

(* The driver is one use of the ring, so the ring's theorems are its own.  *)
THEOREM KeyboardUsesRing == KbSpec => Spec
<1>1. Init => InitSeqBuf
  BY DEF Init
<1> QED BY <1>1, StepOfRing, WireTypeInvariant, PTL DEF KbSpec, Spec

(* poll_event of the keyboard reads bytes its interrupt handler stored.    *)
THEOREM KeyboardReadsCorrect == KbSpec => []OnlyWrittenIsRead
BY KeyboardUsesRing, ReadsCorrect, PTL

(* The bytes of the keyboard pass through a bounded queue.                 *)
THEOREM KeyboardQueue == KbSpec => QueueSpec
BY KeyboardUsesRing, RingIsQueue, PTL

-----------------------------------------------------------------------------
(* The states of each decoder, and the events poll_event may return.       *)
States(set) ==
  IF set = 1 THEN {"SS_DEFAULT", "SS_EXTENDED"} \cup DOMAIN Pause1 \cup DOMAIN CtrlPause1
  ELSE {"SS_DEFAULT", "SS_EXTENDED", "SS_BREAK", "SS_BREAK_EXTENDED"}
         \cup DOMAIN Pause2 \cup DOMAIN CtrlPause2

Keys == {<<"KEY_NONE">>, <<"KEY_PAUSE">>}
          \cup ({"plain", "ext", "past the table"} \X Bytes)
Report   == [key : Keys, break : BOOLEAN]
Reported == Seq(Report)

Step(set, state, b)   == Translate(set, state, b).state
Events(set, state, b) == Translate(set, state, b).events

LEMMA ReportedJoin ==
  ASSUME NEW c \in Reported, NEW d \in Reported, NEW e \in Reported
  PROVE  /\ <<>> \in Reported /\ c \o d \in Reported
         /\ <<>> \o d = d /\ d \o <<>> = d
         /\ (c \o d) \o e = c \o (d \o e)
BY ConcatProperties, ConcatEmptySeq, ConcatAssociative DEF Reported

LEMMA ReportedAssociate ==
  ASSUME NEW c \in Reported, NEW d \in Reported, NEW e \in Reported
  PROVE  (c \o d) \o e = c \o (d \o e)
BY ConcatAssociative DEF Reported

LEMMA TranslateType ==
  ASSUME NEW set \in {1, 2}, NEW state \in States(set), NEW b \in Bytes
  PROVE  Step(set, state, b) \in States(set) /\ Events(set, state, b) \in Reported
<1> DEFINE Goal(g) == g.state \in States(set) /\ g.events \in Reported
<1>1. ASSUME NEW k \in Report PROVE <<k>> \in Reported
  BY <1>1 DEF Reported
<1>2. NoKey \in Report /\ Pause \in Report /\ PauseUp \in Report
  BY DEF NoKey, Pause, PauseUp, Report, Keys
<1>3. ASSUME NEW table \in {"plain", "ext"}, NEW entries
      PROVE  Lookup(table, entries, b, state) \in Reported
  <2>1. <<table, b>> \in Keys /\ <<"past the table", b>> \in Keys
    BY <1>3 DEF Keys
  <2>2. (IF b < entries THEN <<table, b>> ELSE <<"past the table", b>>) \in Keys
    BY <2>1
  <2>3. (state \in {"SS_BREAK", "SS_BREAK_EXTENDED"}) \in BOOLEAN
    OBVIOUS
  <2>4. [key |-> IF b < entries THEN <<table, b>> ELSE <<"past the table", b>>,
         break |-> state \in {"SS_BREAK", "SS_BREAK_EXTENDED"}] \in Report
    BY <2>2, <2>3, Zenon DEF Report
  <2> QED BY <1>1, <2>4 DEF Lookup
<1>4. /\ Silent \in Reported
      /\ Lookup("plain", 128, b, state) \in Reported
      /\ Lookup("plain", 132, b, state) \in Reported
      /\ Lookup("ext", 128, b, state) \in Reported
  BY <1>3 DEF Silent, Reported
<1>5. <<NoKey>> \in Reported /\ <<Pause>> \in Reported /\ <<PauseUp>> \in Reported
  BY <1>1, <1>2
<1> HIDE DEF Goal
<1>6. ASSUME NEW q \in States(set), NEW events \in Reported PROVE Goal(Goes(q, events))
  BY DEF Goal, Goes
<1>7. ASSUME NEW sequence, NEW last, NEW otherwise \in Reported, NEW key,
             <<key>> \in Reported,
             state = last \/ NextState[state] \in States(set)
      PROVE  Goal(Follow(sequence, last, state, b, otherwise, key))
  <2>1. "SS_DEFAULT" \in States(set)
    BY DEF States
  <2> QED BY <1>6, <1>7, <2>1 DEF Follow
<1>8. CASE set = 1
  <2> DEFINE tr == translate_scancode_set1(state, b)
  <2>0. SUFFICES Goal(tr)
    BY <1>8 DEF Goal, Step, Events, Translate
  <2>1. CASE b \in {EXT, PAUSE}
    <3>1. "SS_EXTENDED" \in States(set) /\ "SS_PAUSE_1" \in States(set)
      BY <1>8 DEF States, Pause1
    <3>2. tr = Goes("SS_EXTENDED", <<NoKey>>) \/ tr = Goes("SS_PAUSE_1", <<NoKey>>)
      BY <2>1 DEF translate_scancode_set1, EXT, PAUSE
    <3> QED BY <1>5, <1>6, <3>1, <3>2
  <2>2. CASE b \notin {EXT, PAUSE}
    <3>1. CASE state \in {"SS_DEFAULT", "SS_EXTENDED"}
      <4>1. "SS_DEFAULT" \in States(set) /\ "SS_CTRLPAUSE_1" \in States(set)
        BY <1>8 DEF States, CtrlPause1
      <4>2. \E q \in States(set), events \in Reported : tr = Goes(q, events)
        BY <1>4, <1>5, <2>2, <3>1, <4>1 DEF translate_scancode_set1, Pause1, CtrlPause1
      <4> QED BY <1>6, <4>2
    <3>2. CASE state \in DOMAIN Pause1
      <4>1. tr = Follow(Pause1, "SS_PAUSE_5", state, b, <<NoKey>>, Pause)
        BY <2>2, <3>2 DEF translate_scancode_set1, Pause1, CtrlPause1
      <4>2. state = "SS_PAUSE_5" \/ NextState[state] \in States(set)
        BY <1>8, <3>2 DEF NextState, States, Pause1
      <4> QED BY <1>5, <1>7, <4>1, <4>2
    <3>3. CASE state \in DOMAIN CtrlPause1
      <4>1. tr = Follow(CtrlPause1, "SS_CTRLPAUSE_2", state, b, <<NoKey>>, PauseUp)
        BY <2>2, <3>3 DEF translate_scancode_set1, Pause1, CtrlPause1
      <4>2. state = "SS_CTRLPAUSE_2" \/ NextState[state] \in States(set)
        BY <1>8, <3>3 DEF NextState, States, CtrlPause1
      <4> QED BY <1>5, <1>7, <4>1, <4>2
    <3> QED BY <1>8, <3>1, <3>2, <3>3 DEF States
  <2> QED BY <2>1, <2>2
<1>9. CASE set = 2
  <2> DEFINE tr == translate_scancode_set2(state, b)
  <2>0. SUFFICES Goal(tr)
    BY <1>9 DEF Goal, Step, Events, Translate
  <2>1. CASE b \in {BREAK, EXT, PAUSE}
    <3>1. /\ AfterBreak(state) \in States(set)
          /\ "SS_EXTENDED" \in States(set) /\ "SS_PAUSE_1" \in States(set)
      BY <1>9 DEF States, Pause2, AfterBreak
    <3>2. \/ tr = Goes(AfterBreak(state), Silent)
          \/ tr = Goes("SS_EXTENDED", Silent) \/ tr = Goes("SS_PAUSE_1", Silent)
      BY <2>1 DEF translate_scancode_set2, BREAK, EXT, PAUSE
    <3> QED BY <1>4, <1>6, <3>1, <3>2
  <2>2. CASE b \notin {BREAK, EXT, PAUSE}
    <3>1. CASE state \in {"SS_DEFAULT", "SS_BREAK", "SS_EXTENDED", "SS_BREAK_EXTENDED"}
      <4>1. "SS_DEFAULT" \in States(set)
        BY DEF States
      <4>2. \E events \in Reported : tr = Goes("SS_DEFAULT", events)
        BY <1>4, <2>2, <3>1 DEF translate_scancode_set2, AfterKey, Pause2, CtrlPause2
      <4> QED BY <1>6, <4>1, <4>2
    <3>2. CASE state \in DOMAIN Pause2
      <4>1. tr = Follow(Pause2, "SS_PAUSE_7", state, b, Silent, Pause)
        BY <2>2, <3>2 DEF translate_scancode_set2, Pause2, CtrlPause2
      <4>2. state = "SS_PAUSE_7" \/ NextState[state] \in States(set)
        BY <1>9, <3>2 DEF NextState, States, Pause2
      <4> QED BY <1>4, <1>5, <1>7, <4>1, <4>2
    <3>3. CASE state \in DOMAIN CtrlPause2
      <4>1. tr = Follow(CtrlPause2, "SS_CTRLPAUSE_3", state, b, Silent, PauseUp)
        BY <2>2, <3>3 DEF translate_scancode_set2, Pause2, CtrlPause2
      <4>2. state = "SS_CTRLPAUSE_3" \/ NextState[state] \in States(set)
        BY <1>9, <3>3 DEF NextState, States, CtrlPause2
      <4> QED BY <1>4, <1>5, <1>7, <4>1, <4>2
    <3> QED BY <1>9, <3>1, <3>2, <3>3 DEF States
  <2> QED BY <2>1, <2>2
<1> QED BY <1>8, <1>9

-----------------------------------------------------------------------------
(* From state s, the bytes lead to state f and yield the events e: path     *)
(* and rest give, after each byte, the state and the events still to come. *)
IsRun(set, bytes, path, rest) ==
  \A k \in 1 .. Len(bytes) :
     /\ path[k] = Step(set, path[k - 1], bytes[k])
     /\ rest[k - 1] = Events(set, path[k - 1], bytes[k]) \o rest[k]

Paths(set, n) == [0 .. n -> States(set)]
Rests(n)      == [0 .. n -> Reported]

Leads(set, s, bytes, f, e) ==
  \E path \in Paths(set, Len(bytes)), rest \in Rests(Len(bytes)) :
     /\ path[0] = s /\ rest[0] = e
     /\ path[Len(bytes)] = f /\ rest[Len(bytes)] = <<>>
     /\ IsRun(set, bytes, path, rest)

(* No bytes lead nowhere.                                                  *)
LEMMA LeadsNowhere ==
  ASSUME NEW set, NEW s \in States(set), NEW f, NEW e
  PROVE  Leads(set, s, <<>>, f, e) <=> s = f /\ e = <<>>
<1>1. Len(<<>>) = 0
  OBVIOUS
<1>2. ASSUME s = f, e = <<>> PROVE Leads(set, s, <<>>, f, e)
  <2> DEFINE path == [k \in 0 .. 0 |-> s]
             rest == [k \in 0 .. 0 |-> <<>>]
  <2>1. path \in [0 .. Len(<<>>) -> States(set)] /\ rest \in [0 .. Len(<<>>) -> Reported]
    BY <1>1 DEF Reported
  <2>2. IsRun(set, <<>>, path, rest)
    BY <1>1 DEF IsRun
  <2> QED BY <1>1, <1>2, <2>1, <2>2 DEF Leads, Paths, Rests
<1> QED BY <1>1, <1>2 DEF Leads, Paths, Rests

(* A byte goes in front of a run.                                          *)
LEMMA LeadsWithFirst ==
  ASSUME NEW set \in {1, 2}, NEW s \in States(set), NEW b \in Bytes,
         NEW bytes \in Seq(Bytes), NEW f, NEW e,
         Leads(set, Step(set, s, b), bytes, f, e)
  PROVE  Leads(set, s, <<b>> \o bytes, f, Events(set, s, b) \o e)
<1> DEFINE n   == Len(bytes)
           all == <<b>> \o bytes
<1>1. PICK path \in [0 .. n -> States(set)], rest \in [0 .. n -> Reported] :
        /\ path[0] = Step(set, s, b) /\ rest[0] = e
        /\ path[n] = f /\ rest[n] = <<>>
        /\ IsRun(set, bytes, path, rest)
  BY DEF Leads, Paths, Rests
<1>2. n \in Nat /\ Len(all) = n + 1 /\ all[1] = b /\ \A k \in 1 .. n : all[k + 1] = bytes[k]
  OBVIOUS
<1>3. Events(set, s, b) \in Reported /\ e \in Reported
  <2>1. rest[0] \in Reported
    BY <1>1, <1>2
  <2>2. Events(set, s, b) \in Reported
    BY TranslateType
  <2> QED BY <1>1, <2>1, <2>2
<1> DEFINE lpath == [k \in 0 .. n + 1 |-> IF k = 0 THEN s ELSE path[k - 1]]
           lrest == [k \in 0 .. n + 1 |-> IF k = 0 THEN Events(set, s, b) \o e ELSE rest[k - 1]]
<1>4. lpath \in [0 .. Len(all) -> States(set)] /\ lrest \in [0 .. Len(all) -> Reported]
  BY <1>2, <1>3, SMTT(20)
<1>5. IsRun(set, all, lpath, lrest)
  <2> SUFFICES ASSUME NEW k \in 1 .. n + 1
               PROVE  /\ lpath[k] = Step(set, lpath[k - 1], all[k])
                      /\ lrest[k - 1] = Events(set, lpath[k - 1], all[k]) \o lrest[k]
    BY <1>2 DEF IsRun
  <2>1. CASE k = 1
    <3>1. lpath[1] = path[0] /\ lpath[0] = s /\ lrest[0] = Events(set, s, b) \o e /\ lrest[1] = rest[0]
      BY <1>2
    <3>2. k - 1 = 0
      BY <2>1
    <3> HIDE DEF lpath, lrest, all
    <3> QED BY <1>1, <1>2, <2>1, <3>1, <3>2
  <2>2. CASE k # 1
    <3>1. k - 1 \in 1 .. n /\ (k - 1) + 1 = k
      BY <1>2, <2>2
    <3>2. lpath[k] = path[k - 1] /\ lpath[k - 1] = path[k - 1 - 1]
          /\ lrest[k] = rest[k - 1] /\ lrest[k - 1] = rest[k - 1 - 1] /\ all[k] = bytes[k - 1]
      BY <1>2, <2>2, <3>1
    <3> QED BY <1>1, <3>1, <3>2 DEF IsRun
  <2> QED BY <2>1, <2>2
<1>6. lpath[0] = s /\ lrest[0] = Events(set, s, b) \o e /\ lpath[n + 1] = f /\ lrest[n + 1] = <<>>
  BY <1>1, <1>2
<1> HIDE DEF lpath, lrest, all
<1> QED BY <1>2, <1>4, <1>5, <1>6 DEF Leads, Paths, Rests, all

(* A run ends in a state of the decoder, and yields events of it.          *)
LEMMA LeadsType ==
  ASSUME NEW set, NEW s, NEW bytes \in Seq(Bytes), NEW f, NEW e, Leads(set, s, bytes, f, e)
  PROVE  s \in States(set) /\ f \in States(set) /\ e \in Reported
<1>1. Len(bytes) \in Nat
  OBVIOUS
<1> QED BY <1>1 DEF Leads, Paths, Rests

(* The first byte of a run is taken: what it yields comes first.           *)
LEMMA LeadsAfterFirst ==
  ASSUME NEW set \in {1, 2}, NEW s, NEW bytes \in Seq(Bytes), bytes # <<>>, NEW f, NEW e,
         Leads(set, s, bytes, f, e)
  PROVE  \E d : /\ e = Events(set, s, Head(bytes)) \o d
               /\ Leads(set, Step(set, s, Head(bytes)), Tail(bytes), f, d)
<1> DEFINE n == Len(bytes)
           t == Tail(bytes)
<1>1. PICK path \in [0 .. n -> States(set)], rest \in [0 .. n -> Reported] :
        /\ path[0] = s /\ rest[0] = e
        /\ path[n] = f /\ rest[n] = <<>>
        /\ IsRun(set, bytes, path, rest)
  BY DEF Leads, Paths, Rests
<1>2. n \in Nat /\ n > 0 /\ Head(bytes) = bytes[1] /\ t \in Seq(Bytes) /\ Len(t) = n - 1
      /\ \A k \in 1 .. n - 1 : t[k] = bytes[k + 1]
  BY HeadTailProperties, EmptySeq
<1> DEFINE tpath == [k \in 0 .. n - 1 |-> path[k + 1]]
           trest == [k \in 0 .. n - 1 |-> rest[k + 1]]
<1>3. tpath \in [0 .. n - 1 -> States(set)] /\ trest \in [0 .. n - 1 -> Reported]
  BY <1>2
<1>4. IsRun(set, t, tpath, trest)
  <2> SUFFICES ASSUME NEW k \in 1 .. n - 1
               PROVE  /\ tpath[k] = Step(set, tpath[k - 1], t[k])
                      /\ trest[k - 1] = Events(set, tpath[k - 1], t[k]) \o trest[k]
    BY <1>2 DEF IsRun
  <2>1. k + 1 \in 1 .. n /\ (k + 1) - 1 = k /\ (k - 1) + 1 = k
    BY <1>2
  <2>2. tpath[k] = path[k + 1] /\ tpath[k - 1] = path[k]
        /\ trest[k] = rest[k + 1] /\ trest[k - 1] = rest[k] /\ t[k] = bytes[k + 1]
    BY <1>2, <2>1
  <2> HIDE DEF tpath, trest, t
  <2> QED BY <1>1, <2>1, <2>2 DEF IsRun
<1>5. tpath[0] = path[1] /\ trest[0] = rest[1] /\ tpath[n - 1] = f /\ trest[n - 1] = <<>>
  BY <1>1, <1>2
<1>6. path[1] = Step(set, s, Head(bytes)) /\ e = Events(set, s, Head(bytes)) \o rest[1]
  <2>1. 1 \in 1 .. n /\ 1 - 1 = 0
    BY <1>2
  <2> QED BY <1>1, <1>2, <2>1 DEF IsRun
<1> HIDE DEF tpath, trest, t
<1>7. Leads(set, Step(set, s, Head(bytes)), t, f, rest[1])
  BY <1>2, <1>3, <1>4, <1>5, <1>6 DEF Leads, Paths, Rests
<1> QED BY <1>6, <1>7 DEF t

(* One function continues where another ends.                              *)
Joined(n, m, g, h) == [k \in 0 .. n + m |-> IF k <= n THEN g[k] ELSE h[k - n]]

Continues(j, n, g, m, h) ==
  (\A k \in 0 .. n : j[k] = g[k]) /\ (\A k \in 0 .. m : j[n + k] = h[k])

LEMMA JoinedContinues ==
  ASSUME NEW n \in Nat, NEW m \in Nat, NEW g, NEW h, g[n] = h[0]
  PROVE  Continues(Joined(n, m, g, h), n, g, m, h)
<1>1. \A k \in 0 .. n : Joined(n, m, g, h)[k] = g[k]
  BY DEF Joined
<1>2. ASSUME NEW k \in 0 .. m PROVE Joined(n, m, g, h)[n + k] = h[k]
  <2>1. n + k \in 0 .. n + m /\ (n + k) - n = k /\ (n + k <= n <=> k = 0)
    OBVIOUS
  <2>2. Joined(n, m, g, h)[n + k] = IF n + k <= n THEN g[n + k] ELSE h[(n + k) - n]
    BY <2>1 DEF Joined
  <2> QED BY <2>1, <2>2
<1> QED BY <1>1, <1>2 DEF Continues

LEMMA PathsJoin ==
  ASSUME NEW set, NEW n \in Nat, NEW m \in Nat,
         NEW g \in Paths(set, n), NEW h \in Paths(set, m), g[n] = h[0]
  PROVE  \E j \in Paths(set, n + m) : Continues(j, n, g, m, h)
<1> USE DEF Paths
<1>1. ASSUME NEW k \in 0 .. n + m PROVE (IF k <= n THEN g[k] ELSE h[k - n]) \in States(set)
  <2>1. CASE k <= n
    BY <2>1
  <2>2. CASE ~(k <= n)
    <3>1. k - n \in 0 .. m
      BY <2>2
    <3> QED BY <2>2, <3>1
  <2> QED BY <2>1, <2>2
<1>2. Joined(n, m, g, h) \in Paths(set, n + m)
  BY <1>1 DEF Joined
<1> QED BY <1>2, JoinedContinues

LEMMA RestsJoin ==
  ASSUME NEW n \in Nat, NEW m \in Nat,
         NEW g \in Rests(n), NEW h \in Rests(m), g[n] = h[0]
  PROVE  \E j \in Rests(n + m) : Continues(j, n, g, m, h)
<1> USE DEF Rests
<1>1. ASSUME NEW k \in 0 .. n + m PROVE (IF k <= n THEN g[k] ELSE h[k - n]) \in Reported
  <2>1. CASE k <= n
    BY <2>1
  <2>2. CASE ~(k <= n)
    <3>1. k - n \in 0 .. m
      BY <2>2
    <3> QED BY <2>2, <3>1
  <2> QED BY <2>1, <2>2
<1>2. Joined(n, m, g, h) \in Rests(n + m)
  BY <1>1 DEF Joined
<1> QED BY <1>2, JoinedContinues

(* Two runs join.                                                          *)
LEMMA LeadsJoin ==
  ASSUME NEW set \in {1, 2}, NEW s, NEW B1 \in Seq(Bytes), NEW f, NEW e, Leads(set, s, B1, f, e),
         NEW B2 \in Seq(Bytes), NEW g, NEW d, Leads(set, f, B2, g, d)
  PROVE  Leads(set, s, B1 \o B2, g, e \o d)
<1>1. PICK n \in Nat : n = Len(B1)
  OBVIOUS
<1>2. PICK m \in Nat : m = Len(B2)
  OBVIOUS
<1>3. PICK path1, rest1 :
        /\ path1 \in Paths(set, n) /\ rest1 \in Rests(n)
        /\ path1[0] = s /\ rest1[0] = e
        /\ path1[n] = f /\ rest1[n] = <<>>
        /\ IsRun(set, B1, path1, rest1)
  BY <1>1 DEF Leads
<1>4. PICK path2, rest2 :
        /\ path2 \in Paths(set, m) /\ rest2 \in Rests(m)
        /\ path2[0] = f /\ rest2[0] = d
        /\ path2[m] = g /\ rest2[m] = <<>>
        /\ IsRun(set, B2, path2, rest2)
  BY <1>2 DEF Leads
<1>5. /\ Len(B1 \o B2) = n + m
      /\ \A k \in 1 .. n : (B1 \o B2)[k] = B1[k]
      /\ \A k \in 1 .. m : (B1 \o B2)[n + k] = B2[k]
  BY <1>1, <1>2
<1>6. d \in Reported /\ e \in Reported
  BY LeadsType
<1>7. PICK long1 : long1 \in Rests(n) /\ \A k \in 0 .. n : long1[k] = rest1[k] \o d
  <2> DEFINE long1 == [k \in 0 .. n |-> rest1[k] \o d]
  <2>1. \A k \in 0 .. n : rest1[k] \in Reported
    BY <1>3 DEF Rests
  <2>2. \A k \in 0 .. n : rest1[k] \o d \in Reported
    BY <1>6, <2>1, ReportedJoin
  <2>3. long1 \in Rests(n)
    BY <2>2 DEF Rests
  <2>4. \A k \in 0 .. n : long1[k] = rest1[k] \o d
    OBVIOUS
  <2> HIDE DEF long1
  <2> QED BY <2>3, <2>4
<1>8. PICK path \in Paths(set, n + m) : Continues(path, n, path1, m, path2)
  <2>1. path1[n] = path2[0] /\ path1 \in Paths(set, n) /\ path2 \in Paths(set, m)
    BY <1>3, <1>4
  <2> QED BY <2>1, PathsJoin
<1>9. PICK rest \in Rests(n + m) : Continues(rest, n, long1, m, rest2)
  <2>1. long1[n] = rest2[0]
    <3>1. n \in 0 .. n /\ rest1[n] = <<>>
      BY <1>3
    <3>2. long1[n] = <<>> \o d
      BY <1>7, <3>1
    <3>3. <<>> \o d = d
      BY <1>6, ReportedJoin
    <3> QED BY <1>4, <3>2, <3>3
  <2>2. long1 \in Rests(n) /\ rest2 \in Rests(m)
    BY <1>4, <1>7
  <2> QED BY <2>1, <2>2, RestsJoin
<1>10. IsRun(set, B1 \o B2, path, rest)
  <2> SUFFICES ASSUME NEW k \in 1 .. n + m
               PROVE  /\ path[k] = Step(set, path[k - 1], (B1 \o B2)[k])
                      /\ rest[k - 1] = Events(set, path[k - 1], (B1 \o B2)[k]) \o rest[k]
    BY <1>5 DEF IsRun
  <2>1. CASE k <= n
    <3>1. k \in 1 .. n /\ k - 1 \in 0 .. n /\ k \in 0 .. n
      BY <2>1
    <3>2. /\ path[k] = path1[k] /\ path[k - 1] = path1[k - 1] /\ (B1 \o B2)[k] = B1[k]
          /\ rest[k] = rest1[k] \o d /\ rest[k - 1] = rest1[k - 1] \o d
      BY <1>5, <1>7, <1>8, <1>9, <3>1 DEF Continues
    <3>3. path1[k - 1] \in States(set) /\ B1[k] \in Bytes /\ rest1[k] \in Reported
      <4>1. path1[k - 1] \in States(set) /\ rest1[k] \in Reported
        BY <1>3, <3>1 DEF Paths, Rests
      <4>2. B1[k] \in Bytes
        BY <1>1, <3>1
      <4> QED BY <4>1, <4>2
    <3>4. Events(set, path1[k - 1], B1[k]) \in Reported
      BY <3>3, TranslateType
    <3>5. (Events(set, path1[k - 1], B1[k]) \o rest1[k]) \o d
            = Events(set, path1[k - 1], B1[k]) \o (rest1[k] \o d)
      BY <1>6, <3>3, <3>4, ReportedJoin, ZenonT(40)
    <3>6. /\ path1[k] = Step(set, path1[k - 1], B1[k])
          /\ rest1[k - 1] = Events(set, path1[k - 1], B1[k]) \o rest1[k]
      BY <1>1, <1>3, <3>1 DEF IsRun
    <3> QED BY <3>2, <3>5, <3>6
  <2>2. CASE k > n
    <3>1. PICK i \in 1 .. m : k = n + i
      <4>1. k - n \in 1 .. m /\ k = n + (k - n)
        BY <2>2
      <4> QED BY <4>1
    <3>2. i - 1 \in 0 .. m /\ i \in 0 .. m /\ k - 1 = n + (i - 1)
      BY <3>1
    <3>3. /\ path[k] = path2[i] /\ path[k - 1] = path2[i - 1] /\ (B1 \o B2)[k] = B2[i]
          /\ rest[k] = rest2[i] /\ rest[k - 1] = rest2[i - 1]
      BY <1>5, <1>8, <1>9, <3>1, <3>2 DEF Continues
    <3>4. /\ path2[i] = Step(set, path2[i - 1], B2[i])
          /\ rest2[i - 1] = Events(set, path2[i - 1], B2[i]) \o rest2[i]
      BY <1>2, <1>4, <3>1 DEF IsRun
    <3> QED BY <3>3, <3>4, Zenon
  <2>3. k <= n \/ k > n
    OBVIOUS
  <2> QED BY <2>1, <2>2, <2>3, Zenon
<1>11. path[0] = s /\ rest[0] = e \o d /\ path[n + m] = g /\ rest[n + m] = <<>>
  <2>1. 0 \in 0 .. n /\ 0 \in 0 .. m /\ m \in 0 .. m
    OBVIOUS
  <2>2. path[0] = path1[0] /\ rest[0] = rest1[0] \o d /\ path[n + m] = path2[m] /\ rest[n + m] = rest2[m]
    BY <1>7, <1>8, <1>9, <2>1 DEF Continues
  <2> QED BY <1>3, <1>4, <2>2
<1> QED BY <1>5, <1>8, <1>9, <1>10, <1>11 DEF Leads

-----------------------------------------------------------------------------
(* The bytes between the keyboard and the decoder, oldest first.           *)
OnTheWay == Stream(wire)

(* What a step does to them: a stroke puts its bytes at the end, a byte    *)
(* moves on, a byte is lost, the decoder takes the first.                  *)
Comes(s) ==
  /\ s \in Strokes[scancode_set] /\ s.bytes \in Seq(Bytes)
  /\ OnTheWay' = OnTheWay \o s.bytes /\ OnTheWay = Contents
  /\ typed' = typed \o s.events /\ lost' = lost \ {"this"}
  /\ Contents' = Contents
  /\ UNCHANGED <<scancode_set, seq_state, reported>>

Moves ==
  /\ OnTheWay' = OnTheWay
  /\ Contents' = Contents \/ \E b \in Bytes : Contents' = Contents \o <<b>>
  /\ UNCHANGED <<scancode_set, seq_state, typed, reported, lost>>

Drops ==
  /\ lost' = {"any", "this"} /\ Contents' = Contents
  /\ UNCHANGED <<scancode_set, seq_state, typed, reported>>

Takes ==
  /\ Contents # <<>> /\ Contents' = Tail(Contents)
  /\ OnTheWay # <<>> /\ OnTheWay' = Tail(OnTheWay) /\ Head(OnTheWay) = Head(Contents)
  /\ seq_state' = Step(scancode_set, seq_state, Head(Contents))
  /\ reported' = reported \o Events(scancode_set, seq_state, Head(Contents))
  /\ UNCHANGED <<scancode_set, typed, lost>>

LEMMA OnTheWayType ==
  ASSUME IInv, WireType
  PROVE  /\ Contents \in Seq(Bytes) /\ Waiting \in Seq(Bytes) /\ wire \in Seq(Bytes)
         /\ OnTheWay \in Seq(Bytes)
BY StreamType DEF WireType, OnTheWay

LEMMA StepOfStream ==
  ASSUME IInv, IInv', WireType, [KbNext]_vars
  PROVE  (\E s : Comes(s)) \/ Moves \/ Drops \/ Takes
<1>1. Contents \in Seq(Bytes) /\ wire \in Seq(Bytes)
  BY OnTheWayType
<1>2. ASSUME NEW s, Stroke(s) PROVE Comes(s)
  <2>1. s \in Strokes[scancode_set] /\ s.bytes \in Seq(Bytes)
    BY <1>2, KeyboardAssumption DEF Stroke, WireType
  <2>2. /\ wire = <<>> /\ output = NoByte /\ wire' = s.bytes /\ UNCHANGED <<ring, output>>
    BY <1>2 DEF Stroke, sbvars, ring
  <2>3. Contents' = Contents /\ OnTheWay = Contents /\ OnTheWay' = OnTheWay \o s.bytes
    <3>1. Contents' = Contents /\ Waiting' = Waiting
      BY <2>2, StreamKept
    <3>2. Waiting = <<>> /\ OnTheWay = Contents
      BY <1>1, <2>2, StreamAtRest, BytesJoin DEF OnTheWay
    <3>3. OnTheWay' = Contents \o (<<>> \o s.bytes)
      BY <2>2, <3>1, <3>2 DEF OnTheWay, Stream
    <3> QED BY <2>1, <3>1, <3>2, <3>3, BytesJoin
  <2> QED BY <1>2, <2>1, <2>3 DEF Stroke, Comes
<1>3. CASE SendByte
  <2>1. wire # <<>> /\ Send(Head(wire)) /\ wire' = Tail(wire)
    BY <1>3 DEF SendByte
  <2>2. Contents' = Contents /\ Waiting' \o wire' = Waiting \o wire
    BY <1>1, <2>1, SendKeeps
  <2> QED BY <1>3, <2>2 DEF SendByte, Moves, OnTheWay, Stream
<1>4. CASE keyboard_isr
  <2>1. Isr /\ wire' = wire
    BY <1>4 DEF keyboard_isr
  <2>2. CASE IsFull
    <3>1. Contents' = Contents
      BY <2>1, <2>2, RingKept DEF Isr, ring
    <3> QED BY <1>4, <2>2, <3>1 DEF keyboard_isr, Drops
  <2>3. CASE ~IsFull
    <3>1. Contents' = Contents \o <<output>> /\ output \in Bytes /\ OnTheWay' = OnTheWay
      BY <1>1, <2>1, <2>3, StoreKeeps DEF OnTheWay, Stream
    <3> QED BY <1>4, <2>3, <3>1 DEF keyboard_isr, Moves
  <2> QED BY <2>2, <2>3
<1>5. CASE Look \/ MaskIt \/ UNCHANGED vars
  <2>1. UNCHANGED <<ring, output>> /\ UNCHANGED kbvars
    BY <1>5 DEF Look, MaskIt, FindByte, Mask, ReadByte, Unmask, ring, vars, sbvars
  <2>2. Contents' = Contents /\ OnTheWay' = OnTheWay
    BY <2>1, StreamKept DEF OnTheWay, Stream, kbvars
  <2> QED BY <2>1, <2>2 DEF Moves, kbvars
<1>6. CASE TranslateByte
  <2>1. Decode /\ Advance /\ wire' = wire
    BY <1>6 DEF TranslateByte
  <2>2. /\ Contents # <<>> /\ Contents' = Tail(Contents) /\ Head(Contents) = byte
        /\ OnTheWay # <<>> /\ Head(OnTheWay) = byte /\ OnTheWay' = Tail(OnTheWay)
    BY <1>1, <2>1, TakeShortens DEF OnTheWay, Stream
  <2> QED BY <1>6, <2>2 DEF TranslateByte, Takes, Step, Events
<1> QED BY <1>2, <1>3, <1>4, <1>5, <1>6 DEF KbNext, Foreground

-----------------------------------------------------------------------------
(* The bytes in the ring lead somewhere, whatever was lost before.         *)
Undecoded == /\ seq_state \in States(scancode_set)
             /\ reported \in Reported
             /\ \E f, e : Leads(scancode_set, seq_state, Contents, f, e)

KInv == IInv /\ WireType /\ Undecoded

LEMMA LeadsOnce ==
  ASSUME NEW set \in {1, 2}, NEW s \in States(set), NEW b \in Bytes
  PROVE  Leads(set, s, <<b>>, Step(set, s, b), Events(set, s, b))
<1>1. Step(set, s, b) \in States(set) /\ Events(set, s, b) \in Reported
  BY TranslateType
<1>2. Leads(set, Step(set, s, b), <<>>, Step(set, s, b), <<>>)
  BY <1>1, LeadsNowhere
<1>3. <<>> \in Seq(Bytes) /\ <<b>> \o <<>> = <<b>> /\ Events(set, s, b) \o <<>> = Events(set, s, b)
  BY <1>1, ReportedJoin
<1>4. Leads(set, s, <<b>> \o <<>>, Step(set, s, b), Events(set, s, b) \o <<>>)
  BY <1>2, <1>3, LeadsWithFirst
<1> QED BY <1>3, <1>4

LEMMA InitUndecoded == Init => Undecoded
<1> SUFFICES ASSUME Init PROVE Undecoded
  OBVIOUS
<1>1. seq_state \in States(scancode_set) /\ reported \in Reported
  BY DEF Init, States, Reported
<1>2. Contents = <<>>
  BY InitIInv, ContentsIsSeq DEF Init, InitSeqBuf, IInv, IsEmpty
<1> QED BY <1>1, <1>2, LeadsNowhere DEF Undecoded

LEMMA NextUndecoded == KInv /\ IInv' /\ [KbNext]_vars => Undecoded'
<1> SUFFICES ASSUME KInv, IInv', [KbNext]_vars PROVE Undecoded'
  OBVIOUS
<1>1. Contents \in Seq(Bytes) /\ scancode_set \in {1, 2}
  BY OnTheWayType, KeyboardAssumption DEF KInv, WireType
<1>2. PICK f, e : Leads(scancode_set, seq_state, Contents, f, e)
  BY DEF KInv, Undecoded
<1>3. seq_state \in States(scancode_set) /\ reported \in Reported
  BY DEF KInv, Undecoded
<1>4. ASSUME Contents' = Contents, UNCHANGED <<scancode_set, seq_state, reported>>
      PROVE  Undecoded'
  BY <1>2, <1>3, <1>4 DEF Undecoded
<1>5. ASSUME NEW s, Comes(s) PROVE Undecoded'
  BY <1>4, <1>5 DEF Comes
<1>6. CASE Moves
  <2>1. CASE Contents' = Contents
    BY <1>4, <1>6, <2>1 DEF Moves
  <2>2. ASSUME NEW b \in Bytes, Contents' = Contents \o <<b>> PROVE Undecoded'
    <3>1. f \in States(scancode_set) /\ <<b>> \in Seq(Bytes)
      <4>1. f \in States(scancode_set)
        BY <1>1, <1>2, LeadsType
      <4>2. <<b>> \in Seq(Bytes)
        OBVIOUS
      <4> QED BY <4>1, <4>2
    <3>2. Leads(scancode_set, f, <<b>>, Step(scancode_set, f, b), Events(scancode_set, f, b))
      BY <1>1, <3>1, LeadsOnce
    <3>3. Leads(scancode_set, seq_state, Contents \o <<b>>, Step(scancode_set, f, b),
                e \o Events(scancode_set, f, b))
      BY <1>1, <1>2, <3>1, <3>2, LeadsJoin
    <3> QED BY <1>3, <1>6, <2>2, <3>3 DEF Moves, Undecoded
  <2> QED BY <1>6, <2>1, <2>2 DEF Moves
<1>7. CASE Drops
  BY <1>4, <1>7 DEF Drops
<1>8. CASE Takes
  <2>1. Head(Contents) \in Bytes
    BY <1>1, <1>8, BytesJoin DEF Takes
  <2>2. seq_state' \in States(scancode_set) /\ reported' \in Reported
    BY <1>1, <1>3, <1>8, <2>1, TranslateType, ReportedJoin DEF Takes
  <2>3. \E d : Leads(scancode_set, seq_state', Contents', f, d)
    BY <1>1, <1>2, <1>8, LeadsAfterFirst DEF Takes
  <2> QED BY <1>8, <2>2, <2>3 DEF Takes, Undecoded
<1> QED BY <1>5, <1>6, <1>7, <1>8, StepOfStream DEF KInv

LEMMA KInvInvariant == KbSpec => []KInv
<1>1. KbSpec => [](IInv /\ WireType)
  BY KeyboardUsesRing, Invariance, WireTypeInvariant, PTL
<1>2. Init => Undecoded
  BY InitUndecoded
<1>3. (IInv /\ WireType) /\ (IInv /\ WireType)' /\ Undecoded /\ [KbNext]_vars => Undecoded'
  BY NextUndecoded DEF KInv
<1> QED BY <1>1, <1>2, <1>3, PTL DEF KbSpec, KInv

-----------------------------------------------------------------------------
(* A stroke decodes to its events; or leaves the decoder, whatever state it *)
(* found it in, in its initial state.                                      *)
Decodes(s)      == Leads(2, "SS_DEFAULT", s.bytes, "SS_DEFAULT", s.events)
Settles(set, s) == \A q \in States(set) : \E e : Leads(set, q, s.bytes, "SS_DEFAULT", e)

Settled   == "this" \notin lost =>
               \E e : Leads(scancode_set, seq_state, OnTheWay, "SS_DEFAULT", e)
Delivered == scancode_set = 2 /\ "any" \notin lost =>
               \E e : /\ Leads(2, seq_state, OnTheWay, "SS_DEFAULT", e)
                     /\ typed = reported \o e

LEMMA InitStream == Init => Settled /\ Delivered
<1> SUFFICES ASSUME Init PROVE Settled /\ Delivered
  OBVIOUS
<1>1. Contents = <<>>
  BY InitIInv, ContentsIsSeq DEF Init, InitSeqBuf, IInv, IsEmpty
<1>2. OnTheWay = <<>>
  BY <1>1 DEF Init, InitSeqBuf, OnTheWay, Stream, Waiting
<1>3. "SS_DEFAULT" \in States(scancode_set) /\ <<>> \o <<>> = <<>>
  BY DEF States
<1>4. Leads(scancode_set, "SS_DEFAULT", <<>>, "SS_DEFAULT", <<>>)
  BY <1>3, LeadsNowhere
<1> QED BY <1>2, <1>3, <1>4 DEF Init, Settled, Delivered

LEMMA NextSettled ==
  ASSUME \A set \in DOMAIN Strokes : \A s \in Strokes[set] : Settles(set, s),
         KInv, IInv', Settled, [KbNext]_vars
  PROVE  Settled'
<1>1. /\ Contents \in Seq(Bytes) /\ OnTheWay \in Seq(Bytes)
      /\ scancode_set \in {1, 2} /\ scancode_set \in DOMAIN Strokes
  BY OnTheWayType, KeyboardAssumption DEF KInv, WireType
<1>2. ASSUME NEW s, Comes(s) PROVE Settled'
  <2>1. PICK f, e : Leads(scancode_set, seq_state, Contents, f, e)
    BY DEF KInv, Undecoded
  <2>2. f \in States(scancode_set)
    BY <1>1, <2>1, LeadsType
  <2>3. PICK d : Leads(scancode_set, f, s.bytes, "SS_DEFAULT", d)
    BY <1>1, <1>2, <2>2 DEF Comes, Settles
  <2>4. Leads(scancode_set, seq_state, Contents \o s.bytes, "SS_DEFAULT", e \o d)
    BY <1>1, <1>2, <2>1, <2>3, LeadsJoin DEF Comes
  <2> QED BY <1>2, <2>4 DEF Comes, Settled
<1>3. CASE Moves
  BY <1>3 DEF Moves, Settled
<1>4. CASE Drops
  BY <1>4 DEF Drops, Settled
<1>5. CASE Takes
  <2> SUFFICES ASSUME "this" \notin lost
               PROVE  \E d : Leads(scancode_set, seq_state', OnTheWay', "SS_DEFAULT", d)
    BY <1>5 DEF Takes, Settled
  <2>1. PICK e : Leads(scancode_set, seq_state, OnTheWay, "SS_DEFAULT", e)
    BY DEF Settled
  <2>2. \E d : Leads(scancode_set, Step(scancode_set, seq_state, Head(OnTheWay)),
                    Tail(OnTheWay), "SS_DEFAULT", d)
    BY <1>1, <1>5, <2>1, LeadsAfterFirst DEF Takes
  <2> QED BY <1>5, <2>2 DEF Takes
<1> QED BY <1>2, <1>3, <1>4, <1>5, StepOfStream DEF KInv

LEMMA NextDelivered ==
  ASSUME 2 \in DOMAIN Strokes => \A s \in Strokes[2] : Decodes(s),
         KInv, IInv', Delivered, [KbNext]_vars
  PROVE  Delivered'
<1> SUFFICES ASSUME scancode_set' = 2, "any" \notin lost'
             PROVE  \E e : /\ Leads(2, seq_state', OnTheWay', "SS_DEFAULT", e)
                          /\ typed' = reported' \o e
  BY DEF Delivered
<1>1. /\ Contents \in Seq(Bytes) /\ OnTheWay \in Seq(Bytes)
      /\ scancode_set \in DOMAIN Strokes /\ reported \in Reported
      /\ seq_state \in States(scancode_set)
  BY OnTheWayType DEF KInv, WireType, Undecoded
<1>2. ASSUME scancode_set = 2, "any" \notin lost
      PROVE  \E e : /\ Leads(2, seq_state, OnTheWay, "SS_DEFAULT", e) /\ e \in Reported
                   /\ typed = reported \o e
  BY <1>1, <1>2, LeadsType DEF Delivered
<1>3. ASSUME NEW s, Comes(s)
      PROVE  \E e : Leads(2, seq_state', OnTheWay', "SS_DEFAULT", e) /\ typed' = reported' \o e
  <2>1. scancode_set = 2 /\ "any" \notin lost
    BY <1>3 DEF Comes
  <2>2. PICK e : /\ Leads(2, seq_state, OnTheWay, "SS_DEFAULT", e) /\ e \in Reported
                 /\ typed = reported \o e
    BY <1>2, <2>1
  <2>3. Leads(2, "SS_DEFAULT", s.bytes, "SS_DEFAULT", s.events)
    BY <1>1, <1>3, <2>1 DEF Comes, Decodes
  <2>4. s.events \in Reported
    BY <1>3, <2>3, LeadsType DEF Comes
  <2>5. Leads(2, seq_state, OnTheWay \o s.bytes, "SS_DEFAULT", e \o s.events)
    BY <1>1, <1>3, <2>2, <2>3, LeadsJoin DEF Comes
  <2>6. (reported \o e) \o s.events = reported \o (e \o s.events)
    <3>1. PICK made \in Reported : made = s.events
      BY <2>4
    <3>2. reported \in Reported /\ e \in Reported
      BY <1>1, <2>2
    <3>3. (reported \o e) \o made = reported \o (e \o made)
      BY <3>2, ReportedAssociate
    <3> QED BY <3>1, <3>3
  <2> QED BY <1>3, <2>2, <2>5, <2>6 DEF Comes
<1>4. CASE Moves
  BY <1>2, <1>4 DEF Moves
<1>5. CASE Drops
  BY <1>5 DEF Drops
<1>6. CASE Takes
  <2>1. scancode_set = 2 /\ "any" \notin lost
    BY <1>6 DEF Takes
  <2>2. PICK e : /\ Leads(2, seq_state, OnTheWay, "SS_DEFAULT", e) /\ e \in Reported
                 /\ typed = reported \o e
    BY <1>2, <2>1
  <2>3. PICK d : /\ e = Events(2, seq_state, Head(OnTheWay)) \o d
                 /\ Leads(2, Step(2, seq_state, Head(OnTheWay)), Tail(OnTheWay), "SS_DEFAULT", d)
    BY <1>1, <1>6, <2>2, LeadsAfterFirst DEF Takes
  <2>4. Events(2, seq_state, Head(OnTheWay)) \in Reported /\ d \in Reported
    <3>1. Head(OnTheWay) \in Bytes /\ Tail(OnTheWay) \in Seq(Bytes)
      BY <1>1, <1>6, BytesJoin DEF Takes
    <3> QED BY <1>1, <2>1, <2>3, <3>1, TranslateType, LeadsType
  <2>5. (reported \o Events(2, seq_state, Head(OnTheWay))) \o d
          = reported \o (Events(2, seq_state, Head(OnTheWay)) \o d)
    BY <1>1, <2>4, ReportedJoin, ZenonT(40)
  <2> QED BY <1>6, <2>1, <2>2, <2>3, <2>5 DEF Takes
<1> QED BY <1>3, <1>4, <1>5, <1>6, StepOfStream DEF KInv

-----------------------------------------------------------------------------
(* The strokes of set 2 that decode to their keys: a plain code, or one or *)
(* two extended codes (print screen sends two). The codes are those of the *)
(* tables; prefixes and the bytes of Unused lie past them.                 *)
Plain2 == {Down(<<c>>, "plain", c) : c \in 0 .. 131} \cup {Up(<<BREAK, c>>, "plain", c) : c \in 0 .. 131}
Ext2   == {Down(<<EXT, c>>, "ext", c) : c \in 0 .. 127} \cup {Up(<<EXT, BREAK, c>>, "ext", c) : c \in 0 .. 127}

Both(s, t) == [bytes |-> s.bytes \o t.bytes, events |-> s.events \o t.events]

Keys2 == Plain2 \cup Ext2 \cup {Both(s, t) : s \in Ext2, t \in Ext2}

LEMMA LookupIs ==
  ASSUME NEW table, NEW entries, NEW b, b < entries, NEW state
  PROVE  /\ state \notin {"SS_BREAK", "SS_BREAK_EXTENDED"} => Lookup(table, entries, b, state) = <<Key(table, b)>>
         /\ state \in {"SS_BREAK", "SS_BREAK_EXTENDED"} => Lookup(table, entries, b, state) = <<KeyUp(table, b)>>
<1>1. Lookup(table, entries, b, state)
        = <<[key |-> <<table, b>>, break |-> state \in {"SS_BREAK", "SS_BREAK_EXTENDED"}]>>
  BY Zenon DEF Lookup
<1>2. ASSUME state \notin {"SS_BREAK", "SS_BREAK_EXTENDED"}
      PROVE  Lookup(table, entries, b, state) = <<Key(table, b)>>
  <2>1. (state \in {"SS_BREAK", "SS_BREAK_EXTENDED"}) = FALSE
    BY <1>2
  <2> QED BY <1>1, <2>1, Zenon DEF Key
<1>3. ASSUME state \in {"SS_BREAK", "SS_BREAK_EXTENDED"}
      PROVE  Lookup(table, entries, b, state) = <<KeyUp(table, b)>>
  <2>1. (state \in {"SS_BREAK", "SS_BREAK_EXTENDED"}) = TRUE
    BY <1>3
  <2> QED BY <1>1, <2>1, Zenon DEF KeyUp
<1> QED BY <1>2, <1>3

LEMMA PlainByte2 ==
  ASSUME NEW c \in 0 .. 131
  PROVE  /\ Step(2, "SS_DEFAULT", c) = "SS_DEFAULT" /\ Events(2, "SS_DEFAULT", c) = <<Key("plain", c)>>
         /\ Step(2, "SS_BREAK", c) = "SS_DEFAULT" /\ Events(2, "SS_BREAK", c) = <<KeyUp("plain", c)>>
<1>1. c \notin {BREAK, EXT, PAUSE} /\ c \notin Unused /\ c < 132
  BY DEF BREAK, EXT, PAUSE, Unused
<1>2. /\ translate_scancode_set2("SS_DEFAULT", c) = Goes("SS_DEFAULT", Lookup("plain", 132, c, "SS_DEFAULT"))
      /\ translate_scancode_set2("SS_BREAK", c) = Goes("SS_DEFAULT", Lookup("plain", 132, c, "SS_BREAK"))
  BY <1>1 DEF translate_scancode_set2, AfterKey, Pause2, CtrlPause2
<1>3. /\ Lookup("plain", 132, c, "SS_DEFAULT") = <<Key("plain", c)>>
      /\ Lookup("plain", 132, c, "SS_BREAK") = <<KeyUp("plain", c)>>
  BY <1>1, LookupIs
<1> QED BY <1>2, <1>3 DEF Step, Events, Translate, Goes

LEMMA ExtByte2 ==
  ASSUME NEW c \in 0 .. 127
  PROVE  /\ Step(2, "SS_EXTENDED", c) = "SS_DEFAULT" /\ Events(2, "SS_EXTENDED", c) = <<Key("ext", c)>>
         /\ Step(2, "SS_BREAK_EXTENDED", c) = "SS_DEFAULT"
         /\ Events(2, "SS_BREAK_EXTENDED", c) = <<KeyUp("ext", c)>>
<1>1. c \notin {BREAK, EXT, PAUSE} /\ c < 128
  BY DEF BREAK, EXT, PAUSE
<1>2. /\ translate_scancode_set2("SS_EXTENDED", c) = Goes("SS_DEFAULT", Lookup("ext", 128, c, "SS_EXTENDED"))
      /\ translate_scancode_set2("SS_BREAK_EXTENDED", c)
           = Goes("SS_DEFAULT", Lookup("ext", 128, c, "SS_BREAK_EXTENDED"))
  BY <1>1 DEF translate_scancode_set2, Pause2, CtrlPause2
<1>3. /\ Lookup("ext", 128, c, "SS_EXTENDED") = <<Key("ext", c)>>
      /\ Lookup("ext", 128, c, "SS_BREAK_EXTENDED") = <<KeyUp("ext", c)>>
  BY <1>1, LookupIs
<1> QED BY <1>2, <1>3 DEF Step, Events, Translate, Goes

LEMMA Prefix2 ==
  ASSUME NEW q
  PROVE  /\ Step(2, q, EXT) = "SS_EXTENDED" /\ Events(2, q, EXT) = <<>>
         /\ Step(2, q, BREAK) = AfterBreak(q) /\ Events(2, q, BREAK) = <<>>
         /\ Step(2, q, PAUSE) = "SS_PAUSE_1" /\ Events(2, q, PAUSE) = <<>>
BY DEF Step, Events, Translate, translate_scancode_set2, Goes, Silent, BREAK, EXT, PAUSE

(* A prefix, then what it leads to.                                        *)
LEMMA LeadsFromFirst ==
  ASSUME NEW set \in {1, 2}, NEW q \in States(set), NEW bytes \in Seq(Bytes), bytes # <<>>,
         NEW f, NEW e, Leads(set, Step(set, q, Head(bytes)), Tail(bytes), f, e)
  PROVE  Leads(set, q, bytes, f, Events(set, q, Head(bytes)) \o e)
<1>1. Head(bytes) \in Bytes /\ Tail(bytes) \in Seq(Bytes) /\ <<Head(bytes)>> \o Tail(bytes) = bytes
  BY BytesJoin
<1>2. Leads(set, q, <<Head(bytes)>> \o Tail(bytes), f, Events(set, q, Head(bytes)) \o e)
  BY <1>1, LeadsWithFirst
<1> QED BY <1>1, <1>2

LEMMA AfterPrefix2 ==
  ASSUME NEW q \in States(2), NEW bytes \in Seq(Bytes), bytes # <<>>, NEW r, NEW f, NEW e,
         Step(2, q, Head(bytes)) = r, Events(2, q, Head(bytes)) = <<>>, Leads(2, r, Tail(bytes), f, e)
  PROVE  Leads(2, q, bytes, f, e)
<1>1. Leads(2, q, bytes, f, <<>> \o e)
  BY LeadsFromFirst
<1>2. e \in Reported
  <2>1. Tail(bytes) \in Seq(Bytes)
    BY BytesJoin
  <2> QED BY <2>1, LeadsType
<1> QED BY <1>1, <1>2, ReportedJoin

LEMMA ExtDecodes ==
  ASSUME NEW s \in Ext2, s.bytes \in Seq(Bytes), NEW q \in States(2)
  PROVE  Leads(2, q, s.bytes, "SS_DEFAULT", s.events)
<1>1. {"SS_EXTENDED", "SS_BREAK_EXTENDED"} \subseteq States(2)
  BY DEF States
<1>2. ASSUME NEW c \in 0 .. 127, s = Down(<<EXT, c>>, "ext", c)
      PROVE  Leads(2, q, s.bytes, "SS_DEFAULT", s.events)
  <2>1. s.bytes = <<EXT, c>> /\ s.events = <<Key("ext", c)>>
    BY <1>2 DEF Down
  <2>2. EXT \in Bytes /\ c \in Bytes
    BY <2>1
  <2>3. /\ <<EXT, c>> \in Seq(Bytes) /\ <<EXT, c>> # <<>>
        /\ Head(<<EXT, c>>) = EXT /\ Tail(<<EXT, c>>) = <<c>>
    BY <2>2
  <2>4. Leads(2, "SS_EXTENDED", <<c>>, "SS_DEFAULT", <<Key("ext", c)>>)
    BY <1>1, <2>2, LeadsOnce, ExtByte2
  <2>5. Leads(2, q, <<EXT, c>>, "SS_DEFAULT", <<Key("ext", c)>>)
    BY <2>3, <2>4, Prefix2, AfterPrefix2
  <2> QED BY <2>1, <2>5
<1>3. ASSUME NEW c \in 0 .. 127, s = Up(<<EXT, BREAK, c>>, "ext", c)
      PROVE  Leads(2, q, s.bytes, "SS_DEFAULT", s.events)
  <2>1. s.bytes = <<EXT, BREAK, c>> /\ s.events = <<KeyUp("ext", c)>>
    BY <1>3 DEF Up
  <2>2. EXT \in Bytes /\ BREAK \in Bytes /\ c \in Bytes
    BY <2>1
  <2>3. /\ <<BREAK, c>> \in Seq(Bytes) /\ <<BREAK, c>> # <<>>
        /\ Head(<<BREAK, c>>) = BREAK /\ Tail(<<BREAK, c>>) = <<c>>
        /\ <<EXT, BREAK, c>> \in Seq(Bytes) /\ <<EXT, BREAK, c>> # <<>>
        /\ Head(<<EXT, BREAK, c>>) = EXT /\ Tail(<<EXT, BREAK, c>>) = <<BREAK, c>>
    BY <2>2
  <2>4. Leads(2, "SS_BREAK_EXTENDED", <<c>>, "SS_DEFAULT", <<KeyUp("ext", c)>>)
    BY <1>1, <2>2, LeadsOnce, ExtByte2
  <2>5. Leads(2, "SS_EXTENDED", <<BREAK, c>>, "SS_DEFAULT", <<KeyUp("ext", c)>>)
    BY <1>1, <2>3, <2>4, Prefix2, AfterPrefix2 DEF AfterBreak
  <2>6. Leads(2, q, <<EXT, BREAK, c>>, "SS_DEFAULT", <<KeyUp("ext", c)>>)
    BY <2>3, <2>5, Prefix2, AfterPrefix2
  <2> QED BY <2>1, <2>6
<1> QED BY <1>2, <1>3 DEF Ext2

LEMMA PlainDecodes ==
  ASSUME NEW s \in Plain2, s.bytes \in Seq(Bytes)
  PROVE  Decodes(s)
<1>1. {"SS_DEFAULT", "SS_BREAK"} \subseteq States(2)
  BY DEF States
<1>2. ASSUME NEW c \in 0 .. 131, s = Down(<<c>>, "plain", c) PROVE Decodes(s)
  <2>1. s.bytes = <<c>> /\ s.events = <<Key("plain", c)>>
    BY <1>2 DEF Down
  <2>2. c \in Bytes
    BY <2>1
  <2>3. Leads(2, "SS_DEFAULT", <<c>>, "SS_DEFAULT", <<Key("plain", c)>>)
    BY <1>1, <2>2, LeadsOnce, PlainByte2
  <2> QED BY <2>1, <2>3 DEF Decodes
<1>3. ASSUME NEW c \in 0 .. 131, s = Up(<<BREAK, c>>, "plain", c) PROVE Decodes(s)
  <2>1. s.bytes = <<BREAK, c>> /\ s.events = <<KeyUp("plain", c)>>
    BY <1>3 DEF Up
  <2>2. BREAK \in Bytes /\ c \in Bytes
    BY <2>1
  <2>3. /\ <<BREAK, c>> \in Seq(Bytes) /\ <<BREAK, c>> # <<>>
        /\ Head(<<BREAK, c>>) = BREAK /\ Tail(<<BREAK, c>>) = <<c>>
    BY <2>2
  <2>4. Leads(2, "SS_BREAK", <<c>>, "SS_DEFAULT", <<KeyUp("plain", c)>>)
    BY <1>1, <2>2, LeadsOnce, PlainByte2
  <2>5. Leads(2, "SS_DEFAULT", <<BREAK, c>>, "SS_DEFAULT", <<KeyUp("plain", c)>>)
    <3>1. Step(2, "SS_DEFAULT", BREAK) = "SS_BREAK" /\ Events(2, "SS_DEFAULT", BREAK) = <<>>
      BY Prefix2 DEF AfterBreak
    <3> QED BY <1>1, <2>3, <2>4, <3>1, AfterPrefix2
  <2> QED BY <2>1, <2>5 DEF Decodes
<1> QED BY <1>2, <1>3 DEF Plain2

LEMMA BothDecode ==
  ASSUME NEW s \in Ext2, NEW t \in Ext2, Both(s, t).bytes \in Seq(Bytes), NEW q \in States(2)
  PROVE  Leads(2, q, Both(s, t).bytes, "SS_DEFAULT", Both(s, t).events)
<1>1. ASSUME NEW r \in Ext2 PROVE r.bytes \in Seq(Int)
  <2>1. EXT \in Int /\ BREAK \in Int
    BY DEF EXT, BREAK
  <2>2. ASSUME NEW c \in 0 .. 127, r = Down(<<EXT, c>>, "ext", c) PROVE r.bytes \in Seq(Int)
    BY <2>1, <2>2 DEF Down
  <2>3. ASSUME NEW c \in 0 .. 127, r = Up(<<EXT, BREAK, c>>, "ext", c) PROVE r.bytes \in Seq(Int)
    BY <2>1, <2>3 DEF Up
  <2> QED BY <2>2, <2>3 DEF Ext2
<1>2. s.bytes \in Seq(Bytes) /\ t.bytes \in Seq(Bytes)
  <2>1. PICK u \in Seq(Int) : u = s.bytes
    BY <1>1
  <2>2. PICK v \in Seq(Int) : v = t.bytes
    BY <1>1
  <2>3. u \o v \in Seq(Bytes)
    BY <2>1, <2>2 DEF Both
  <2>4. ASSUME NEW k \in 1 .. Len(u) PROVE u[k] \in Bytes
    BY <2>3
  <2>5. ASSUME NEW k \in 1 .. Len(v) PROVE v[k] \in Bytes
    <3>1. Len(u) + k \in 1 .. Len(u \o v) /\ (u \o v)[Len(u) + k] = v[k]
      OBVIOUS
    <3> QED BY <2>3, <3>1
  <2>6. u \in Seq(Bytes)
    <3>1. PICK n \in Nat : n = Len(u)
      OBVIOUS
    <3>2. u = [k \in 1 .. n |-> u[k]]
      BY <3>1
    <3>3. \A k \in 1 .. n : u[k] \in Bytes
      BY <2>4, <3>1
    <3>4. [k \in 1 .. n |-> u[k]] \in Seq(Bytes)
      BY <3>3
    <3> QED BY <3>2, <3>4, Zenon
  <2>7. v \in Seq(Bytes)
    <3>1. PICK n \in Nat : n = Len(v)
      OBVIOUS
    <3>2. v = [k \in 1 .. n |-> v[k]]
      BY <3>1
    <3>3. \A k \in 1 .. n : v[k] \in Bytes
      BY <2>5, <3>1
    <3>4. [k \in 1 .. n |-> v[k]] \in Seq(Bytes)
      BY <3>3
    <3> QED BY <3>2, <3>4, Zenon
  <2> QED BY <2>1, <2>2, <2>6, <2>7
<1>3. "SS_DEFAULT" \in States(2)
  BY DEF States
<1>4. Leads(2, q, s.bytes, "SS_DEFAULT", s.events) /\ Leads(2, "SS_DEFAULT", t.bytes, "SS_DEFAULT", t.events)
  BY <1>2, <1>3, ExtDecodes
<1> QED BY <1>2, <1>4, LeadsJoin DEF Both

-----------------------------------------------------------------------------
(* Strokes that repair the decoder. In a state inside a pause sequence the  *)
(* next byte of the sequence is taken for just that, whichever key sent it: *)
(* left control and num lock, whose only byte it is, repair nothing.        *)
Torn1 == {29, 69, 70, 157, 197, 198}
Torn2 == {20, 119, 126}

Codes1 == 0 .. 255
Last1  == Codes1 \ {EXT, PAUSE, 70}

Four1(c, d) == <<EXT, c, EXT, d>>

Two1 == {<<EXT, d>> : d \in Last1}

Repairs1 ==
  {<<c>> : c \in 0 .. 255 \ ({EXT, PAUSE} \cup Torn1)}
    \cup Two1 \cup {Four1(c, d) : c \in Codes1, d \in Last1}
    \cup {<<PAUSE, 29, 69, PAUSE, 157, 197>>}

Repairs2 ==
  ({s.bytes : s \in Keys2} \ {<<c>> : c \in Torn2})
    \cup {<<PAUSE, 20, 119, PAUSE, BREAK, 20, BREAK, 119>>}

Repairs(set) == IF set = 1 THEN Repairs1 ELSE Repairs2

Ends(set, q, bytes) == \E e : Leads(set, q, bytes, "SS_DEFAULT", e)

LEMMA EndsNow == ASSUME NEW set PROVE Ends(set, "SS_DEFAULT", <<>>)
<1>1. "SS_DEFAULT" \in States(set)
  BY DEF States
<1> QED BY <1>1, LeadsNowhere DEF Ends

(* The first byte of a sequence, and what follows it.                      *)
First(bytes, b, more) ==
  bytes \in Seq(Bytes) /\ bytes # <<>> /\ Head(bytes) = b /\ Tail(bytes) = more

LEMMA EndsStep ==
  ASSUME NEW set \in {1, 2}, NEW q \in States(set), NEW bytes, NEW b, NEW more, First(bytes, b, more),
         Step(set, q, b) \in States(set) => Ends(set, Step(set, q, b), more)
  PROVE  Ends(set, q, bytes)
<1>1. b \in Bytes /\ bytes \in Seq(Bytes) /\ bytes # <<>> /\ Head(bytes) = b /\ Tail(bytes) = more
  BY BytesJoin DEF First
<1>2. Step(set, q, b) \in States(set)
  BY <1>1, TranslateType
<1>3. PICK e : Leads(set, Step(set, q, b), more, "SS_DEFAULT", e)
  BY <1>2 DEF Ends
<1>4. Leads(set, q, bytes, "SS_DEFAULT", Events(set, q, Head(bytes)) \o e)
  BY <1>1, <1>3, LeadsFromFirst
<1> QED BY <1>4 DEF Ends

(* Whatever the state, once what follows repairs every state.              *)
Always(set, bytes) == \A q \in States(set) : Ends(set, q, bytes)

LEMMA AlwaysStep ==
  ASSUME NEW set \in {1, 2}, NEW bytes, NEW b, NEW more, First(bytes, b, more), Always(set, more)
  PROVE  Always(set, bytes)
BY EndsStep DEF Always

LEMMA EndsLast ==
  ASSUME NEW set \in {1, 2}, NEW q \in States(set), NEW b \in Bytes, Step(set, q, b) = "SS_DEFAULT"
  PROVE  Ends(set, q, <<b>>)
<1>1. Leads(set, q, <<b>>, "SS_DEFAULT", Events(set, q, b))
  BY LeadsOnce
<1> QED BY <1>1 DEF Ends

LEMMA Prefix1 ==
  ASSUME NEW q
  PROVE  Step(1, q, EXT) = "SS_EXTENDED" /\ Step(1, q, PAUSE) = "SS_PAUSE_1"
BY DEF Step, Translate, translate_scancode_set1, Goes, EXT, PAUSE

(* One byte that repairs.                                                  *)
LEMMA Repair1 ==
  ASSUME NEW c, c \notin {EXT, PAUSE}, NEW q \in States(1),
         \/ c \notin Torn1
         \/ q = "SS_DEFAULT" \/ (q = "SS_EXTENDED" /\ c # 70) \/ (q = "SS_PAUSE_1" /\ c # 29)
  PROVE  Step(1, q, c) = "SS_DEFAULT"
<1>1. CASE q = "SS_DEFAULT"
  BY <1>1 DEF Step, Translate, translate_scancode_set1, Goes, Pause1, CtrlPause1
<1>2. CASE q = "SS_EXTENDED"
  <2>1. c # 70
    BY <1>2 DEF Torn1
  <2> QED BY <1>2, <2>1 DEF Step, Translate, translate_scancode_set1, Goes, Pause1, CtrlPause1
<1>3. CASE q \in DOMAIN Pause1
  <2>1. translate_scancode_set1(q, c) = Follow(Pause1, "SS_PAUSE_5", q, c, <<NoKey>>, Pause)
    BY <1>3 DEF translate_scancode_set1, Pause1, CtrlPause1
  <2>2. c # Pause1[q]
    BY <1>3 DEF Torn1, Pause1, PAUSE
  <2> QED BY <2>1, <2>2 DEF Step, Translate, Follow, Goes
<1>4. CASE q \in DOMAIN CtrlPause1
  <2>1. translate_scancode_set1(q, c) = Follow(CtrlPause1, "SS_CTRLPAUSE_2", q, c, <<NoKey>>, PauseUp)
    BY <1>4 DEF translate_scancode_set1, Pause1, CtrlPause1
  <2>2. c # CtrlPause1[q]
    BY <1>4 DEF Torn1, CtrlPause1, EXT
  <2> QED BY <2>1, <2>2 DEF Step, Translate, Follow, Goes
<1> QED BY <1>1, <1>2, <1>3, <1>4 DEF States

LEMMA Repair2 ==
  ASSUME NEW c, c \notin {BREAK, EXT, PAUSE}, NEW q \in States(2),
         c \notin Torn2 \/ q \in {"SS_DEFAULT", "SS_BREAK", "SS_EXTENDED", "SS_BREAK_EXTENDED"}
  PROVE  Step(2, q, c) = "SS_DEFAULT"
<1>1. CASE q \in {"SS_DEFAULT", "SS_BREAK", "SS_EXTENDED", "SS_BREAK_EXTENDED"}
  BY <1>1 DEF Step, Translate, translate_scancode_set2, Goes, AfterKey, Pause2, CtrlPause2
<1>2. CASE q \in DOMAIN Pause2
  <2>1. translate_scancode_set2(q, c) = Follow(Pause2, "SS_PAUSE_7", q, c, Silent, Pause)
    BY <1>2 DEF translate_scancode_set2, Pause2, CtrlPause2
  <2>2. c # Pause2[q]
    BY <1>2 DEF Torn2, Pause2, PAUSE, BREAK
  <2> QED BY <2>1, <2>2 DEF Step, Translate, Follow, Goes
<1>3. CASE q \in DOMAIN CtrlPause2
  <2>1. translate_scancode_set2(q, c) = Follow(CtrlPause2, "SS_CTRLPAUSE_3", q, c, Silent, PauseUp)
    BY <1>3 DEF translate_scancode_set2, Pause2, CtrlPause2
  <2>2. c # CtrlPause2[q]
    BY <1>3 DEF Torn2, CtrlPause2, EXT, BREAK
  <2> QED BY <2>1, <2>2 DEF Step, Translate, Follow, Goes
<1> QED BY <1>1, <1>2, <1>3 DEF States

LEMMA ExtRepairs1 ==
  ASSUME NEW d \in 0 .. 255 \ {EXT, PAUSE, 70}, <<EXT, d>> \in Seq(Bytes)
  PROVE  Always(1, <<EXT, d>>)
<1>1. First(<<EXT, d>>, EXT, <<d>>) /\ d \in Bytes
  BY DEF First
<1>2. "SS_EXTENDED" \in States(1)
  BY DEF States
<1>3. Step(1, "SS_EXTENDED", d) = "SS_DEFAULT"
  BY <1>2, Repair1
<1>4. Ends(1, "SS_EXTENDED", <<d>>)
  BY <1>1, <1>2, <1>3, EndsLast
<1> QED BY <1>1, <1>4, Prefix1, EndsStep DEF Always

LEMMA PauseRepairs1 ==
  ASSUME <<PAUSE, 29, 69, PAUSE, 157, 197>> \in Seq(Bytes)
  PROVE  Always(1, <<PAUSE, 29, 69, PAUSE, 157, 197>>)
<1>1. /\ First(<<PAUSE, 29, 69, PAUSE, 157, 197>>, PAUSE, <<29, 69, PAUSE, 157, 197>>)
      /\ First(<<29, 69, PAUSE, 157, 197>>, 29, <<69, PAUSE, 157, 197>>)
      /\ First(<<69, PAUSE, 157, 197>>, 69, <<PAUSE, 157, 197>>)
      /\ First(<<PAUSE, 157, 197>>, PAUSE, <<157, 197>>)
      /\ First(<<157, 197>>, 157, <<197>>) /\ 157 \in Bytes /\ 197 \in Bytes
  BY DEF First
<1>2. "SS_DEFAULT" \in States(1) /\ "SS_PAUSE_1" \in States(1)
  BY DEF States, Pause1
<1>3. 157 \notin {EXT, PAUSE} /\ 197 \notin {EXT, PAUSE}
  BY DEF EXT, PAUSE
<1>4. Step(1, "SS_PAUSE_1", 157) = "SS_DEFAULT" /\ Step(1, "SS_DEFAULT", 197) = "SS_DEFAULT"
  BY <1>2, <1>3, Repair1
<1>5. Ends(1, "SS_DEFAULT", <<197>>)
  BY <1>1, <1>2, <1>4, EndsLast
<1>6. Ends(1, "SS_PAUSE_1", <<157, 197>>)
  BY <1>1, <1>2, <1>4, <1>5, EndsStep
<1>7. Always(1, <<PAUSE, 157, 197>>)
  BY <1>1, <1>6, Prefix1, EndsStep DEF Always
<1> QED BY <1>1, <1>7, AlwaysStep

LEMMA Set1Repairs ==
  ASSUME NEW bytes \in Repairs(1), bytes \in Seq(Bytes)
  PROVE  Always(1, bytes)
<1>1. ASSUME NEW c \in 0 .. 255 \ ({EXT, PAUSE} \cup Torn1), bytes = <<c>> PROVE Always(1, bytes)
  BY <1>1, Repair1, EndsLast DEF Always
<1>2. ASSUME NEW d \in 0 .. 255 \ {EXT, PAUSE, 70}, bytes = <<EXT, d>> PROVE Always(1, bytes)
  BY <1>2, ExtRepairs1
<1>3. ASSUME NEW c \in 0 .. 255, NEW d \in 0 .. 255 \ {EXT, PAUSE, 70}, bytes = <<EXT, c, EXT, d>>
      PROVE  Always(1, bytes)
  <2>1. /\ First(bytes, EXT, <<c, EXT, d>>) /\ First(<<c, EXT, d>>, c, <<EXT, d>>)
        /\ <<EXT, d>> \in Seq(Bytes)
    BY <1>3 DEF First
  <2>2. Always(1, <<EXT, d>>)
    BY <2>1, ExtRepairs1
  <2> QED BY <2>1, <2>2, AlwaysStep
<1>4. ASSUME bytes = <<PAUSE, 29, 69, PAUSE, 157, 197>> PROVE Always(1, bytes)
  BY <1>4, PauseRepairs1
<1>5. CASE bytes \in Two1
  BY <1>2, <1>5 DEF Two1, Last1, Codes1
<1>6. CASE bytes \in {Four1(c, d) : c \in Codes1, d \in Last1}
  <2>1. PICK c \in Codes1, d \in Last1 : bytes = Four1(c, d)
    BY <1>6
  <2> QED BY <1>3, <2>1 DEF Four1, Codes1, Last1
<1>7. CASE bytes \in {<<c>> : c \in 0 .. 255 \ ({EXT, PAUSE} \cup Torn1)}
  BY <1>1, <1>7
<1>8. \/ bytes \in {<<c>> : c \in 0 .. 255 \ ({EXT, PAUSE} \cup Torn1)}
      \/ bytes \in Two1 \/ bytes \in {Four1(c, d) : c \in Codes1, d \in Last1}
      \/ bytes = <<PAUSE, 29, 69, PAUSE, 157, 197>>
  <2>1. bytes \in Repairs1
    BY DEF Repairs
  <2> QED BY ONLY <2>1 DEF Repairs1
<1> QED BY ONLY <1>4, <1>5, <1>6, <1>7, <1>8

LEMMA PlainRepairs2 ==
  ASSUME NEW s \in Plain2, s.bytes \in Seq(Bytes), s.bytes \notin {<<c>> : c \in Torn2}
  PROVE  Always(2, s.bytes)
<1>1. ASSUME NEW c \in 0 .. 131, s = Down(<<c>>, "plain", c) PROVE Always(2, s.bytes)
  <2>1. s.bytes = <<c>>
    BY <1>1 DEF Down
  <2>2. c \in Bytes /\ c \notin Torn2 /\ c \notin {BREAK, EXT, PAUSE}
    BY <2>1 DEF BREAK, EXT, PAUSE
  <2> QED BY <2>1, <2>2, Repair2, EndsLast DEF Always
<1>2. ASSUME NEW c \in 0 .. 131, s = Up(<<BREAK, c>>, "plain", c) PROVE Always(2, s.bytes)
  <2>1. s.bytes = <<BREAK, c>>
    BY <1>2 DEF Up
  <2>2. First(<<BREAK, c>>, BREAK, <<c>>) /\ c \in Bytes /\ c \notin {BREAK, EXT, PAUSE}
    BY <2>1 DEF First, BREAK, EXT, PAUSE
  <2>3. ASSUME NEW q \in States(2) PROVE Ends(2, q, <<BREAK, c>>)
    <3>1. Step(2, q, BREAK) \in {"SS_BREAK", "SS_BREAK_EXTENDED"}
      BY Prefix2 DEF AfterBreak
    <3>2. Step(2, q, BREAK) \in States(2)
      BY <3>1 DEF States
    <3>3. Ends(2, Step(2, q, BREAK), <<c>>)
      BY <2>2, <3>1, <3>2, Repair2, EndsLast
    <3> QED BY <2>2, <3>3, EndsStep
  <2> QED BY <2>1, <2>3 DEF Always
<1> QED BY <1>1, <1>2 DEF Plain2

LEMMA PauseRepairs2 ==
  ASSUME <<PAUSE, 20, 119, PAUSE, BREAK, 20, BREAK, 119>> \in Seq(Bytes)
  PROVE  Always(2, <<PAUSE, 20, 119, PAUSE, BREAK, 20, BREAK, 119>>)
<1>1. /\ First(<<PAUSE, 20, 119, PAUSE, BREAK, 20, BREAK, 119>>, PAUSE,
               <<20, 119, PAUSE, BREAK, 20, BREAK, 119>>)
      /\ First(<<20, 119, PAUSE, BREAK, 20, BREAK, 119>>, 20, <<119, PAUSE, BREAK, 20, BREAK, 119>>)
      /\ First(<<119, PAUSE, BREAK, 20, BREAK, 119>>, 119, <<PAUSE, BREAK, 20, BREAK, 119>>)
      /\ First(<<PAUSE, BREAK, 20, BREAK, 119>>, PAUSE, <<BREAK, 20, BREAK, 119>>)
      /\ First(<<BREAK, 20, BREAK, 119>>, BREAK, <<20, BREAK, 119>>)
      /\ First(<<20, BREAK, 119>>, 20, <<BREAK, 119>>)
      /\ First(<<BREAK, 119>>, BREAK, <<119>>) /\ 119 \in Bytes
  BY DEF First
<1>2. {"SS_DEFAULT", "SS_BREAK"} \subseteq States(2)
  BY DEF States
<1>3. {20, 119} \cap {BREAK, EXT, PAUSE} = {}
  BY DEF BREAK, EXT, PAUSE
<1>4. Step(2, "SS_DEFAULT", BREAK) = "SS_BREAK" /\ Step(2, "SS_BREAK", BREAK) = "SS_BREAK"
  BY Prefix2 DEF AfterBreak
<1>5. Ends(2, "SS_BREAK", <<119>>)
  BY <1>1, <1>2, <1>3, Repair2, EndsLast
<1>6. Ends(2, "SS_DEFAULT", <<BREAK, 119>>)
  BY <1>1, <1>2, <1>4, <1>5, EndsStep
<1>7. Step(2, "SS_BREAK", 20) = "SS_DEFAULT"
  BY <1>2, <1>3, Repair2
<1>8. Ends(2, "SS_BREAK", <<20, BREAK, 119>>)
  BY <1>1, <1>2, <1>6, <1>7, EndsStep
<1>9. ASSUME NEW q \in States(2), Step(2, q, BREAK) = "SS_BREAK" PROVE Ends(2, q, <<BREAK, 20, BREAK, 119>>)
  BY <1>1, <1>8, <1>9, EndsStep
<1>10. Step(2, "SS_PAUSE_1", BREAK) = "SS_BREAK" /\ "SS_PAUSE_1" \in States(2)
  BY Prefix2 DEF AfterBreak, States, Pause2
<1>11. Always(2, <<PAUSE, BREAK, 20, BREAK, 119>>)
  <2>1. Ends(2, "SS_PAUSE_1", <<BREAK, 20, BREAK, 119>>)
    BY <1>9, <1>10
  <2> QED BY <1>1, <2>1, Prefix2, EndsStep DEF Always
<1> QED BY <1>1, <1>11, AlwaysStep

LEMMA Set2Repairs ==
  ASSUME NEW bytes \in Repairs(2), bytes \in Seq(Bytes)
  PROVE  Always(2, bytes)
<1>1. ASSUME NEW s \in Plain2, bytes = s.bytes, bytes \notin {<<c>> : c \in Torn2} PROVE Always(2, bytes)
  BY <1>1, PlainRepairs2
<1>2. ASSUME NEW s \in Ext2, bytes = s.bytes PROVE Always(2, bytes)
  BY <1>2, ExtDecodes DEF Always, Ends
<1>3. ASSUME NEW s \in Ext2, NEW t \in Ext2, bytes = Both(s, t).bytes PROVE Always(2, bytes)
  BY <1>3, BothDecode DEF Always, Ends
<1>4. ASSUME bytes = <<PAUSE, 20, 119, PAUSE, BREAK, 20, BREAK, 119>> PROVE Always(2, bytes)
  BY <1>4, PauseRepairs2
<1>5. \/ bytes \in {s.bytes : s \in Keys2} /\ bytes \notin {<<c>> : c \in Torn2}
      \/ bytes = <<PAUSE, 20, 119, PAUSE, BREAK, 20, BREAK, 119>>
  BY DEF Repairs, Repairs2
<1>6. CASE bytes \in {s.bytes : s \in Keys2} /\ bytes \notin {<<c>> : c \in Torn2}
  <2>1. PICK s \in Keys2 : bytes = s.bytes
    BY <1>6
  <2> QED BY <1>1, <1>2, <1>3, <1>6, <2>1 DEF Keys2
<1> QED BY <1>4, <1>5, <1>6

-----------------------------------------------------------------------------
LEMMA QuietIsEmpty ==
  ASSUME KInv, Quiet
  PROVE  OnTheWay = <<>>
<1>1. Contents = <<>> /\ Waiting = <<>> /\ wire = <<>>
  BY ContentsIsSeq DEF KInv, IInv, Quiet, Waiting
<1> QED BY <1>1 DEF OnTheWay, Stream

LEMMA DeliveredStrokes == KInv /\ Delivered => StrokesAreReported
<1> SUFFICES ASSUME KInv, Delivered, scancode_set = 2, "any" \notin lost
             PROVE  /\ \E n \in 0 .. Len(typed) : reported = SubSeq(typed, 1, n)
                    /\ Quiet => reported = typed
  BY DEF StrokesAreReported
<1>1. PICK e : Leads(2, seq_state, OnTheWay, "SS_DEFAULT", e) /\ typed = reported \o e
  BY DEF Delivered
<1>2. OnTheWay \in Seq(Bytes) /\ seq_state \in States(2) /\ reported \in Reported
  BY OnTheWayType DEF KInv, Undecoded
<1>3. PICK rest \in Reported : rest = e
  BY <1>1, <1>2, LeadsType
<1>4. \E n \in 0 .. Len(typed) : reported = SubSeq(typed, 1, n)
  <2>1. PICK done \in Reported : done = reported
    BY <1>2
  <2>2. /\ Len(done) \in 0 .. Len(done \o rest)
        /\ done = SubSeq(done \o rest, 1, Len(done))
    BY DEF Reported
  <2> QED BY <1>1, <1>3, <2>1, <2>2
<1>5. ASSUME Quiet PROVE reported = typed
  <2>1. e = <<>>
    BY <1>1, <1>2, <1>5, QuietIsEmpty, LeadsNowhere
  <2> QED BY <1>1, <1>2, <2>1, ReportedJoin
<1> QED BY <1>4, <1>5

(* Whatever plain and extended keys, print screen among them, go down and   *)
(* up, in whatever order and at whatever moments of the driver, poll_event  *)
(* returns in scan code set 2 exactly their events, in order and none twice *)
(* or missing, unless the ring overran.                                     *)
THEOREM StrokesCorrect ==
  ASSUME 2 \in DOMAIN Strokes => Strokes[2] \subseteq Keys2
  PROVE  KbSpec => []StrokesAreReported
<1>1. 2 \in DOMAIN Strokes => \A s \in Strokes[2] : Decodes(s)
  <2> SUFFICES ASSUME 2 \in DOMAIN Strokes, NEW s \in Strokes[2] PROVE Decodes(s)
    OBVIOUS
  <2>1. s \in Keys2 /\ s.bytes \in Seq(Bytes) /\ "SS_DEFAULT" \in States(2)
    BY KeyboardAssumption DEF States
  <2>2. CASE s \in Plain2
    BY <2>1, <2>2, PlainDecodes
  <2>3. CASE s \in Ext2
    BY <2>1, <2>3, ExtDecodes DEF Decodes
  <2>4. ASSUME NEW t \in Ext2, NEW u \in Ext2, s = Both(t, u) PROVE Decodes(s)
    BY <2>1, <2>4, BothDecode DEF Decodes
  <2> QED BY <2>1, <2>2, <2>3, <2>4 DEF Keys2
<1>2. Init => Delivered
  BY InitStream
<1>3. KInv /\ KInv' /\ Delivered /\ [KbNext]_vars => Delivered'
  BY <1>1, NextDelivered DEF KInv
<1> QED BY <1>2, <1>3, KInvInvariant, DeliveredStrokes, PTL DEF KbSpec

(* However many bytes were lost and whatever state they left the decoder    *)
(* in, any one of these strokes that arrives whole brings it back to its    *)
(* initial state.                                                           *)
THEOREM ResynchronisesCorrect ==
  ASSUME \A set \in DOMAIN Strokes : \A s \in Strokes[set] : s.bytes \in Repairs(set)
  PROVE  KbSpec => []Resynchronises
<1>1. \A set \in DOMAIN Strokes : \A s \in Strokes[set] : Settles(set, s)
  <2> SUFFICES ASSUME NEW set \in DOMAIN Strokes, NEW s \in Strokes[set] PROVE Settles(set, s)
    OBVIOUS
  <2>1. set \in {1, 2} /\ s.bytes \in Seq(Bytes) /\ s.bytes \in Repairs(set)
    BY KeyboardAssumption
  <2>2. Always(set, s.bytes)
    BY <2>1, Set1Repairs, Set2Repairs
  <2> QED BY <2>2 DEF Always, Ends, Settles
<1>2. Init => Settled
  BY InitStream
<1>3. KInv /\ KInv' /\ Settled /\ [KbNext]_vars => Settled'
  BY <1>1, NextSettled DEF KInv
<1>4. KInv /\ Settled => Resynchronises
  <2> SUFFICES ASSUME KInv, Settled, Quiet, "this" \notin lost PROVE seq_state = "SS_DEFAULT"
    BY DEF Resynchronises
  <2>1. PICK e : Leads(scancode_set, seq_state, <<>>, "SS_DEFAULT", e)
    BY QuietIsEmpty DEF Settled
  <2>2. seq_state \in States(scancode_set)
    BY DEF KInv, Undecoded
  <2> QED BY <2>1, <2>2, LeadsNowhere
<1> QED BY <1>2, <1>3, <1>4, KInvInvariant, PTL DEF KbSpec
=============================================================================
