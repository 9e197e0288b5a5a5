------------------------------- MODULE I8042 -------------------------------
(***************************************************************************)
(* The probe of the PS/2 controller (device/hid/i8042.c) and, inside of    *)
(* it, those of the mouse and of the keyboard (ps2_mouse.c,                *)
(* ps2_keyboard.c), as far as they talk to the controller.  Controller and *)
(* devices are external: one byte at a time waits for the controller, and  *)
(* one in the output buffer that everybody shares, answers as well as what *)
(* the devices send.  Every wait may run out; the answer comes later then. *)
(***************************************************************************)
EXTENDS Integers, Sequences, SequencesExt, FiniteSets

CONSTANTS Garbage,    \* configurations that a byte of a device may stand for
          MaxLate,    \* waits that run out before the answer comes: a bound
          MaxMoves    \* bytes the devices send on their own: a bound

VARIABLES ctl,        \* what waits for the controller, its configuration, what comes next
          out,        \* the output buffer, and whom the byte is from
          dev,        \* what each device is about to send; is it there, does it report
          drv,        \* the probe: where it is, the byte it took, what it received
          masked,     \* the ports whose interrupts are masked
          taken,      \* by the handler of each port
          late, moves

i8042Vars == <<ctl, out, dev, drv, masked, taken, late, moves>>

Ports == {0, 1}
Own == 2                \* where a byte is from that is no device's
\* What is in the output buffer: a byte of a device or of the controller's, or
\* its configuration, the bits that are set.
Nothing == <<"nothing">>
Byte(b) == <<b>>
Configuration(bits) == <<"configuration", bits>>
Off(p) == <<"off", p>>
Irq(p) == <<"irq", p>>
Translate == <<"translate", 0>>
Bits == {Off(p) : p \in Ports} \cup {Irq(p) : p \in Ports} \cup {Translate}

-----------------------------------------------------------------------------
(* The calls of the driver, step by step: wait until the controller has     *)
(* taken what it was sent, wait for a byte, send a command or a byte, take  *)
(* a byte.                                                                  *)

Step(do, arg) == <<[do |-> do, arg |-> arg]>>
WaitIn == Step("wait in", 0)
Receive == Step("wait out", 0) \o Step("take", 0)
Command(c, p) == WaitIn \o Step("command", <<c, p>>)
Unasked(c, p) == Step("command", <<c, p>>)

\* A slip to compare with: what is in the output buffer is taken at once.
ReadAtOnce == Command("read", 0) \o Step("take", 0)
read_ccb == Command("read", 0) \o Receive
\* The byte that was taken is written, with some bits set and some cleared.
write_ccb(set, clear) == Command("write", 0) \o WaitIn \o Step("configure", <<set, clear>>)

enable_port(p) == Command("enable", p) \o read_ccb \o write_ccb({Irq(p)}, {})
disable_port(p) == Command("disable", p) \o read_ccb \o write_ccb({}, {Irq(p)})
test_port(p) == Command("test", p) \o Receive \o Step("expect", "fine")
send_data(p, b) == (IF p = 1 THEN Command("to mouse", p) ELSE <<>>) \o WaitIn \o Step("data", b)
recv_data(answers) == FlattenSeq([i \in 1 .. Len(answers) |-> Receive \o Step("keep", 0)])
                      \o Step("compare", answers)

Quiet == read_ccb \o write_ccb({}, {Irq(0), Irq(1), Translate})

Phases == {"controller", "mouse", "keyboard", "set 2"}
Program == [phase \in Phases |->
    CASE phase = "controller" ->
           disable_port(0) \o disable_port(1) \o Step("take", 0) \o Quiet
           \o Unasked("self test", 0) \o Receive \o Step("expect", "passed") \o Quiet
      [] phase = "mouse" ->
           Step("mask", 1) \o test_port(1) \o enable_port(1)
           \o send_data(1, "reset") \o recv_data(<<"ack", "passed", "id">>)
           \o send_data(1, "report") \o recv_data(<<"ack">>)
      [] phase = "keyboard" ->
           Step("mask", 0) \o test_port(0) \o enable_port(0)
           \o send_data(0, "reset") \o recv_data(<<"ack", "passed">>)
      \* Two bytes, each of which is answered, and one answer that is waited for.
      [] phase = "set 2" -> send_data(0, "set") \o send_data(0, "two") \o recv_data(<<"ack">>)]

\* A port is unmasked whether its probe succeeds or not.
Enters(phase) == [drv EXCEPT !.phase = phase, !.pc = 1, !.got = <<>>]
Ends(ok) ==
    CASE drv.phase = "controller" ->
           drv' = Enters(IF ok THEN "mouse" ELSE "failed") /\ UNCHANGED masked
      [] drv.phase = "mouse" ->
           /\ drv' = [Enters("keyboard") EXCEPT !.mouse = ok] /\ masked' = masked \ {1}
      [] drv.phase = "keyboard" ->
           /\ drv' = Enters(IF ok THEN "set 2" ELSE "done")
           /\ masked' = IF ok THEN masked ELSE masked \ {0}
      [] drv.phase = "set 2" ->
           /\ drv' = [Enters("done") EXCEPT !.set2 = ok] /\ masked' = masked \ {0}

Init ==
    /\ ctl = [in |-> Nothing, next |-> "keyboard", ccb |-> {Irq(0), Translate}]
    /\ out = [byte |-> Nothing, from |-> Own, last |-> Nothing]
    /\ \E there \in SUBSET Ports :
          dev = [p \in Ports |-> [there |-> p \in there, reports |-> p = 0 /\ p \in there, sends |-> <<>>]]
    /\ drv = [phase |-> "controller", pc |-> 1, byte |-> Nothing, got |-> <<>>, mouse |-> FALSE, set2 |-> FALSE]
    /\ masked = {} /\ taken = [p \in Ports |-> <<>>] /\ late = 0 /\ moves = 0

Running == drv.phase \in Phases
\* The step the driver is at; behind the last one it returns.
Now == (Program[drv.phase] \o Step("return", 0))[drv.pc]
Advance(d) == drv' = [d EXCEPT !.pc = @ + 1]
OnlyDriver == UNCHANGED <<ctl, out, dev, taken, late, moves>>

wait_for_status_register(now) ==
    /\ \/ now.do = "wait in" /\ ctl.in = Nothing
       \/ now.do = "wait out" /\ out.byte # Nothing
    /\ Advance(drv) /\ UNCHANGED masked /\ OnlyDriver

\* The ticks that are waited run out, and with them the call: because nothing
\* comes, or because it comes later.
Answered == {"read", "test", "self test"}
ControllerActs ==
    ctl.in # Nothing /\ (ctl.in[1] = "command" /\ ctl.in[2][1] \in Answered => out.byte = Nothing)
DeviceSends(p) == dev[p].sends # <<>> /\ out.byte = Nothing /\ Off(p) \notin ctl.ccb
HandlerTakes(p) == out.from = p /\ Irq(p) \in ctl.ccb /\ p \notin masked /\ drv.phase # "controller"
Coming == ControllerActs \/ \E p \in Ports : DeviceSends(p) \/ HandlerTakes(p)
wait_times_out(now) ==
    /\ \/ now.do = "wait in" /\ ctl.in # Nothing
       \/ now.do = "wait out" /\ out.byte = Nothing
    /\ late' = IF Coming THEN late + 1 ELSE late
    /\ late' <= MaxLate
    /\ Ends(FALSE) /\ UNCHANGED <<ctl, out, dev, taken, moves>>

send(now) ==
    /\ now.do \in {"command", "data", "configure"}
    /\ \E ccb \in IF drv.byte[1] = "configuration" THEN {drv.byte[2]} ELSE Garbage :
         ctl' = [ctl EXCEPT !.in =
                   <<now.do, IF now.do = "configure" THEN (ccb \cup now.arg[1]) \ now.arg[2] ELSE now.arg>>]
    /\ Advance(drv) /\ UNCHANGED <<out, dev, masked, taken, late, moves>>

\* Reading an empty buffer has the byte it had last.
take(now) ==
    /\ now.do = "take"
    /\ Advance([drv EXCEPT !.byte = IF out.byte = Nothing THEN out.last ELSE out.byte])
    /\ out' = [byte |-> Nothing, from |-> Own, last |-> IF out.byte = Nothing THEN out.last ELSE out.byte]
    /\ UNCHANGED <<ctl, dev, masked, taken, late, moves>>

keep(now) == now.do = "keep" /\ Advance([drv EXCEPT !.got = Append(@, drv.byte)]) /\ UNCHANGED masked /\ OnlyDriver
mask(now) == now.do = "mask" /\ Advance(drv) /\ masked' = masked \cup {now.arg} /\ OnlyDriver

\* The last byte a mouse answers with is its kind, whichever.
check(now) ==
    LET right == IF now.do = "expect" THEN drv.byte = Byte(now.arg)
                 ELSE \A i \in 1 .. Len(now.arg) : now.arg[i] = "id" \/ drv.got[i] = Byte(now.arg[i])
    IN /\ now.do \in {"expect", "compare"} /\ OnlyDriver
       /\ IF right THEN Advance([drv EXCEPT !.got = <<>>]) /\ UNCHANGED masked ELSE Ends(FALSE)

finish(now) == now.do = "return" /\ Ends(TRUE) /\ OnlyDriver

-----------------------------------------------------------------------------
(* The controller, the devices and the interrupt handlers *)

Answer(byte) == out' = [out EXCEPT !.byte = byte, !.from = Own]
NoAnswer == UNCHANGED out
Sends(p, bytes) == dev' = [dev EXCEPT ![p].sends = IF dev[p].there THEN @ \o bytes ELSE @,
                                      ![p].reports = dev[p].there /\ (@ \/ bytes = <<"ack">>)]

\* An answer waits until there is room for it.
controller_command ==
    LET c == ctl.in[2][1]
        p == ctl.in[2][2]
    IN /\ ControllerActs /\ ctl.in[1] = "command"
       /\ CASE c = "read" -> Answer(Configuration(ctl.ccb)) [] c = "test" -> Answer(Byte("fine"))
            [] c = "self test" -> Answer(Byte("passed")) [] OTHER -> NoAnswer
       /\ ctl' = [ctl EXCEPT !.in = Nothing,
                    !.next = IF c = "write" THEN "configuration" ELSE IF c = "to mouse" THEN "mouse" ELSE "keyboard",
                    !.ccb = IF c = "enable" THEN @ \ {Off(p)} ELSE IF c = "disable" THEN @ \cup {Off(p)} ELSE @]
       /\ UNCHANGED <<dev, drv, masked, taken, late, moves>>

\* A byte goes to what the command before it says, or else to the keyboard.
controller_byte ==
    LET to == IF ctl.next = "mouse" THEN 1 ELSE 0
        configures == ctl.next = "configuration"
        resets == ctl.in[1] = "data" /\ ctl.in[2] = "reset"
    IN /\ ctl.in[1] \in {"data", "configure"}
       /\ ctl' = [ctl EXCEPT !.in = Nothing, !.next = "keyboard",
                    !.ccb = IF configures THEN ctl.in[2] ELSE @]
       /\ IF configures THEN UNCHANGED dev
          ELSE Sends(to, IF resets THEN <<"ack", "passed">> \o (IF to = 1 THEN <<"id">> ELSE <<>>) ELSE <<"ack">>)
       /\ UNCHANGED <<out, drv, masked, taken, late, moves>>

device_sends ==
    \E p \in Ports :
        /\ DeviceSends(p)
        /\ out' = [out EXCEPT !.byte = Byte(Head(dev[p].sends)), !.from = p]
        /\ dev' = [dev EXCEPT ![p].sends = Tail(@)]
        /\ UNCHANGED <<ctl, drv, masked, taken, late, moves>>

device_moves ==
    \E p \in Ports :
        /\ dev[p].reports /\ moves < MaxMoves /\ moves' = moves + 1
        /\ dev' = [dev EXCEPT ![p].sends = Append(@, "move")]
        /\ UNCHANGED <<ctl, out, drv, masked, taken, late>>

irq_get_byte ==
    \E p \in Ports :
        /\ HandlerTakes(p)
        /\ taken' = [taken EXCEPT ![p] = Append(@, out.byte)]
        /\ out' = [byte |-> Nothing, from |-> Own, last |-> out.byte]
        /\ UNCHANGED <<ctl, dev, drv, masked, late, moves>>

Driver ==
    Running /\ LET now == Now
               IN \/ wait_for_status_register(now) \/ wait_times_out(now) \/ send(now) \/ take(now)
                  \/ keep(now) \/ mask(now) \/ check(now) \/ finish(now)
External == controller_command \/ controller_byte \/ device_sends \/ irq_get_byte
Next == Driver \/ External \/ device_moves

-----------------------------------------------------------------------------
(* Where no device sends on its own and no wait runs out before its answer, *)
(* the probes find what is there, and the configuration in the end is the   *)
(* one they wrote: no translation, and the interrupts of both ports.  The   *)
(* second acknowledgement of the keyboard is taken for a key.               *)
Undisturbed == moves = 0 /\ late = 0
ProbesAreRight ==
    /\ drv.phase \in {"done", "failed"} => masked = {}
    /\ Undisturbed /\ drv.phase = "done" =>
           /\ ctl.ccb = {Irq(0), Irq(1)}
           /\ drv.mouse = dev[1].there /\ drv.set2 = dev[0].there
           /\ IsPrefix(taken[0], <<Byte("ack")>>) /\ taken[1] = <<>>
=============================================================================
