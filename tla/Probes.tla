------------------------------- MODULE Probes -------------------------------
(***************************************************************************)
(* What the probe and remove functions of the drivers take and give back:  *)
(* memory, interrupt lines and their handlers, buffers and call-backs.  A  *)
(* driver is what it needs of its resources and of its parent, what it     *)
(* gives its children, and the steps of its probe, of "has_error" and of   *)
(* its remove function.  The list of the devices is Devices' subject; what *)
(* is said to the hardware and heard of it is that of I8042 and Ide.       *)
(***************************************************************************)
EXTENDS Integers, Sequences, SequencesExt, FiniteSets

CONSTANTS Plans,      \* what the boot code probes: sequences of roots' names
          Tables      \* what is written on disks: sequences of partitions

VARIABLES devs,       \* the devices in the order they were created
          frames,     \* the calls of probe and remove, innermost last
          chains,     \* line -> the devices whose handlers it runs
          masks,      \* the masked lines
          roots,      \* the probes the boot code still has to call
          twice,      \* devices whose data was freed when it was free
          boot        \* "on", "panic" or "cleanup"

probeVars == <<devs, frames, chains, masks, roots, twice, boot>>

-----------------------------------------------------------------------------
(* Resources and steps *)

Rsrc(type, base, limit) == [type |-> type, base |-> base, limit |-> limit]
Need(type, span, base) == [type |-> {type}, span |-> span, base |-> base]
Ports(n) == Need("IOPORT", {n}, Nat)
Line == Need("IRQ", {0}, Nat)
Bus == Need("BUS", {0}, Nat)
Drive == Need("BUS", {0}, 0 .. 1)
Anything == [type |-> {"IOPORT", "IRQ"}, span |-> Nat, base |-> Nat]
Accepts(needs, rsrc) ==
    /\ Len(needs) = Len(rsrc)
    /\ \A k \in DOMAIN needs :
         /\ rsrc[k].type \in needs[k].type /\ rsrc[k].base \in needs[k].base
         /\ rsrc[k].limit - rsrc[k].base \in needs[k].span

Step(op) == [op |-> op]
Steps(ops) == [k \in DOMAIN ops |-> Step(ops[k])]
\* A failure leads to has_error, or returns at once, or is passed over.
Talk(failing) == [op |-> "talk", failing |-> failing]
\* A child is needed, or its failure ignored, or it is the last one if it is found.
Probe(driver, rsrc, then) == [op |-> "probe", driver |-> driver, rsrc |-> rsrc, then |-> then]
Choose(lists) == [op |-> "choose", among |-> lists]
Start == Steps(<<"create", "alloc">>)
Handled == Start \o Steps(<<"mask", "handler">>)
Numbered(n) == <<Rsrc("BUS", n, n)>>

-----------------------------------------------------------------------------
(* The drivers *)

Driver(needs, of, gives, line, probe, error, remove) ==
    [needs |-> needs, of |-> of, gives |-> gives, line |-> line, probe |-> probe, error |-> error, remove |-> remove]
Frees == <<"free">>

debugout == Driver(<<Ports(0)>>, {}, {"char"}, 0, Start, Frees, Frees)
uart_isa == Driver(<<Ports(8), Anything>>, {}, {"char"}, 0, Start, Frees, Frees)
ieee1284_isa == Driver(<<Ports(2), Anything>>, {}, {"char"}, 0, Start \o <<Talk("never")>>, Frees, Frees)

rtc_isa ==
    Driver(<<Ports(1), Line>>, {}, {"rtc", "nvram"}, 2,
           Handled \o <<Talk("never"), Step("unmask")>>,
           <<"unmask", "unhandle", "free">>, <<"unhandle", "free">>)

\* The port is tested and enabled, the device reset and told to report.
ps2_mouse ==
    Driver(<<Bus, Line>>, {"ps2"}, {"hid"}, 2,
           Handled \o <<Talk("error"), Step("unmask")>>,
           <<"unmask", "unhandle", "free">>, <<"unhandle", "free">>)
\* Of a keyboard the second set of codes is wished for only.
ps2_keyboard ==
    Driver(<<Bus, Line>>, {"ps2"}, {"char", "hid"}, 2,
           Handled \o <<Talk("error"), Talk("never"), Step("unmask")>>,
           <<"unmask", "unhandle", "free">>, <<"unhandle", "free">>)
\* A self-test that fails is the one failure that returns at once.
i8042 ==
    Driver(<<Ports(0), Ports(0), Line, Line>>, {}, {"ps2"}, 0,
           Start \o <<Talk("error"), Talk("return"), Talk("error"),
                      Probe("ps2_mouse", <<Rsrc("BUS", 1, 1), Rsrc("IRQ", 44, 44)>>, "ignored"),
                      Probe("ps2_keyboard", <<Rsrc("BUS", 0, 0), Rsrc("IRQ", 33, 33)>>, "ignored")>>,
           <<"kids", "free">>, <<"kids", "free">>)

\* The controller is reset, which is taken to succeed, and has four drives.
fdc_isa ==
    Driver(<<Ports(7), Line, Need("DMA", {0}, Nat)>>, {}, {"fdc"}, 2,
           Handled \o <<Talk("never")>>
             \o [k \in 1 .. 4 |-> Probe("floppy", Numbered(k - 1), "needed")] \o Steps(<<"unmask">>),
           <<"unmask", "unhandle", "kids", "free">>, <<"unmask", "unhandle", "kids", "free">>)
floppy == Driver(<<Bus>>, {"fdc"}, {"block"}, 0, Start, Frees, Frees)

\* Each of two drives is absent, a disk or a CD drive; their failures are
\* passed over.
ide_isa ==
    LET drive(n) == {<<>>} \cup {<<Probe(d, Numbered(n), "ignored")>> : d \in {"ata", "atapi"}}
    IN Driver(<<Ports(7), Ports(1), Line>>, {}, {"ide"}, 3,
              Handled
                \o <<Choose({a \o b : a \in drive(0), b \in drive(1)}), Step("unmask")>>,
              <<"unmask", "unhandle", "kids", "free">>, <<"unmask", "unhandle", "kids", "free">>)
\* The first table of partitions that can be read is the last one tried.
ata ==
    Driver(<<Drive>>, {"ide"}, {"block"}, 0,
           Start \o <<Talk("error"), Probe("mbr", <<>>, "last"), Probe("gpt", <<>>, "last")>>, Frees, Frees)
\* A CD drive that cannot be identified leaves everything as it is.
atapi == Driver(<<Drive>>, {"ide"}, {"block"}, 0, Start \o <<Talk("return")>>, Frees, Frees)

Partitioned(list) == [k \in DOMAIN list |-> Probe("part", <<list[k]>>, "needed")]
mbr ==
    Driver(<<>>, {"block"}, {"block"}, 0,
           Start \o <<Choose({Partitioned(t) \o tail : t \in Tables, tail \in {<<>>, <<Talk("error")>>}})>>,
           <<"kids", "free">>, <<"kids", "free">>)
gpt ==
    Driver(<<>>, {"block"}, {"block"}, 0, Start \o <<Talk("error"), Choose({Partitioned(t) : t \in Tables})>>,
           <<"kids", "free">>, <<"kids", "free">>)
part == Driver(<<Need("LBA", Nat, Nat)>>, {"block"}, {"block"}, 0, Start, Frees, Frees)

\* With a VBE the list of modes is asked for again, and a failure returns at
\* once; without one there is a text mode in any case.
vga ==
    Driver(<<>>, {}, {"framebuffer", "console", "video"}, 0,
           Start \o <<Choose({<<>>, <<Talk("return"), Talk("error")>>}), Step("buffers")>>,
           Frees, <<"unbuffer", "free">>)
vconsole ==
    Driver(<<>>, {"video", "framebuffer"}, {"console"}, 0,
           Start \o <<Talk("error"), Step("buffers"), Step("hook")>>, Frees, <<"unbuffer", "unhook", "free">>)
ansiterm == Driver(<<>>, {"console"}, {"char", "wchar"}, 0, Start \o <<Talk("never")>>, Frees, Frees)

DriverOf ==
    [debugout |-> debugout, uart_isa |-> uart_isa, ieee1284_isa |-> ieee1284_isa, rtc_isa |-> rtc_isa,
     ps2_mouse |-> ps2_mouse, ps2_keyboard |-> ps2_keyboard, i8042 |-> i8042, fdc_isa |-> fdc_isa, floppy |-> floppy,
     ide_isa |-> ide_isa, ata |-> ata, atapi |-> atapi, mbr |-> mbr, gpt |-> gpt, part |-> part, vga |-> vga,
     vconsole |-> vconsole, ansiterm |-> ansiterm]

-----------------------------------------------------------------------------
(* What the boot code calls *)

Root(driver, under, rsrc) == [driver |-> driver, under |-> under, rsrc |-> rsrc]
Port(base, limit) == Rsrc("IOPORT", base, limit)
Irq(line) == Rsrc("IRQ", line, line)

debug_root == Root("debugout", "none", <<Port(233, 233)>>)
ps2_root == Root("i8042", "none", <<Port(96, 96), Port(100, 100), Irq(33), Irq(44)>>)
rtc_root == Root("rtc_isa", "none", <<Port(112, 113), Irq(40)>>)
\* The BIOS tells where the serial and the parallel ports are.
serial_root == Root("uart_isa", "none", <<Port(1016, 1024), Irq(36)>>)
parallel_root == Root("ieee1284_isa", "none", <<Port(888, 890), Irq(39)>>)
floppy_root == Root("fdc_isa", "none", <<Port(1008, 1015), Irq(38), Rsrc("DMA", 0, 0)>>)
first_ide_root == Root("ide_isa", "none", <<Port(496, 503), Port(1014, 1015), Irq(46)>>)
second_ide_root == Root("ide_isa", "none", <<Port(368, 375), Port(886, 887), Irq(47)>>)
vga_root == Root("vga", "none", <<>>)
\* main probes the console and the terminal under what it finds by name.
console_root == Root("vconsole", "vga", <<>>)
tty_root == Root("ansiterm", "vconsole", <<>>)

RootOf ==
    [debug |-> debug_root, ps2 |-> ps2_root, rtc |-> rtc_root, serial |-> serial_root, parallel |-> parallel_root,
     floppy |-> floppy_root, ide0 |-> first_ide_root, ide1 |-> second_ide_root, vga |-> vga_root,
     console |-> console_root, tty |-> tty_root]

-----------------------------------------------------------------------------
(* Probing *)

Null == 0
Device(driver, parent) ==
    [driver |-> driver, parent |-> parent, state |-> "probed", data |-> "none", line |-> Null, isr |-> FALSE,
     buffers |-> FALSE, hooked |-> FALSE]
Frame(driver, parent, rsrc) ==
    [call |-> "probe", driver |-> driver, parent |-> parent, rsrc |-> rsrc, dev |-> Null, todo |-> DriverOf[driver].probe]
Removal(dev) ==
    [call |-> "remove", driver |-> devs[dev].driver, dev |-> dev, todo |-> Steps(DriverOf[devs[dev].driver].remove)]

Init ==
    /\ devs = <<>> /\ frames = <<>> /\ twice = {} /\ boot = "on"
    /\ masks = {} /\ chains = [l \in {33, 38, 40, 44, 46, 47} |-> <<>>]
    /\ roots \in Plans

Top == Last(frames)
Now == Head(Top.todo)
Dev == devs[Top.dev]
LineOf(frame) == LET k == DriverOf[frame.driver].line IN IF k = 0 THEN Null ELSE frame.rsrc[k].base

Goes(frame) == frames' = [frames EXCEPT ![Len(frames)] = frame]
GoesOn == Goes([Top EXCEPT !.todo = Tail(@)])
Fails == Goes([Top EXCEPT !.call = "error", !.todo = Steps(DriverOf[Top.driver].error)])
At(call, op) == frames # <<>> /\ Top.call = call /\ Top.todo # <<>> /\ Now.op = op

\* A probe is over, for its caller and for the boot code.
Ends(ok) ==
    LET caller == Last(Front(frames))
        step == Head(caller.todo)
    IN /\ devs' = IF Top.dev = Null THEN devs ELSE [devs EXCEPT ![Top.dev].state = IF ok THEN "found" ELSE "failed"]
       /\ IF Len(frames) = 1
          THEN /\ frames' = <<>> /\ roots' = Tail(roots)
               /\ boot' = IF ok \/ Top.driver = "ide_isa" THEN boot ELSE "panic"
          ELSE /\ frames' = Append(Front(Front(frames)),
                     IF ok /\ step.then = "last" THEN [caller EXCEPT !.todo = <<>>]
                     ELSE IF ok \/ step.then # "needed" THEN [caller EXCEPT !.todo = Tail(@)]
                     ELSE [caller EXCEPT !.call = "error", !.todo = Steps(DriverOf[caller.driver].error)])
               /\ UNCHANGED <<roots, boot>>

\* The boot code calls a probe; main's find their parents by name.
init_nonpnp_devices ==
    /\ boot = "on" /\ frames = <<>> /\ roots # <<>>
    /\ LET r == RootOf[Head(roots)]
           parents == {d \in DOMAIN devs : devs[d].driver = r.under}
           parent == IF parents = {} THEN Null ELSE CHOOSE d \in parents : TRUE
       IN frames' = <<Frame(r.driver, parent, r.rsrc)>>
    /\ UNCHANGED <<devs, chains, masks, roots, twice, boot>>

\* Resources, or a parent, that do not suit are refused.
Suits ==
    LET d == DriverOf[Top.driver]
    IN /\ Accepts(d.needs, Top.rsrc)
       /\ d.of # {} => Top.parent # Null /\ d.of \subseteq DriverOf[devs[Top.parent].driver].gives

create ==
    /\ At("probe", "create") /\ Suits
    /\ devs' = Append(devs, Device(Top.driver, Top.parent))
    /\ Goes([Top EXCEPT !.dev = Len(devs) + 1, !.todo = Tail(@)])
    /\ UNCHANGED <<chains, masks, roots, twice, boot>>
refuse ==
    /\ At("probe", "create") /\ ~Suits
    /\ Ends(FALSE) /\ UNCHANGED <<chains, masks, twice>>

\* Memory, a handler, an answer of the hardware: there or not.
alloc ==
    /\ At("probe", "alloc") /\ GoesOn
    /\ devs' = [devs EXCEPT ![Top.dev].data = "live", ![Top.dev].line = LineOf(Top)]
    /\ UNCHANGED <<chains, masks, roots, twice, boot>>
AddHandler ==
    /\ At("probe", "handler") /\ GoesOn
    /\ devs' = [devs EXCEPT ![Top.dev].isr = TRUE]
    /\ chains' = [chains EXCEPT ![Dev.line] = Append(@, Top.dev)]
    /\ UNCHANGED <<masks, roots, twice, boot>>
talk ==
    /\ At("probe", "talk") /\ GoesOn
    /\ UNCHANGED <<devs, chains, masks, roots, twice, boot>>
fail ==
    /\ frames # <<>> /\ Top.call = "probe" /\ Top.todo # <<>>
    /\ (Now.op = "create" /\ Suits) \/ Now.op \in {"alloc", "handler"} \/ (Now.op = "talk" /\ Now.failing = "error")
    /\ Fails /\ UNCHANGED <<devs, chains, masks, roots, twice, boot>>
give_up_at_once ==
    /\ At("probe", "talk") /\ Now.failing = "return"
    /\ Ends(FALSE) /\ UNCHANGED <<chains, masks, twice>>

\* Cells, pixels and what has changed; without memory for them the driver
\* panics.  The console has none on a text mode.
buffers ==
    /\ At("probe", "buffers") /\ GoesOn
    /\ \E made \in BOOLEAN :
         /\ ~made => Top.driver = "vconsole"
         /\ devs' = [devs EXCEPT ![Top.dev].buffers = made]
    /\ boot' \in {boot, "panic"} /\ UNCHANGED <<chains, masks, roots, twice>>
\* The call-back is not there when memory is short, which is ignored.
add_mode_callback ==
    /\ At("probe", "hook") /\ GoesOn
    /\ \E made \in BOOLEAN : devs' = [devs EXCEPT ![Top.dev].hooked = made]
    /\ UNCHANGED <<chains, masks, roots, twice, boot>>

Mask ==
    /\ At("probe", "mask") /\ GoesOn
    /\ masks' = masks \cup {Dev.line} /\ UNCHANGED <<devs, chains, roots, twice, boot>>
\* has_error unmasks the line whether it was masked or not.
Unmask ==
    /\ frames # <<>> /\ Top.todo # <<>> /\ Now.op = "unmask" /\ GoesOn
    /\ masks' = masks \ {IF Top.call = "remove" THEN Dev.line ELSE LineOf(Top)}
    /\ UNCHANGED <<devs, chains, roots, twice, boot>>

choose ==
    /\ At("probe", "choose")
    /\ \E steps \in Now.among : Goes([Top EXCEPT !.todo = steps \o Tail(@)])
    /\ UNCHANGED <<devs, chains, masks, roots, twice, boot>>
probe ==
    /\ At("probe", "probe")
    /\ frames' = Append(frames, Frame(Now.driver, Top.dev, Now.rsrc))
    /\ UNCHANGED <<devs, chains, masks, roots, twice, boot>>
succeed ==
    /\ frames # <<>> /\ Top.call = "probe" /\ Top.todo = <<>>
    /\ Ends(TRUE) /\ UNCHANGED <<chains, masks, twice>>

-----------------------------------------------------------------------------
(* Giving back *)

Undo(op) == frames # <<>> /\ Top.call \in {"error", "remove"} /\ Top.todo # <<>> /\ Now.op = op

\* VlIntP_RemoveHandler leaves the first handler of a line where it is.
RemoveHandler ==
    /\ Undo("unhandle") /\ GoesOn
    /\ chains' = IF Top.dev = Null \/ ~Dev.isr \/ Head(chains[Dev.line]) = Top.dev THEN chains
                 ELSE [chains EXCEPT ![Dev.line] = SelectSeq(@, LAMBDA d : d # Top.dev)]
    /\ UNCHANGED <<devs, masks, roots, twice, boot>>

\* The children of a device: those that failed, too, when the list kept them.
Kids(kept) == {d \in DOMAIN devs : devs[d].parent = Top.dev /\ (devs[d].state = "found" \/ d \in kept)}
remove_children ==
    /\ Undo("kids")
    /\ \E kept \in SUBSET {d \in DOMAIN devs : devs[d].state = "failed"} :
         /\ kept \subseteq Kids(kept)
         /\ LET kids == IF Top.dev = Null THEN <<>> ELSE SetToSortSeq(Kids(kept), LAMBDA a, b : a > b)
            IN frames' = Append(Front(frames), [Top EXCEPT !.todo = Tail(@)]) \o [k \in DOMAIN kids |-> Removal(kids[k])]
    /\ UNCHANGED <<devs, chains, masks, roots, twice, boot>>

free ==
    /\ Undo("free") /\ GoesOn
    /\ IF Top.dev = Null \/ Dev.data = "none" THEN UNCHANGED <<devs, twice>>
       ELSE /\ twice' = IF Dev.data = "freed" THEN twice \cup {Top.dev} ELSE twice
            /\ devs' = [devs EXCEPT ![Top.dev].data = "freed"]
    /\ UNCHANGED <<chains, masks, roots, boot>>
free_buffers ==
    /\ Undo("unbuffer") /\ GoesOn
    /\ devs' = [devs EXCEPT ![Top.dev].buffers = FALSE]
    /\ UNCHANGED <<chains, masks, roots, twice, boot>>
\* The console never learnt the number of its call-back: nothing is removed.
remove_mode_callback ==
    /\ Undo("unhook") /\ GoesOn
    /\ UNCHANGED <<devs, chains, masks, roots, twice, boot>>

gave_up ==
    /\ frames # <<>> /\ Top.call = "error" /\ Top.todo = <<>>
    /\ Ends(FALSE) /\ UNCHANGED <<chains, masks, twice>>
removed ==
    /\ frames # <<>> /\ Top.call = "remove" /\ Top.todo = <<>>
    /\ frames' = Front(frames) /\ devs' = [devs EXCEPT ![Top.dev].state = "removed"]
    /\ UNCHANGED <<chains, masks, roots, twice, boot>>

\* The devices without a parent are removed, the first one first; one whose
\* probe failed, too, when the list kept it.
Vl_Cleanup ==
    /\ boot = "on" /\ frames = <<>> /\ roots = <<>> /\ boot' = "cleanup"
    /\ \E kept \in SUBSET {d \in DOMAIN devs : devs[d].state = "failed"} :
         LET all == SetToSortSeq({d \in DOMAIN devs : devs[d].parent = Null /\ (devs[d].state = "found" \/ d \in kept)},
                                 LAMBDA a, b : a > b)
         IN frames' = [k \in DOMAIN all |-> Removal(all[k])]
    /\ UNCHANGED <<devs, chains, masks, roots, twice>>

Next ==
    /\ boot # "panic"
    /\ \/ init_nonpnp_devices \/ create \/ refuse \/ alloc \/ AddHandler \/ talk \/ fail \/ give_up_at_once
       \/ buffers \/ add_mode_callback \/ Mask \/ Unmask \/ choose \/ probe \/ succeed
       \/ RemoveHandler \/ remove_children \/ free \/ free_buffers \/ remove_mode_callback \/ gave_up \/ removed
       \/ Vl_Cleanup

-----------------------------------------------------------------------------
Gone(d) == devs[d].state \in {"failed", "removed"}
\* The failure of an identification or a self-test gives nothing back.
Careless == {"i8042", "atapi", "vga"}
\* Removing these leaves their children where they are.
Forgetful == {"vga", "vconsole", "ata"}

(* While no probe is at work, what has memory is a device that was found and*)
(* was not removed with its parent, but for the drivers that are named above,*)
(* no device that is gone has buffers, and no line is masked.  While a probe*)
(* is at work its own handler does not run, which would take the bytes it   *)
(* waits for.  Memory is freed twice only when a child whose probe had failed*)
(* is removed with its parent.                                              *)
ProbesGiveBack ==
    /\ frames = <<>> /\ boot # "panic" =>
         /\ \A d \in DOMAIN devs :
              /\ Gone(d) => ~devs[d].buffers
              /\ devs[d].data = "live" => devs[d].state = "found" \/ devs[d].driver \in Careless
              /\ devs[d].state = "found" =>
                   /\ devs[d].data = "live"
                   /\ devs[d].parent # Null /\ Gone(devs[d].parent) => devs[devs[d].parent].driver \in Forgetful
         /\ masks = {}
    /\ \A k \in DOMAIN frames :
         LET f == frames[k]
         IN f.call = "probe" /\ f.todo # <<>> /\ f.dev # Null /\ devs[f.dev].isr =>
              devs[f.dev].line \in masks \/ Head(f.todo).op = "unmask"
    /\ boot # "cleanup" => twice = {}
=============================================================================
