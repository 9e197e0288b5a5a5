------------------------------- MODULE Devices -------------------------------
(* The device registry (device/device.c) under the probes that fill it at    *)
(* boot: init_nonpnp_devices of init.c, setup_tty of main.c, and the drivers *)
(* with children (i8042, fdc_isa, ide_isa, ata, mbr, gpt).                   *)
(*                                                                           *)
(* The registry is a list threaded through the device structures, with a     *)
(* second list of children under each device.  A probe creates its device,   *)
(* names it, talks to the hardware, probes children, and takes the device    *)
(* out again when something went wrong.  "mem" is what the memory of a       *)
(* structure holds, also after free: the code reads pointers there.          *)
EXTENDS Naturals, Sequences, FiniteSets, SequencesExt, FiniteSetsExt

CONSTANTS Addr,      \* where the heap can put a device structure
          Machines,  \* what a machine and the build of the program have
          Floppies,  \* drives of the floppy controller (4 in the code)
          Channels,  \* IDE channels (2 in the code)
          Drives,    \* drives on a channel (at most 2)
          MaxParts   \* partitions of a disk

ASSUME AddrAssumption == Addr \subseteq Nat \ {0} /\ IsFiniteSet(Addr)
ASSUME MachineAssumption ==
    Machines \subseteq [debug: 0..1, ps2: 0..1, rtc: 0..1, legacy: 0..1,
                        serial: 0..4, parallel: 0..3]
ASSUME SizeAssumption == {Floppies, Channels, Drives, MaxParts} \subseteq Nat

Null == 0

Blank == [parent |-> Null, first_child |-> Null, sibling |-> Null,
          driver |-> "none", name |-> <<>>, data |-> "none"]

VARIABLES
    mem,       \* contents of the device structures, freed ones included
    heap,      \* the structures that are allocated
    list,      \* the list that starts at device_list_head
    stack,     \* the probes in progress, innermost last
    plan,      \* the probes the boot code still has to call
    stage,     \* "boot", "running" (main started) or "panic"
    detected   \* the devices whose probe succeeded

vars == <<mem, heap, list, stack, plan, stage, detected>>

------------------------------------------------------------------------------
(* device.c *)

\* calloc takes a block that was freed, or the lowest one never used: the
\* others never used differ only by their address.
FreeAddr ==
    LET unused == {a \in Addr \ heap : mem[a] = Blank}
    IN  {a \in Addr \ heap : mem[a] # Blank} \cup
            {a \in unused : \A b \in unused : a <= b}

\* The walk of VlDev_Create over the children: where it stops.
LastSibling(m, first) ==
    LET next == [a \in Addr |-> IF m[a].sibling = Null THEN a ELSE m[a].sibling]
        at[k \in 0..Cardinality(Addr)] ==
            IF k = 0 THEN first ELSE next[at[k - 1]]
    IN  at[Cardinality(Addr)]

Adopt(m, dev, parent) ==
    IF m[parent].first_child = Null
    THEN [m EXCEPT ![parent].first_child = dev]
    ELSE [m EXCEPT ![LastSibling(m, m[parent].first_child)].sibling = dev]

Created(dev, driver, parent) ==
    [mem EXCEPT ![dev] = [Blank EXCEPT !.parent = parent, !.driver = driver]]

\* Were the children chained in a circle, the walk would not end.
WalkEnds(m, parent) ==
    parent # Null /\ m[parent].first_child # Null =>
        m[LastSibling(m, m[parent].first_child)].sibling = Null

VlDev_Create(dev, driver, parent) ==
    LET m == Created(dev, driver, parent)
    IN  IF parent = Null THEN m ELSE Adopt(m, dev, parent)

\* A slip to compare with: the new device gets the largest number itself.
ReusesName(base) ==
    LET named == {a \in ToSet(list) :
                    mem[a].name # <<>> /\ Front(mem[a].name) = base}
    IN  Append(base, IF named = {} THEN 0
                     ELSE Max({Last(mem[a].name) : a \in named}))

\* One more than the largest number behind this base name.
VlDev_GenerateName(base) ==
    LET named == {a \in ToSet(list) :
                    mem[a].name # <<>> /\ Front(mem[a].name) = base}
    IN  Append(base, IF named = {} THEN 0
                     ELSE 1 + Max({Last(mem[a].name) : a \in named}))

VlDev_Find(name) ==
    LET found == {i \in 1..Len(list) : mem[list[i]].name = name}
    IN  IF found = {} THEN Null ELSE list[Min(found)]

\* The loop of VlDev_Remove looks at list[1], list[2] ... for the predecessor
\* of dev in both lists, and ends early once it has what dev seems to need.
Scanned(m, dev) ==
    LET preds(i) == \E j \in 1..i : list[j + 1] = dev
        elders(i) == \E j \in 1..i : m[list[j]].sibling = dev
        isLast == Last(list) = dev
        enough(i) == (isLast \/ preds(i)) /\ (m[dev].sibling = Null \/ elders(i))
    IN  {i \in 1..(Len(list) - 1) : \A j \in 1..(i - 1) : ~enough(j)}

\* Slips to compare with: the memory is freed whether or not the device was
\* taken out of the list; the predecessor is taken out in its place.
FreesAnyway(m, dev) ==
    LET prev == {i \in Scanned(m, dev) : list[i + 1] = dev}
    IN  [mem |-> m, heap |-> heap \ {dev},
         list |-> IF prev = {} THEN list ELSE RemoveAt(list, Min(prev) + 1)]
DropsPrev(m, dev) ==
    LET prev == {i \in Scanned(m, dev) : list[i + 1] = dev}
    IN  [mem |-> m, heap |-> heap,
         list |-> IF prev = {} THEN list ELSE RemoveAt(list, Min(prev))]

\* The registry after VlDev_Remove(dev).  The head is taken out but not freed;
\* a device whose predecessor was not seen is neither taken out nor freed.
VlDev_Remove(m, dev) ==
    LET prev == {i \in Scanned(m, dev) : list[i + 1] = dev}
        at == CHOOSE i \in prev : TRUE
        elder == {i \in Scanned(m, dev) : m[list[i]].sibling = dev}
    IN  IF prev = {}
        THEN [mem |-> m, heap |-> heap,
              list |-> IF list # <<>> /\ Head(list) = dev THEN Tail(list) ELSE list]
        ELSE [mem |-> IF elder = {} THEN m
                      ELSE [m EXCEPT ![list[Max(elder)]].sibling = m[dev].sibling],
              heap |-> heap \ {dev},
              list |-> RemoveAt(list, at + 1)]

------------------------------------------------------------------------------
(* The probes *)

BaseName(driver, parent) ==
    CASE driver = "debugout"     -> <<"dbg">>
      [] driver = "i8042"        -> <<"ps2c">>
      [] driver = "ps2_mouse"    -> <<"mouse">>
      [] driver = "ps2_keyboard" -> <<"kbd">>
      [] driver = "rtc_isa"      -> <<"rtc">>
      [] driver = "uart_isa"     -> <<"ser">>
      [] driver = "ieee1284_isa" -> <<"par">>
      [] driver = "fdc_isa"      -> <<"fdc">>
      [] driver = "floppy"       -> <<"rd">>
      [] driver = "ide_isa"      -> <<"idec">>
      [] driver = "ata"          -> <<"fd">>
      [] driver = "atapi"        -> <<"rd">>
      [] driver \in {"mbr", "gpt"} -> Append(mem[parent].name, "pt")
      [] driver = "part"         -> Append(mem[parent].name, "p")
      [] driver = "vga"          -> <<"video">>
      [] driver = "vconsole"     -> <<"console">>
      [] driver = "ansiterm"     -> <<"tty">>

\* The children each driver probes, in its order; what is connected and what
\* is written on a disk is found out on the way.
Children(driver) ==
    CASE driver = "i8042"   -> {<<"ps2_mouse", "ps2_keyboard">>}
      [] driver = "fdc_isa" -> {[i \in 1..Floppies |-> "floppy"]}
      [] driver = "ide_isa" -> UNION {[1..n -> {"ata", "atapi"}] : n \in 0..Drives}
      [] driver = "ata"     -> {<<"mbr", "gpt">>}
      [] driver \in {"mbr", "gpt"} -> {[i \in 1..n |-> "part"] : n \in 0..MaxParts}
      [] OTHER -> {<<>>}

Disks(driver) == IF driver = "ata" THEN {"mbr", "gpt", "none"} ELSE {"none"}

\* i8042 and ide_isa ignore how their children fare, ata tries the next table.
IgnoresFailure == {"i8042", "ide_isa", "ata"}

\* Probes with a return that cleans nothing up.
ReturnsAtOnce == {"i8042", "atapi", "vga"}

Top == stack[Len(stack)]

Caller == Front(stack)

\* mbr and gpt refuse a disk that is not written their way.
Readable == Top.driver \in {"mbr", "gpt"} => stack[Len(stack) - 1].disk = Top.driver

Unwinding(frame, m) ==
    [frame EXCEPT !.going = FALSE, !.kid = m[frame.dev].first_child]

AfterChild(frame, ok, m) ==
    IF ok \/ frame.driver \in IgnoresFailure
    THEN [frame EXCEPT !.fresh = FALSE,
              !.todo = IF ok /\ frame.driver = "ata" THEN <<>> ELSE Tail(@)]
    ELSE Unwinding(frame, m)

\* A probe returns to the probe or to the boot code that called it.
Return(callers, ok) ==
    IF callers = <<>>
    THEN /\ stack' = <<>>
         /\ IF ok \/ Head(plan).driver = "ide_isa"
            THEN /\ plan' = Tail(plan)
                 /\ stage' = IF plan' = <<>> THEN "running" ELSE "boot"
            ELSE stage' = "panic" /\ UNCHANGED plan
    ELSE /\ stack' = [callers EXCEPT ![Len(callers)] = AfterChild(@, ok, mem')]
         /\ UNCHANGED <<plan, stage>>

\* The first steps of every probe: create, name, private data.
Begin(driver, parent) ==
    \E dev \in FreeAddr, kids \in Children(driver), disk \in Disks(driver) :
        /\ WalkEnds(Created(dev, driver, parent), parent)
        /\ heap' = heap \cup {dev}
        /\ list' = Append(list, dev)
        /\ mem' = [VlDev_Create(dev, driver, parent) EXCEPT
                      ![dev].name = VlDev_GenerateName(BaseName(driver, parent)),
                      ![dev].data = "live"]
        /\ stack' = Append(stack, [dev |-> dev, driver |-> driver, todo |-> kids,
                                   fresh |-> TRUE, disk |-> disk,
                                   going |-> TRUE, kid |-> Null])
        /\ UNCHANGED <<plan, stage, detected>>

AtRoot == stage = "boot" /\ stack = <<>>

AtChild == stack # <<>> /\ Top.going /\ Top.todo # <<>> /\ Readable

ProbeRoot ==
    /\ AtRoot
    /\ Begin(Head(plan).driver, VlDev_Find(Head(plan).parent))

ProbeChild ==
    /\ AtChild
    /\ Begin(Head(Top.todo), Top.dev)

\* A partition that is empty or ends before it starts is refused at once.
RefuseChild ==
    /\ AtChild
    /\ Head(Top.todo) = "part"
    /\ UNCHANGED <<mem, heap, list, detected>>
    /\ Return(stack, FALSE)

Succeed ==
    /\ stack # <<>> /\ Top.going /\ Top.todo = <<>> /\ Readable
    /\ detected' = detected \cup {Top.dev}
    /\ UNCHANGED <<mem, heap, list>>
    /\ Return(Caller, TRUE)

\* The hardware does not answer, or memory runs out: goto has_error.  A table
\* of partitions can also turn out unreadable half way.
Fail ==
    /\ stack # <<>> /\ Top.going
    /\ Top.fresh \/ (Top.driver \in {"mbr", "gpt"} /\ Top.todo # <<>>)
    /\ stack' = [stack EXCEPT ![Len(stack)] = Unwinding(@, mem)]
    /\ UNCHANGED <<mem, heap, list, plan, stage, detected>>

Abandon ==
    /\ stack # <<>> /\ Top.going /\ Top.fresh /\ Top.driver \in ReturnsAtOnce
    /\ UNCHANGED <<mem, heap, list, detected>>
    /\ Return(Caller, FALSE)

\* A slip to compare with: start again at the first child.
FirstKid(m, frame) == m[frame.dev].first_child

\* has_error, the children: remove one, then read its sibling.
NextKid(m, frame) == m[frame.kid].sibling

RemoveChild ==
    /\ stack # <<>> /\ ~Top.going /\ Top.kid # Null
    /\ LET after == VlDev_Remove([mem EXCEPT ![Top.kid].data = "freed"], Top.kid)
       IN  /\ mem' = after.mem
           /\ heap' = after.heap
           /\ list' = after.list
    /\ detected' = detected \ {Top.kid}
    /\ stack' = [stack EXCEPT ![Len(stack)].kid = NextKid(mem', Top)]
    /\ UNCHANGED <<plan, stage>>

\* has_error, the device itself.
GiveUp ==
    /\ stack # <<>> /\ ~Top.going /\ Top.kid = Null
    /\ LET after == VlDev_Remove([mem EXCEPT ![Top.dev].data = "freed"], Top.dev)
       IN  /\ mem' = after.mem
           /\ heap' = after.heap
           /\ list' = after.list
    /\ UNCHANGED detected
    /\ Return(Caller, FALSE)

------------------------------------------------------------------------------
RootAlone(driver) == [driver |-> driver, parent |-> <<>>]

RootUnder(driver, name) == [driver |-> driver, parent |-> name]

Given(n, driver) == [i \in 1..n |-> RootAlone(driver)]

\* debugout is probed by debug builds only; ACPI can tell that a machine has
\* no i8042, no clock or none of the legacy devices; the BIOS lists the ports.
Plan(m) ==
    Given(m.debug, "debugout") \o Given(m.ps2, "i8042") \o Given(m.rtc, "rtc_isa") \o
    (IF m.legacy = 1
     THEN Given(m.serial, "uart_isa") \o Given(m.parallel, "ieee1284_isa") \o
          Given(1, "fdc_isa") \o Given(Channels, "ide_isa")
     ELSE <<>>) \o
    <<RootAlone("vga"), RootUnder("vconsole", <<"video", 0>>),
      RootUnder("ansiterm", <<"console", 0>>)>>

Init ==
    /\ mem = [a \in Addr |-> Blank]
    /\ heap = {} /\ list = <<>> /\ stack = <<>> /\ detected = {}
    /\ stage = "boot"
    /\ plan \in {Plan(m) : m \in Machines}

Next ==
    \/ ProbeRoot
    \/ ProbeChild
    \/ RefuseChild
    \/ Succeed
    \/ Fail
    \/ Abandon
    \/ RemoveChild
    \/ GiveUp

\* The boot code is the only thread and is always ready to go on; that hardware
\* it waits for answers or fails is assumed (the IDE driver has no timeout).
Spec == Init /\ [][Next]_vars /\ WF_vars(Next)

------------------------------------------------------------------------------
(* Properties *)

Drivers == {"debugout", "i8042", "ps2_mouse", "ps2_keyboard", "rtc_isa",
            "uart_isa", "ieee1284_isa", "fdc_isa", "floppy", "ide_isa", "ata",
            "atapi", "mbr", "gpt", "part", "vga", "vconsole", "ansiterm"}

\* The variables keep their types: what is linked is the address of a device
\* structure or null (device.h, struct device).
TypeOK ==
    /\ \A a \in Addr :
         /\ {mem[a].parent, mem[a].first_child, mem[a].sibling} \subseteq Addr \cup {Null}
         /\ mem[a].driver \in Drivers \cup {"none"}
         /\ mem[a].data \in {"none", "live", "freed"}
    /\ heap \subseteq Addr /\ detected \subseteq Addr
    /\ ToSet(list) \subseteq Addr /\ IsInjective(list)
    /\ stage \in {"boot", "running", "panic"}
    /\ \A i \in 1..Len(stack) : stack[i].dev \in Addr /\ stack[i].kid \in Addr \cup {Null}

\* Nothing in the list has been given back to the heap, however the probes
\* before it ended (VlDev_Remove frees only what it took out).
ListedIsAllocated == ToSet(list) \subseteq heap

\* Every device that was detected is the one found under its name, and its
\* private data is there: no failed probe, freed structure or reused address
\* hides it or takes its data away (VlDev_Find, VlDev_GenerateName).
DetectedIsFound ==
    \A d \in detected :
        /\ VlDev_Find(mem[d].name) = d
        /\ mem[d].data = "live"

\* What left a list, and whether the others stayed in their order in front of
\* what is new: each has moved up by as many places as were left before it.
Gone(old, new) == ToSet(old) \ ToSet(new)
KeepsOrder(old, new) ==
    \A i \in 1..Len(old) : old[i] \notin Gone(old, new) =>
        LET before == {j \in 1..(i - 1) : old[j] \in Gone(old, new)}
            place == i - Cardinality(before)
        IN  place \in 1..Len(new) /\ new[place] = old[i]

\* A step takes out of the list only a device whose own probe, or whose
\* parent's probe, has failed; the others keep their order (VlDev_Remove).
OnlyTheFailedLeave ==
    [][/\ \A d \in Gone(list, list') : ~Top.going /\ (d = Top.dev \/ mem[d].parent = Top.dev)
       /\ KeepsOrder(list, list')]_vars

\* Boot comes to an end: main starts or the boot code panics.  The loops over
\* the children of a failed device follow pointers in freed memory.
BootEnds == <>(stage \in {"running", "panic"})

\* main.c panics with "keyboard not detected" unless kbd0 is found: once main
\* runs, kbd0 stands for a keyboard that was detected.
Kbd0IsAKeyboard ==
    stage = "running" /\ VlDev_Find(<<"kbd", 0>>) # Null =>
        VlDev_Find(<<"kbd", 0>>) \in detected
-----------------------------------------------------------------------------
(* For the model checker: machines that lack at most one of the things a      *)
(* machine can lack, with the debug and the release build; one port of each   *)
(* kind.                                                                      *)

MCAddr == 1..18

MCMachines ==
    {m \in [debug: 0..1, ps2: 0..1, rtc: 0..1, legacy: 0..1, serial: 0..1, parallel: 0..1] :
        m.serial = m.parallel /\ m.ps2 + m.rtc + m.legacy + m.serial >= 3}
==============================================================================
