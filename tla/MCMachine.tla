------------------------------ MODULE MCMachine ------------------------------
(* Parts of the machine and of what runs on it, each on its own: "part" says *)
(* which one a behaviour is about.                                           *)
EXTENDS Interrupts, Guishell, Clock, Ide, Partitions, TLC

-----------------------------------------------------------------------------
(* Configurations *)

Str(s) == "string" :> s
Num(n) == "number" :> n
Arr(s) == "array" :> s
Obj(s) == "object" :> s
Named(k, v) == <<k, v>>
OptionOf(name, rest) == Obj(<<Named("name", Str(name))>> \o rest)
MenuOf(options, rest) == Obj(<<Named("options", Arr(options))>> \o rest)
\* A menu below another; one of its options has no script, one a wrong menu.
Submenu == MenuOf(<<OptionOf("c", <<Named("script", Str("ccc"))>>), OptionOf("d", <<Named("submenu", Num(1))>>)>>, <<>>)
First(rest) ==
    MenuOf(<<OptionOf("a", <<Named("script", Arr(<<Str("a1"), Str("a2")>>))>>),
             OptionOf("b", <<Named("script", Str("bb")), Named("submenu", Submenu)>>),
             OptionOf("x", <<Named("script", Arr(<<Str("x1"), Num(2)>>))>>)>>, rest)
Conf(m, rest) == <<Obj(<<Named("menu", m)>> \o rest)>>
Configurations ==
    {<<>>, <<Num(1)>>, <<Obj(<<>>)>>, Conf(Num(1), <<>>), Conf(Submenu, <<>>),
     Conf(First(<<>>), <<Named("start_script", Arr(<<Str("s1"), Str("s2")>>)), Named("timezone", Num(32)),
                         Named("rtc_utc", "keyword" :> "false")>>),
     Conf(First(<<Named("default", Num(1)), Named("title", Str("t")), Named("timeout", Num(3))>>),
          <<Named("start_script", Str("s")), Named("timezone", Str("KST"))>>),
     Conf(First(<<>>), <<Named("rtc_utc", Num(1))>>),
     Conf(First(<<>>), <<Named("start_script", Arr(<<Str("s1"), Num(2)>>))>>)}
    \cup {Conf(First(<<f>>), <<>>) : f \in {Named("default", Num(3)), Named("default", Num(-1)), Named("default", Num(9)), Named("title", Num(3))}}

-----------------------------------------------------------------------------
(* Lines *)

Typing(words, style) == [words |-> words, style |-> style, taken |-> <<>>]
Bare(words) == Typing(words, "bare")
SetLines ==
    {Bare(<<<<"set">>, <<"k">>>>), Bare(<<<<"set">>, <<"k">>, <<"v">>>>), Bare(<<<<"set">>, <<"k">>, <<"v", "1">>>>), Bare(<<<<"set">>, <<"k", "k">>, <<"a">>>>),
     Typing(<<<<"set">>, <<"_">>, <<"a", " ", "v">>>>, "double")}
Printable ==
    {<<"k">>, <<"a", " ", "v">>, <<"'", "v">>, <<"\\">>, <<"$", "k">>, <<>>, <<"\\", "$">>}
\* Words that just have room, and do not, and one whose variables are too much.
Long == {<<"k", "k", "k", "k", "k", "k", "k">>, <<"k", "k", "k", "k", "k", "k", "k", "k">>}
Much == <<"$", "_", "$", "_", "$", "_", "$", "_", "$", "_", "$", "_", "$", "_", "$", "_">>
Escapable == {<<"k">>, <<"a", " ", "v">>, <<"'", "v">>}
ProgLines ==
    {Typing(<<<<"prog">>, w>>, s) : w \in Printable, s \in {"bare", "double", "single", "escaped"}}
    \cup {Typing(<<<<"prog">>, w>>, "numbers") : w \in Escapable}
    \cup {Typing(<<<<"prog">>, w>>, s) : w \in Long, s \in {"bare", "double"}}
    \cup {[Bare(<<<<"prog">>, <<"k">>>>) EXCEPT !.taken = t] : t \in {<<"a", "BS">>, <<"BS", "BS", "prog">>}}
    \cup {Bare(<<<<"prog">>, <<"k">>, <<"a">>, <<"1">>>>), Bare(<<<<"prog">>, Much>>)}
Of2(name, paths) == {Bare(<<<<name>>, p>>) : p \in paths}
PathLines ==
    Of2("cd", {<<"f", ":", "/">>, <<"f", ":", "/", "d">>, <<"/", "d", "/", "e">>, <<"d">>, <<"e", "/", ".", ".">>, <<".">>,
               <<"g", ":">>, <<"x", ":", "d">>})
    \cup Of2("lsfile", {<<"f", ":", "/", "d">>, <<"d">>, <<".">>})
    \cup Of2("readfile", {<<"f", ":", "/", "d", "/", "t">>, <<"t">>, <<"d", "/", "t">>})
LinesTyped == SetLines \cup ProgLines \cup PathLines \cup {Bare(<<<<"shell">>>>), Bare(<<<<"exit">>>>)}

FoldersThere == {<<<<"f">>, <<>>>>, <<<<"f">>, <<<<"d">>>>>>, <<<<"f">>, <<<<"d">>, <<"e">>>>>>, <<<<"g">>, <<>>>>}
FilesThere == {<<<<"f">>, <<<<"d">>, <<"t">>>>>>}

-----------------------------------------------------------------------------
(* The parts *)

VARIABLES part,
          ctl, out, dev, drv, masked, taken, late, moves,
          loading, mods, pages, nextPage, open, memory, began, ended, leaks, loads, misses,
          phase, config, offset, utc, menus, scripts, shown, keys, chosen,
          commands, instances, folders, lost, last, lines,
          devs, frames, chains, masks, roots, twice, boot

i8042Vars == <<ctl, out, dev, drv, masked, taken, late, moves>>
moduleVars == <<loading, mods, pages, nextPage, open, memory, began, ended, leaks, loads, misses>>
menuVars == <<phase, config, offset, utc, menus, scripts, shown, keys, chosen>>
shellVars == <<commands, instances, folders, lost, last, lines>>
probeVars == <<devs, frames, chains, masks, roots, twice, boot>>

\* Two lines of one controller, one of the other, and a trap.
MCControllers == "master" :> {32, 33} @@ "slave" :> {40}

\* Bytes of a bit: disks of 20 sectors, of which those from 16 on need the long
\* form; transfers within it, across its end, past the disk and of too many.
Ask(lba, count) == [lba |-> lba, count |-> count]
Buses == {<<"ata", "atapi">>, <<"ata", "ata">>, <<"none", "none">>, <<"none", "ata">>, <<"atapi", "none">>}
Asks == {Ask(1, 2), Ask(13, 3), Ask(17, 3), Ask(19, 2), Ask(5, 0), Ask(16, 5)}

\* Nested tables, a table with an empty partition, and a list of two sectors.
Region(t, b, c) == [type |-> t, base |-> b, count |-> c, limit |-> b + c - 1]
Unused == Region("none", 0, 1)
TableOf(a, b) == [kind |-> "mbr", entries |-> <<a, b>>]
List(a, b) == [kind |-> "list", entries |-> <<a, b>>]
SomeDisks ==
    {0 :> TableOf(Region("data", 1, 4), Region("extended", 6, 10))
     @@ 6 :> TableOf(Region("data", 1, 2), Region("extended", 4, 5))
     @@ 10 :> TableOf(Unused, Region("data", 1, 3)),
     0 :> TableOf(Unused, Region("extended", 6, 10)) @@ 6 :> TableOf(Region("data", 1, 2), Unused),
     0 :> TableOf(Region("data", 1, 0), Unused),
     0 :> TableOf(Region("gpt", 1, 20), Unused)
     @@ 1 :> [kind |-> "header", list |-> 2, size |-> 2, n |-> 4]
     @@ 2 :> List(Region("data", 5, 3), Region("data", 8, 2))
     @@ 3 :> List(Region("data", 10, 3), Unused) @@ 4 :> List(Unused, Unused)}

C == INSTANCE I8042 WITH Garbage <- {{}, {<<"translate", 0>>}}, MaxLate <- 1, MaxMoves <- 1

\* Modules as their linker leaves them, and what is missing or fails in others.
Own(v) == [defined |-> TRUE, name |-> "own", value |-> v]
Of(n) == [defined |-> FALSE, name |-> n, value |-> 0]
Rel(t, o, s, a) == [type |-> t, offset |-> o, sym |-> s, addend |-> a]
Seg(f, fs, ms) == [from |-> f, filesz |-> fs, memsz |-> ms]
Shared ==
    [elf |-> "shared", segments |-> <<Seg(0, 4, 4), Seg(4, 1, 2), Seg(1, 1, 1)>>, got |-> 5,
     words |-> 0 :> 3 @@ 1 :> 2 @@ 2 :> 1 @@ 3 :> 4 @@ 4 :> -3,
     relocations |-> <<Rel("32", 0, Of("printf"), 3), Rel("PC32", 1, Own(2), 1), Rel("PC32", 2, Of("printf"), 1),
                       Rel("RELATIVE", 3, Own(4), 4), Rel("GOTOFF", 4, Own(0), 2), Rel("GLOB_DAT", 5, Own(1), 0)>>,
     sections |-> <<".init_array", ".note.vellum">>, named |-> TRUE, entry |-> "ok"]
Other ==
    [Shared EXCEPT !.words = 0 :> 3 @@ 1 :> 2 @@ 2 :> 1 @@ 3 :> 4 @@ 4 :> 0,
                   !.relocations = <<Rel("GOT32", 4, Own(1), 0), Rel("JMP_SLOT", 1, Of("printf"), 0),
                                     Rel("GOTOFF", 2, Of("printf"), 1), Rel("NONE", 0, Own(0), 0),
                                     Rel("GOTPC", 3, Own(0), 0)>>]
M == INSTANCE Modules WITH
       PageSize <- 4, MaxLoads <- 3, MaxMisses <- 1, Leftover <- {-5}, Kernel <- "printf" :> 100, call <- loading,
       Files <- {Shared, Other, [Shared EXCEPT !.entry = "fails"], [Shared EXCEPT !.sections = <<".note.vellum">>],
                 [Shared EXCEPT !.relocations = <<Rel("32", 0, Of("missing"), 3)>>],
                 [Shared EXCEPT !.got = -1], [Shared EXCEPT !.elf = "none"], [Shared EXCEPT !.elf = "program"], [Shared EXCEPT !.named = FALSE]}

\* Two places of the arrow overlap, and parts of it are off the screen at the edges.
D == INSTANCE Drawing WITH MaxSplit <- 3
Polygon(points_, fill) == D!draw_polygon(points_, fill)
Arrow == {<<0, 0>>, <<0, 1>>, <<1, 1>>}
Corner == {<<0, 0>>}

B == INSTANCE Menu WITH Configs <- Configurations, MaxKeys <- 6, ran <- scripts

\* Lines and words that fit, exactly or not, and a path that does not.
S == INSTANCE Shell WITH
       Bits <- 7, LongBits <- 12, ReadSize <- 20, LineSize <- 24, ElemSize <- 9, ArgsMax <- 3, KeySize <- 3, PathSize <- 14,
       Leftover <- {"end", "1"}, Chars <- 10 :> "k" @@ 17 :> " ", Programs <- {"prog"}, MaxShells <- 2, MaxLines <- 3, open <- folders,
       Lines <- LinesTyped, Directories <- FoldersThere, Files <- FilesThere

\* The boot's probes, in groups; tables of one partition and of a second, wrong one.
O == INSTANCE Probes WITH
       Plans <- {<<"debug", "ps2">>, <<"rtc", "serial", "parallel">>, <<"floppy">>, <<"ide0">>, <<"vga", "console", "tty">>},
       Tables <- LET blocks(a, b) == [type |-> "LBA", base |-> a, limit |-> b]
                 IN {<<blocks(1, 3)>>, <<blocks(1, 3), blocks(5, 4)>>}

NoIde == bus = <<>> /\ drives = <<>> /\ call = [op |-> "none"] /\ found = <<>> /\ reads = 0
NoPartitions ==
    /\ disk = <<>> /\ step = "none" /\ tables = <<>> /\ gpt = <<>> /\ parts = <<>>
    /\ misread = FALSE /\ reading = NoRead
NoI8042 ==
    /\ ctl = <<>> /\ out = <<>> /\ dev = <<>> /\ drv = [phase |-> "done"] /\ masked = {} /\ taken = <<>>
    /\ late = 0 /\ moves = 0
NoModules ==
    /\ loading = <<>> /\ mods = <<>> /\ pages = {} /\ nextPage = 0 /\ open = 0 /\ memory = <<>>
    /\ began = {} /\ ended = {} /\ leaks = {} /\ loads = 0 /\ misses = 0
NoClock == time = 0 /\ updating = FALSE /\ reader = NoReader /\ torn = FALSE /\ fresh = FALSE /\ answer = None
NoGui ==
    /\ framebuffer = <<>> /\ saved = <<>> /\ prev = <<>> /\ pos = <<>> /\ points = <<>> /\ hasMouse = FALSE
    /\ running = FALSE /\ picture = <<>> /\ damaged = {} /\ clicks = 0 /\ runs = 0
NoMenu ==
    /\ phase = "none" /\ config = <<>> /\ offset = 0 /\ utc = TRUE /\ menus = <<>> /\ scripts = <<>>
    /\ shown = <<>> /\ keys = 0 /\ chosen = <<>>
NoShell == commands = <<>> /\ instances = <<>> /\ folders = <<>> /\ lost = {} /\ last = <<>> /\ lines = 0
NoProbes == devs = <<>> /\ frames = <<>> /\ chains = <<>> /\ masks = {} /\ roots = <<>> /\ twice = {} /\ boot = "none"

Parts == {"interrupts", "atomics", "ide", "partitions", "i8042", "modules", "clock", "gui", "menu", "shell", "probes"}
Init ==
    /\ part \in Parts
    /\ InterruptInit /\ AtomicInit
    /\ IF part = "ide" THEN IdeInit ELSE NoIde
    /\ IF part = "partitions" THEN PartitionInit ELSE NoPartitions
    /\ IF part = "i8042" THEN C!Init ELSE NoI8042
    /\ IF part = "modules" THEN M!Init ELSE NoModules
    /\ IF part = "clock" THEN ClockInit ELSE NoClock
    /\ IF part = "gui" THEN GuiInit ELSE NoGui
    /\ IF part = "menu" THEN B!Init ELSE NoMenu
    /\ IF part = "shell" THEN S!Init ELSE NoShell
    /\ IF part = "probes" THEN O!Init ELSE NoProbes

hardwareVars == <<interruptVars, atomicVars, ideVars, partitionVars, i8042Vars, clockVars>>
softwareVars == <<moduleVars, guiVars, menuVars, shellVars, probeVars>>
Interrupt ==
    /\ part = "interrupts" /\ InterruptNext
    /\ UNCHANGED <<part, atomicVars, ideVars, partitionVars, i8042Vars, clockVars, softwareVars>>
Atomic ==
    /\ part = "atomics" /\ AtomicNext
    /\ UNCHANGED <<part, interruptVars, ideVars, partitionVars, i8042Vars, clockVars, softwareVars>>
Transfer ==
    /\ part = "ide" /\ IdeNext
    /\ UNCHANGED <<part, interruptVars, atomicVars, partitionVars, i8042Vars, clockVars, softwareVars>>
Partition ==
    /\ part = "partitions" /\ PartitionNext
    /\ UNCHANGED <<part, interruptVars, atomicVars, ideVars, i8042Vars, clockVars, softwareVars>>
Controller ==
    /\ part = "i8042" /\ C!Next
    /\ UNCHANGED <<part, interruptVars, atomicVars, ideVars, partitionVars, clockVars, softwareVars>>
Module ==
    /\ part = "modules" /\ M!Next
    /\ UNCHANGED <<part, guiVars, menuVars, shellVars, probeVars, hardwareVars>>
Clocked ==
    /\ part = "clock" /\ ClockNext
    /\ UNCHANGED <<part, interruptVars, atomicVars, ideVars, partitionVars, i8042Vars, softwareVars>>
Drawn ==
    /\ part = "gui" /\ GuiNext
    /\ UNCHANGED <<part, moduleVars, menuVars, shellVars, probeVars, hardwareVars>>
Chosen ==
    /\ part = "menu" /\ B!Next
    /\ UNCHANGED <<part, moduleVars, guiVars, shellVars, probeVars, hardwareVars>>
Typed ==
    /\ part = "shell" /\ S!Next
    /\ UNCHANGED <<part, moduleVars, guiVars, menuVars, probeVars, hardwareVars>>
Probed ==
    /\ part = "probes" /\ O!Next
    /\ UNCHANGED <<part, moduleVars, guiVars, menuVars, shellVars, hardwareVars>>
Next ==
    \/ Interrupt \/ Atomic \/ Transfer \/ Partition \/ Controller \/ Clocked
    \/ Module \/ Drawn \/ Chosen \/ Typed \/ Probed

vars == <<part, hardwareVars, softwareVars>>
\* What goes on by itself: the processor runs the drivers, and the devices work.
Working ==
    /\ WF_ideVars(part = "ide" /\ DriverStep) /\ WF_ideVars(part = "ide" /\ DriveStep)
    /\ WF_i8042Vars(part = "i8042" /\ C!Driver) /\ WF_i8042Vars(part = "i8042" /\ C!External)
Spec == Init /\ [][Next]_vars /\ Working

(* Between the calls the pages, files and constructors in use are those of   *)
(* the linked modules, whose words are relocated; between the probes the     *)
(* memory and the lines in use are those of the devices that were found; and *)
(* what the driver of the PS/2 controller finds is what answered, unless it  *)
(* was disturbed.                                                            *)
FoundIsWhatIsThere ==
    /\ part = "modules" => M!ModulesAreWhole
    /\ part = "probes" => O!ProbesGiveBack
    /\ part = "i8042" => C!ProbesAreRight

(* Reads of a drive that answers or fails come to an end, and so do the      *)
(* probes of the PS/2 controller, whatever it does.                          *)
WaitsEnd ==
    /\ []<>(part = "ide" => CallEnds)
    /\ <>(part = "i8042" => drv.phase \in {"done", "failed"})

(* The boot menu runs what was chosen; the shell gives its commands the      *)
(* words that were typed, and keeps its variables and directories.           *)
ChoicesAreCarriedOut ==
    /\ part = "menu" => B!ChoicesAreRun
    /\ part = "shell" => S!WordsArrive /\ S!VariablesLast /\ S!DirectoriesAreKept
=============================================================================
