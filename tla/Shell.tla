-------------------------------- MODULE Shell --------------------------------
(***************************************************************************)
(* The shell (shell/): a line is typed, its variables are put in, it is    *)
(* split into words, and a command is called with them.  An instance has   *)
(* variables and a working directory; the command "shell" begins another   *)
(* instance, and "exit" ends it.  A line is one step.                      *)
(***************************************************************************)
EXTENDS Paths, Numbers, FiniteSets, TLC

CONSTANTS ReadSize, LineSize, ElemSize, ArgsMax, KeySize, PathSize,  \* 512, 4096, 512, 32, 64, 256
          Leftover,          \* what memory may hold that was not written: "end" when it is clear
          Chars,             \* what characters escapes of numbers are for
          Programs,          \* names of the commands of modules
          Lines,             \* what may be typed: words, how they are quoted, and keys that are taken back
          Directories,       \* those there are, <<file system, names>>
          Files,             \* the files, likewise
          MaxLines, MaxShells  \* bounds

VARIABLES commands, instances, open, lost, last, lines

shellVars == <<commands, instances, open, lost, last, lines>>

\* stray: the link behind the last variable was never written, or is in memory that was freed;
\* wild: it was followed. Histories: lasting, what the variables were set to and whether the
\* place behind was clear; tame, no key begins with another; exact, the path has had room.
NewInstance ==
    [fs |-> <<>>, dir |-> 0, path |-> <<>>, vars |-> <<>>, stray |-> FALSE, wild |-> FALSE,
     lasting |-> <<>>, tame |-> TRUE, exact |-> TRUE, dangling |-> FALSE]
Nothing == [wanted |-> <<>>, argv |-> <<>>, ran |-> "none", known |-> TRUE]
BuiltIn == <<"set", "shell", "cd", "lsfile", "readfile">>

Init ==
    /\ commands = BuiltIn /\ instances = <<NewInstance>> /\ open = <<>> /\ lost = {}
    /\ last = Nothing /\ lines = 0

Inst == Last(instances)

-----------------------------------------------------------------------------
(* Variables: an entry is its memory, a key and a value side by side *)

KeyOf(entry) == SubSeq(entry.str, 1, entry.key_len)
\* The place of the first entry whose key the wanted one begins with, or 0.
Entry(vars, key) ==
    LET same == {k \in DOMAIN vars : IsPrefix(KeyOf(vars[k]), key)}
    IN IF same = {} THEN 0 ELSE CHOOSE k \in same : \A j \in same : k <= j
UpToEnd(str) == LET k == SelectInSeq(str, LAMBDA c : c = "end") IN IF k = 0 THEN str ELSE SubSeq(str, 1, k - 1)
ValueOf(entry) == UpToEnd(SubSeq(entry.str, entry.key_len + 2, Len(entry.str)))

\* Behind the last variable there may be anything.
VlShell_GetVariable(inst, key) ==
    LET k == Entry(inst.vars, key)
    IN IF k # 0 THEN ValueOf(inst.vars[k]) ELSE IF inst.stray THEN <<"wild">> ELSE <<>>

\* What may become of an instance and its variable. Neither copy writes its end;
\* the one that is written comes a character later, behind what was asked for. A
\* larger entry is a new block with a copy of the old one. Nothing writes the link
\* of a new variable. Without memory a new one is not set, and an old one is
\* freed where it stands in the list, so that those behind it are not found either.
VlShell_SetVariable(inst, key, value) ==
    LET k == Entry(inst.vars, key)
        old == IF k = 0 THEN <<>> ELSE inst.vars[k].str
        size == Len(key) + Len(value) + 3
        Memory(rest) == [i \in 1 .. size |-> IF i < Len(old) THEN old[i] ELSE rest]
        Written(memory) ==
            LET keyed == strncpy(memory, key, Len(key) + 1)
                tail == strncpy(SubSeq(keyed, Len(key) + 2, size), value, Len(value) + 1)
            IN [key_len |-> Len(key), str |-> [SubSeq(keyed, 1, Len(key) + 1) \o tail EXCEPT ![size] = "end"]]
        Put(entry) == IF k = 0 THEN Append(inst.vars, entry) ELSE [inst.vars EXCEPT ![k] = entry]
        set == {[set |-> TRUE, clear |-> Memory(rest)[size - 1] = "end",
                 inst |-> [inst EXCEPT !.vars = Put(Written(Memory(rest))), !.stray = @ \/ next]] :
                    rest \in Leftover, next \in IF k = 0 THEN BOOLEAN ELSE {FALSE}}
        unset == {[set |-> FALSE, clear |-> FALSE,
                   inst |-> IF k = 0 THEN inst ELSE [inst EXCEPT !.vars = SubSeq(@, 1, k - 1), !.stray = TRUE]]}
    IN IF k = 0 /\ inst.stray THEN {[set |-> FALSE, clear |-> FALSE, inst |-> [inst EXCEPT !.wild = TRUE]]}
       ELSE set \cup IF size > Len(old) THEN unset ELSE {}

-----------------------------------------------------------------------------
(* From the keyboard to the words *)

\* The text there is after each key; one that does not fit is not taken.
VlShell_Readline(keys, len) ==
    FoldLeft(LAMBDA buf, ch : IF ch = "BS" THEN (IF buf = <<>> THEN buf ELSE Front(buf))
                              ELSE IF Len(buf) >= len - 1 THEN buf ELSE Append(buf, ch), <<>>, keys)

NameChars == {"k", "v", "_", "1", "2", "a"}
RECURSIVE KeyEnd(_, _, _)
KeyEnd(line, i, most) == IF i <= most /\ CharAt(line, i) \in NameChars THEN KeyEnd(line, i + 1, most) ELSE i

RECURSIVE VlShell_Expand(_, _, _)
VlShell_Expand(inst, line, i) ==
    LET end == KeyEnd(line, i + 1, i + KeySize - 1)
    IN IF i > Len(line) THEN <<>>
       ELSE IF line[i] = "\\" /\ CharAt(line, i + 1) = "$" THEN <<"$">> \o VlShell_Expand(inst, line, i + 2)
       ELSE IF line[i] = "$" THEN VlShell_GetVariable(inst, SubSeq(line, i + 1, end - 1)) \o VlShell_Expand(inst, line, end)
       ELSE <<line[i]>> \o VlShell_Expand(inst, line, i + 1)

\* What a backslash and what follows write, and where the line goes on: after
\* the letter of a control character the letter itself comes again.
Escape(line, i) ==
    LET c == CharAt(line, i + 1)
        Code(from, base) ==
            LET r == CHOOSE r \in strtol(SubSeq(line, from, Len(line)), base) : TRUE
            IN [out |-> <<IF r.value \in DOMAIN Chars THEN Chars[r.value] ELSE "end">>,
                at |-> IF r.told THEN from + r.at - 1 ELSE from]
    IN CASE c \in {"\\", "'", "\"", "?", " ", "tab"} -> [out |-> <<c>>, at |-> i + 2]
         [] c \in {"a", "b", "e", "f", "n", "r", "t", "v"} -> [out |-> <<"control">>, at |-> i + 1]
         [] c \in {"0", "1", "2"} -> Code(i + 1, 8)
         [] c = "x" -> Code(i + 2, 16)
         [] OTHER -> [out |-> <<>>, at |-> i + 1]

RECURSIVE Word(_, _, _, _, _)
Word(line, i, quote, out, room) ==
    LET c == CharAt(line, i)
        Push(chars, at) == IF Len(out) + Len(chars) > room THEN [given |-> FALSE]
                           ELSE Word(line, at, quote, out \o chars, room)
    IN CASE c = "end" \/ (c \in {" ", "tab"} /\ quote = "none") -> [given |-> TRUE, word |-> out, at |-> i]
         [] c \in {"\"", "'"} -> Word(line, i + 1, IF quote = c THEN "none" ELSE c, out, room)
         [] c = "\\" -> Push(Escape(line, i).out, Escape(line, i).at)
         [] OTHER -> Push(<<c>>, i + 1)

RECURSIVE Skip(_, _)
Skip(line, i) == IF CharAt(line, i) \in {" ", "tab"} THEN Skip(line, i + 1) ELSE i
VlShell_Parse(line, i, room) ==
    IF Skip(line, i) > Len(line) THEN [given |-> FALSE] ELSE Word(line, Skip(line, i), "none", <<>>, room)

\* The words of a line, as far as there is room; whether the last one has an end.
RECURSIVE Words(_, _, _, _)
Words(line, i, room, argv) ==
    LET made == VlShell_Parse(line, i, room)
    IN IF Len(argv) = ArgsMax \/ ~made.given THEN [argv |-> argv, known |-> TRUE]
       ELSE IF Len(made.word) = room THEN [argv |-> Append(argv, made.word), known |-> FALSE]
       ELSE Words(line, made.at, room - Len(UpToEnd(made.word)) - 1, Append(argv, UpToEnd(made.word)))

-----------------------------------------------------------------------------
(* Directories: a handle is a number, and may be closed under its user *)

Handle == CHOOSE h \in 1 .. Cardinality(DOMAIN open) + 1 : h \notin DOMAIN open
Without(h) == [g \in DOMAIN open \ {h} |-> open[g]]

\* Where names lead to from a directory, of which the one at the place "fails"
\* cannot be opened (0: none); and how far it got.
RECURSIVE Walk(_, _, _)
Walk(at, names, fails) ==
    LET next == <<at[1], IF names[1] = DotDot THEN Front(at[2]) ELSE Append(at[2], names[1])>>
    IN IF names = <<>> THEN [ok |-> TRUE, dir |-> at]
       ELSE IF fails = 1 \/ (names[1] = DotDot /\ at[2] = <<>>) \/ next \notin Directories THEN [ok |-> FALSE, dir |-> at]
       ELSE Walk(next, Tail(names), fails - 1)

FsOf(path) == IF VlPath_InitIter(path).element = <<>> THEN Inst.fs ELSE VlPath_InitIter(path).element
Exists(fs) == fs # <<>> /\ <<fs, <<>>>> \in Directories
From(path) == IF VlPath_IsAbsolute(path) THEN <<FsOf(path), <<>>>> ELSE open[Inst.dir]
Reaches(path) == IF VlPath_IsAbsolute(path) THEN Exists(FsOf(path)) ELSE Inst.fs # <<>> /\ Inst.dir # 0

\* The current instance is another one; the memory of the others stays.
Becomes(inst) == instances' = [instances EXCEPT ![Len(instances)] = inst]

\* A path without names leads to where one is: the directory is closed all the
\* same, and still the working directory.
chdir_handler(path) ==
    /\ ~Inst.dangling /\ UNCHANGED <<commands, lost>>
    /\ IF ~Reaches(path) THEN UNCHANGED <<instances, open>>
       ELSE \E fails \in 0 .. 1 :
              LET absolute == VlPath_IsAbsolute(path)
                  made == Walk(From(path), Names(path), fails)
                  stays == ~absolute /\ Names(path) = <<>>
                  src == IF ~absolute THEN VlPath_Join(Inst.path, 2 * PathSize, path).str
                         ELSE IF Colon(path) = 0 THEN FsOf(path) \o <<":">> \o path ELSE path
                  room == Len(src) + 3 < PathSize /\ (absolute \/ Colon(path) = 0)
              IN IF ~made.ok THEN UNCHANGED <<instances, open>>
                 ELSE /\ open' = IF stays THEN Without(Inst.dir) ELSE Handle :> made.dir @@ Without(Inst.dir)
                      /\ Becomes([Inst EXCEPT !.fs = made.dir[1], !.dir = IF stays THEN @ ELSE Handle,
                                              !.path = VlPath_Normalize(PathSize, src), !.dangling = stays,
                                              !.exact = room /\ (absolute \/ @)])

\* Nothing closes the directory that was listed.
lsfile_handler(path) ==
    /\ ~Inst.dangling /\ UNCHANGED <<commands, instances>>
    /\ \E fails \in 0 .. 1 :
         LET made == Walk(From(path), Names(path), fails)
             opens == Reaches(path) /\ made.ok /\ (VlPath_IsAbsolute(path) \/ Names(path) # <<>>)
         IN /\ open' = IF opens THEN Handle :> made.dir @@ open ELSE open
            /\ lost' = IF opens THEN lost \cup {Handle} ELSE lost

\* The directory of a file is left open when something fails after it was opened.
fopen(path) ==
    \E fails \in 0 .. 1 :
      LET names == Elements(path)
          made == Walk(<<VlPath_InitIter(path).element, <<>>>>, SelectSeq(Front(names), LAMBDA e : e \notin {<<>>, Dot}), fails)
          found == made.ok /\ <<made.dir[1], Append(made.dir[2], Last(names))>> \in Files
          keeps == Exists(VlPath_InitIter(path).element) /\ ~found
      IN /\ open' = IF keeps THEN Handle :> made.dir @@ open ELSE open
         /\ lost' = IF keeps THEN lost \cup {Handle} ELSE lost

readfile_handler(path) ==
    /\ UNCHANGED <<commands, instances>>
    /\ IF VlPath_IsAbsolute(path) THEN fopen(path)
       ELSE IF Inst.fs # <<>> THEN fopen(VlPath_Join(Inst.path, 2 * PathSize, path).str)
       ELSE UNCHANGED <<open, lost>>

-----------------------------------------------------------------------------
(* Commands *)

\* The working directory of an instance that ends stays open, its variables in memory.
exit ==
    /\ UNCHANGED <<commands, open>>
    /\ instances' = IF Len(instances) = 1 THEN instances ELSE Front(instances)
    /\ lost' = IF Len(instances) > 1 /\ Inst.dir \in DOMAIN open THEN lost \cup {Inst.dir} ELSE lost

shell_handler ==
    /\ Len(instances) < MaxShells
    /\ instances' = Append(instances, NewInstance) /\ UNCHANGED <<commands, open, lost>>

set_handler(argv) ==
    /\ UNCHANGED <<commands, open, lost>>
    /\ IF Len(argv) # 3 THEN UNCHANGED instances
       ELSE LET key == argv[2]
                others == {k \in DOMAIN Inst.lasting : IsPrefix(k, key) \/ IsPrefix(key, k)} \ {key}
            IN \E r \in VlShell_SetVariable(Inst, key, argv[3]) :
                 LET kept == {k \in DOMAIN Inst.lasting : Entry(r.inst.vars, k) # 0}
                 IN Becomes([r.inst EXCEPT !.lasting = IF r.set THEN key :> [value |-> argv[3], clear |-> r.clear] @@ @
                                                       ELSE [k \in kept |-> @[k]],
                                           !.tame = @ /\ others = {}])

Handles(name, argv) ==
    CASE name = "set" -> set_handler(argv)
      [] name = "shell" -> shell_handler
      [] name = "exit" -> exit
      [] name \in {"cd", "lsfile", "readfile"} /\ Len(argv) = 2 ->
           IF name = "cd" THEN chdir_handler(argv[2]) ELSE IF name = "lsfile" THEN lsfile_handler(argv[2]) ELSE readfile_handler(argv[2])
      [] OTHER -> UNCHANGED <<commands, instances, open, lost>>

\* The name of a command is one character here, so is the first word.
Command(argv) == IF argv = <<>> THEN "none" ELSE IF Len(argv[1]) = 1 THEN argv[1][1] ELSE "unknown"

-----------------------------------------------------------------------------
(* A word as it is typed: as it is, between quotes, with a backslash before  *)
(* what is special, or with numbers for characters.                          *)

Special == {" ", "\"", "'", "\\", "$"}
CodeOf(c) == CHOOSE n \in DOMAIN Chars : Chars[n] = c
Octal(n) == <<"\\", Digits[(n \div 8) + 1], Digits[(n % 8) + 1]>>
Typed(word, style) ==
    CASE style = "bare" -> word
      [] style = "double" -> <<"\"">> \o word \o <<"\"">>
      [] style = "single" -> <<"'">> \o word \o <<"'">>
      [] style = "escaped" -> FlattenSeq([k \in DOMAIN word |-> IF word[k] \in Special THEN <<"\\", word[k]>> ELSE <<word[k]>>])
      [] style = "numbers" -> FlattenSeq([k \in DOMAIN word |-> IF \E n \in DOMAIN Chars : Chars[n] = word[k] THEN Octal(CodeOf(word[k])) ELSE <<word[k]>>])

\* Quotes of either kind end those of the other; a '$' is the variable's even
\* between them, and what it has is split again; a backslash cannot come before
\* a '$', nor a number before a figure.
Meant(word, style) ==
    IF style = "bare" /\ word # <<>> /\ word[1] = "$" THEN VlShell_GetVariable(Inst, Tail(word)) ELSE word
Before(word, c, others) == \E k \in 1 .. Len(word) - 1 : word[k] = c /\ word[k + 1] \in others
Suits(word, style) ==
    LET Free(w, cs) == ToSet(w) \cap cs = {}
        coded == {Chars[n] : n \in DOMAIN Chars}
    IN CASE style \in {"double", "single"} -> Free(word, {"\"", "'", "\\", "$"})
         [] word = <<>> -> FALSE
         [] style = "escaped" -> ~Before(word, "\\", {"$"})
         [] style = "numbers" -> Free(word, Special \ coded) /\ \A c \in coded : ~Before(word, c, {"0", "1", "2"})
         [] OTHER -> Meant(word, style) # <<>> /\ Free(Meant(word, style), Special) /\ Free(Tail(word), Special)
RoomFor(words) == Len(words) <= ArgsMax /\ Len(FlattenSeq(words)) + Len(words) <= ElemSize

VlShell_Execute(l) ==
    LET keys == Typed(l.words[1], "bare") \o l.taken
                \o FlattenSeq([k \in 1 .. Len(l.words) - 1 |-> <<" ">> \o Typed(l.words[k + 1], l.style)])
        line == VlShell_Readline(keys, ReadSize)
        expanded == VlShell_Expand(Inst, line, 1)
        made == Words(expanded, 1, ElemSize, <<>>)
        name == Command(made.argv)
        suits == Len(keys) < ReadSize /\ \A k \in 2 .. Len(l.words) : Suits(l.words[k], l.style)
        wanted == <<l.words[1]>> \o [k \in 1 .. Len(l.words) - 1 |-> Meant(l.words[k + 1], l.style)]
    IN /\ ~Inst.wild /\ lines < MaxLines /\ lines' = lines + 1
       /\ IF Contains(expanded, "wild")
          \* What comes of a link that leads anywhere is not known, nor what comes after.
          THEN /\ last' = [Nothing EXCEPT !.known = FALSE] /\ Becomes([Inst EXCEPT !.wild = TRUE])
               /\ UNCHANGED <<commands, open, lost>>
          ELSE IF Len(expanded) >= LineSize \/ ~made.known
          \* Too long, or a text without an end: what runs is not known then.
          THEN last' = [Nothing EXCEPT !.known = FALSE] /\ UNCHANGED <<commands, instances, open, lost>>
          ELSE /\ last' = [wanted |-> IF suits /\ RoomFor(wanted) THEN wanted ELSE <<>>, argv |-> made.argv,
                           ran |-> IF name \in ToSet(commands) \cup {"exit"} THEN name ELSE "none", known |-> TRUE]
               /\ IF name \in ToSet(commands) \cup {"exit"} THEN Handles(name, made.argv)
                  ELSE UNCHANGED <<commands, instances, open, lost>>

\* Modules add commands at the end, and take them out; the first is never.
VlShell_RegisterCommand(name) ==
    /\ name \notin ToSet(commands) /\ commands' = Append(commands, name)
    /\ UNCHANGED <<instances, open, lost, last, lines>>
VlShell_UnregisterCommand(name) ==
    /\ name \in ToSet(commands)
    /\ commands' = IF commands[1] = name THEN commands ELSE SelectSeq(commands, LAMBDA c : c # name)
    /\ UNCHANGED <<instances, open, lost, last, lines>>

Next ==
    \/ \E l \in Lines : VlShell_Execute(l)
    \/ \E name \in Programs : VlShell_RegisterCommand(name) \/ VlShell_UnregisterCommand(name)

Spec == Init /\ [][Next]_shellVars

-----------------------------------------------------------------------------
(* Words that were quoted in a way that suits them, and for which there is   *)
(* room, reach the command as they were meant.                               *)
WordsArrive == last.wanted # <<>> => last.argv = last.wanted

(* A variable that was set has what it was last set to, though neither copy  *)
(* writes its end: exactly that when the memory behind the value was clear,  *)
(* and otherwise with one character more, never two. The variables around    *)
(* it keep theirs, whatever is set, moved or refused for want of memory. Not *)
(* meant: keys that begin with one another (tame), and the variables from    *)
(* the one on that a realloc without memory has freed.                       *)
VariablesLast ==
    \A i \in DOMAIN instances : instances[i].tame =>
        \A k \in DOMAIN instances[i].lasting :
            LET value == VlShell_GetVariable(instances[i], k)
                last_set == instances[i].lasting[k]
            IN IF last_set.clear THEN value = last_set.value
               ELSE IsPrefix(last_set.value, value) /\ Len(value) <= Len(last_set.value) + 1

(* The working directory of an instance is open, unless a path without names *)
(* was entered, is not that of another, and its path names it as long as     *)
(* there was room; and nothing else is open but what was listed, what was    *)
(* looked through in vain, and the directories of instances that ended.      *)
DirectoriesAreKept ==
    LET with == {i \in DOMAIN instances : instances[i].dir # 0 /\ ~instances[i].dangling}
    IN /\ \A i, j \in with : i # j => instances[i].dir # instances[j].dir
       /\ DOMAIN open = {instances[i].dir : i \in with} \cup lost
       /\ \A i \in with : /\ instances[i].dir \notin lost /\ instances[i].fs = open[instances[i].dir][1]
                          /\ instances[i].exact =>
                               LET r == Resolved(instances[i].path) IN <<r.fs, r.names>> = open[instances[i].dir]
=============================================================================
