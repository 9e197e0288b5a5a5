------------------------------ MODULE Modules ------------------------------
(***************************************************************************)
(* Modules (module/module.c, symbol.c) and the reading of ELF files behind *)
(* them (elf/elf.c): loading maps the segments of a shared object,         *)
(* relocates it, runs its constructors and its entry point and links it;   *)
(* unloading undoes that.  Files, with what their linker left in them, are *)
(* external, and so are the pages, which mm/mm.c never hands out twice.    *)
(*                                                                         *)
(* Nobody looks at what fread answers: what was to be read keeps its old   *)
(* contents, and the load goes on.  Words that were not read are followed, *)
(* and sections that are not found; what the code makes of a header or a   *)
(* table that was never written, and what a module of such words does when *)
(* it runs, is anything: goes_astray.                                      *)
(***************************************************************************)
EXTENDS Integers, Sequences, SequencesExt, FiniteSets

CONSTANTS Files,      \* what may be loaded
          Kernel,     \* the table of exported symbols: name -> address
          Leftover,   \* words that a page may hold that nothing was read to
          PageSize,
          MaxLoads,   \* bounds
          MaxMisses

VARIABLES call,       \* the call in progress
          mods,       \* the modules that are linked: file, first page, size
          pages,      \* the pages that are held for modules
          nextPage,
          open,       \* ELF files that are open
          memory,     \* address -> word, of what was loaded
          began, ended, \* modules by first page: constructors, destructors ran
          leaks,      \* what some call has left behind: "file", "pages", "destructors"
          loads,
          misses      \* reads that failed or came short

moduleVars == <<call, mods, pages, nextPage, open, memory, began, ended, leaks, loads, misses>>

Idle == [at |-> "idle"]
Init ==
    /\ call = Idle /\ mods = <<>> /\ pages = {} /\ nextPage = 1 /\ open = 0
    /\ memory = <<>> /\ began = {} /\ ended = {} /\ leaks = {} /\ loads = 0 /\ misses = 0

At(place) == call.at = place /\ UNCHANGED loads
Goes(place) == call' = [call EXCEPT !.at = place]
File == call.file
Base == call.page * PageSize
PageCount(size) == (size + PageSize - 1) \div PageSize
PagesFrom(page, size) == page .. page + PageCount(size) - 1

AllRead == UNCHANGED misses
ReadLost == misses < MaxMisses /\ misses' = misses + 1

-----------------------------------------------------------------------------
(* elf.c: a file that is no ELF file of the machine with the tables of      *)
(* sections, strings and symbols is not opened.  What closing leaves in use *)
(* are copies of these tables.                                              *)

VlElf_Open(file) == file.elf # "none"
Sections(file, name) == {s \in ToSet(file.sections) : s = name}
VlElf_FindSection(file, name) == Sections(file, name) # {}

\* A slip to compare with: a load that fails keeps its pages.
FailedKeeping(l) == {}
\* The pages that a load gives back when it fails.
Failed(l) == IF l.page = 0 THEN {} ELSE PagesFrom(l.page, l.size)
Fails ==
    /\ call' = Idle /\ open' = open - 1 /\ pages' = pages \ Failed(call)
    /\ UNCHANGED <<mods, nextPage, memory, began, ended, leaks>>

\* The header is read to clear memory, so that without it the file is refused.
\* Without the strings or the symbols no name is found.
VlModule_Load ==
    /\ call = Idle /\ loads < MaxLoads /\ loads' = loads + 1
    /\ \E file \in Files :
         LET Opened(f, intact) ==
               /\ open' = open + 1
               /\ call' = [at |-> "opened", file |-> f, page |-> 0, size |-> 0, header |-> 0, i |-> 1,
                           intact |-> intact]
         IN \/ VlElf_Open(file) /\ Opened(file, TRUE) /\ AllRead
            \/ VlElf_Open(file) /\ Opened([file EXCEPT !.got = -1], FALSE) /\ ReadLost
            \/ UNCHANGED <<call, open>> /\ IF VlElf_Open(file) THEN ReadLost ELSE AllRead
    /\ UNCHANGED <<mods, pages, nextPage, memory, began, ended, leaks>>

SizeOf(segments) == Max({0} \cup {s.from + s.memsz : s \in ToSet(segments)})

\* The pages for all segments together, as far as their headers are read; a
\* header that is not is the one before it once more.  Without pages the load
\* returns at once.
allocate ==
    /\ At("opened") /\ File.elf = "shared"
    /\ \E k \in 0 .. Len(File.segments) :
         LET read == IF k = 0 THEN File.segments ELSE RemoveAt(File.segments, k)
         IN /\ IF k = 0 THEN AllRead ELSE ReadLost
            /\ call' = [call EXCEPT !.at = "segments", !.page = nextPage, !.size = SizeOf(read),
                                    !.header = IF k = Len(File.segments) THEN k - 1 ELSE Len(File.segments),
                                    !.intact = @ /\ k = 0]
            /\ pages' = pages \cup PagesFrom(nextPage, SizeOf(read))
            /\ nextPage' = nextPage + PageCount(SizeOf(read))
    /\ UNCHANGED <<mods, open, memory, began, ended, leaks>>

allocate_fails ==
    /\ At("opened") /\ File.elf = "shared"
    /\ call' = Idle /\ leaks' = leaks \cup {"file"}
    /\ UNCHANGED <<mods, pages, nextPage, open, memory, began, ended, misses>>

not_shared == At("opened") /\ File.elf # "shared" /\ Fails /\ AllRead

\* Of a segment, n words are read to the place that the header h says; what the
\* file has more of is left as it was, and what it does not have is zeroed.  Its
\* pages are there already, unless they were counted without its header.
LoadTo(h, n, intact) ==
    LET s == File.segments[call.i]
        place == Base + File.segments[h].from
        loaded == place .. place + s.memsz - 1
        needed == {a \div PageSize : a \in loaded}
        Word(a, old) ==
            CASE a - place < n -> File.words[s.from + a - place]
              [] a - place >= s.filesz -> 0
              [] OTHER -> IF a \in DOMAIN memory THEN memory[a] ELSE old
    IN /\ \E old \in Leftover :
            memory' = [a \in DOMAIN memory \cup loaded |-> IF a \in loaded THEN Word(a, old) ELSE memory[a]]
       /\ pages' = pages \cup needed
       /\ leaks' = leaks \cup IF needed \subseteq PagesFrom(call.page, call.size) THEN {} ELSE {"pages"}
       /\ call' = [call EXCEPT !.i = @ + 1, !.header = h, !.intact = @ /\ intact]
       /\ UNCHANGED <<mods, nextPage, open, began, ended>>

VlElf_LoadProgram ==
    /\ At("segments") /\ call.i <= Len(File.segments)
    /\ LET size == File.segments[call.i].filesz
       IN \/ LoadTo(call.i, size, TRUE) /\ AllRead
          \/ call.header # 0 /\ LoadTo(call.header, size, FALSE) /\ ReadLost
          \/ \E n \in 0 .. size - 1 : LoadTo(call.i, n, FALSE) /\ ReadLost

\* No memory for a page that was counted without its header: those before it stay.
page_missing ==
    /\ At("segments") /\ call.i <= Len(File.segments) /\ AllRead
    /\ LET s == File.segments[call.i]
           needed == {a \div PageSize : a \in Base + s.from .. Base + s.from + s.memsz - 1}
       IN \E missing \in needed \ pages :
            LET got == {p \in needed : p < missing} \ pages
            IN /\ pages' = (pages \cup got) \ Failed(call)
               /\ leaks' = leaks \cup IF got = {} THEN {} ELSE {"pages"}
    /\ call' = Idle /\ open' = open - 1
    /\ UNCHANGED <<mods, nextPage, memory, began, ended>>

\* The offset of the GOT is the value of a symbol of the file.
segments_loaded ==
    /\ At("segments") /\ call.i > Len(File.segments) /\ AllRead
    /\ IF File.got = -1 THEN Fails
       ELSE /\ call' = [call EXCEPT !.at = "relocate", !.i = 1]
            /\ UNCHANGED <<mods, pages, nextPage, open, memory, began, ended, leaks>>

-----------------------------------------------------------------------------
(* relocate_section, entry by entry, for the sections one after the other   *)

resolve_symbol_addr(sym) == IF sym.defined THEN Base + sym.value ELSE Kernel[sym.name]
Resolves(sym) == sym.defined \/ sym.name \in DOMAIN Kernel

\* Where an entry writes, and what: A is the word that is there, P its address.
\* Of what is relative to the place or to the GOT, only symbols of the kernel
\* are relocated: the linker did the others.
Writes(r) ==
    LET P == Base + r.offset
        A == memory[P]
        S == resolve_symbol_addr(r.sym)
        GOT == Base + File.got
        none == [to |-> P, word |-> A]
    IN CASE r.type = "NONE" -> none
         [] r.type = "32" -> [to |-> P, word |-> S + A]
         [] r.type = "PC32" -> IF r.sym.defined THEN none ELSE [to |-> P, word |-> S + A - P]
         [] r.type \in {"GOT32", "GOT32X"} -> [to |-> A + GOT, word |-> S]
         [] r.type \in {"GLOB_DAT", "JMP_SLOT"} -> [to |-> P, word |-> S]
         [] r.type = "RELATIVE" -> [to |-> P, word |-> Base + A]
         [] r.type = "GOTOFF" -> IF r.sym.defined THEN none ELSE [to |-> P, word |-> S + A - GOT]
         [] r.type = "GOTPC" -> IF r.sym.defined THEN none ELSE [to |-> P, word |-> GOT + A - P]

\* The load has gone astray when an entry reads or writes elsewhere than in the
\* words of the module, which are the last ones.
relocate_section ==
    /\ At("relocate") /\ call.i <= Len(File.relocations) /\ AllRead
    /\ LET r == File.relocations[call.i]
           inside == {a \in DOMAIN memory : a >= Base}
       IN \/ r.type # "RELATIVE" /\ ~Resolves(r.sym) /\ Fails
          \/ /\ r.type = "RELATIVE" \/ Resolves(r.sym)
             /\ Base + r.offset \in inside /\ Writes(r).to \in inside
             /\ memory' = [memory EXCEPT ![Writes(r).to] = Writes(r).word]
             /\ call' = [call EXCEPT !.i = @ + 1]
             /\ UNCHANGED <<mods, pages, nextPage, open, began, ended, leaks>>

\* A section whose header or name is not read is not found, and is passed over.
section_not_found ==
    /\ At("relocate") /\ ReadLost
    /\ \E next \in call.i + 1 .. Len(File.relocations) + 1 :
         call' = [call EXCEPT !.i = next, !.intact = FALSE]
    /\ UNCHANGED <<mods, pages, nextPage, open, memory, began, ended, leaks>>

\* The note has the module's name.  For a note that is not read what an earlier
\* one left in memory may pass.
read_note ==
    /\ At("relocate") /\ call.i > Len(File.relocations)
    /\ LET there == VlElf_FindSection(File, ".note.vellum")
           Accept(intact) ==
               /\ call' = [call EXCEPT !.at = "construct", !.intact = @ /\ intact]
               /\ UNCHANGED <<mods, pages, nextPage, open, memory, began, ended, leaks>>
       IN \/ AllRead /\ there /\ File.named /\ Accept(TRUE)
          \/ ReadLost /\ there /\ Accept(FALSE)
          \/ Fails /\ IF there /\ File.named THEN ReadLost ELSE AllRead

\* No memory for the note or for the module.
note_fails == At("relocate") /\ call.i > Len(File.relocations) /\ Fails /\ AllRead

-----------------------------------------------------------------------------
(* Constructors, the entry point, destructors *)

run_constructors ==
    /\ At("construct")
    /\ LET there == VlElf_FindSection(File, ".init_array")
       IN \/ /\ there /\ AllRead /\ began' = began \cup {call.page} /\ Goes("enter")
             /\ UNCHANGED <<mods, pages, nextPage, open, memory, ended, leaks>>
          \/ Fails /\ IF there THEN ReadLost ELSE AllRead

\* They do not run when their section is not found.
run_destructors(page) ==
    \/ AllRead /\ ended' = ended \cup {page} /\ UNCHANGED leaks
    \/ ReadLost /\ leaks' = leaks \cup {"destructors"} /\ UNCHANGED ended

\* An entry point of zero is none, but counts as one that was tried.
enter ==
    /\ At("enter") /\ AllRead
    /\ Goes(IF File.entry = "fails" THEN "failed" ELSE "link")
    /\ UNCHANGED <<mods, pages, nextPage, open, memory, began, ended, leaks>>

entry_failed ==
    /\ At("failed") /\ run_destructors(call.page)
    /\ call' = Idle /\ open' = open - 1 /\ pages' = pages \ Failed(call)
    /\ UNCHANGED <<mods, nextPage, memory, began>>

link ==
    /\ At("link") /\ call' = Idle /\ AllRead
    /\ mods' = Append(mods, [file |-> File, page |-> call.page, size |-> call.size, intact |-> call.intact])
    /\ UNCHANGED <<pages, nextPage, open, memory, began, ended, leaks>>

\* A module is found behind another one: the first one stays.
VlModule_Unload ==
    \E i \in 2 .. Len(mods) :
        /\ At("idle") /\ run_destructors(mods[i].page)
        /\ mods' = RemoveAt(mods, i)
        /\ pages' = pages \ PagesFrom(mods[i].page, mods[i].size)
        /\ open' = open - 1
        /\ UNCHANGED <<call, nextPage, memory, began>>

\* A header or a table that is not read is whatever the memory held, and so is
\* what a module of such words does when it runs.
goes_astray ==
    /\ call' = [at |-> "astray"]
    /\ \/ call.at \notin {"idle", "astray"} /\ IF call.intact THEN ReadLost ELSE AllRead
       \/ call = Idle /\ (\E i \in 2 .. Len(mods) : ~mods[i].intact) /\ AllRead
    /\ UNCHANGED <<mods, pages, nextPage, open, memory, began, ended, leaks, loads>>

Next ==
    \/ VlModule_Load \/ allocate \/ allocate_fails \/ not_shared \/ VlElf_LoadProgram
    \/ page_missing \/ segments_loaded
    \/ relocate_section \/ section_not_found \/ read_note \/ note_fails
    \/ run_constructors \/ enter \/ entry_failed \/ link \/ VlModule_Unload \/ goes_astray

-----------------------------------------------------------------------------
\* The word that an entry stands for, by the definition of its type, with the
\* addend that the program was written with.
Meant(m, r) ==
    LET base == m.page * PageSize
        S == IF r.sym.defined THEN base + r.sym.value ELSE Kernel[r.sym.name]
        P == base + r.offset
    IN CASE r.type = "32" -> S + r.addend
         [] r.type = "PC32" -> S + r.addend - P
         [] r.type = "GOTOFF" -> S + r.addend - (base + m.file.got)
         [] r.type = "RELATIVE" -> base + r.addend
         [] r.type \in {"GLOB_DAT", "JMP_SLOT"} -> S
Comparable == {"32", "PC32", "GOTOFF", "RELATIVE", "GLOB_DAT", "JMP_SLOT"}

(* Whatever reads are lost on the way: between the calls the pages that are *)
(* held are those of the linked modules, none of two; each file that is     *)
(* open is that of one of them; a module that is linked has begun and not   *)
(* ended, one that is not has ended if it has begun; and every word of a    *)
(* linked module that was read whole is what its relocation means, however  *)
(* garbled the modules before and behind it are.  What the code is known to *)
(* leave behind (leaks) is excepted: the file of a load without pages,      *)
(* pages that were counted without their header, and destructors whose      *)
(* section was not read.                                                    *)
ModulesAreWhole ==
    call = Idle =>
      LET Of(m) == PagesFrom(m.page, m.size)
          linked == {m.page : m \in ToSet(mods)}
          held == UNION {Of(m) : m \in ToSet(mods)}
      IN /\ held \subseteq pages /\ ("pages" \notin leaks => held = pages)
         /\ \A i, j \in 1 .. Len(mods) : i # j => Of(mods[i]) \cap Of(mods[j]) = {}
         /\ "file" \notin leaks => open = Len(mods)
         /\ linked \subseteq began \ ended /\ ended \subseteq began
         /\ "destructors" \notin leaks => began \ ended = linked
         /\ \A m \in ToSet(mods), r \in UNION {ToSet(n.file.relocations) : n \in ToSet(mods)} :
              m.intact /\ r \in ToSet(m.file.relocations) /\ r.type \in Comparable =>
                memory[m.page * PageSize + r.offset] = Meant(m, r)
=============================================================================
