------------------------------ MODULE MemoryMap ------------------------------
(***************************************************************************)
(* How init_pma (vellum/arch/ia32/pc/bios/init.c) turns the memory map of  *)
(* the BIOS into the range and the reserved frames of the frame allocator. *)
(* Two passes over the map: the first finds the range of usable memory     *)
(* above LowLimit, the second reserves what is not usable inside it.       *)
(*                                                                         *)
(* Addresses of the map are 64 bits wide and are not bounded here; the     *)
(* variables base_paddr and limit_paddr hold Word values (uintptr_t).      *)
(***************************************************************************)
EXTENDS Integers, Sequences

CONSTANTS
  PageSize,
  LowLimit,   \* 0x100000, where the kernel image starts
  Word,       \* 2^32
  ImageEnd,   \* last byte of the image and of the bitmap behind it
  Maps        \* the memory maps a firmware may report

ASSUME MapAssumption ==
  /\ PageSize \in Nat \ {0} /\ LowLimit \in Nat \ {0} /\ Word \in Nat \ {0}
  /\ LowLimit % PageSize = 0
  /\ ImageEnd \in LowLimit .. Word - 1

USABLE   == 1
RESERVED == 2

VARIABLES
  map,            \* what VlBiosP_QueryMemoryMap reports, entry by entry
  smap_cursor,    \* the entry to query next
  phase,          \* "scan", "mark", then "ready", "failed" or "runaway"
  base_paddr, limit_paddr,
  pma_base_pfn, pma_limit_pfn,
  reserved        \* the frames marked reserved

vars == <<map, smap_cursor, phase, base_paddr, limit_paddr,
          pma_base_pfn, pma_limit_pfn, reserved>>

Page(paddr) == paddr \div PageSize

Init ==
  /\ map \in Maps
  /\ smap_cursor = 1
  /\ phase = "scan"
  /\ base_paddr = 0 /\ limit_paddr = 0
  /\ pma_base_pfn = 0 /\ pma_limit_pfn = 0
  /\ reserved = {}

Entry == map[smap_cursor]
LastByte(entry) == entry.base + entry.size - 1
IsLastEntry == smap_cursor = Len(map)

-----------------------------------------------------------------------------
(* The first pass. The comparison is made on 64 bits, the assignments      *)
(* truncate.                                                               *)

Counts == Entry.base >= LowLimit /\ Entry.type = USABLE

NewBase ==
  IF Counts /\ base_paddr = 0 THEN Entry.base % Word ELSE base_paddr

NewLimit ==
  IF Counts /\ limit_paddr < LastByte(Entry) THEN LastByte(Entry) % Word ELSE limit_paddr

(* The frames mm_pma_mark_reserved visits, given the allocator's range.    *)
Marked(base, limit, base_pfn, limit_pfn) ==
  {f \in base_pfn .. limit_pfn : Page(base) <= f /\ f <= Page(limit)}

(* mm_pma_mark_reserved counts up to limit_page - pma_base_pfn on an       *)
(* unsigned type: a limit below the base never ends the loop.              *)
IsRunaway(limit, base_pfn, limit_pfn) == Page(limit) < base_pfn \/ limit_pfn < base_pfn

ScanEntry ==
  /\ phase = "scan"
  /\ base_paddr' = NewBase
  /\ limit_paddr' = NewLimit
  /\ IF IsLastEntry
       THEN /\ smap_cursor' = 1
            /\ pma_base_pfn' = Page(base_paddr')
            /\ pma_limit_pfn' = Page(limit_paddr')
            /\ reserved' = Marked(base_paddr', ImageEnd, pma_base_pfn', pma_limit_pfn')
            /\ phase' = IF IsRunaway(ImageEnd, pma_base_pfn', pma_limit_pfn')
                          THEN "runaway" ELSE "mark"
       ELSE /\ smap_cursor' = smap_cursor + 1
            /\ UNCHANGED <<pma_base_pfn, pma_limit_pfn, reserved, phase>>
  /\ UNCHANGED map

-----------------------------------------------------------------------------
(* The second pass. limit_paddr is both the limit the entries are compared *)
(* with and the scratch variable for the end of the entry being reserved.  *)

(* Slips to compare with: areas that start below LowLimit are skipped,     *)
(* usable entries are not.                                                 *)
StartsInside == Entry.base >= LowLimit /\ Entry.base <= limit_paddr /\ Entry.type # USABLE
AnyType      == Entry.base + Entry.size > LowLimit /\ Entry.base <= limit_paddr

Overlaps ==
  /\ Entry.base + Entry.size > LowLimit
  /\ Entry.base <= limit_paddr
  /\ Entry.type # USABLE

Raised(paddr) == IF paddr < LowLimit THEN LowLimit ELSE paddr

NextEntry ==
  IF IsLastEntry THEN smap_cursor' = 1 /\ phase' = "ready"
                 ELSE smap_cursor' = smap_cursor + 1 /\ UNCHANGED phase

SkipEntry ==
  /\ phase = "mark"
  /\ ~Overlaps
  /\ NextEntry
  /\ UNCHANGED <<map, base_paddr, limit_paddr, pma_base_pfn, pma_limit_pfn, reserved>>

MarkEntry ==
  /\ phase = "mark"
  /\ Overlaps
  /\ base_paddr' = Raised(Entry.base) % Word
  /\ limit_paddr' = LastByte(Entry) % Word
  /\ IF IsRunaway(limit_paddr', pma_base_pfn, pma_limit_pfn)
       THEN phase' = "runaway" /\ UNCHANGED <<smap_cursor, reserved>>
       ELSE /\ reserved' = reserved \cup
                 Marked(base_paddr', limit_paddr', pma_base_pfn, pma_limit_pfn)
            /\ NextEntry
  /\ UNCHANGED <<map, pma_base_pfn, pma_limit_pfn>>

(* The BIOS call may fail: init_pma returns its status at once.            *)
QueryFails ==
  /\ phase \in {"scan", "mark"}
  /\ phase' = "failed"
  /\ UNCHANGED <<map, smap_cursor, base_paddr, limit_paddr,
                 pma_base_pfn, pma_limit_pfn, reserved>>

Next == ScanEntry \/ SkipEntry \/ MarkEntry \/ QueryFails

Spec == Init /\ [][Next]_vars /\ WF_vars(ScanEntry \/ SkipEntry \/ MarkEntry)

-----------------------------------------------------------------------------
(* What the map says of an address.                                        *)

Bytes(entry) == entry.base .. LastByte(entry)
IsTaken(paddr)  == \E i \in DOMAIN map : map[i].type # USABLE /\ paddr \in Bytes(map[i])
IsUsable(paddr) == ~IsTaken(paddr) /\ \E i \in DOMAIN map : map[i].type = USABLE /\ paddr \in Bytes(map[i])

PageBytes(f) == f * PageSize .. f * PageSize + PageSize - 1

(* The frames mm_pma_allocate_frame can hand out.                          *)
Allocatable == (pma_base_pfn .. pma_limit_pfn - 1) \ reserved

TypeOK ==
  /\ smap_cursor \in DOMAIN map
  /\ phase \in {"scan", "mark", "ready", "failed", "runaway"}
  /\ base_paddr \in 0 .. Word - 1 /\ limit_paddr \in 0 .. Word - 1
  /\ pma_base_pfn \in Nat /\ pma_limit_pfn \in Nat
  /\ reserved \subseteq pma_base_pfn .. pma_limit_pfn

(* The second pass compares an entry with the end of the area reserved last:  *)
(* an entry that begins after the end of an earlier area may be passed over.  *)
Hidden(i) ==
  \E j \in 1 .. i - 1 :
    map[j].type # USABLE /\ LowLimit <= LastByte(map[j]) /\ LastByte(map[j]) < map[i].base

(* Nothing the map reports as anything but usable can be allocated, not even  *)
(* a byte of it (init.c:113), as many such areas as there are and in whatever *)
(* order; unless the area begins above the end of one that came before it and *)
(* ended above LowLimit (init.c:123 compares it with that end). The order in  *)
(* which a firmware lists its areas decides which of them are reserved.       *)
ReservedIsKept ==
  phase = "ready" =>
    \A i \in DOMAIN map :
      map[i].type # USABLE /\ ~Hidden(i) =>
        \A f \in Allocatable, paddr \in 0 .. Word - 1 :
          paddr \in PageBytes(f) => paddr \notin Bytes(map[i])

\* Every page of usable memory between LowLimit and Word lies in the range of
\* the allocator (init.c:88).
RangeCoversUsable ==
  phase = "ready" =>
    \A i \in DOMAIN map :
      LET e == map[i]
      IN  e.type = USABLE /\ e.base >= LowLimit /\ LastByte(e) < Word
            => pma_base_pfn <= Page(e.base) /\ Page(LastByte(e)) <= pma_limit_pfn

(* No map sends mm_pma_mark_reserved off over the whole address space, the  *)
(* range of the allocator has all usable memory, and a page of it that is   *)
(* wholly usable and holds neither the image nor the last byte of memory    *)
(* can be allocated: the outward rounding of reserved areas costs no more   *)
(* than the pages they touch.                                               *)
UsableIsAllocatable ==
  /\ phase # "runaway"
  /\ RangeCoversUsable
  /\ phase = "ready" =>
       \A f \in Page(ImageEnd) + 1 .. pma_limit_pfn - 1 :
         (\A paddr \in PageBytes(f) : IsUsable(paddr)) => f \in Allocatable
-----------------------------------------------------------------------------
(* Small maps for TLC: usable memory from LowLimit on, in one or two         *)
(* regions, and reserved areas.                                              *)

Entry3(type, from, end) == [base |-> from, size |-> end - from, type |-> type]
Reserving(a) == Entry3(RESERVED, a[1], a[2])

\* The usable region that starts at LowLimit and holds the image.
FirstEnds == ImageEnd + PageSize .. Word - 5
First(end) == Entry3(USABLE, LowLimit, end)

\* Areas anywhere, and those between a few ends: below LowLimit, at it, inside of
\* a page and at its end, next to each other or apart, across the end of memory.
Areas == {a \in (0 .. Word - 1) \X (1 .. Word) : a[1] < a[2]}
AreaEnds == {2, 6, 7, 9, 10, 13, Word - 2, Word}
FewAreas == {a \in AreaEnds \X AreaEnds : a[1] < a[2]}

(* One usable region and one reserved area anywhere below the limit, before  *)
(* or after it; two usable regions with a hole between them that is, or lies *)
(* inside, a reserved area; and a usable region with two reserved areas, the *)
(* one before it or both behind it, or with three behind it, in every order. *)
SmallMaps ==
  {<<First(p), Reserving(a)>> : p \in FirstEnds, a \in Areas}
  \cup
  {<<Reserving(a), First(p)>> : p \in FirstEnds, a \in Areas}
  \cup
  {<<First(h[1]), Entry3(RESERVED, h[1] - h[2], h[1] + h[3]), Entry3(USABLE, h[1] + h[3], Word - h[4])>> :
     h \in {t \in FirstEnds \X (0 .. 2) \X (1 .. 4) \X (0 .. 2) : t[1] + t[3] < Word - t[4]}}
  \cup
  {<<Reserving(a), First(Word - 2), Reserving(b)>> : a \in FewAreas, b \in FewAreas}
  \cup
  {<<First(Word - 2), Reserving(a), Reserving(b)>> : a \in FewAreas, b \in FewAreas}
  \cup
  {<<First(Word - 2), Reserving(a), Reserving(b), Reserving(c)>> : a \in FewAreas, b \in FewAreas, c \in FewAreas}
=============================================================================
