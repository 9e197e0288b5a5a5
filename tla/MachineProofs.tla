--------------------------- MODULE MachineProofs ---------------------------
(* Proofs about the memory map, the chains of interrupt handlers with the    *)
(* masks of the controllers, the emulated atomics, the console on its        *)
(* display, the terminal, the arrow of the graphical shell, the real time    *)
(* clock, the transfers of the IDE drives and the partitions of disks.  Of   *)
(* the map: its type, that reserved memory is kept, for every size of pages  *)
(* and words, any number of reserved areas and every order of them, unless   *)
(* an area is hidden by an earlier one, and that usable memory can be        *)
(* allocated, for any number of reserved areas.                              *)
EXTENDS MemoryMap, Interrupts, Display, Ansiterm, Guishell, Clock, Ide, Partitions, SequenceTheorems, FiniteSetTheorems,
        NaturalsInduction, WellFoundedInduction, TLAPS

-----------------------------------------------------------------------------
(* Memory maps                                                               *)

Entries == [base : Nat, size : Nat \ {0}, type : Nat]

\* What the first pass counts: it ends in limit_paddr.
Counted(e) == e.base >= LowLimit /\ e.type = USABLE

\* A reserved area that reaches into the range of the allocator.
Matters(m, i) ==
  /\ m[i].type # USABLE /\ LastByte(m[i]) >= LowLimit
  /\ \E u \in DOMAIN m : Counted(m[u]) /\ m[i].base <= LastByte(m[u])

(* What a map must be for its 64 bits to mean the same in a word: nothing    *)
(* crosses the end of what a word can address and no usable memory lies      *)
(* beyond. Reserved areas are as many as there may be, in any order.         *)
OrdinaryMap(m) ==
  /\ m \in Seq(Entries) /\ m # <<>>
  /\ \A i \in DOMAIN m : LastByte(m[i]) < Word \/ (m[i].type # USABLE /\ m[i].base >= Word)

-----------------------------------------------------------------------------
(* Pages                                                                     *)

(* The page of an address, as shifting it by PAGE_SHIFT gives it.            *)
LEMMA PageOf ==
  ASSUME NEW p \in Nat
  PROVE  /\ Page(p) \in Nat
         /\ Page(p) * PageSize <= p /\ p < (Page(p) + 1) * PageSize
<1>1. PageSize \in Nat /\ PageSize > 0
  BY MapAssumption
<1>2. p = PageSize * (p \div PageSize) + (p % PageSize) /\ p % PageSize \in 0 .. PageSize - 1 /\ p \div PageSize \in Nat
  BY <1>1
<1> QED
  BY <1>1, <1>2 DEF Page

(* Addresses in order have pages in order.                                   *)
LEMMA PagesInOrder ==
  ASSUME NEW p \in Nat, NEW q \in Nat, p <= q
  PROVE  Page(p) <= Page(q)
<1>1. PageSize \in Nat /\ PageSize > 0
  BY MapAssumption
<1>2. Page(p) \in Nat /\ Page(q) \in Nat /\ Page(p) * PageSize <= p /\ q < (Page(q) + 1) * PageSize
  BY PageOf
<1>3. ASSUME Page(p) >= Page(q) + 1 PROVE FALSE
  <2>1. Page(p) * PageSize >= (Page(q) + 1) * PageSize
    BY <1>1, <1>2, <1>3
  <2> QED
    BY <1>1, <1>2, <2>1
<1> QED
  BY <1>2, <1>3

(* The bytes of a page are the addresses it is the page of.                  *)
LEMMA BytesOfPage ==
  ASSUME NEW f \in Nat, NEW p \in Nat, p \in PageBytes(f)
  PROVE  Page(p) = f
<1>1. PageSize \in Nat /\ PageSize > 0
  BY MapAssumption
<1>2. f * PageSize \in Nat /\ f * PageSize <= p /\ p < f * PageSize + PageSize
  BY <1>1 DEF PageBytes
<1>3. Page(p) \in Nat /\ Page(p) * PageSize <= p /\ p < Page(p) * PageSize + PageSize
  BY <1>1, PageOf
<1>4. ASSUME Page(p) >= f + 1 PROVE FALSE
  <2>1. Page(p) * PageSize >= f * PageSize + PageSize
    BY <1>1, <1>3, <1>4
  <2> QED
    BY <1>1, <1>2, <1>3, <2>1
<1>5. ASSUME f >= Page(p) + 1 PROVE FALSE
  <2>1. f * PageSize >= Page(p) * PageSize + PageSize
    BY <1>1, <1>3, <1>5
  <2> QED
    BY <1>1, <1>2, <1>3, <2>1
<1> QED
  BY <1>3, <1>4, <1>5

-----------------------------------------------------------------------------
(* The inductive invariant                                                   *)

\* A limit is the end of a counted entry.
IsEnd(m, limit) == \E u \in DOMAIN m : Counted(m[u]) /\ limit = LastByte(m[u])

\* A range is empty, or inside of what counted entries span.
IsRange(m, base_pfn, limit_pfn) ==
  \/ limit_pfn = 0
  \/ /\ Page(LowLimit) <= base_pfn
     /\ \E u \in DOMAIN m : Counted(m[u]) /\ limit_pfn = Page(LastByte(m[u]))

\* No byte of an entry lies in a page of a range that is not marked.
Kept(e, base_pfn, limit_pfn, marked) ==
  \A f \in (base_pfn .. limit_pfn - 1) \ marked, p \in Nat : p \in PageBytes(f) => p \notin Bytes(e)
IsKept(i) == map[i].type # USABLE /\ ~Hidden(i) => Kept(map[i], pma_base_pfn, pma_limit_pfn, reserved)

\* The entries still to come that must be marked begin within a limit.
AreWithin(from, limit) ==
  \A i \in from .. Len(map) : Matters(map, i) /\ ~Hidden(i) => map[i].base <= limit

(* In the first pass the variables are what the entries so far have given.   *)
ScanInv ==
  phase = "scan" =>
    /\ base_paddr = 0 \/ base_paddr >= LowLimit
    /\ limit_paddr = 0 \/ (base_paddr >= LowLimit /\ IsEnd(map, limit_paddr))
    /\ \A u \in 1 .. smap_cursor - 1 : Counted(map[u]) => LastByte(map[u]) <= limit_paddr

(* After it the range is that of counted entries, or empty.                  *)
RangeInv == phase \in {"mark", "ready"} => IsRange(map, pma_base_pfn, pma_limit_pfn)

(* In the second pass the entries so far are kept unless they are hidden,    *)
(* and those to come that matter and are not hidden will pass the comparison *)
(* with the limit, whichever area it is the end of by now.                   *)
MarkInv ==
  /\ phase = "mark" => \A i \in 1 .. smap_cursor - 1 : IsKept(i)
  /\ phase = "ready" => \A i \in DOMAIN map : IsKept(i)
  /\ phase = "mark" => AreWithin(smap_cursor, limit_paddr)

IInv == TypeOK /\ map \in Maps /\ ScanInv /\ RangeInv /\ MarkInv

-----------------------------------------------------------------------------
(* Entries that do no harm, and entries that are marked                      *)

(* LowLimit begins a page: an address below it has an earlier page.          *)
LEMMA BelowLowLimit ==
  ASSUME NEW p \in Nat, Page(LowLimit) <= Page(p)
  PROVE  LowLimit <= p
<1>1. PageSize \in Nat /\ PageSize > 0 /\ LowLimit \in Nat
  BY MapAssumption
<1>2. LowLimit = PageSize * (LowLimit \div PageSize) + (LowLimit % PageSize)
  BY <1>1
<1>3. LowLimit = Page(LowLimit) * PageSize /\ Page(LowLimit) \in Nat
  BY <1>1, <1>2, MapAssumption, PageOf DEF Page
<1>4. Page(p) \in Nat /\ Page(p) * PageSize <= p
  BY PageOf
<1>5. Page(LowLimit) * PageSize <= Page(p) * PageSize
  BY <1>1, <1>3, <1>4
<1> QED
  BY <1>1, <1>3, <1>4, <1>5

(* What an entry of a map is.                                                *)
LEMMA EntryFacts ==
  ASSUME NEW m, OrdinaryMap(m), NEW i \in DOMAIN m
  PROVE  /\ m[i].base \in Nat /\ m[i].type \in Nat /\ LastByte(m[i]) \in Nat
         /\ m[i].size \in Nat /\ m[i].base <= LastByte(m[i])
         /\ LastByte(m[i]) = m[i].base + m[i].size - 1
         /\ DOMAIN m = 1 .. Len(m) /\ Len(m) \in Nat /\ i \in Nat
<1>1. m \in Seq(Entries)
  BY DEF OrdinaryMap
<1>2. m[i] \in Entries /\ DOMAIN m = 1 .. Len(m) /\ Len(m) \in Nat
  BY <1>1
<1> QED
  BY <1>2 DEF Entries, LastByte

(* A page of the range lies between LowLimit and the end of a counted entry. *)
LEMMA RangeIsInside ==
  ASSUME NEW m, OrdinaryMap(m), NEW b \in Nat, NEW l \in Nat, IsRange(m, b, l),
         NEW f \in b .. l - 1, NEW p \in Nat, p \in PageBytes(f)
  PROVE  /\ f \in Nat /\ Page(p) = f /\ LowLimit <= p
         /\ \E u \in DOMAIN m : Counted(m[u]) /\ p < LastByte(m[u])
<1>1. f \in Nat /\ Page(p) = f /\ l # 0 /\ f < l /\ b <= f
  BY BytesOfPage
<1>2. LowLimit \in Nat /\ Page(LowLimit) \in Nat
  BY MapAssumption, PageOf
<1>3. Page(LowLimit) <= f
  BY <1>1, <1>2 DEF IsRange
<1>4. PICK u \in DOMAIN m : Counted(m[u]) /\ l = Page(LastByte(m[u]))
  BY <1>1 DEF IsRange
<1>5. LastByte(m[u]) \in Nat
  BY EntryFacts
<1>6. p < LastByte(m[u])
  BY <1>1, <1>4, <1>5, PagesInOrder
<1> QED
  BY <1>1, <1>3, <1>4, <1>6, BelowLowLimit

(* An area that does not matter touches no page of the range.                *)
LEMMA HarmlessIsKept ==
  ASSUME NEW m, OrdinaryMap(m), NEW b \in Nat, NEW l \in Nat, IsRange(m, b, l),
         NEW marked, NEW i \in DOMAIN m, m[i].type # USABLE, ~Matters(m, i)
  PROVE  Kept(m[i], b, l, marked)
<1> SUFFICES ASSUME NEW f \in (b .. l - 1) \ marked, NEW p \in Nat, p \in PageBytes(f), p \in Bytes(m[i])
             PROVE  FALSE
  BY DEF Kept
<1>1. m[i].base \in Nat /\ LastByte(m[i]) \in Nat /\ m[i].base <= p /\ p <= LastByte(m[i])
  BY EntryFacts DEF Bytes
<1>2. LowLimit <= p /\ LowLimit \in Nat
  BY RangeIsInside, MapAssumption
<1>3. PICK u \in DOMAIN m : Counted(m[u]) /\ p < LastByte(m[u])
  BY RangeIsInside
<1>4. LastByte(m[u]) \in Nat
  BY EntryFacts
<1> QED
  BY <1>1, <1>2, <1>3, <1>4 DEF Matters

(* An area is kept once every page of the range is marked from its first one *)
(* above LowLimit to its last one.                                           *)
LEMMA MarkedIsKept ==
  ASSUME NEW m, OrdinaryMap(m), NEW b \in Nat, NEW l \in Nat, IsRange(m, b, l),
         NEW marked, NEW i \in DOMAIN m,
         Marked(Raised(m[i].base), LastByte(m[i]), b, l) \subseteq marked
  PROVE  Kept(m[i], b, l, marked)
<1> SUFFICES ASSUME NEW f \in (b .. l - 1) \ marked, NEW p \in Nat, p \in PageBytes(f), p \in Bytes(m[i])
             PROVE  FALSE
  BY DEF Kept
<1>1. m[i].base \in Nat /\ LastByte(m[i]) \in Nat /\ m[i].base <= p /\ p <= LastByte(m[i])
  BY EntryFacts DEF Bytes
<1>2. Page(p) = f /\ LowLimit <= p /\ LowLimit \in Nat
  BY RangeIsInside, MapAssumption
<1>3. Raised(m[i].base) \in Nat /\ Raised(m[i].base) <= p
  BY <1>1, <1>2 DEF Raised
<1>4. Page(Raised(m[i].base)) <= f /\ f <= Page(LastByte(m[i]))
  BY <1>1, <1>2, <1>3, PagesInOrder
<1> QED
  BY <1>4 DEF Marked

-----------------------------------------------------------------------------
(* Each step keeps the invariant                                             *)

(* Arithmetic on words.                                                      *)
LEMMA Truncated ==
  ASSUME NEW n \in Nat
  PROVE  n % Word \in 0 .. Word - 1 /\ (n < Word => n % Word = n)
BY MapAssumption

(* Before the first entry is read nothing is known.                          *)
LEMMA InitCorrect ==
  ASSUME \A m \in Maps : OrdinaryMap(m), Init
  PROVE  IInv
<1>1. map \in Maps /\ map \in Seq(Entries) /\ map # <<>>
  BY DEF Init, OrdinaryMap
<1>2. 1 \in DOMAIN map
  BY <1>1
<1>3. TypeOK
  BY <1>2, MapAssumption DEF Init, TypeOK
<1> QED
  BY <1>1, <1>3 DEF IInv, Init, ScanInv, RangeInv, MarkInv

(* The first pass: base_paddr and limit_paddr after an entry.                *)
LEMMA ScanPasses ==
  ASSUME \A m \in Maps : OrdinaryMap(m), IInv, phase = "scan"
  PROVE  /\ NewBase \in 0 .. Word - 1 /\ NewLimit \in 0 .. Word - 1
         /\ NewBase = 0 \/ NewBase >= LowLimit
         /\ NewLimit = 0 \/ (NewBase >= LowLimit /\ IsEnd(map, NewLimit))
         /\ \A u \in 1 .. smap_cursor : Counted(map[u]) => LastByte(map[u]) <= NewLimit
<1>1. OrdinaryMap(map) /\ smap_cursor \in DOMAIN map /\ LowLimit \in Nat /\ Word \in Nat
  BY MapAssumption DEF IInv, TypeOK
<1>2. /\ Entry.base \in Nat /\ LastByte(Entry) \in Nat /\ Entry.base <= LastByte(Entry)
      /\ smap_cursor \in Nat /\ DOMAIN map = 1 .. Len(map) /\ Len(map) \in Nat
  BY <1>1, EntryFacts DEF Entry
<1>3. Counts <=> Counted(Entry)
  BY DEF Counts, Counted
<1>4. Counts => LastByte(Entry) < Word
  BY <1>1, <1>3 DEF OrdinaryMap, Counted, Entry
<1>5. Counts => Entry.base % Word = Entry.base /\ LastByte(Entry) % Word = LastByte(Entry)
  <2>1. Counts => Entry.base < Word
    BY <1>1, <1>2, <1>4
  <2>2. (Entry.base < Word => Entry.base % Word = Entry.base) /\ (LastByte(Entry) < Word => LastByte(Entry) % Word = LastByte(Entry))
    BY <1>2, Truncated
  <2> QED
    BY <1>4, <2>1, <2>2
<1>6. base_paddr \in 0 .. Word - 1 /\ limit_paddr \in 0 .. Word - 1
  BY DEF IInv, TypeOK
<1>7. NewBase = (IF Counts /\ base_paddr = 0 THEN Entry.base ELSE base_paddr)
  BY <1>5 DEF NewBase
<1>8. NewLimit = (IF Counts /\ limit_paddr < LastByte(Entry) THEN LastByte(Entry) ELSE limit_paddr)
  BY <1>5 DEF NewLimit
<1>9. /\ base_paddr = 0 \/ base_paddr >= LowLimit
      /\ limit_paddr = 0 \/ (base_paddr >= LowLimit /\ IsEnd(map, limit_paddr))
      /\ \A u \in 1 .. smap_cursor - 1 : Counted(map[u]) => LastByte(map[u]) <= limit_paddr
  BY DEF IInv, ScanInv
<1>10. Counts => Entry.base >= LowLimit
  BY DEF Counts
<1>11. NewBase \in 0 .. Word - 1 /\ NewLimit \in 0 .. Word - 1
  BY <1>1, <1>2, <1>4, <1>6, <1>7, <1>8
<1>12. NewBase = 0 \/ NewBase >= LowLimit
  BY <1>1, <1>2, <1>6, <1>7, <1>9, <1>10
<1>13. NewLimit = 0 \/ (NewBase >= LowLimit /\ IsEnd(map, NewLimit))
  <2>1. CASE Counts /\ limit_paddr < LastByte(Entry)
    <3>1. NewLimit = LastByte(Entry) /\ IsEnd(map, NewLimit)
      BY <2>1, <1>1, <1>3, <1>8 DEF IsEnd, Entry
    <3>2. NewBase >= LowLimit
      BY <2>1, <1>1, <1>2, <1>6, <1>7, <1>9, <1>10
    <3> QED
      BY <3>1, <3>2
  <2>2. CASE ~(Counts /\ limit_paddr < LastByte(Entry))
    <3>1. NewLimit = limit_paddr
      BY <2>2, <1>8
    <3>2. base_paddr >= LowLimit => NewBase >= LowLimit
      BY <1>1, <1>2, <1>6, <1>7, <1>10
    <3> QED
      BY <3>1, <3>2, <1>9
  <2> QED
    BY <2>1, <2>2
<1>14. ASSUME NEW u \in 1 .. smap_cursor, Counted(map[u])
       PROVE  LastByte(map[u]) <= NewLimit
  <2>1. limit_paddr <= NewLimit
    BY <1>2, <1>6, <1>8
  <2>2. CASE u = smap_cursor
    BY <2>2, <1>14, <1>2, <1>3, <1>6, <1>8 DEF Entry
  <2>3. CASE u # smap_cursor
    <3>1. u \in 1 .. smap_cursor - 1 /\ u \in DOMAIN map
      BY <2>3, <1>1, <1>2
    <3>2. LastByte(map[u]) <= limit_paddr /\ LastByte(map[u]) \in Nat
      BY <3>1, <1>1, <1>9, <1>14, EntryFacts
    <3> QED
      BY <3>2, <2>1, <1>6, <1>11
  <2> QED
    BY <2>2, <2>3
<1> QED
  BY <1>11, <1>12, <1>13, <1>14

(* The first pass keeps the invariant, and its end gives the range.          *)
LEMMA ScanCorrect ==
  ASSUME \A m \in Maps : OrdinaryMap(m), IInv, ScanEntry
  PROVE  IInv'
<1>1. phase = "scan" /\ map' = map /\ base_paddr' = NewBase /\ limit_paddr' = NewLimit
  BY DEF ScanEntry
<1>2. /\ NewBase \in 0 .. Word - 1 /\ NewLimit \in 0 .. Word - 1
      /\ NewBase = 0 \/ NewBase >= LowLimit
      /\ NewLimit = 0 \/ (NewBase >= LowLimit /\ IsEnd(map, NewLimit))
      /\ \A u \in 1 .. smap_cursor : Counted(map[u]) => LastByte(map[u]) <= NewLimit
  BY <1>1, ScanPasses
<1>3. OrdinaryMap(map) /\ map \in Maps /\ smap_cursor \in DOMAIN map
  BY DEF IInv, TypeOK
<1>4. DOMAIN map = 1 .. Len(map) /\ Len(map) \in Nat /\ smap_cursor \in Nat
  BY <1>3, EntryFacts
<1>5. CASE IsLastEntry
  <2>1. /\ smap_cursor' = 1 /\ smap_cursor = Len(map)
        /\ pma_base_pfn' = Page(NewBase) /\ pma_limit_pfn' = Page(NewLimit)
        /\ reserved' = Marked(NewBase, ImageEnd, pma_base_pfn', pma_limit_pfn')
        /\ phase' \in {"mark", "runaway"}
    BY <1>1, <1>5 DEF ScanEntry, IsLastEntry
  <2>2. NewBase \in Nat /\ NewLimit \in Nat /\ pma_base_pfn' \in Nat /\ pma_limit_pfn' \in Nat
    BY <1>2, <2>1, PageOf, MapAssumption
  <2>3. TypeOK'
    <3>1. reserved' \subseteq pma_base_pfn' .. pma_limit_pfn'
      BY <2>1 DEF Marked
    <3>2. smap_cursor' \in DOMAIN map'
      BY <1>1, <1>3, <1>4, <2>1
    <3> QED
      BY <1>1, <1>2, <2>1, <2>2, <3>1, <3>2 DEF TypeOK
  <2>4. IsRange(map, pma_base_pfn', pma_limit_pfn')
    <3>1. CASE NewLimit = 0
      <4>1. Page(0) = 0
        BY MapAssumption DEF Page
      <4> QED
        BY <3>1, <4>1, <2>1 DEF IsRange
    <3>2. CASE NewLimit # 0
      <4>1. PICK u \in DOMAIN map : Counted(map[u]) /\ NewLimit = LastByte(map[u])
        BY <3>2, <1>2 DEF IsEnd
      <4>2. Page(LowLimit) <= Page(NewBase)
        BY <3>2, <1>2, <2>2, PagesInOrder, MapAssumption
      <4> QED
        BY <4>1, <4>2, <2>1 DEF IsRange
    <3> QED
      BY <3>1, <3>2
  <2>5. AreWithin(1, NewLimit)
    <3> SUFFICES ASSUME NEW i \in 1 .. Len(map), Matters(map, i)
                 PROVE  map[i].base <= NewLimit
      BY DEF AreWithin
    <3>1. PICK u \in DOMAIN map : Counted(map[u]) /\ map[i].base <= LastByte(map[u])
      BY DEF Matters
    <3>2. map[i].base \in Nat /\ LastByte(map[u]) \in Nat
      BY <1>3, <1>4, EntryFacts
    <3>3. LastByte(map[u]) <= NewLimit
      BY <3>1, <1>2, <1>4, <2>1
    <3> QED
      BY <3>1, <3>2, <3>3, <2>2
  <2>6. ScanInv' /\ RangeInv'
    BY <1>1, <2>1, <2>4 DEF ScanInv, RangeInv
  <2>7. MarkInv'
    BY <1>1, <2>1, <2>5 DEF MarkInv, AreWithin, Hidden
  <2> QED
    BY <1>1, <1>3, <2>3, <2>6, <2>7 DEF IInv
<1>6. CASE ~IsLastEntry
  <2>1. smap_cursor' = smap_cursor + 1 /\ UNCHANGED <<pma_base_pfn, pma_limit_pfn, reserved, phase>>
    BY <1>6 DEF ScanEntry
  <2>2. smap_cursor' \in DOMAIN map /\ smap_cursor' - 1 = smap_cursor
    BY <1>3, <1>4, <1>6, <2>1 DEF IsLastEntry
  <2>3. TypeOK'
    BY <1>1, <1>2, <2>1, <2>2 DEF IInv, TypeOK
  <2>4. ScanInv'
    BY <1>1, <1>2, <2>1, <2>2 DEF ScanInv, IsEnd
  <2>5. RangeInv' /\ MarkInv'
    BY <1>1, <2>1 DEF RangeInv, MarkInv
  <2> QED
    BY <1>1, <1>3, <2>3, <2>4, <2>5 DEF IInv
<1> QED
  BY <1>5, <1>6

(* The second pass goes on from an entry that is kept.                       *)
LEMMA EntryPassed ==
  ASSUME \A m \in Maps : OrdinaryMap(m), IInv, phase = "mark", NextEntry,
         UNCHANGED <<map, pma_base_pfn, pma_limit_pfn>>,
         base_paddr' \in 0 .. Word - 1, limit_paddr' \in 0 .. Word - 1,
         reserved \subseteq reserved', reserved' \subseteq pma_base_pfn .. pma_limit_pfn,
         Entry.type # USABLE /\ ~Hidden(smap_cursor) => Kept(Entry, pma_base_pfn, pma_limit_pfn, reserved'),
         AreWithin(smap_cursor + 1, limit_paddr')
  PROVE  IInv'
<1>1. /\ OrdinaryMap(map) /\ map \in Maps /\ smap_cursor \in DOMAIN map
      /\ pma_base_pfn \in Nat /\ pma_limit_pfn \in Nat /\ IsRange(map, pma_base_pfn, pma_limit_pfn)
  BY DEF IInv, TypeOK, RangeInv
<1>2. DOMAIN map = 1 .. Len(map) /\ Len(map) \in Nat /\ smap_cursor \in Nat
  BY <1>1, EntryFacts
<1>3. ASSUME NEW i \in 1 .. smap_cursor, map[i].type # USABLE, ~Hidden(i)
      PROVE  Kept(map[i], pma_base_pfn, pma_limit_pfn, reserved')
  <2>1. CASE i = smap_cursor
    BY <2>1, <1>3 DEF Entry
  <2>2. CASE i # smap_cursor
    <3>1. i \in 1 .. smap_cursor - 1
      BY <2>2, <1>2
    <3>2. Kept(map[i], pma_base_pfn, pma_limit_pfn, reserved)
      BY <3>1, <1>3 DEF IInv, MarkInv, IsKept
    <3> QED
      BY <3>2 DEF Kept
  <2> QED
    BY <2>1, <2>2
<1>4. CASE IsLastEntry
  <2>1. smap_cursor' = 1 /\ phase' = "ready" /\ smap_cursor = Len(map)
    BY <1>4 DEF NextEntry, IsLastEntry
  <2>2. TypeOK'
    BY <1>1, <1>2, <2>1 DEF TypeOK
  <2>3. ScanInv' /\ RangeInv'
    BY <1>1, <2>1 DEF ScanInv, RangeInv
  <2>4. MarkInv'
    BY <1>2, <1>3, <2>1 DEF MarkInv, IsKept, Hidden
  <2> QED
    BY <1>1, <2>2, <2>3, <2>4 DEF IInv
<1>5. CASE ~IsLastEntry
  <2>1. smap_cursor' = smap_cursor + 1 /\ phase' = "mark" /\ smap_cursor # Len(map)
    BY <1>5 DEF NextEntry, IsLastEntry
  <2>2. TypeOK'
    BY <1>1, <1>2, <2>1 DEF TypeOK
  <2>3. ScanInv' /\ RangeInv'
    BY <1>1, <2>1 DEF ScanInv, RangeInv
  <2>4. smap_cursor' - 1 = smap_cursor
    <3>1. smap_cursor \in Nat
      BY <1>2
    <3>2. smap_cursor' = smap_cursor + 1
      BY <2>1
    <3> QED
      BY <3>1, <3>2
  <2>5. MarkInv'
    BY <1>3, <2>1, <2>4 DEF MarkInv, IsKept, Hidden, AreWithin
  <2> QED
    BY <1>1, <2>2, <2>3, <2>5 DEF IInv
<1> QED
  BY <1>4, <1>5

(* An entry that is passed over does not matter, or is hidden.               *)
LEMMA SkipCorrect ==
  ASSUME \A m \in Maps : OrdinaryMap(m), IInv, SkipEntry
  PROVE  IInv'
<1>1. /\ phase = "mark" /\ ~Overlaps
      /\ UNCHANGED <<map, base_paddr, limit_paddr, pma_base_pfn, pma_limit_pfn, reserved>>
  BY DEF SkipEntry
<1>2. /\ OrdinaryMap(map) /\ map \in Maps /\ smap_cursor \in DOMAIN map /\ limit_paddr \in 0 .. Word - 1
      /\ pma_base_pfn \in Nat /\ pma_limit_pfn \in Nat /\ IsRange(map, pma_base_pfn, pma_limit_pfn)
      /\ LowLimit \in Nat /\ Word \in Nat
  BY <1>1, MapAssumption DEF IInv, TypeOK, RangeInv
<1>3. /\ DOMAIN map = 1 .. Len(map) /\ Len(map) \in Nat /\ smap_cursor \in Nat
      /\ Entry.base \in Nat /\ Entry.size \in Nat /\ LastByte(Entry) = Entry.base + Entry.size - 1
  BY <1>2, EntryFacts DEF Entry
<1>4. ASSUME Matters(map, smap_cursor), ~Hidden(smap_cursor) PROVE FALSE
  <2>1. Entry.base <= limit_paddr
    BY <1>1, <1>2, <1>3, <1>4 DEF IInv, MarkInv, AreWithin, Entry
  <2>2. Entry.type # USABLE /\ LastByte(Entry) >= LowLimit
    BY <1>4 DEF Matters, Entry
  <2> QED
    BY <1>1, <1>2, <1>3, <2>1, <2>2, SMTT(30) DEF Overlaps
<1>5. Entry.type # USABLE /\ ~Hidden(smap_cursor) => Kept(Entry, pma_base_pfn, pma_limit_pfn, reserved')
  BY <1>1, <1>2, <1>4, HarmlessIsKept DEF Entry
<1>6. AreWithin(smap_cursor + 1, limit_paddr')
  BY <1>1, <1>3 DEF IInv, MarkInv, AreWithin
<1>7. NextEntry /\ base_paddr' \in 0 .. Word - 1 /\ limit_paddr' \in 0 .. Word - 1
      /\ reserved' = reserved /\ reserved \subseteq pma_base_pfn .. pma_limit_pfn
  BY <1>1 DEF SkipEntry, IInv, TypeOK
<1> QED
  BY <1>1, <1>5, <1>6, <1>7, EntryPassed

(* An area that reaches into the range is marked, and its end is the limit   *)
(* from then on: an entry to come begins within it or is hidden by the area. *)
LEMMA MarkCorrect ==
  ASSUME \A m \in Maps : OrdinaryMap(m), IInv, MarkEntry
  PROVE  IInv'
<1>1. /\ phase = "mark" /\ Overlaps /\ UNCHANGED <<map, pma_base_pfn, pma_limit_pfn>>
      /\ base_paddr' = Raised(Entry.base) % Word /\ limit_paddr' = LastByte(Entry) % Word
  BY DEF MarkEntry
<1>2. /\ OrdinaryMap(map) /\ map \in Maps /\ smap_cursor \in DOMAIN map /\ limit_paddr \in 0 .. Word - 1
      /\ pma_base_pfn \in Nat /\ pma_limit_pfn \in Nat /\ IsRange(map, pma_base_pfn, pma_limit_pfn)
      /\ reserved \subseteq pma_base_pfn .. pma_limit_pfn
      /\ LowLimit \in Nat /\ Word \in Nat /\ LowLimit < Word
  BY <1>1, MapAssumption DEF IInv, TypeOK, RangeInv
<1>3. /\ DOMAIN map = 1 .. Len(map) /\ Len(map) \in Nat /\ smap_cursor \in Nat
      /\ Entry.base \in Nat /\ Entry.size \in Nat /\ LastByte(Entry) \in Nat
      /\ Entry.base <= LastByte(Entry) /\ LastByte(Entry) = Entry.base + Entry.size - 1
  BY <1>2, EntryFacts DEF Entry
<1>4. Entry.type # USABLE /\ Entry.base <= limit_paddr /\ LastByte(Entry) >= LowLimit
  BY <1>1, <1>2, <1>3, SMTT(20) DEF Overlaps
<1>5. LastByte(Entry) < Word
  <2>1. LastByte(Entry) < Word \/ Entry.base >= Word
    BY <1>2 DEF OrdinaryMap, Entry
  <2> QED
    BY <2>1, <1>2, <1>3, <1>4
<1>6. Raised(Entry.base) \in Nat /\ Raised(Entry.base) < Word
  BY <1>2, <1>3, <1>5 DEF Raised
<1>7. base_paddr' = Raised(Entry.base) /\ limit_paddr' = LastByte(Entry)
  <2>1. LastByte(Entry) % Word = LastByte(Entry)
    BY <1>3, <1>5, Truncated
  <2>2. Raised(Entry.base) % Word = Raised(Entry.base)
    BY <1>6, Truncated
  <2> QED
    BY <1>1, <2>1, <2>2
<1>8. base_paddr' \in 0 .. Word - 1 /\ limit_paddr' \in 0 .. Word - 1
  BY <1>2, <1>3, <1>5, <1>6, <1>7
<1>9. CASE phase' = "runaway" /\ UNCHANGED <<smap_cursor, reserved>>
  BY <1>1, <1>2, <1>8, <1>9 DEF IInv, TypeOK, ScanInv, RangeInv, MarkInv
<1>10. CASE /\ reserved' = reserved \cup Marked(base_paddr', limit_paddr', pma_base_pfn, pma_limit_pfn)
            /\ NextEntry
  <2>1. Kept(Entry, pma_base_pfn, pma_limit_pfn, reserved')
    <3>1. Marked(Raised(Entry.base), LastByte(Entry), pma_base_pfn, pma_limit_pfn) \subseteq reserved'
      BY <1>7, <1>10
    <3> QED
      BY <3>1, <1>2, MarkedIsKept DEF Entry
  <2>2. AreWithin(smap_cursor + 1, limit_paddr')
    <3> SUFFICES ASSUME NEW i \in smap_cursor + 1 .. Len(map), ~Hidden(i)
                 PROVE  map[i].base <= LastByte(Entry)
      BY <1>7 DEF AreWithin
    <3>1. i \in DOMAIN map /\ smap_cursor \in 1 .. i - 1
      BY <1>2, <1>3
    <3>0. map[smap_cursor] = Entry
      BY DEF Entry
    <3>2. map[i].base \in Nat
      BY <3>1, <1>2, EntryFacts
    <3>3. ~(LastByte(Entry) < map[i].base)
      BY <3>0, <3>1, <1>4 DEF Hidden
    <3> QED
      BY <3>2, <3>3, <1>3
  <2>3. reserved \subseteq reserved' /\ reserved' \subseteq pma_base_pfn .. pma_limit_pfn
    BY <1>2, <1>10 DEF Marked
  <2> QED
    BY <1>1, <1>8, <1>10, <2>1, <2>2, <2>3, EntryPassed
<1> QED
  BY <1>1, <1>9, <1>10 DEF MarkEntry

(* Every step keeps the invariant.                                           *)
LEMMA NextCorrect ==
  ASSUME \A m \in Maps : OrdinaryMap(m), IInv, [Next]_vars
  PROVE  IInv'
<1>1. CASE ScanEntry
  BY <1>1, ScanCorrect
<1>2. CASE SkipEntry
  BY <1>2, SkipCorrect
<1>3. CASE MarkEntry
  BY <1>3, MarkCorrect
<1>4. CASE QueryFails
  BY <1>4 DEF QueryFails, IInv, TypeOK, ScanInv, RangeInv, MarkInv
<1>5. CASE UNCHANGED vars
  BY <1>5 DEF vars, IInv, TypeOK, ScanInv, RangeInv, MarkInv, IsKept, Hidden, AreWithin
<1> QED
  BY <1>1, <1>2, <1>3, <1>4, <1>5 DEF Next

(* When the map has been read, every entry but a usable one is kept, unless  *)
(* it is hidden.                                                             *)
LEMMA InvariantSuffices ==
  ASSUME \A m \in Maps : OrdinaryMap(m), IInv
  PROVE  ReservedIsKept
<1> SUFFICES ASSUME phase = "ready", NEW i \in DOMAIN map, map[i].type # USABLE, ~Hidden(i),
                    NEW f \in Allocatable, NEW paddr \in 0 .. Word - 1,
                    paddr \in PageBytes(f), paddr \in Bytes(map[i])
             PROVE  FALSE
  BY DEF ReservedIsKept
<1>2. Kept(map[i], pma_base_pfn, pma_limit_pfn, reserved)
  BY DEF IInv, MarkInv, IsKept
<1>3. paddr \in Nat
  BY MapAssumption
<1> QED
  BY <1>2, <1>3 DEF Kept, Allocatable

(* The variables keep their types: addresses fit in a word, and only frames  *)
(* of the range are marked (init.c:84).                                      *)
THEOREM TypeCorrect ==
  ASSUME \A m \in Maps : OrdinaryMap(m)
  PROVE  Spec => []TypeOK
<1>1. Init => IInv
  BY InitCorrect
<1>2. IInv /\ [Next]_vars => IInv'
  BY NextCorrect
<1>3. IInv => TypeOK
  BY DEF IInv
<1> QED
  BY <1>1, <1>2, <1>3, PTL DEF Spec

(* No byte of an area that the firmware reports as anything but usable can   *)
(* be allocated (init.c:113), unless the area begins above the end of an     *)
(* earlier one (init.c:123): whatever the sizes of pages, words and the      *)
(* image, and however many areas there are.                                  *)
THEOREM ReservedCorrect ==
  ASSUME \A m \in Maps : OrdinaryMap(m)
  PROVE  Spec => []ReservedIsKept
<1>1. Init => IInv
  BY InitCorrect
<1>2. IInv /\ [Next]_vars => IInv'
  BY NextCorrect
<1>3. IInv => ReservedIsKept
  BY InvariantSuffices
<1> QED
  BY <1>1, <1>2, <1>3, PTL DEF Spec

-----------------------------------------------------------------------------
(* Usable memory can be allocated                                            *)

(* Nothing crosses the end of a word and no usable memory lies beyond it;    *)
(* and the first usable entry from LowLimit on starts there, since that is   *)
(* where the image was loaded. Reserved areas are as many as there may be.   *)
LoadedMap(m) ==
  /\ m \in Seq(Entries) /\ m # <<>>
  /\ \A i \in DOMAIN m : LastByte(m[i]) < Word \/ (m[i].type # USABLE /\ m[i].base >= Word)
  /\ \A i \in DOMAIN m :
       Counted(m[i]) /\ (\A j \in 1 .. i - 1 : ~Counted(m[j])) => m[i].base = LowLimit

\* A page that is marked is one of the image, or has a byte that is taken.
IsTouched(m, f) ==
  \E i \in DOMAIN m : m[i].type # USABLE /\ \E p \in PageBytes(f) : p \in Bytes(m[i])
Excused(m, f) == f <= Page(ImageEnd) \/ IsTouched(m, f)

(* In the first pass base_paddr is LowLimit once an entry counted, and then  *)
(* limit_paddr is the highest end so far.                                    *)
BaseInv ==
  phase = "scan" =>
    /\ \/ base_paddr = 0 /\ limit_paddr = 0 /\ \A u \in 1 .. smap_cursor - 1 : ~Counted(map[u])
       \/ base_paddr = LowLimit /\ limit_paddr >= LowLimit
    /\ \A u \in 1 .. smap_cursor - 1 : Counted(map[u]) => LastByte(map[u]) <= limit_paddr

(* After it the range starts no higher than at LowLimit, holds every counted *)
(* entry, and every mark in it has its reason.                               *)
CoverInv ==
  phase \in {"mark", "ready"} =>
    /\ pma_base_pfn <= Page(LowLimit) /\ pma_base_pfn <= pma_limit_pfn
    /\ \A u \in DOMAIN map : Counted(map[u]) => Page(LastByte(map[u])) <= pma_limit_pfn
    /\ \A f \in reserved : Excused(map, f)

UsableInv ==
  /\ map \in Maps /\ TypeOK /\ phase # "runaway"
  /\ BaseInv /\ CoverInv

(* What an entry of a map is.                                                *)
LEMMA LoadedFacts ==
  ASSUME NEW m, LoadedMap(m), NEW i \in DOMAIN m
  PROVE  /\ m[i].base \in Nat /\ m[i].type \in Nat /\ LastByte(m[i]) \in Nat
         /\ m[i].size \in Nat /\ m[i].base <= LastByte(m[i])
         /\ LastByte(m[i]) = m[i].base + m[i].size - 1
         /\ DOMAIN m = 1 .. Len(m) /\ Len(m) \in Nat /\ i \in Nat
<1>1. m \in Seq(Entries)
  BY DEF LoadedMap
<1>2. m[i] \in Entries /\ DOMAIN m = 1 .. Len(m) /\ Len(m) \in Nat
  BY <1>1
<1> QED
  BY <1>2 DEF Entries, LastByte

(* A page between those of the ends of an area has a byte of the area.       *)
LEMMA MarkedIsTouched ==
  ASSUME NEW m, LoadedMap(m), NEW i \in DOMAIN m, m[i].type # USABLE, LowLimit <= LastByte(m[i]),
         NEW f \in Nat, Page(Raised(m[i].base)) <= f, f <= Page(LastByte(m[i]))
  PROVE  IsTouched(m, f)
<1> DEFINE b == m[i].base
           l == LastByte(m[i])
           r == Raised(b)
<1>1. PageSize \in Nat /\ PageSize > 0 /\ LowLimit \in Nat
  BY MapAssumption
<1>2. b \in Nat /\ l \in Nat /\ b <= l
  BY LoadedFacts
<1>3. r \in Nat /\ b <= r /\ r <= l
  BY <1>1, <1>2 DEF Raised
<1> HIDE DEF b, l, r
<1>4. /\ Page(r) \in Nat /\ Page(r) * PageSize <= r /\ r < (Page(r) + 1) * PageSize
      /\ Page(l) \in Nat /\ Page(l) * PageSize <= l
  BY <1>2, <1>3, PageOf
<1>5. Page(r) <= f /\ f <= Page(l)
  BY DEF b, l, r
<1>6. CASE f = Page(r)
  <2>1. r \in PageBytes(f)
    BY <1>1, <1>3, <1>4, <1>6 DEF PageBytes
  <2> QED
    BY <1>2, <1>3, <2>1 DEF IsTouched, Bytes, b, l
<1>7. CASE f # Page(r)
  <2>1. (Page(r) + 1) * PageSize <= f * PageSize
    BY <1>1, <1>4, <1>5, <1>7
  <2>2. f * PageSize <= Page(l) * PageSize /\ f * PageSize \in Nat
    BY <1>1, <1>4, <1>5
  <2>3. (Page(r) + 1) * PageSize \in Nat /\ Page(l) * PageSize \in Nat
    BY <1>1, <1>4
  <2>4. b <= f * PageSize /\ f * PageSize <= l
    BY <1>2, <1>3, <1>4, <2>1, <2>2, <2>3
  <2>5. f * PageSize \in PageBytes(f)
    BY <1>1, <2>2 DEF PageBytes
  <2> QED
    BY <2>2, <2>4, <2>5 DEF IsTouched, Bytes, b, l
<1> QED
  BY <1>6, <1>7

(* The first pass: base_paddr and limit_paddr after an entry.                *)
LEMMA UsableScanPasses ==
  ASSUME \A m \in Maps : LoadedMap(m), UsableInv, phase = "scan"
  PROVE  /\ NewBase \in 0 .. Word - 1 /\ NewLimit \in 0 .. Word - 1
         /\ \/ NewBase = 0 /\ NewLimit = 0 /\ \A u \in 1 .. smap_cursor : ~Counted(map[u])
            \/ NewBase = LowLimit /\ NewLimit >= LowLimit
         /\ \A u \in 1 .. smap_cursor : Counted(map[u]) => LastByte(map[u]) <= NewLimit
<1>1. LoadedMap(map) /\ smap_cursor \in DOMAIN map /\ LowLimit \in Nat /\ LowLimit # 0 /\ Word \in Nat /\ LowLimit < Word
  BY MapAssumption DEF UsableInv, TypeOK
<1>2. /\ Entry.base \in Nat /\ LastByte(Entry) \in Nat /\ Entry.base <= LastByte(Entry)
      /\ smap_cursor \in Nat /\ DOMAIN map = 1 .. Len(map) /\ Len(map) \in Nat
  BY <1>1, LoadedFacts DEF Entry
<1>3. (Counts <=> Counted(Entry)) /\ (Counts => Entry.base >= LowLimit)
  BY DEF Counts, Counted
<1>4. Counts => LastByte(Entry) < Word
  BY <1>1, <1>3 DEF LoadedMap, Counted, Entry
<1>5. Counts => Entry.base % Word = Entry.base /\ LastByte(Entry) % Word = LastByte(Entry)
  <2>1. Counts => Entry.base < Word
    BY <1>1, <1>2, <1>4
  <2>2. (Entry.base < Word => Entry.base % Word = Entry.base) /\ (LastByte(Entry) < Word => LastByte(Entry) % Word = LastByte(Entry))
    BY <1>2, Truncated
  <2> QED
    BY <1>4, <2>1, <2>2
<1>6. base_paddr \in 0 .. Word - 1 /\ limit_paddr \in 0 .. Word - 1
  BY DEF UsableInv, TypeOK
<1>7. NewBase = (IF Counts /\ base_paddr = 0 THEN Entry.base ELSE base_paddr)
  BY <1>5 DEF NewBase
<1>8. NewLimit = (IF Counts /\ limit_paddr < LastByte(Entry) THEN LastByte(Entry) ELSE limit_paddr)
  BY <1>5 DEF NewLimit
<1>9. /\ \/ base_paddr = 0 /\ limit_paddr = 0 /\ \A u \in 1 .. smap_cursor - 1 : ~Counted(map[u])
         \/ base_paddr = LowLimit /\ limit_paddr >= LowLimit
      /\ \A u \in 1 .. smap_cursor - 1 : Counted(map[u]) => LastByte(map[u]) <= limit_paddr
  BY DEF UsableInv, BaseInv
<1>10. NewBase \in 0 .. Word - 1 /\ NewLimit \in 0 .. Word - 1
  BY <1>1, <1>2, <1>4, <1>6, <1>7, <1>8
<1>11. \/ NewBase = 0 /\ NewLimit = 0 /\ \A u \in 1 .. smap_cursor : ~Counted(map[u])
       \/ NewBase = LowLimit /\ NewLimit >= LowLimit
  <2>1. CASE base_paddr = LowLimit /\ limit_paddr >= LowLimit
    <3>1. NewBase = LowLimit
      BY <2>1, <1>1, <1>7
    <3>2. NewLimit >= LowLimit
      BY <2>1, <1>1, <1>2, <1>6, <1>8
    <3> QED
      BY <3>1, <3>2
  <2>2. CASE base_paddr = 0 /\ limit_paddr = 0 /\ \A u \in 1 .. smap_cursor - 1 : ~Counted(map[u])
    <3>1. CASE Counts
      <4>1. Entry.base = LowLimit
        BY <3>1, <2>2, <1>1, <1>3 DEF LoadedMap, Entry
      <4> QED
        BY <3>1, <4>1, <2>2, <1>1, <1>2, <1>7, <1>8
    <3>2. CASE ~Counts
      <4>1. NewBase = 0 /\ NewLimit = 0
        BY <3>2, <2>2, <1>7, <1>8
      <4>2. ASSUME NEW u \in 1 .. smap_cursor PROVE ~Counted(map[u])
        <5>1. CASE u = smap_cursor
          BY <5>1, <3>2, <1>3 DEF Entry
        <5>2. CASE u # smap_cursor
          <6>1. u \in 1 .. smap_cursor - 1
            BY <5>2, <1>2
          <6> QED
            BY <6>1, <2>2
        <5> QED
          BY <5>1, <5>2
      <4> QED
        BY <4>1, <4>2
    <3> QED
      BY <3>1, <3>2
  <2> QED
    BY <1>9, <2>1, <2>2
<1>12. ASSUME NEW u \in 1 .. smap_cursor, Counted(map[u])
       PROVE  LastByte(map[u]) <= NewLimit
  <2>1. limit_paddr <= NewLimit
    BY <1>2, <1>6, <1>8
  <2>2. CASE u = smap_cursor
    BY <2>2, <1>12, <1>2, <1>3, <1>6, <1>8 DEF Entry
  <2>3. CASE u # smap_cursor
    <3>1. u \in 1 .. smap_cursor - 1 /\ u \in DOMAIN map
      BY <2>3, <1>1, <1>2
    <3>2. LastByte(map[u]) <= limit_paddr /\ LastByte(map[u]) \in Nat
      BY <3>1, <1>1, <1>9, <1>12, LoadedFacts
    <3> QED
      BY <3>2, <2>1, <1>6, <1>10
  <2> QED
    BY <2>2, <2>3
<1> QED
  BY <1>10, <1>11, <1>12

(* The first pass ends with a range that starts at the image and holds all   *)
(* usable memory, and with the pages of the image marked.                    *)
LEMMA UsableScanCorrect ==
  ASSUME \A m \in Maps : LoadedMap(m), UsableInv, ScanEntry
  PROVE  UsableInv'
<1>1. phase = "scan" /\ map' = map /\ base_paddr' = NewBase /\ limit_paddr' = NewLimit
  BY DEF ScanEntry
<1>2. /\ NewBase \in 0 .. Word - 1 /\ NewLimit \in 0 .. Word - 1
      /\ \/ NewBase = 0 /\ NewLimit = 0 /\ \A u \in 1 .. smap_cursor : ~Counted(map[u])
         \/ NewBase = LowLimit /\ NewLimit >= LowLimit
      /\ \A u \in 1 .. smap_cursor : Counted(map[u]) => LastByte(map[u]) <= NewLimit
  BY <1>1, UsableScanPasses
<1>3. LoadedMap(map) /\ map \in Maps /\ smap_cursor \in DOMAIN map
  BY DEF UsableInv, TypeOK
<1>4. DOMAIN map = 1 .. Len(map) /\ Len(map) \in Nat /\ smap_cursor \in Nat
  BY <1>3, LoadedFacts
<1>5. CASE IsLastEntry
  <2>1. /\ smap_cursor' = 1 /\ smap_cursor = Len(map)
        /\ pma_base_pfn' = Page(NewBase) /\ pma_limit_pfn' = Page(NewLimit)
        /\ reserved' = Marked(NewBase, ImageEnd, pma_base_pfn', pma_limit_pfn')
        /\ phase' = IF IsRunaway(ImageEnd, pma_base_pfn', pma_limit_pfn') THEN "runaway" ELSE "mark"
    BY <1>1, <1>5 DEF ScanEntry, IsLastEntry
  <2>2. /\ NewBase \in Nat /\ NewLimit \in Nat /\ pma_base_pfn' \in Nat /\ pma_limit_pfn' \in Nat
        /\ LowLimit \in Nat /\ ImageEnd \in Nat /\ Page(LowLimit) \in Nat /\ Page(ImageEnd) \in Nat
        /\ LowLimit <= ImageEnd
    <3>1. /\ NewBase \in Nat /\ NewLimit \in Nat /\ LowLimit \in Nat /\ ImageEnd \in Nat /\ LowLimit <= ImageEnd
      BY <1>2, MapAssumption
    <3> QED
      BY <2>1, <3>1, PageOf
  <2>3. NewBase <= LowLimit /\ NewBase <= NewLimit
    BY <1>2, <2>2
  <2>4. pma_base_pfn' <= Page(LowLimit) /\ pma_base_pfn' <= pma_limit_pfn' /\ pma_base_pfn' <= Page(ImageEnd)
    <3>1. Page(NewBase) <= Page(LowLimit) /\ Page(NewBase) <= Page(NewLimit) /\ Page(LowLimit) <= Page(ImageEnd)
      BY <2>2, <2>3, PagesInOrder
    <3> QED
      BY <2>1, <2>2, <3>1
  <2>5. phase' = "mark"
    BY <2>1, <2>2, <2>4 DEF IsRunaway
  <2>6. TypeOK'
    <3>1. reserved' \subseteq pma_base_pfn' .. pma_limit_pfn'
      BY <2>1 DEF Marked
    <3>2. smap_cursor' \in DOMAIN map'
      BY <1>1, <1>3, <1>4, <2>1
    <3> QED
      BY <1>1, <1>2, <2>2, <2>5, <3>1, <3>2 DEF TypeOK
  <2>7. ASSUME NEW u \in DOMAIN map, Counted(map[u]) PROVE Page(LastByte(map[u])) <= pma_limit_pfn'
    <3>1. LastByte(map[u]) \in Nat /\ LastByte(map[u]) <= NewLimit
      BY <2>7, <1>2, <1>3, <1>4, <2>1, LoadedFacts
    <3> QED
      BY <3>1, <2>1, <2>2, PagesInOrder
  <2>8. \A f \in reserved' : f <= Page(ImageEnd)
    BY <2>1 DEF Marked
  <2> QED
    BY <1>1, <1>3, <2>4, <2>5, <2>6, <2>7, <2>8 DEF UsableInv, BaseInv, CoverInv, Excused
<1>6. CASE ~IsLastEntry
  <2>1. smap_cursor' = smap_cursor + 1 /\ UNCHANGED <<pma_base_pfn, pma_limit_pfn, reserved, phase>>
    BY <1>6 DEF ScanEntry
  <2>2. smap_cursor' \in DOMAIN map /\ smap_cursor' - 1 = smap_cursor
    BY <1>3, <1>4, <1>6, <2>1 DEF IsLastEntry
  <2>3. TypeOK'
    BY <1>1, <1>2, <2>1, <2>2 DEF UsableInv, TypeOK
  <2>4. BaseInv'
    BY <1>1, <1>2, <2>1, <2>2 DEF BaseInv
  <2>5. CoverInv' /\ phase' # "runaway"
    BY <1>1, <2>1 DEF CoverInv
  <2> QED
    BY <1>1, <1>3, <2>3, <2>4, <2>5 DEF UsableInv
<1> QED
  BY <1>5, <1>6

(* The second pass goes on from an entry whose marks have their reasons.     *)
LEMMA UsableEntryPassed ==
  ASSUME \A m \in Maps : LoadedMap(m), UsableInv, phase = "mark", NextEntry,
         UNCHANGED <<map, pma_base_pfn, pma_limit_pfn>>,
         base_paddr' \in 0 .. Word - 1, limit_paddr' \in 0 .. Word - 1,
         reserved' \subseteq pma_base_pfn .. pma_limit_pfn,
         \A f \in reserved' : Excused(map, f)
  PROVE  UsableInv'
<1>1. /\ LoadedMap(map) /\ map \in Maps /\ smap_cursor \in DOMAIN map
      /\ pma_base_pfn \in Nat /\ pma_limit_pfn \in Nat
  BY DEF UsableInv, TypeOK
<1>2. DOMAIN map = 1 .. Len(map) /\ Len(map) \in Nat /\ smap_cursor \in Nat
  BY <1>1, LoadedFacts
<1>3. phase' \in {"mark", "ready"} /\ smap_cursor' \in DOMAIN map
  BY <1>1, <1>2 DEF NextEntry, IsLastEntry
<1>4. TypeOK'
  BY <1>1, <1>3 DEF TypeOK
<1>5. BaseInv' /\ CoverInv'
  BY <1>3 DEF BaseInv, CoverInv, UsableInv
<1> QED
  BY <1>1, <1>3, <1>4, <1>5 DEF UsableInv

(* An entry that is marked does not run round the address space, and has a   *)
(* byte in each page that is marked for it.                                  *)
LEMMA UsableMarkCorrect ==
  ASSUME \A m \in Maps : LoadedMap(m), UsableInv, MarkEntry
  PROVE  UsableInv'
<1>1. /\ phase = "mark" /\ Overlaps /\ UNCHANGED <<map, pma_base_pfn, pma_limit_pfn>>
      /\ base_paddr' = Raised(Entry.base) % Word /\ limit_paddr' = LastByte(Entry) % Word
  BY DEF MarkEntry
<1>2. /\ LoadedMap(map) /\ map \in Maps /\ smap_cursor \in DOMAIN map /\ limit_paddr \in 0 .. Word - 1
      /\ pma_base_pfn \in Nat /\ pma_limit_pfn \in Nat
      /\ reserved \subseteq pma_base_pfn .. pma_limit_pfn
      /\ LowLimit \in Nat /\ Word \in Nat /\ LowLimit < Word
      /\ pma_base_pfn <= Page(LowLimit) /\ pma_base_pfn <= pma_limit_pfn
      /\ \A f \in reserved : Excused(map, f)
  BY <1>1, MapAssumption DEF UsableInv, TypeOK, CoverInv
<1>3. /\ Entry.base \in Nat /\ Entry.size \in Nat /\ LastByte(Entry) \in Nat
      /\ Entry.base <= LastByte(Entry) /\ LastByte(Entry) = Entry.base + Entry.size - 1
  BY <1>2, LoadedFacts DEF Entry
<1>4. Entry.type # USABLE /\ Entry.base <= limit_paddr /\ LastByte(Entry) >= LowLimit
  BY <1>1, <1>2, <1>3 DEF Overlaps
<1>5. LastByte(Entry) < Word
  <2>1. LastByte(Entry) < Word \/ Entry.base >= Word
    BY <1>2 DEF LoadedMap, Entry
  <2> QED
    BY <2>1, <1>2, <1>3, <1>4
<1>6. Raised(Entry.base) \in Nat /\ Raised(Entry.base) < Word
  BY <1>2, <1>3, <1>5 DEF Raised
<1>7. base_paddr' = Raised(Entry.base) /\ limit_paddr' = LastByte(Entry)
  <2>1. LastByte(Entry) % Word = LastByte(Entry)
    BY <1>3, <1>5, Truncated
  <2>2. Raised(Entry.base) % Word = Raised(Entry.base)
    BY <1>6, Truncated
  <2> QED
    BY <1>1, <2>1, <2>2
<1>8. base_paddr' \in 0 .. Word - 1 /\ limit_paddr' \in 0 .. Word - 1
  BY <1>2, <1>3, <1>5, <1>6, <1>7
<1>9. ~IsRunaway(limit_paddr', pma_base_pfn, pma_limit_pfn)
  <2>1. Page(LowLimit) <= Page(LastByte(Entry)) /\ Page(LowLimit) \in Nat /\ Page(LastByte(Entry)) \in Nat
    BY <1>2, <1>3, <1>4, PagesInOrder, PageOf
  <2> QED
    BY <1>2, <1>7, <2>1 DEF IsRunaway
<1>10. /\ reserved' = reserved \cup Marked(base_paddr', limit_paddr', pma_base_pfn, pma_limit_pfn)
       /\ NextEntry
  BY <1>9 DEF MarkEntry
<1>11. ASSUME NEW f \in Marked(base_paddr', limit_paddr', pma_base_pfn, pma_limit_pfn)
       PROVE  Excused(map, f)
  <2>1. f \in Nat /\ Page(Raised(Entry.base)) <= f /\ f <= Page(LastByte(Entry))
    BY <1>2, <1>7 DEF Marked
  <2>2. IsTouched(map, f)
    BY <1>2, <1>4, <2>1, MarkedIsTouched DEF Entry
  <2> QED
    BY <2>2 DEF Excused
<1>12. reserved' \subseteq pma_base_pfn .. pma_limit_pfn
  BY <1>2, <1>10 DEF Marked
<1> QED
  BY <1>1, <1>2, <1>8, <1>10, <1>11, <1>12, UsableEntryPassed

(* Every step keeps the invariant.                                           *)
LEMMA UsableNextCorrect ==
  ASSUME \A m \in Maps : LoadedMap(m), UsableInv, [Next]_vars
  PROVE  UsableInv'
<1>1. CASE ScanEntry
  BY <1>1, UsableScanCorrect
<1>2. CASE SkipEntry
  <2>1. /\ phase = "mark" /\ NextEntry
        /\ UNCHANGED <<map, base_paddr, limit_paddr, pma_base_pfn, pma_limit_pfn, reserved>>
        /\ base_paddr' \in 0 .. Word - 1 /\ limit_paddr' \in 0 .. Word - 1
        /\ reserved' \subseteq pma_base_pfn .. pma_limit_pfn
        /\ \A f \in reserved' : Excused(map, f)
    BY <1>2 DEF SkipEntry, UsableInv, TypeOK, CoverInv
  <2> QED
    BY <2>1, UsableEntryPassed
<1>3. CASE MarkEntry
  BY <1>3, UsableMarkCorrect
<1>4. CASE QueryFails
  BY <1>4 DEF QueryFails, UsableInv, TypeOK, BaseInv, CoverInv
<1>5. CASE UNCHANGED vars
  BY <1>5 DEF vars, UsableInv, TypeOK, BaseInv, CoverInv
<1> QED
  BY <1>1, <1>2, <1>3, <1>4, <1>5 DEF Next

(* When the map has been read, usable memory can be allocated.               *)
LEMMA UsableInvariantSuffices ==
  ASSUME \A m \in Maps : LoadedMap(m), UsableInv
  PROVE  UsableIsAllocatable
<1>1. /\ LoadedMap(map) /\ pma_base_pfn \in Nat /\ pma_limit_pfn \in Nat
      /\ LowLimit \in Nat /\ ImageEnd \in Nat /\ LowLimit <= ImageEnd
  BY MapAssumption DEF UsableInv, TypeOK
<1>2. Page(LowLimit) \in Nat /\ Page(ImageEnd) \in Nat /\ Page(LowLimit) <= Page(ImageEnd)
  BY <1>1, PageOf, PagesInOrder
<1>3. RangeCoversUsable
  <2> SUFFICES ASSUME phase = "ready", NEW i \in DOMAIN map, map[i].type = USABLE, map[i].base >= LowLimit
               PROVE  pma_base_pfn <= Page(map[i].base) /\ Page(LastByte(map[i])) <= pma_limit_pfn
    BY DEF RangeCoversUsable
  <2>1. Counted(map[i]) /\ map[i].base \in Nat
    BY <1>1, LoadedFacts DEF Counted
  <2>2. Page(LowLimit) <= Page(map[i].base) /\ Page(map[i].base) \in Nat
    BY <1>1, <2>1, PagesInOrder, PageOf
  <2> QED
    BY <1>1, <1>2, <2>1, <2>2 DEF UsableInv, CoverInv
<1>4. ASSUME phase = "ready", NEW f \in Page(ImageEnd) + 1 .. pma_limit_pfn - 1,
             \A paddr \in PageBytes(f) : IsUsable(paddr)
      PROVE  f \in Allocatable
  <2>1. pma_base_pfn <= Page(LowLimit) /\ \A g \in reserved : Excused(map, g)
    BY <1>4 DEF UsableInv, CoverInv
  <2>2. f \in pma_base_pfn .. pma_limit_pfn - 1 /\ ~(f <= Page(ImageEnd))
    BY <1>1, <1>2, <2>1
  <2>3. ~IsTouched(map, f)
    BY <1>4 DEF IsTouched, IsUsable, IsTaken
  <2> QED
    BY <2>1, <2>2, <2>3 DEF Excused, Allocatable
<1> QED
  BY <1>3, <1>4 DEF UsableIsAllocatable, UsableInv

(* No call of mm_pma_mark_reserved runs round the address space, the range   *)
(* has all usable memory, and the rounding of reserved areas takes no page   *)
(* but those they touch (init.c:88, 113), for any number of reserved areas.  *)
THEOREM UsableCorrect ==
  ASSUME \A m \in Maps : LoadedMap(m)
  PROVE  Spec => []UsableIsAllocatable
<1>1. Init => UsableInv
  <2> SUFFICES ASSUME Init PROVE UsableInv
    OBVIOUS
  <2>1. map \in Maps /\ map \in Seq(Entries) /\ map # <<>>
    BY DEF Init, LoadedMap
  <2>2. TypeOK
    BY <2>1, MapAssumption DEF Init, TypeOK
  <2> QED
    BY <2>1, <2>2 DEF Init, UsableInv, BaseInv, CoverInv
<1>2. UsableInv /\ [Next]_vars => UsableInv'
  BY UsableNextCorrect
<1>3. UsableInv => UsableIsAllocatable
  BY UsableInvariantSuffices
<1> QED
  BY <1>1, <1>2, <1>3, PTL DEF Spec

-----------------------------------------------------------------------------
(* The chains of interrupt handlers                                         *)

LEMMA LeastNatural ==
  ASSUME NEW T \in SUBSET Nat, T # {}
  PROVE  \E t \in T : \A u \in T : t <= u
<1>1. PICK t \in T : \A u \in T : <<u, t>> \notin OpToRel(<, Nat)
  BY NatLessThanWellFounded, WFMin
<1>2. \A u \in T : ~(u < t)
  BY <1>1 DEF OpToRel
<1> QED BY <1>2

\* Handlers that lie behind one another from e on, and nothing behind the last.
Linked(s, e, links) ==
    /\ e = IF s = <<>> THEN NoHandler ELSE s[1]
    /\ \A k \in 1 .. Len(s) : links[s[k]] = IF k = Len(s) THEN NoHandler ELSE s[k + 1]
Once(s) == \A i, j \in 1 .. Len(s) : s[i] = s[j] => i = j
Beginning(s, t) == \E n \in 0 .. Len(t) : s = SubSeq(t, 1, n)

\* What was added is what is linked; each handler is in one chain at most.
Listed == \A v \in Vectors : \A k \in 1 .. Len(added[v]) : added[v][k] \in alive
Apart ==
    \A v, w \in Vectors : \A i \in 1 .. Len(added[v]), j \in 1 .. Len(added[w]) :
        added[v][i] = added[w][j] => v = w /\ i = j
Adding ==
    thread.op = "add" =>
        /\ thread.vector \in Vectors /\ thread.entry \in alive /\ nxt[thread.entry] = NoHandler
        /\ \A v \in Vectors : \A k \in 1 .. Len(added[v]) : added[v][k] # thread.entry
Ran ==
    \/ ran.vector = -1 /\ ran.handlers = <<>>
    \/ ran.vector \in Vectors /\ Beginning(ran.handlers, added[ran.vector])

ChainInv ==
    /\ nxt \in [Handlers -> Handlers \cup {NoHandler}] /\ table \in [Vectors -> Handlers \cup {NoHandler}]
    /\ added \in [Vectors -> Seq(Handlers)] /\ alive \subseteq Handlers
    /\ \A v \in Vectors : Linked(added[v], table[v], nxt)
    /\ Listed /\ Apart /\ Adding /\ Ran

MaskInv ==
    /\ pic = [p \in DOMAIN Controllers |-> Controllers[p] \cap wanted]
    /\ thread.op \in {"mask", "unmask"} => thread.line \in Lines /\ thread.read = pic[PortOf(thread.line)]

HandlersInv == MaskInv /\ (clean => ChainInv) /\ (thread.op = "remove" => ~clean)

\* The walk along a chain.
Further(c) == IF c = <<>> \/ nxt[Last(c)] = NoHandler THEN c ELSE Append(c, nxt[Last(c)])
Follows(e, f) ==
    f = [n \in 0 .. Cardinality(Handlers) |->
           IF n = 0 THEN IF e = NoHandler THEN <<>> ELSE <<e>> ELSE Further(f[n - 1])]

\* It is determined by its equation.
LEMMA WalksAgree ==
  ASSUME NEW e, NEW f, NEW g, Follows(e, f), Follows(e, g)
  PROVE  f = g
<1>0. Cardinality(Handlers) \in Nat
  BY HandlersAssumption, FS_CardinalityType
<1> DEFINE N == Cardinality(Handlers)
           T == {n \in 0 .. N : f[n] # g[n]}
<1>1. CASE T = {}
  <2>1. \A n \in 0 .. N : f[n] = g[n]
    BY <1>1
  <2>2. f = [n \in 0 .. N |-> f[n]]
    BY Zenon DEF Follows
  <2>3. g = [n \in 0 .. N |-> g[n]]
    BY Zenon DEF Follows
  <2> QED BY <2>1, <2>2, <2>3
<1>2. CASE T # {}
  <2>1. T \in SUBSET Nat
    OBVIOUS
  <2>2. PICK n \in T : \A u \in T : n <= u
    BY <1>2, <2>1, LeastNatural
  <2>3. \A h : Follows(e, h) => \A k \in 0 .. N : h[k] = IF k = 0 THEN IF e = NoHandler THEN <<>> ELSE <<e>> ELSE Further(h[k - 1])
    BY Zenon DEF Follows
  <2>4. n # 0
    BY <2>2, <2>3
  <2>5. n \in 0 .. N /\ n - 1 \in 0 .. N /\ n - 1 \notin T
    BY <1>0, <2>2, <2>4
  <2>6. f[n - 1] = g[n - 1]
    BY <2>5
  <2>7. f[n] = Further(f[n - 1]) /\ g[n] = Further(g[n - 1])
    BY <2>3, <2>4, <2>5
  <2> QED BY <2>2, <2>6, <2>7
<1> QED BY <1>1, <1>2

LEMMA ChainIs ==
  ASSUME NEW e, NEW f, Follows(e, f)
  PROVE  Chain(e) = f[Cardinality(Handlers)]
<1> DEFINE follow == CHOOSE g : Follows(e, g)
<1>1. Follows(e, follow)
  OBVIOUS
<1>2. Chain(e) = follow[Cardinality(Handlers)]
  BY Zenon DEF Chain, Follows, Further
<1> HIDE DEF follow
<1>3. follow = f
  BY <1>1, WalksAgree
<1> QED BY <1>2, <1>3

\* A sequence of distinct handlers is no longer than there are handlers.
LEMMA NoMoreThanThereAre ==
  ASSUME NEW s \in Seq(Handlers), Once(s)
  PROVE  Len(s) <= Cardinality(Handlers)
<1>1. s \in Injection(1 .. Len(s), Handlers)
  BY DEF Injection, Once, IsInjective
<1>2. Cardinality(1 .. Len(s)) <= Cardinality(Handlers)
  BY <1>1, HandlersAssumption, FS_Injection
<1>3. Cardinality(1 .. Len(s)) = Len(s)
  <2>1. Len(s) \in Nat /\ 1 \in Int /\ Len(s) \in Int
    OBVIOUS
  <2>2. Cardinality(1 .. Len(s)) = IF 1 > Len(s) THEN 0 ELSE Len(s) - 1 + 1
    BY <2>1, FS_Interval
  <2> QED BY <2>1, <2>2
<1> QED BY <1>2, <1>3

\* A chain whose links are those of a sequence is this sequence.
LEMMA ChainOf ==
  ASSUME NEW s \in Seq(Handlers), Once(s), NEW e, Linked(s, e, nxt)
  PROVE  Chain(e) = s
<1> DEFINE N == Cardinality(Handlers)
           Upto(n) == SubSeq(s, 1, IF n < Len(s) THEN n + 1 ELSE Len(s))
           w == [n \in 0 .. N |-> Upto(n)]
<1>0. N \in Nat /\ Len(s) \in Nat /\ Len(s) <= N
  BY HandlersAssumption, FS_CardinalityType, NoMoreThanThereAre
<1>1. Upto(N) = s
  BY <1>0
<1>2. Upto(0) = IF e = NoHandler THEN <<>> ELSE <<e>>
  <2>1. CASE s = <<>>
    BY <2>1 DEF Linked
  <2>2. CASE s # <<>>
    <3>1. Len(s) >= 1 /\ s[1] \in Handlers /\ e = s[1] /\ e # NoHandler
      BY <2>2, HandlersAssumption DEF Linked
    <3>2. Upto(0) = SubSeq(s, 1, 1)
      BY <1>0, <3>1
    <3>3. SubSeq(s, 1, 1) = <<s[1]>>
      <4>1. /\ SubSeq(s, 1, 1) \in Seq(Handlers) /\ Len(SubSeq(s, 1, 1)) = 1
            /\ SubSeq(s, 1, 1)[1] = s[1]
        BY <1>0, <3>1
      <4>2. <<s[1]>> \in Seq(Handlers) /\ Len(<<s[1]>>) = 1 /\ <<s[1]>>[1] = s[1]
        BY <3>1
      <4>3. \A i \in 1 .. 1 : SubSeq(s, 1, 1)[i] = <<s[1]>>[i]
        BY <4>1, <4>2
      <4> QED BY <4>1, <4>2, <4>3, SeqEqual
    <3> QED BY <3>1, <3>2, <3>3
  <2> QED BY <2>1, <2>2
<1>3. ASSUME NEW n \in 1 .. N PROVE Upto(n) = Further(Upto(n - 1))
  <2>1. CASE s = <<>>
    BY <2>1 DEF Further
  <2>2. CASE s # <<>> /\ n < Len(s)
    <3>1. n \in 1 .. Len(s) /\ n + 1 \in 1 .. Len(s) /\ s[n + 1] \in Handlers /\ s[n] \in Handlers
      BY <1>0, <2>2
    <3>2. Upto(n - 1) = SubSeq(s, 1, n) /\ Upto(n) = SubSeq(s, 1, n + 1)
      BY <1>0, <2>2
    <3>3. Len(SubSeq(s, 1, n)) = n /\ SubSeq(s, 1, n)[n] = s[n] /\ SubSeq(s, 1, n) # <<>>
      BY <3>1
    <3>4. nxt[s[n]] = s[n + 1] /\ s[n + 1] # NoHandler
      BY <2>2, <3>1, HandlersAssumption DEF Linked
    <3>5. Further(SubSeq(s, 1, n)) = Append(SubSeq(s, 1, n), s[n + 1])
      BY <3>3, <3>4 DEF Further, Last
    <3>6. Append(SubSeq(s, 1, n), s[n + 1]) = SubSeq(s, 1, n + 1)
      BY <1>0, <3>1
    <3> QED BY <3>2, <3>5, <3>6
  <2>3. CASE s # <<>> /\ ~(n < Len(s))
    <3>1. Upto(n) = s /\ Upto(n - 1) = s
      BY <1>0, <2>3
    <3>2. Last(s) = s[Len(s)] /\ nxt[s[Len(s)]] = NoHandler
      BY <1>0, <2>3 DEF Last, Linked
    <3> QED BY <3>1, <3>2 DEF Further
  <2> QED BY <2>1, <2>2, <2>3
<1> HIDE DEF Upto
<1>4. Follows(e, w)
  <2>1. w = [n \in 0 .. N |-> IF n = 0 THEN IF e = NoHandler THEN <<>> ELSE <<e>> ELSE Further(w[n - 1])]
    <3>1. ASSUME NEW n \in 0 .. N
          PROVE  w[n] = IF n = 0 THEN IF e = NoHandler THEN <<>> ELSE <<e>> ELSE Further(w[n - 1])
      <4>1. CASE n = 0
        BY <1>2, <4>1
      <4>2. CASE n # 0
        <5>1. n \in 1 .. N /\ n - 1 \in 0 .. N
          BY <1>0, <4>2
        <5>2. w[n] = Upto(n) /\ w[n - 1] = Upto(n - 1)
          BY <5>1
        <5> QED BY <1>3, <4>2, <5>1, <5>2
      <4> QED BY <4>1, <4>2
    <3> QED BY <3>1
  <2> QED BY <2>1 DEF Follows
<1>5. Chain(e) = w[N]
  BY <1>4, ChainIs
<1> QED BY <1>0, <1>1, <1>5

\* While nothing was unlinked, the chain of a vector is what was added to it.
LEMMA ChainAdded ==
  ASSUME ChainInv, NEW v \in Vectors
  PROVE  Chain(table[v]) = added[v]
<1>1. added[v] \in Seq(Handlers) /\ Linked(added[v], table[v], nxt)
  BY DEF ChainInv
<1>2. Once(added[v])
  BY DEF ChainInv, Apart, Once
<1> QED BY <1>1, <1>2, ChainOf

LEMMA HandlersStart == InterruptInit => HandlersInv
<1> SUFFICES ASSUME InterruptInit PROVE HandlersInv
  OBVIOUS
<1>1. /\ nxt \in [Handlers -> Handlers \cup {NoHandler}] /\ table \in [Vectors -> Handlers \cup {NoHandler}]
      /\ added \in [Vectors -> Seq(Handlers)] /\ alive \subseteq Handlers
      /\ \A v \in Vectors : added[v] = <<>> /\ table[v] = NoHandler
      /\ thread.op = "none" /\ ran.vector = -1 /\ ran.handlers = <<>>
  BY DEF InterruptInit, Idle
<1>2. \A v \in Vectors : Linked(added[v], table[v], nxt)
  BY <1>1 DEF Linked
<1>3. Listed /\ Apart /\ Adding /\ Ran
  BY <1>1 DEF Listed, Apart, Adding, Ran
<1>4. MaskInv
  BY <1>1 DEF InterruptInit, MaskInv
<1> QED BY <1>1, <1>2, <1>3, <1>4 DEF HandlersInv, ChainInv

\* A step that leaves the chains, and what is linked to them, alone.
LEMMA ChainsStay ==
  ASSUME ChainInv, UNCHANGED <<nxt, table, added, alive, ran>>, thread' = thread \/ thread'.op # "add"
  PROVE  ChainInv'
<1>1. nxt' = nxt /\ table' = table /\ added' = added /\ alive' = alive /\ ran' = ran
  OBVIOUS
<1>2. Adding'
  BY <1>1 DEF Adding, ChainInv
<1>3. Listed' /\ Apart' /\ Ran'
  BY <1>1 DEF Listed, Apart, Ran, ChainInv
<1> QED BY <1>1, <1>2, <1>3 DEF ChainInv

\* A structure that memory had room for is in no chain.
LEMMA HandlerAdds == ASSUME HandlersInv, VlIntP_AddHandler PROVE HandlersInv'
<1>1. PICK v \in Vectors, e \in Handlers \ alive :
        /\ thread' = [op |-> "add", vector |-> v, entry |-> e]
        /\ alive' = alive \cup {e} /\ nxt' = [nxt EXCEPT ![e] = NoHandler]
        /\ UNCHANGED <<table, pic, added, wanted, clean, ran>>
  BY DEF VlIntP_AddHandler, Calls
<1>2. thread'.op = "add" /\ thread'.vector = v /\ thread'.entry = e
  BY <1>1
<1>3. MaskInv' /\ ~(thread'.op = "remove")
  BY <1>1, <1>2 DEF MaskInv, HandlersInv
<1>4. ASSUME ChainInv PROVE ChainInv'
  <2>1. \A u \in Vectors : \A k \in 1 .. Len(added[u]) : added[u][k] # e /\ added[u][k] \in Handlers
    BY <1>1, <1>4 DEF ChainInv, Listed
  <2>2. /\ nxt' \in [Handlers -> Handlers \cup {NoHandler}] /\ nxt'[e] = NoHandler
        /\ \A h \in Handlers : h # e => nxt'[h] = nxt[h]
    BY <1>1, <1>4 DEF ChainInv
  <2>3. \A u \in Vectors : Linked(added'[u], table'[u], nxt')
    BY <1>1, <1>4, <2>1, <2>2 DEF ChainInv, Linked
  <2>4. Listed' /\ Adding'
    BY <1>1, <1>2, <1>4, <2>1, <2>2 DEF ChainInv, Listed, Adding
  <2>5. Apart' /\ Ran'
    BY <1>1, <1>4 DEF ChainInv, Apart, Ran
  <2> QED BY <1>1, <1>4, <2>2, <2>3, <2>4, <2>5 DEF ChainInv
<1> QED BY <1>1, <1>3, <1>4 DEF HandlersInv

\* Appending to a list of handlers, and linking behind its last one.
LEMMA LinkedBehind ==
  ASSUME NEW s \in Seq(Handlers), Once(s), NEW first, NEW links \in [Handlers -> Handlers \cup {NoHandler}],
         Linked(s, first, links), s # <<>>, NEW h \in Handlers, links[h] = NoHandler,
         \A k \in 1 .. Len(s) : s[k] # h
  PROVE  Linked(Append(s, h), first, [links EXCEPT ![s[Len(s)]] = h])
<1> DEFINE t == Append(s, h)
           after == [links EXCEPT ![s[Len(s)]] = h]
<1>1. /\ Len(s) \in Nat \ {0} /\ Len(t) = Len(s) + 1 /\ t[Len(s) + 1] = h
      /\ \A k \in 1 .. Len(s) : t[k] = s[k] /\ s[k] \in Handlers
  OBVIOUS
<1>2. t # <<>> /\ first = t[1]
  BY <1>1 DEF Linked
<1>3. s[Len(s)] \in Handlers /\ after[s[Len(s)]] = h /\ \A g \in Handlers : g # s[Len(s)] => after[g] = links[g]
  BY <1>1
<1>4. after[h] = NoHandler
  BY <1>1, <1>3
<1> HIDE DEF t, after
<1>5. ASSUME NEW k \in 1 .. Len(t) PROVE after[t[k]] = IF k = Len(t) THEN NoHandler ELSE t[k + 1]
  <2>1. CASE k = Len(t)
    BY <1>1, <1>4, <2>1
  <2>2. CASE k = Len(s)
    BY <1>1, <1>3, <2>2
  <2>3. CASE k \in 1 .. Len(s) /\ k # Len(s)
    <3>1. s[k] # s[Len(s)] /\ k + 1 \in 1 .. Len(s)
      BY <1>1, <2>3 DEF Once
    <3>2. after[s[k]] = links[s[k]] /\ links[s[k]] = s[k + 1]
      BY <1>1, <1>3, <2>3, <3>1 DEF Linked
    <3> QED BY <1>1, <2>3, <3>1, <3>2
  <2> QED BY <1>1, <2>1, <2>2, <2>3
<1> QED BY <1>2, <1>5 DEF Linked, t, after

LEMMA BeginningGrows ==
  ASSUME NEW s, NEW S, NEW t \in Seq(S), NEW h \in S, Beginning(s, t)
  PROVE  Beginning(s, Append(t, h))
<1>1. PICK n \in 0 .. Len(t) : s = SubSeq(t, 1, n)
  BY DEF Beginning
<1>2. SubSeq(t, 1, n) = SubSeq(Append(t, h), 1, n) /\ n \in 0 .. Len(Append(t, h))
  OBVIOUS
<1> QED BY <1>1, <1>2 DEF Beginning

LEMMA HandlerLinks == ASSUME HandlersInv, link PROVE HandlersInv'
<1>1. /\ thread.op = "add" /\ thread' = Idle /\ thread'.op = "none"
      /\ UNCHANGED <<alive, pic, wanted, clean, ran>>
  BY DEF link, Idle
<1>2. MaskInv'
  BY <1>1 DEF MaskInv, HandlersInv
<1>3. ASSUME ChainInv PROVE ChainInv'
  <2>1. PICK v \in Vectors, e \in Handlers :
          /\ v = thread.vector /\ e = thread.entry /\ e \in alive /\ nxt[e] = NoHandler
          /\ \A u \in Vectors : \A k \in 1 .. Len(added[u]) : added[u][k] # e
    BY <1>1, <1>3 DEF ChainInv, Adding
  <2> DEFINE s == added[v]
  <2>2. added' = [added EXCEPT ![v] = Append(s, e)]
    BY <2>1 DEF link
  <2>3. /\ s \in Seq(Handlers) /\ Once(s) /\ Linked(s, table[v], nxt) /\ Chain(table[v]) = s
        /\ nxt \in [Handlers -> Handlers \cup {NoHandler}] /\ table \in [Vectors -> Handlers \cup {NoHandler}]
        /\ added \in [Vectors -> Seq(Handlers)]
    BY <1>3, ChainAdded DEF ChainInv, Once, Apart
  <2>4. /\ added' \in [Vectors -> Seq(Handlers)] /\ added'[v] = Append(s, e)
        /\ \A u \in Vectors : u # v => added'[u] = added[u]
    BY <2>2, <2>3
  <2>5. /\ Len(s) \in Nat /\ Len(added'[v]) = Len(s) + 1 /\ added'[v][Len(s) + 1] = e
        /\ \A k \in 1 .. Len(s) : added'[v][k] = s[k]
    BY <2>3, <2>4
  <2> HIDE DEF s
  <2>10. \A u \in Vectors : \A k \in 1 .. Len(added'[u]) :
           \/ added'[u][k] = e /\ u = v /\ k = Len(s) + 1
           \/ added'[u][k] # e /\ k \in 1 .. Len(added[u]) /\ added'[u][k] = added[u][k]
    <3>1. ASSUME NEW u \in Vectors, NEW k \in 1 .. Len(added'[u]), u # v
          PROVE  added'[u][k] # e /\ k \in 1 .. Len(added[u]) /\ added'[u][k] = added[u][k]
      BY <2>1, <2>4, <3>1
    <3>2. ASSUME NEW k \in 1 .. Len(added'[v])
          PROVE  \/ added'[v][k] = e /\ k = Len(s) + 1
                 \/ added'[v][k] # e /\ k \in 1 .. Len(added[v]) /\ added'[v][k] = added[v][k]
      <4>1. k \in 1 .. Len(s) \/ k = Len(s) + 1
        BY <2>5, <3>2
      <4> QED BY <2>1, <2>5, <4>1 DEF s
    <3> QED BY <3>1, <3>2
  <2>6. Listed'
    <3>1. ASSUME NEW u \in Vectors, NEW k \in 1 .. Len(added'[u]) PROVE added'[u][k] \in alive
      <4>1. added'[u][k] = e \/ (k \in 1 .. Len(added[u]) /\ added'[u][k] = added[u][k])
        BY <2>10, <3>1
      <4> QED BY <1>3, <2>1, <4>1 DEF ChainInv, Listed
    <3> QED BY <1>1, <3>1 DEF Listed
  <2>7. Apart'
    <3>1. ASSUME NEW u \in Vectors, NEW w \in Vectors, NEW i \in 1 .. Len(added'[u]), NEW j \in 1 .. Len(added'[w]),
                 added'[u][i] = added'[w][j]
          PROVE  u = w /\ i = j
      <4>1. CASE added'[u][i] = e
        <5>1. u = v /\ i = Len(s) + 1
          BY <2>10, <3>1, <4>1
        <5>2. added'[w][j] = e
          BY <3>1, <4>1
        <5>3. w = v /\ j = Len(s) + 1
          BY <2>10, <3>1, <5>2
        <5> QED BY <5>1, <5>3
      <4>2. CASE added'[u][i] # e
        <5>1. i \in 1 .. Len(added[u]) /\ j \in 1 .. Len(added[w]) /\ added[u][i] = added[w][j]
          BY <2>10, <3>1, <4>2
        <5> QED BY <1>3, <5>1 DEF ChainInv, Apart
      <4> QED BY <4>1, <4>2
    <3> QED BY <3>1 DEF Apart
  <2>8. Ran'
    <3>1. CASE ran.vector = -1 /\ ran.handlers = <<>>
      BY <1>1, <3>1 DEF Ran
    <3>2. CASE ran.vector \in Vectors /\ Beginning(ran.handlers, added[ran.vector])
      <4>1. CASE ran.vector = v
        <5>1. Beginning(ran.handlers, s)
          BY <3>2, <4>1 DEF s
        <5>2. Beginning(ran.handlers, Append(s, e))
          BY <2>3, <5>1, BeginningGrows
        <5> QED BY <1>1, <2>4, <4>1, <5>2 DEF Ran
      <4>2. CASE ran.vector # v
        BY <1>1, <2>4, <3>2, <4>2 DEF Ran
      <4> QED BY <4>1, <4>2
    <3> QED BY <1>3, <3>1, <3>2 DEF ChainInv, Ran
  <2>9. /\ nxt' \in [Handlers -> Handlers \cup {NoHandler}] /\ table' \in [Vectors -> Handlers \cup {NoHandler}]
        /\ \A u \in Vectors : Linked(added'[u], table'[u], nxt')
    <3>1. CASE table[v] = NoHandler
      <4>1. table' = [table EXCEPT ![v] = e] /\ nxt' = nxt
        BY <2>1, <3>1 DEF link
      <4>2. s = <<>>
        <5>1. ASSUME s # <<>> PROVE FALSE
          <6>1. s[1] \in Handlers /\ table[v] = s[1]
            BY <2>3, <5>1 DEF Linked
          <6> QED BY <3>1, <6>1, HandlersAssumption
        <5> QED BY <5>1
      <4>3. Linked(added'[v], table'[v], nxt')
        BY <2>1, <2>3, <2>4, <2>5, <4>1, <4>2 DEF Linked
      <4>4. \A u \in Vectors : u # v => Linked(added'[u], table'[u], nxt')
        BY <1>3, <2>3, <2>4, <4>1 DEF ChainInv
      <4> QED BY <2>3, <4>1, <4>3, <4>4
    <3>2. CASE table[v] # NoHandler
      <4>1. s # <<>>
        BY <2>3, <3>2 DEF Linked
      <4>2. nxt' = [nxt EXCEPT ![s[Len(s)]] = e] /\ table' = table
        BY <2>1, <2>3, <3>2 DEF link, Last
      <4>3. Linked(added'[v], table'[v], nxt')
        <5>1. \A k \in 1 .. Len(s) : s[k] # e
          BY <2>1 DEF s
        <5>2. Linked(Append(s, e), table[v], [nxt EXCEPT ![s[Len(s)]] = e])
          BY <2>1, <2>3, <4>1, <5>1, LinkedBehind
        <5> QED BY <2>4, <4>2, <5>2
      <4>4. s[Len(s)] \in Handlers /\ Len(s) \in 1 .. Len(s)
        BY <2>3, <4>1
      <4>5. nxt' \in [Handlers -> Handlers \cup {NoHandler}] /\ \A h \in Handlers : h # s[Len(s)] => nxt'[h] = nxt[h]
        BY <2>3, <4>2, <4>4
      <4>6. ASSUME NEW u \in Vectors, u # v PROVE Linked(added'[u], table'[u], nxt')
        <5>1. Linked(added[u], table[u], nxt) /\ added'[u] = added[u] /\ added[u] \in Seq(Handlers)
          BY <1>3, <2>3, <2>4, <4>6 DEF ChainInv
        <5>2. \A k \in 1 .. Len(added[u]) : added[u][k] \in Handlers /\ added[u][k] # s[Len(s)]
          BY <1>3, <4>4, <4>6, <5>1 DEF ChainInv, Apart, s
        <5> QED BY <4>2, <4>5, <5>1, <5>2 DEF Linked
      <4> QED BY <2>3, <4>2, <4>3, <4>5, <4>6
    <3> QED BY <3>1, <3>2
  <2> QED BY <1>1, <1>3, <2>4, <2>6, <2>7, <2>8, <2>9 DEF ChainInv, Adding
<1> QED BY <1>1, <1>2, <1>3 DEF HandlersInv

LEMMA HandlerLeaves == ASSUME HandlersInv, VlIntP_RemoveHandler PROVE HandlersInv'
<1>1. UNCHANGED <<table, alive, pic, wanted, ran>>
  BY DEF VlIntP_RemoveHandler
<1>2. \/ thread'.op = "none" /\ UNCHANGED <<nxt, clean, added>>
      \/ thread'.op = "remove" /\ clean' = FALSE
  <2>1. PICK v \in Vectors, e \in Handlers :
          IF {p \in ToSet(Chain(table[v])) : nxt[p] = e} = {}
          THEN Calls(Idle) /\ UNCHANGED <<nxt, clean, added>>
          ELSE \E p \in {p \in ToSet(Chain(table[v])) : nxt[p] = e} :
                 Calls([op |-> "remove", entry |-> p]) /\ clean' = FALSE
    BY ZenonT(30) DEF VlIntP_RemoveHandler
  <2>2. CASE Calls(Idle) /\ UNCHANGED <<nxt, clean, added>>
    BY <2>2 DEF Calls, Idle
  <2>3. ASSUME NEW p, Calls([op |-> "remove", entry |-> p]), clean' = FALSE
        PROVE  thread'.op = "remove" /\ clean' = FALSE
    BY <2>3 DEF Calls
  <2> QED BY <2>1, <2>2, <2>3
<1>3. MaskInv'
  BY <1>1, <1>2 DEF MaskInv, HandlersInv
<1>4. ASSUME clean' PROVE ChainInv'
  BY <1>1, <1>2, <1>4, ChainsStay DEF HandlersInv
<1> QED BY <1>2, <1>3, <1>4 DEF HandlersInv

LEMMA LineMasked == ASSUME HandlersInv, write_mask PROVE HandlersInv'
<1>1. /\ thread.op \in {"mask", "unmask"} /\ thread' = Idle /\ thread'.op = "none"
      /\ UNCHANGED <<table, nxt, alive, added, clean, ran>>
  BY DEF write_mask, Idle
<1>2. PICK line \in Lines, p \in DOMAIN Controllers : /\ line = thread.line /\ p = PortOf(line) /\ line \in Controllers[p]
                                                /\ thread.read = pic[p]
  <2>1. thread.line \in Lines /\ thread.read = pic[PortOf(thread.line)]
    BY <1>1 DEF HandlersInv, MaskInv
  <2>2. \E q \in DOMAIN Controllers : thread.line \in Controllers[q]
    BY <2>1 DEF Lines
  <2> QED BY <2>1, <2>2 DEF PortOf
<1>3. \A q \in DOMAIN Controllers : q # p => line \notin Controllers[q]
  BY <1>2, ControllersAssumption
<1>4. pic = [q \in DOMAIN Controllers |-> Controllers[q] \cap wanted]
  BY DEF HandlersInv, MaskInv
<1>5. MaskInv'
  <2>1. CASE thread.op = "mask"
    <3>1. pic' = [pic EXCEPT ![p] = pic[p] \cup {line}] /\ wanted' = wanted \cup {line}
      BY <1>2, <2>1 DEF write_mask
    <3>2. \A q \in DOMAIN Controllers : (IF q = p THEN pic[p] \cup {line} ELSE pic[q]) = Controllers[q] \cap (wanted \cup {line})
      BY <1>2, <1>3, <1>4
    <3>3. pic' = [q \in DOMAIN Controllers |-> IF q = p THEN pic[p] \cup {line} ELSE pic[q]]
      BY <1>4, <3>1
    <3>4. pic' = [q \in DOMAIN Controllers |-> Controllers[q] \cap wanted']
      BY <3>1, <3>2, <3>3
    <3> QED BY <1>1, <3>4 DEF MaskInv
  <2>2. CASE thread.op = "unmask"
    <3>1. pic' = [pic EXCEPT ![p] = pic[p] \ {line}] /\ wanted' = wanted \ {line}
      BY <1>2, <2>2 DEF write_mask
    <3>2. \A q \in DOMAIN Controllers : (IF q = p THEN pic[p] \ {line} ELSE pic[q]) = Controllers[q] \cap (wanted \ {line})
      BY <1>2, <1>3, <1>4
    <3>3. pic' = [q \in DOMAIN Controllers |-> IF q = p THEN pic[p] \ {line} ELSE pic[q]]
      BY <1>4, <3>1
    <3>4. pic' = [q \in DOMAIN Controllers |-> Controllers[q] \cap wanted']
      BY <3>1, <3>2, <3>3
    <3> QED BY <1>1, <3>4 DEF MaskInv
  <2> QED BY <1>1, <2>1, <2>2
<1>6. ASSUME ChainInv PROVE ChainInv'
  BY <1>1, <1>6, ChainsStay
<1> QED BY <1>1, <1>5, <1>6 DEF HandlersInv

LEMMA InterruptRuns == ASSUME HandlersInv, _pc_isr_common PROVE HandlersInv'
<1>1. PICK v \in Vectors : /\ ran' = [vector |-> v, handlers |-> Chain(table[v])]
                           /\ UNCHANGED <<table, nxt, alive, pic, thread, added, wanted, clean>>
  BY DEF _pc_isr_common
<1>2. MaskInv'
  BY <1>1 DEF MaskInv, HandlersInv
<1>3. ASSUME ChainInv PROVE ChainInv'
  <2>1. ran'.vector = v /\ ran'.handlers = added[v] /\ added' = added
    BY <1>1, <1>3, ChainAdded
  <2>2. added[v] \in Seq(Handlers)
    BY <1>3 DEF ChainInv
  <2>3. added[v] = SubSeq(added[v], 1, Len(added[v])) /\ Len(added[v]) \in 0 .. Len(added[v])
    BY <2>2
  <2>4. Ran'
    BY <2>1, <2>3 DEF Ran, Beginning
  <2>5. Listed' /\ Apart' /\ Adding'
    BY <1>1, <1>3 DEF ChainInv, Listed, Apart, Adding
  <2> QED BY <1>1, <1>3, <2>4, <2>5 DEF ChainInv
<1> QED BY <1>1, <1>2, <1>3 DEF HandlersInv

LEMMA HandlersStep == HandlersInv /\ [InterruptNext]_interruptVars => HandlersInv'
<1> SUFFICES ASSUME HandlersInv, [InterruptNext]_interruptVars PROVE HandlersInv'
  OBVIOUS
<1>1. CASE free
  BY <1>1 DEF free, Idle, HandlersInv, MaskInv
<1>2. CASE VlIntP_Mask
  <2>1. PICK line \in Lines, op \in {"mask", "unmask"} :
          /\ thread' = [op |-> op, line |-> line, read |-> pic[PortOf(line)]]
          /\ UNCHANGED <<table, nxt, alive, pic, added, wanted, clean, ran>>
    BY <1>2 DEF VlIntP_Mask, Calls
  <2>2. thread'.op = op /\ thread'.line = line /\ thread'.read = pic[PortOf(line)]
    BY <2>1
  <2>3. MaskInv'
    BY <2>1, <2>2 DEF HandlersInv, MaskInv
  <2>4. ASSUME ChainInv PROVE ChainInv'
    BY <2>1, <2>2, <2>4, ChainsStay
  <2> QED BY <2>1, <2>2, <2>3, <2>4 DEF HandlersInv
<1>3. CASE UNCHANGED interruptVars
  <2>1. UNCHANGED <<table, nxt, alive, pic, thread, added, wanted, clean, ran>>
    BY <1>3 DEF interruptVars
  <2>2. ASSUME ChainInv PROVE ChainInv'
    BY <2>1, <2>2, ChainsStay
  <2> QED BY <2>1, <2>2 DEF HandlersInv, MaskInv
<1> QED
  BY <1>1, <1>2, <1>3, HandlerAdds, HandlerLinks, HandlerLeaves, LineMasked, InterruptRuns DEF InterruptNext

LEMMA InvHandlersRun == HandlersInv => HandlersRun
<1> SUFFICES ASSUME HandlersInv PROVE HandlersRun
  OBVIOUS
<1>1. ASSUME clean PROVE \A v \in Vectors : Chain(table[v]) = added[v]
  BY <1>1, ChainAdded DEF HandlersInv
<1>2. ASSUME clean
      PROVE  /\ ToSet(ran.handlers) \subseteq alive
             /\ ran.vector # -1 => IsPrefix(ran.handlers, added[ran.vector])
  <2>1. CASE ran.vector = -1 /\ ran.handlers = <<>>
    BY <2>1 DEF ToSet
  <2>2. CASE ran.vector \in Vectors /\ Beginning(ran.handlers, added[ran.vector])
    <3> DEFINE s == ran.handlers
    <3>1. PICK t \in Seq(Handlers) : t = added[ran.vector] /\ \A k \in 1 .. Len(t) : t[k] \in alive
      BY <1>2, <2>2 DEF HandlersInv, ChainInv, Listed
    <3>2. PICK n \in 0 .. Len(t) : s = SubSeq(t, 1, n)
      BY <2>2, <3>1 DEF Beginning
    <3>3. Len(s) = n /\ DOMAIN s = 1 .. n /\ \A k \in 1 .. n : s[k] = t[k]
      BY <3>2
    <3>4. ToSet(s) \subseteq alive
      BY <3>1, <3>3 DEF ToSet
    <3>5. SubSeq(s, 1, n) = s
      BY <3>2
    <3>6. IsPrefix(s, t)
      BY <3>2, <3>3, <3>5 DEF IsPrefix
    <3> QED BY <3>1, <3>4, <3>6
  <2> QED BY <1>2, <2>1, <2>2 DEF HandlersInv, ChainInv, Ran
<1> QED BY <1>1, <1>2 DEF HandlersRun, HandlersInv, MaskInv

-----------------------------------------------------------------------------
(* The emulated atomics, for words of any width and any number of handlers   *)
(* inside one another.  What is interrupted has not turned interrupts off    *)
(* yet.                                                                      *)
Words == 0 .. Values - 1
Ops == [name : {"add", "sub", "exchange"},
        at : {"look", "disable", "read", "write", "compare", "enable"}, value : Words]
Open(op) == op.at \in {"look", "disable"}

StackInv ==
    /\ word \in Words /\ stack \in Seq(Ops)
    /\ \A i \in 1 .. Len(stack) : i < Len(stack) => Open(stack[i])
    /\ stack # <<>> /\ interrupts => Open(stack[Len(stack)])
    /\ stack # <<>> /\ stack[Len(stack)].at = "write" => stack[Len(stack)].value = word

(* Nothing is in progress at first, and nothing was counted.                *)
LEMMA AtomicsInit == ASSUME AtomicInit PROVE StackInv /\ NoUpdateIsLost
  BY ValuesAssumption DEF AtomicInit, StackInv, NoUpdateIsLost, Words

(* An operation that begins lies upon operations that are open.             *)
LEMMA AtomicsBegin ==
  ASSUME StackInv, begin PROVE StackInv'
<1>1. PICK op \in Begins : (stack = <<>> \/ interrupts) /\ stack' = Append(stack, op) /\ word' = word
  BY DEF begin
<1>2. op \in Ops /\ Open(op)
  BY ValuesAssumption DEF Begins, Op, Ops, Open, Words
<1>3. /\ Len(stack') = Len(stack) + 1 /\ stack'[Len(stack')] = op
      /\ \A i \in 1 .. Len(stack) : stack'[i] = stack[i]
      /\ stack' \in Seq(Ops) /\ Len(stack) \in Nat
  BY <1>1, <1>2 DEF StackInv
<1>4. \A i \in 1 .. Len(stack) : Open(stack[i])
  BY <1>1 DEF StackInv
<1>5. \A i \in 1 .. Len(stack') : i < Len(stack') => Open(stack'[i])
  BY <1>3, <1>4
<1> QED
  BY <1>1, <1>2, <1>3, <1>5 DEF StackInv, Open

(* An operation that ends uncovers those below it as they were.             *)
LEMMA FrontOps ==
  ASSUME StackInv, stack # <<>>
  PROVE  /\ Front(stack) \in Seq(Ops) /\ Len(Front(stack)) = Len(stack) - 1
         /\ Len(stack) \in Nat \ {0}
         /\ \A i \in 1 .. Len(stack) - 1 : Front(stack)[i] = stack[i]
<1>1. stack \in Seq(Ops) /\ Len(stack) \in Nat \ {0}
  BY DEF StackInv
<1>2. \A i \in 1 .. Len(stack) - 1 : stack[i] \in Ops
  BY <1>1, ElementOfSeq
<1> DEFINE last == Len(stack) - 1
<1>3. last \in Int /\ 1 \in Int
  BY <1>1
<1>4. /\ SubSeq(stack, 1, last) \in Seq(Ops)
      /\ Len(SubSeq(stack, 1, last)) = IF 1 <= last THEN last - 1 + 1 ELSE 0
      /\ \A i \in 1 .. last - 1 + 1 : SubSeq(stack, 1, last)[i] = stack[1 + i - 1]
  <2> HIDE DEF last
  <2>1. \A i \in 1 .. last : stack[i] \in Ops
    BY <1>2 DEF last
  <2> QED
    BY <1>3, <2>1, SubSeqProperties
<1>5. Front(stack) = SubSeq(stack, 1, last)
  BY DEF Front
<1> QED
  <2> HIDE DEF last
  <2>1. last \in Nat /\ last = Len(stack) - 1 /\ last - 1 + 1 = last
    BY <1>1 DEF last
  <2>2. \A i \in 1 .. last : 1 + i - 1 = i
    BY <2>1
  <2>3. Len(Front(stack)) = last
    BY <1>4, <1>5, <2>1
  <2>4. \A i \in 1 .. last : Front(stack)[i] = stack[i]
    BY <1>4, <1>5, <2>1, <2>2
  <2> QED
    BY <1>1, <1>4, <1>5, <2>1, <2>3, <2>4

(* The innermost operation is the last of the stack.                        *)
LEMMA TopType ==
  ASSUME StackInv, stack # <<>>
  PROVE  Top = stack[Len(stack)] /\ Top \in Ops
<1>1. stack \in Seq(Ops) /\ Len(stack) \in Nat \ {0}
  BY DEF StackInv
<1> QED
  BY <1>1 DEF Top, Last

(* A step of the innermost operation leaves those below as they are.        *)
LEMMA AtomicsStep ==
  ASSUME StackInv, NEW name, NEW at, NEW top \in Ops, Step(name, at, top)
  PROVE  /\ stack \in Seq(Ops) /\ stack # <<>> /\ Top = stack[Len(stack)] /\ Top \in Ops
         /\ Top.name = name /\ Top.at = at
         /\ stack' \in Seq(Ops) /\ stack' # <<>> /\ stack'[Len(stack')] = top
         /\ \A i \in 1 .. Len(stack') : i < Len(stack') => Open(stack'[i])
<1>1. stack \in Seq(Ops) /\ stack # <<>> /\ Len(stack) \in Nat /\ Len(stack) > 0
  BY DEF StackInv, Step
<1>2. /\ Front(stack) \in Seq(Ops) /\ Len(Front(stack)) = Len(stack) - 1
      /\ \A i \in 1 .. Len(stack) - 1 : Front(stack)[i] = stack[i]
  BY <1>1, FrontOps
<1>3. /\ Len(stack') = Len(stack) /\ stack'[Len(stack')] = top /\ stack' \in Seq(Ops)
      /\ \A i \in 1 .. Len(stack) - 1 : stack'[i] = stack[i]
  BY <1>1, <1>2 DEF Step
<1>4. Top = stack[Len(stack)] /\ Top \in Ops
  BY <1>1, TopType
<1>5. \A i \in 1 .. Len(stack') : i < Len(stack') => Open(stack'[i])
  BY <1>1, <1>3 DEF StackInv
<1> QED
  BY <1>1, <1>3, <1>4, <1>5 DEF Step

(* The innermost operation turns interrupts off before it reads what it     *)
(* writes, so that nobody changes the word in between.                      *)
LEMMA AtomicsNext ==
  ASSUME StackInv, [AtomicNext]_atomicVars PROVE StackInv'
<1>1. CASE begin
  BY <1>1, AtomicsBegin
<1>2. CASE disable
  <2>1. PICK name \in {"add", "sub", "exchange"} :
          Step(name, "disable", [Top EXCEPT !.at = IF name = "exchange" THEN "compare" ELSE "read"])
    BY <1>2 DEF disable
  <2> DEFINE top == [Top EXCEPT !.at = IF name = "exchange" THEN "compare" ELSE "read"]
  <2>2. top \in Ops /\ top.at # "write"
    BY <2>1, TopType DEF Step, Ops
  <2> HIDE DEF top
  <2>3. stack' \in Seq(Ops) /\ stack'[Len(stack')] = top
        /\ \A i \in 1 .. Len(stack') : i < Len(stack') => Open(stack'[i])
    BY <2>1, <2>2, AtomicsStep DEF top
  <2> QED
    BY <1>2, <2>2, <2>3 DEF StackInv, disable
<1>3. CASE read
  <2>1. PICK name \in {"add", "sub"} : Step(name, "read", [Top EXCEPT !.at = "write", !.value = word])
    BY <1>3 DEF read
  <2> DEFINE top == [Top EXCEPT !.at = "write", !.value = word]
  <2>2. top \in Ops /\ top.value = word
    BY <2>1, TopType DEF Step, Ops, StackInv
  <2> HIDE DEF top
  <2>3. /\ stack' \in Seq(Ops) /\ stack'[Len(stack')] = top
        /\ \A i \in 1 .. Len(stack') : i < Len(stack') => Open(stack'[i])
        /\ stack # <<>> /\ stack[Len(stack)].at = "read"
    BY <2>1, <2>2, AtomicsStep DEF top
  <2>4. ~interrupts
    BY <2>3 DEF StackInv, Open
  <2> QED
    BY <1>3, <2>2, <2>3, <2>4 DEF StackInv, read
<1>4. CASE write
  <2>1. PICK name \in {"add", "sub"} :
          /\ Step(name, "write", [Top EXCEPT !.at = "enable"])
          /\ word' = (Top.value + Change(name)) % Values
    BY <1>4 DEF write
  <2> DEFINE top == [Top EXCEPT !.at = "enable"]
  <2>2. top \in Ops /\ top.at = "enable"
    BY <2>1, TopType DEF Step, Ops
  <2> HIDE DEF top
  <2>3. /\ stack' \in Seq(Ops) /\ stack'[Len(stack')] = top
        /\ \A i \in 1 .. Len(stack') : i < Len(stack') => Open(stack'[i])
        /\ stack # <<>> /\ stack[Len(stack)].at = "write" /\ Top.value \in Words
    BY <2>1, <2>2, AtomicsStep DEF top, Ops
  <2>4. ~interrupts
    BY <2>3 DEF StackInv, Open
  <2>5. word' \in Words
    BY <2>1, <2>3, ValuesAssumption DEF Words, Change
  <2> QED
    BY <1>4, <2>2, <2>3, <2>4, <2>5 DEF StackInv, write
<1>5. CASE look
  <2> DEFINE top == [Top EXCEPT !.at = "disable", !.value = word]
  <2>1. Step("exchange", "look", top)
    BY <1>5 DEF look
  <2>2. top \in Ops /\ top.at = "disable"
    BY <2>1, TopType DEF Step, Ops, StackInv
  <2> HIDE DEF top
  <2>3. /\ stack' \in Seq(Ops) /\ stack'[Len(stack')] = top
        /\ \A i \in 1 .. Len(stack') : i < Len(stack') => Open(stack'[i])
    BY <2>1, <2>2, AtomicsStep
  <2> QED
    BY <1>5, <2>2, <2>3 DEF StackInv, look, Open
<1>6. CASE compare
  <2> DEFINE top == [Top EXCEPT !.at = "enable"]
  <2>1. Step("exchange", "compare", top) /\ (word' = (Top.value + 1) % Values \/ word' = word)
    BY <1>6 DEF compare
  <2>2. top \in Ops /\ top.at = "enable"
    BY <2>1, TopType DEF Step, Ops
  <2> HIDE DEF top
  <2>3. /\ stack' \in Seq(Ops) /\ stack'[Len(stack')] = top
        /\ \A i \in 1 .. Len(stack') : i < Len(stack') => Open(stack'[i])
        /\ stack # <<>> /\ stack[Len(stack)].at = "compare" /\ Top.value \in Words
    BY <2>1, <2>2, AtomicsStep DEF Ops
  <2>4. ~interrupts
    BY <2>3 DEF StackInv, Open
  <2>5. word' \in Words
    BY <2>1, <2>3, ValuesAssumption DEF StackInv, Words
  <2> QED
    BY <1>6, <2>2, <2>3, <2>4, <2>5 DEF StackInv, compare
<1>7. CASE enable
  <2>1. stack # <<>> /\ stack' = Front(stack) /\ word' = word
    BY <1>7 DEF enable
  <2>2. /\ stack' \in Seq(Ops) /\ Len(stack') = Len(stack) - 1 /\ Len(stack) \in Nat \ {0}
        /\ \A i \in 1 .. Len(stack') : stack'[i] = stack[i]
    BY <2>1, FrontOps
  <2>3. \A i \in 1 .. Len(stack') : Open(stack'[i])
    BY <2>2 DEF StackInv
  <2>4. stack' # <<>> => Len(stack') \in 1 .. Len(stack')
    BY <2>2
  <2>5. stack' # <<>> => Open(stack'[Len(stack')])
    BY <2>3, <2>4
  <2>6. \A i \in 1 .. Len(stack') : i < Len(stack') => Open(stack'[i])
    BY <2>3
  <2> QED
    BY <2>1, <2>2, <2>5, <2>6 DEF StackInv, Open
<1>8. CASE UNCHANGED atomicVars
  BY <1>8 DEF atomicVars, StackInv
<1> QED
  BY <1>1, <1>2, <1>3, <1>4, <1>5, <1>6, <1>7, <1>8 DEF AtomicNext

(* What is written is what was there, and one more or less.                 *)
LEMMA SumInv ==
  ASSUME StackInv, NoUpdateIsLost, [AtomicNext]_atomicVars PROVE NoUpdateIsLost'
<1>1. CASE write
  <2>1. PICK name \in {"add", "sub"} :
          /\ Step(name, "write", [Top EXCEPT !.at = "enable"])
          /\ word' = (Top.value + Change(name)) % Values
          /\ total' = (total + Change(name)) % Values
          /\ raced' = raced
    BY <1>1 DEF write
  <2>2. Top = stack[Len(stack)]
    BY DEF Top, Last
  <2>3. Top.value = word
    BY <2>1, <2>2 DEF StackInv, Step
  <2> QED
    BY <2>1, <2>3 DEF NoUpdateIsLost
<1>2. CASE compare
  BY <1>2 DEF compare, NoUpdateIsLost
<1>3. CASE begin \/ disable \/ read \/ look \/ enable \/ UNCHANGED atomicVars
  BY <1>3 DEF begin, disable, read, look, enable, atomicVars, NoUpdateIsLost
<1> QED
  BY <1>1, <1>2, <1>3 DEF AtomicNext

(* Wherever an interrupt comes, however many handlers, vectors and lines      *)
(* there are, however wide the words and however deep the handlers lie.       *)
THEOREM InterruptsCorrect == InterruptSpec => []InterruptsLoseNothing
<1> DEFINE RunInv == HandlersInv /\ StackInv /\ NoUpdateIsLost
<1>1. InterruptInit /\ AtomicInit => RunInv
  BY HandlersStart, AtomicsInit
<1>2. RunInv /\ [HandlersOrCounters]_<<interruptVars, atomicVars>> => RunInv'
  <2> SUFFICES ASSUME RunInv, [HandlersOrCounters]_<<interruptVars, atomicVars>> PROVE RunInv'
    OBVIOUS
  <2>1. [InterruptNext]_interruptVars /\ [AtomicNext]_atomicVars
    BY DEF HandlersOrCounters
  <2>2. HandlersInv'
    BY <2>1, HandlersStep
  <2>3. StackInv'
    BY <2>1, AtomicsNext
  <2>4. NoUpdateIsLost'
    BY <2>1, SumInv
  <2> QED BY <2>2, <2>3, <2>4
<1>3. RunInv => InterruptsLoseNothing
  BY InvHandlersRun DEF InterruptsLoseNothing
<1> HIDE DEF RunInv
<1> QED BY <1>1, <1>2, <1>3, PTL DEF InterruptSpec

-----------------------------------------------------------------------------
(* The console on its display                                                *)

Sizes == [text : BOOLEAN, vbe : BOOLEAN, cols : Nat \ {0}, rows : Nat \ {0}]

\* A place in a grid by rows, and back.
LEMMA PlaceInGrid ==
  ASSUME NEW cols \in Nat \ {0}, NEW rows \in Nat, NEW x \in 0 .. cols - 1, NEW y \in 0 .. rows - 1
  PROVE  y * cols + x \in 0 .. cols * rows - 1
<1>1. PICK d \in Nat : rows = y + 1 + d
  <2> WITNESS rows - 1 - y \in Nat
  <2> QED OBVIOUS
<1>2. cols * rows = y * cols + cols + d * cols
  BY <1>1
<1>3. d * cols \in Nat /\ y * cols \in Nat
  BY <1>1
<1> QED BY <1>2, <1>3

LEMMA Division ==
  ASSUME NEW i \in Nat, NEW n \in Nat, n > 0
  PROVE  i % n \in Nat /\ i % n < n /\ i \div n \in Nat /\ i = n * (i \div n) + (i % n)
OBVIOUS

LEMMA GridOfPlace ==
  ASSUME NEW cols \in Nat \ {0}, NEW rows \in Nat, NEW i \in 0 .. cols * rows - 1
  PROVE  i % cols \in 0 .. cols - 1 /\ i \div cols \in 0 .. rows - 1
<1> DEFINE q == i \div cols
<1>0. cols * rows \in Nat /\ i \in Nat /\ i < cols * rows
  OBVIOUS
<1>1. i % cols \in Nat /\ i % cols < cols /\ q \in Nat /\ i = cols * q + (i % cols)
  <2>1. i \in Nat /\ cols \in Nat /\ cols > 0
    BY <1>0
  <2> QED BY ONLY <2>1, Division
<1> HIDE DEF q
<1>2. ASSUME q >= rows PROVE FALSE
  <2>1. PICK d \in Nat : q = rows + d
    <3>1. q - rows \in Nat /\ q = rows + (q - rows)
      BY <1>1, <1>2
    <3> QED BY <3>1
  <2>2. cols * q = cols * rows + cols * d
    BY <2>1
  <2>3. cols * d \in Nat
    BY <2>1
  <2>4. cols * q \in Nat /\ cols * q <= i
    BY <1>0, <1>1, <2>2, <2>3
  <2> QED BY <1>0, <2>2, <2>3, <2>4
<1>3. q \in 0 .. rows - 1
  BY <1>1, <1>2
<1> QED BY <1>1, <1>3 DEF q

LEMMA CellsOfBytes ==
  ASSUME NEW info \in Sizes, (info.cols * info.rows) % 8 = 0
  PROVE  DiffBits(Cardinality(Cells(info))) = Cells(info)
<1> DEFINE n == info.cols * info.rows
<1>1. n \in Nat
  BY DEF Sizes
<1>2. Cardinality(Cells(info)) = n
  <2>1. Cardinality(0 .. n - 1) = IF 0 > n - 1 THEN 0 ELSE (n - 1) - 0 + 1
    <3>1. 0 \in Int /\ n - 1 \in Int
      BY <1>1
    <3> QED BY ONLY <3>1, FS_Interval
  <2> QED BY <1>1, <2>1 DEF Cells
<1>3. (n \div 8) * 8 = n
  BY <1>1
<1> QED BY <1>2, <1>3 DEF DiffBits, Cells

LEMMA RegionOfCell ==
  ASSUME NEW info \in Sizes, info.cols % 2 = 0, NEW i \in Cells(info)
  PROVE  /\ (i % info.cols) \div 2 < info.cols \div 2
         /\ Region(info, i % info.cols, i \div info.cols) \in Regions(info)
<1>1. PICK h \in Nat : info.cols = 2 * h /\ h # 0
  <2> DEFINE c == info.cols
  <2>1. c \in Nat /\ c # 0 /\ c % 2 = 0
    BY DEF Sizes
  <2> HIDE DEF c
  <2>2. c \div 2 \in Nat /\ c = 2 * (c \div 2) /\ c \div 2 # 0
    BY <2>1
  <2> QED BY <2>2 DEF c
<1> DEFINE x == i % info.cols
           y == i \div info.cols
<1>2. x \in 0 .. 2 * h - 1 /\ y \in 0 .. info.rows - 1
  BY <1>1, GridOfPlace DEF Cells, Sizes
<1>3. x \div 2 \in 0 .. h - 1
  BY <1>1, <1>2
<1>4. (y * info.cols) \div 2 = y * h
  <2>1. y * info.cols = 2 * (y * h) /\ y * h \in Nat
    BY <1>1, <1>2
  <2> QED BY <2>1
<1>5. y * h + x \div 2 \in 0 .. h * info.rows - 1
  BY <1>1, <1>2, <1>3, PlaceInGrid DEF Sizes
<1>6. info.cols \div 2 = h
  BY <1>1
<1> QED BY <1>3, <1>4, <1>5, <1>6 DEF Region, Regions

-----------------------------------------------------------------------------
Fits(info) == (info.cols * info.rows) % 8 = 0 /\ (info.text \/ info.cols % 2 = 0)
Within(info, at) == at \in (0 .. info.cols - 1) \X (0 .. info.rows - 1)
Empty(info) == [i \in Cells(info) |-> [ch |-> Blank, cursor |-> FALSE]]

IsVga(v) == v = [mode |-> v.mode, info |-> v.info, switching |-> v.switching, chars |-> v.chars,
                 frame |-> v.frame, diff |-> v.diff, cursor |-> v.cursor]
IsConsole(c) == c = [info |-> c.info, switching |-> c.switching, chars |-> c.chars, diff |-> c.diff,
                     cursor |-> c.cursor, prev |-> c.prev, visible |-> c.visible]

RecordsInv ==
    /\ IsVga(vga) /\ IsConsole(vc)
    /\ vga.info \in Sizes /\ vc.info \in Sizes /\ next \in DOMAIN VideoModes
    /\ Fits(vga.info) /\ DOMAIN screen = Cells(vga.info) /\ stray = FALSE

\* Nothing is switching, and nothing was flushed, out of turn.
TurnInv ==
    /\ stage \in {"idle", "announce", "callback"} => vga.switching = FALSE
    /\ stage \in {"idle", "announce", "buffers", "hardware"} => vc.switching = FALSE
    /\ stage # "idle" => flushed = FALSE

\* A text mode: what has not changed is on the screen.
TextInv ==
    stage \in {"idle", "announce", "callback"} /\ vga.info.text =>
        /\ DOMAIN vga.chars = Cells(vga.info)
        /\ vga.chars = [i \in Cells(vga.info) |-> vga.chars[i]]
        /\ vga.diff \subseteq Cells(vga.info) /\ Within(vga.info, vga.cursor)
        /\ \A i \in Cells(vga.info) : i \notin vga.diff => screen[i] = [ch |-> vga.chars[i], cursor |-> FALSE]

\* A graphics mode: the frame buffer is on the screen.
FrameInv ==
    stage \in {"idle", "announce", "callback"} /\ ~vga.info.text =>
        /\ DOMAIN vga.frame = Cells(vga.info)
        /\ \A i \in Cells(vga.info) : screen[i] = vga.frame[i]

\* The mode that is coming has its buffers, and nothing in them.
ComingInv ==
    /\ stage \in {"buffers", "hardware"} => Suits(VideoModes[next])
    /\ stage = "hardware" /\ VideoModes[next].text => vga.chars = Cleared(VideoModes[next]) /\ vga.diff = {}
    /\ stage = "hardware" /\ ~VideoModes[next].text => vga.frame = Empty(VideoModes[next])
    /\ stage = "announce" /\ ~VideoModes[next].text =>
          vga.info = VideoModes[next] /\ vga.frame = Empty(VideoModes[next])
    /\ stage = "callback" /\ ~vc.info.text => vga.info = vc.info /\ vga.frame = Empty(vc.info)

\* The console's own cells: what has not changed is in the frame buffer, and
\* the cursor's mark is where it was drawn last.
ConsoleInv ==
    stage = "idle" /\ ~vc.info.text =>
        /\ vga.info = vc.info
        /\ DOMAIN vc.chars = Cells(vc.info)
        /\ vc.chars = [i \in Cells(vc.info) |-> vc.chars[i]]
        /\ vc.diff \subseteq Cells(vc.info) /\ Within(vc.info, vc.cursor) /\ Within(vc.info, vc.prev)
        /\ \A i \in Cells(vc.info) : i \notin vc.diff => vga.frame[i].ch = vc.chars[i]
        /\ \A i \in Cells(vc.info) : vga.frame[i].cursor => i = PrevPlace

FlushedInv ==
    flushed /\ stage = "idle" =>
        /\ vc.info.text /\ vga.info.text => vga.diff = {}
        /\ ~vc.info.text => vc.diff = {}

Tidy == RecordsInv /\ TurnInv /\ TextInv /\ FrameInv /\ ComingInv /\ ConsoleInv /\ FlushedInv
TidyInv == careful /\ ~logs => Tidy

-----------------------------------------------------------------------------
\* The records with some fields changed.
\* The records with some of their fields changed.
LEMMA VgaWrites ==
  ASSUME NEW v, IsVga(v), NEW k, NEW ch, NEW at
  PROVE  [v EXCEPT !.chars[k] = ch, !.diff = @ \cup {k}, !.cursor = at] =
           [mode |-> v.mode, info |-> v.info, switching |-> v.switching,
            chars |-> [v.chars EXCEPT ![k] = ch], frame |-> v.frame, diff |-> v.diff \cup {k},
            cursor |-> at]
<1>1. PICK e1 : e1 = [v EXCEPT !.chars = [v.chars EXCEPT ![k] = ch]]
  OBVIOUS
<1>2. e1 = [mode |-> v.mode, info |-> v.info, switching |-> v.switching,
             chars |-> [v.chars EXCEPT ![k] = ch], frame |-> v.frame, diff |-> v.diff,
             cursor |-> v.cursor]
  BY <1>1 DEF IsVga
<1>3. PICK e2 : e2 = [e1 EXCEPT !.diff = v.diff \cup {k}]
  OBVIOUS
<1>4. e2 = [mode |-> v.mode, info |-> v.info, switching |-> v.switching,
             chars |-> [v.chars EXCEPT ![k] = ch], frame |-> v.frame,
             diff |-> v.diff \cup {k}, cursor |-> v.cursor]
  BY <1>3, <1>2 DEF IsVga
<1>5. PICK e3 : e3 = [e2 EXCEPT !.cursor = at]
  OBVIOUS
<1>6. e3 = [mode |-> v.mode, info |-> v.info, switching |-> v.switching,
             chars |-> [v.chars EXCEPT ![k] = ch], frame |-> v.frame,
             diff |-> v.diff \cup {k}, cursor |-> at]
  BY <1>5, <1>4 DEF IsVga
<1>7. [v EXCEPT !.chars[k] = ch, !.diff = @ \cup {k}, !.cursor = at] = e3
  BY <1>1, <1>3, <1>5, Zenon
<1> QED BY <1>7, <1>6

LEMMA ConsoleWrites ==
  ASSUME NEW c, IsConsole(c), NEW k, NEW ch, NEW at
  PROVE  [c EXCEPT !.chars[k] = ch, !.diff = @ \cup {k}, !.cursor = at] =
           [info |-> c.info, switching |-> c.switching, chars |-> [c.chars EXCEPT ![k] = ch],
            diff |-> c.diff \cup {k}, cursor |-> at, prev |-> c.prev, visible |-> c.visible]
<1>1. PICK e1 : e1 = [c EXCEPT !.chars = [c.chars EXCEPT ![k] = ch]]
  OBVIOUS
<1>2. e1 = [info |-> c.info, switching |-> c.switching,
             chars |-> [c.chars EXCEPT ![k] = ch], diff |-> c.diff, cursor |-> c.cursor,
             prev |-> c.prev, visible |-> c.visible]
  BY <1>1 DEF IsConsole
<1>3. PICK e2 : e2 = [e1 EXCEPT !.diff = c.diff \cup {k}]
  OBVIOUS
<1>4. e2 = [info |-> c.info, switching |-> c.switching,
             chars |-> [c.chars EXCEPT ![k] = ch], diff |-> c.diff \cup {k},
             cursor |-> c.cursor, prev |-> c.prev, visible |-> c.visible]
  BY <1>3, <1>2 DEF IsConsole
<1>5. PICK e3 : e3 = [e2 EXCEPT !.cursor = at]
  OBVIOUS
<1>6. e3 = [info |-> c.info, switching |-> c.switching,
             chars |-> [c.chars EXCEPT ![k] = ch], diff |-> c.diff \cup {k}, cursor |-> at,
             prev |-> c.prev, visible |-> c.visible]
  BY <1>5, <1>4 DEF IsConsole
<1>7. [c EXCEPT !.chars[k] = ch, !.diff = @ \cup {k}, !.cursor = at] = e3
  BY <1>1, <1>3, <1>5, Zenon
<1> QED BY <1>7, <1>6

LEMMA FrameFreed ==
  ASSUME NEW v, IsVga(v)
  PROVE  [v EXCEPT !.switching = TRUE, !.frame = Freed] =
           [mode |-> v.mode, info |-> v.info, switching |-> TRUE, chars |-> v.chars,
            frame |-> Freed, diff |-> v.diff, cursor |-> v.cursor]
<1>1. PICK e1 : e1 = [v EXCEPT !.switching = TRUE]
  OBVIOUS
<1>2. e1 = [mode |-> v.mode, info |-> v.info, switching |-> TRUE, chars |-> v.chars,
             frame |-> v.frame, diff |-> v.diff, cursor |-> v.cursor]
  BY <1>1 DEF IsVga
<1>3. PICK e2 : e2 = [e1 EXCEPT !.frame = Freed]
  OBVIOUS
<1>4. e2 = [mode |-> v.mode, info |-> v.info, switching |-> TRUE, chars |-> v.chars,
             frame |-> Freed, diff |-> v.diff, cursor |-> v.cursor]
  BY <1>3, <1>2 DEF IsVga
<1>5. [v EXCEPT !.switching = TRUE, !.frame = Freed] = e2
  BY <1>1, <1>3, Zenon
<1> QED BY <1>5, <1>4

LEMMA CharsFreed ==
  ASSUME NEW v, IsVga(v)
  PROVE  [v EXCEPT !.switching = TRUE, !.chars = Freed] =
           [mode |-> v.mode, info |-> v.info, switching |-> TRUE, chars |-> Freed,
            frame |-> v.frame, diff |-> v.diff, cursor |-> v.cursor]
<1>1. PICK e1 : e1 = [v EXCEPT !.switching = TRUE]
  OBVIOUS
<1>2. e1 = [mode |-> v.mode, info |-> v.info, switching |-> TRUE, chars |-> v.chars,
             frame |-> v.frame, diff |-> v.diff, cursor |-> v.cursor]
  BY <1>1 DEF IsVga
<1>3. PICK e2 : e2 = [e1 EXCEPT !.chars = Freed]
  OBVIOUS
<1>4. e2 = [mode |-> v.mode, info |-> v.info, switching |-> TRUE, chars |-> Freed,
             frame |-> v.frame, diff |-> v.diff, cursor |-> v.cursor]
  BY <1>3, <1>2 DEF IsVga
<1>5. [v EXCEPT !.switching = TRUE, !.chars = Freed] = e2
  BY <1>1, <1>3, Zenon
<1> QED BY <1>5, <1>4

LEMMA CharsCleared ==
  ASSUME NEW v, IsVga(v), NEW b
  PROVE  [v EXCEPT !.chars = b, !.diff = {}] =
           [mode |-> v.mode, info |-> v.info, switching |-> v.switching, chars |-> b,
            frame |-> v.frame, diff |-> {}, cursor |-> v.cursor]
<1>1. PICK e1 : e1 = [v EXCEPT !.chars = b]
  OBVIOUS
<1>2. e1 = [mode |-> v.mode, info |-> v.info, switching |-> v.switching, chars |-> b,
             frame |-> v.frame, diff |-> v.diff, cursor |-> v.cursor]
  BY <1>1 DEF IsVga
<1>3. PICK e2 : e2 = [e1 EXCEPT !.diff = {}]
  OBVIOUS
<1>4. e2 = [mode |-> v.mode, info |-> v.info, switching |-> v.switching, chars |-> b,
             frame |-> v.frame, diff |-> {}, cursor |-> v.cursor]
  BY <1>3, <1>2 DEF IsVga
<1>5. [v EXCEPT !.chars = b, !.diff = {}] = e2
  BY <1>1, <1>3, Zenon
<1> QED BY <1>5, <1>4

LEMMA ModeSet ==
  ASSUME NEW v, IsVga(v), NEW m, NEW i, NEW at
  PROVE  [v EXCEPT !.mode = m, !.info = i, !.switching = FALSE, !.cursor = at] =
           [mode |-> m, info |-> i, switching |-> FALSE, chars |-> v.chars,
            frame |-> v.frame, diff |-> v.diff, cursor |-> at]
<1>1. PICK e1 : e1 = [v EXCEPT !.mode = m]
  OBVIOUS
<1>2. e1 = [mode |-> m, info |-> v.info, switching |-> v.switching, chars |-> v.chars,
             frame |-> v.frame, diff |-> v.diff, cursor |-> v.cursor]
  BY <1>1 DEF IsVga
<1>3. PICK e2 : e2 = [e1 EXCEPT !.info = i]
  OBVIOUS
<1>4. e2 = [mode |-> m, info |-> i, switching |-> v.switching, chars |-> v.chars,
             frame |-> v.frame, diff |-> v.diff, cursor |-> v.cursor]
  BY <1>3, <1>2 DEF IsVga
<1>5. PICK e3 : e3 = [e2 EXCEPT !.switching = FALSE]
  OBVIOUS
<1>6. e3 = [mode |-> m, info |-> i, switching |-> FALSE, chars |-> v.chars,
             frame |-> v.frame, diff |-> v.diff, cursor |-> v.cursor]
  BY <1>5, <1>4 DEF IsVga
<1>7. PICK e4 : e4 = [e3 EXCEPT !.cursor = at]
  OBVIOUS
<1>8. e4 = [mode |-> m, info |-> i, switching |-> FALSE, chars |-> v.chars,
             frame |-> v.frame, diff |-> v.diff, cursor |-> at]
  BY <1>7, <1>6 DEF IsVga
<1>9. [v EXCEPT !.mode = m, !.info = i, !.switching = FALSE, !.cursor = at] = e4
  BY <1>1, <1>3, <1>5, <1>7, Zenon
<1> QED BY <1>9, <1>8

LEMMA ConsoleFlushed ==
  ASSUME NEW c, IsConsole(c), NEW a, NEW b
  PROVE  [c EXCEPT !.diff = {}, !.prev = a, !.visible = b] =
           [info |-> c.info, switching |-> c.switching, chars |-> c.chars, diff |-> {},
            cursor |-> c.cursor, prev |-> a, visible |-> b]
<1>1. PICK e1 : e1 = [c EXCEPT !.diff = {}]
  OBVIOUS
<1>2. e1 = [info |-> c.info, switching |-> c.switching, chars |-> c.chars, diff |-> {},
             cursor |-> c.cursor, prev |-> c.prev, visible |-> c.visible]
  BY <1>1 DEF IsConsole
<1>3. PICK e2 : e2 = [e1 EXCEPT !.prev = a]
  OBVIOUS
<1>4. e2 = [info |-> c.info, switching |-> c.switching, chars |-> c.chars, diff |-> {},
             cursor |-> c.cursor, prev |-> a, visible |-> c.visible]
  BY <1>3, <1>2 DEF IsConsole
<1>5. PICK e3 : e3 = [e2 EXCEPT !.visible = b]
  OBVIOUS
<1>6. e3 = [info |-> c.info, switching |-> c.switching, chars |-> c.chars, diff |-> {},
             cursor |-> c.cursor, prev |-> a, visible |-> b]
  BY <1>5, <1>4 DEF IsConsole
<1>7. [c EXCEPT !.diff = {}, !.prev = a, !.visible = b] = e3
  BY <1>1, <1>3, <1>5, Zenon
<1> QED BY <1>7, <1>6

LEMMA ConsoleSwitches ==
  ASSUME NEW c, IsConsole(c), NEW a
  PROVE  [c EXCEPT !.switching = TRUE, !.info = a] =
           [info |-> a, switching |-> TRUE, chars |-> c.chars, diff |-> c.diff,
            cursor |-> c.cursor, prev |-> c.prev, visible |-> c.visible]
<1>1. PICK e1 : e1 = [c EXCEPT !.switching = TRUE]
  OBVIOUS
<1>2. e1 = [info |-> c.info, switching |-> TRUE, chars |-> c.chars, diff |-> c.diff,
             cursor |-> c.cursor, prev |-> c.prev, visible |-> c.visible]
  BY <1>1 DEF IsConsole
<1>3. PICK e2 : e2 = [e1 EXCEPT !.info = a]
  OBVIOUS
<1>4. e2 = [info |-> a, switching |-> TRUE, chars |-> c.chars, diff |-> c.diff,
             cursor |-> c.cursor, prev |-> c.prev, visible |-> c.visible]
  BY <1>3, <1>2 DEF IsConsole
<1>5. [c EXCEPT !.switching = TRUE, !.info = a] = e2
  BY <1>1, <1>3, Zenon
<1> QED BY <1>5, <1>4

LEMMA ConsoleResized ==
  ASSUME NEW c, IsConsole(c), NEW a, NEW z
  PROVE  [c EXCEPT !.chars = a, !.diff = {}, !.cursor = z, !.prev = z, !.switching = FALSE] =
           [info |-> c.info, switching |-> FALSE, chars |-> a, diff |-> {}, cursor |-> z,
            prev |-> z, visible |-> c.visible]
<1>1. PICK e1 : e1 = [c EXCEPT !.chars = a]
  OBVIOUS
<1>2. e1 = [info |-> c.info, switching |-> c.switching, chars |-> a, diff |-> c.diff,
             cursor |-> c.cursor, prev |-> c.prev, visible |-> c.visible]
  BY <1>1 DEF IsConsole
<1>3. PICK e2 : e2 = [e1 EXCEPT !.diff = {}]
  OBVIOUS
<1>4. e2 = [info |-> c.info, switching |-> c.switching, chars |-> a, diff |-> {},
             cursor |-> c.cursor, prev |-> c.prev, visible |-> c.visible]
  BY <1>3, <1>2 DEF IsConsole
<1>5. PICK e3 : e3 = [e2 EXCEPT !.cursor = z]
  OBVIOUS
<1>6. e3 = [info |-> c.info, switching |-> c.switching, chars |-> a, diff |-> {},
             cursor |-> z, prev |-> c.prev, visible |-> c.visible]
  BY <1>5, <1>4 DEF IsConsole
<1>7. PICK e4 : e4 = [e3 EXCEPT !.prev = z]
  OBVIOUS
<1>8. e4 = [info |-> c.info, switching |-> c.switching, chars |-> a, diff |-> {},
             cursor |-> z, prev |-> z, visible |-> c.visible]
  BY <1>7, <1>6 DEF IsConsole
<1>9. PICK e5 : e5 = [e4 EXCEPT !.switching = FALSE]
  OBVIOUS
<1>10. e5 = [info |-> c.info, switching |-> FALSE, chars |-> a, diff |-> {}, cursor |-> z,
             prev |-> z, visible |-> c.visible]
  BY <1>9, <1>8 DEF IsConsole
<1>11. [c EXCEPT !.chars = a, !.diff = {}, !.cursor = z, !.prev = z, !.switching = FALSE] = e5
  BY <1>1, <1>3, <1>5, <1>7, <1>9, Zenon
<1> QED BY <1>11, <1>10

-----------------------------------------------------------------------------
(* A character is written                                                    *)

WritesVga(k, ch, at) ==
    vga' = [mode |-> vga.mode, info |-> vga.info, switching |-> vga.switching,
            chars |-> [vga.chars EXCEPT ![k] = ch], frame |-> vga.frame, diff |-> vga.diff \cup {k}, cursor |-> at]
WritesConsole(k, ch, at) ==
    vc' = [info |-> vc.info, switching |-> vc.switching, chars |-> [vc.chars EXCEPT ![k] = ch],
           diff |-> vc.diff \cup {k}, cursor |-> at, prev |-> vc.prev, visible |-> vc.visible]

\* The next place is on the screen as well, and the place a cell.
LEMMA NextPlace ==
  ASSUME Dimension \in Sizes, Within(Dimension, Cursor)
  PROVE  OnScreen /\ Within(Dimension, Advanced) /\ Place \in Cells(Dimension)
<1>1. PICK x \in 0 .. Dimension.cols - 1, y \in 0 .. Dimension.rows - 1 : Cursor = <<x, y>>
  BY DEF Within
<1>2. Cursor[1] = x /\ Cursor[2] = y
  BY <1>1
<1>3. Dimension.cols \in Nat \ {0} /\ Dimension.rows \in Nat \ {0}
  BY DEF Sizes
<1>4. Place \in Cells(Dimension)
  BY <1>1, <1>2, <1>3, PlaceInGrid DEF Place, Cells
<1>5. Within(Dimension, Advanced)
  <2>1. CASE x + 1 < Dimension.cols
    BY <1>1, <1>2, <1>3, <2>1 DEF Within, Advanced
  <2>2. CASE ~(x + 1 < Dimension.cols) /\ y + 1 < Dimension.rows
    BY <1>1, <1>2, <1>3, <2>2 DEF Within, Advanced
  <2>3. CASE ~(x + 1 < Dimension.cols) /\ ~(y + 1 < Dimension.rows)
    BY <1>1, <1>2, <1>3, <2>3 DEF Within, Advanced
  <2> QED BY <2>1, <2>2, <2>3
<1> QED BY <1>1, <1>2, <1>4, <1>5 DEF OnScreen

LEMMA CellsExist ==
  ASSUME NEW info \in Sizes
  PROVE  0 \in Cells(info)
<1>1. info.cols \in Nat \ {0} /\ info.rows \in Nat \ {0}
  BY DEF Sizes
<1>2. 0 \in 0 .. info.cols - 1 /\ 0 \in 0 .. info.rows - 1
  BY <1>1
<1>3. 0 * info.cols + 0 \in 0 .. info.cols * info.rows - 1
  BY <1>1, <1>2, PlaceInGrid
<1> QED BY <1>1, <1>3 DEF Cells

\* What Write comes to when nothing is switching.
LEMMA Writing ==
  ASSUME Tidy, stage = "idle", NEW ch, Write(ch)
  PROVE  /\ UNCHANGED stray
         /\ \/ UNCHANGED <<vga, vc>>
            \/ /\ vc.info.text /\ vga.info.text /\ UNCHANGED vc
               /\ \E k \in Cells(vga.info), at \in (0 .. vga.info.cols - 1) \X (0 .. vga.info.rows - 1) : WritesVga(k, ch, at)
            \/ /\ ~vc.info.text /\ UNCHANGED vga
               /\ \E k \in Cells(vc.info), at \in (0 .. vc.info.cols - 1) \X (0 .. vc.info.rows - 1) : WritesConsole(k, ch, at)
<1>1. CASE ~Known
  BY <1>1 DEF Write
<1>2. CASE Known /\ vc.info.text
  <2>1. vga.info.text /\ Buffer = vga.chars /\ Cursor = vga.cursor /\ Dimension = vga.info /\ Switching = FALSE
    BY <1>2 DEF Known, Buffer, Cursor, Dimension, Switching, Tidy, TurnInv
  <2>2. /\ DOMAIN vga.chars = Cells(vga.info) /\ Within(vga.info, vga.cursor)
        /\ vga.info \in Sizes /\ Fits(vga.info) /\ IsVga(vga) /\ stray = FALSE
    BY <2>1 DEF Tidy, TextInv, RecordsInv
  <2>7. Buffer # Freed
    BY <2>1, <2>2, CellsExist DEF Freed
  <2>3. OnScreen /\ Within(vga.info, Advanced) /\ Place \in Cells(vga.info)
    BY <2>1, <2>2, NextPlace
  <2>4. DiffBits(Cardinality(DOMAIN vga.chars)) = Cells(vga.info)
    BY <2>2, CellsOfBytes DEF Fits
  <2>5. /\ vga' = [vga EXCEPT !.chars[Place] = ch, !.diff = @ \cup {Place}, !.cursor = Advanced]
        /\ stray' = FALSE /\ UNCHANGED vc
    BY <1>2, <2>1, <2>2, <2>3, <2>4, <2>7 DEF Write
  <2>6. WritesVga(Place, ch, Advanced)
    BY <2>2, <2>5, VgaWrites DEF WritesVga
  <2> QED BY <1>2, <2>1, <2>2, <2>3, <2>5, <2>6 DEF Within
<1>3. CASE ~vc.info.text
  <2>1. Known /\ Buffer = vc.chars /\ Cursor = vc.cursor /\ Dimension = vc.info /\ Switching = FALSE
    BY <1>3 DEF Known, Buffer, Cursor, Dimension, Switching, Tidy, TurnInv
  <2>2. /\ DOMAIN vc.chars = Cells(vc.info) /\ Within(vc.info, vc.cursor)
        /\ vc.info \in Sizes /\ Fits(vc.info) /\ IsConsole(vc) /\ stray = FALSE
    BY <1>3, <2>1 DEF Tidy, ConsoleInv, RecordsInv
  <2>7. Buffer # Freed
    BY <2>1, <2>2, CellsExist DEF Freed
  <2>3. OnScreen /\ Within(vc.info, Advanced) /\ Place \in Cells(vc.info)
    BY <2>1, <2>2, NextPlace
  <2>4. DiffBits(Cardinality(DOMAIN vc.chars)) = Cells(vc.info)
    BY <2>2, CellsOfBytes DEF Fits
  <2>5. /\ vc' = [vc EXCEPT !.chars[Place] = ch, !.diff = @ \cup {Place}, !.cursor = Advanced]
        /\ stray' = FALSE /\ UNCHANGED vga
    BY <1>3, <2>1, <2>2, <2>3, <2>4, <2>7 DEF Write
  <2>6. WritesConsole(Place, ch, Advanced)
    BY <2>2, <2>5, ConsoleWrites DEF WritesConsole
  <2> QED BY <1>3, <2>1, <2>2, <2>3, <2>5, <2>6 DEF Within
<1> QED BY <1>1, <1>2, <1>3

LEMMA PutKeeps ==
  ASSUME Tidy, Put
  PROVE  Tidy'
<1>1. PICK ch \in Chars : Write(ch)
  BY DEF Put
<1>2. /\ stage = "idle" /\ flushed' = FALSE
      /\ UNCHANGED <<screen, stage, next>>
  BY DEF Put
<1>3. /\ UNCHANGED stray
      /\ \/ UNCHANGED <<vga, vc>>
         \/ /\ vc.info.text /\ vga.info.text /\ UNCHANGED vc
            /\ \E k \in Cells(vga.info), at \in (0 .. vga.info.cols - 1) \X (0 .. vga.info.rows - 1) : WritesVga(k, ch, at)
         \/ /\ ~vc.info.text /\ UNCHANGED vga
            /\ \E k \in Cells(vc.info), at \in (0 .. vc.info.cols - 1) \X (0 .. vc.info.rows - 1) : WritesConsole(k, ch, at)
  BY <1>1, <1>2, Writing
<1>4. CASE UNCHANGED <<vga, vc>>
  BY <1>2, <1>3, <1>4 DEF Tidy, RecordsInv, TurnInv, TextInv, FrameInv, ComingInv, ConsoleInv, FlushedInv, PrevPlace
<1>5. ASSUME vc.info.text, vga.info.text, UNCHANGED vc, NEW k \in Cells(vga.info),
             NEW at \in (0 .. vga.info.cols - 1) \X (0 .. vga.info.rows - 1), WritesVga(k, ch, at)
      PROVE  Tidy'
  <2>1. /\ vga'.mode = vga.mode /\ vga'.info = vga.info /\ vga'.switching = vga.switching
        /\ vga'.chars = [vga.chars EXCEPT ![k] = ch] /\ vga'.frame = vga.frame /\ vga'.diff = vga.diff \cup {k}
        /\ vga'.cursor = at /\ IsVga(vga')
    BY <1>5 DEF WritesVga, IsVga
  <2>2. RecordsInv' /\ TurnInv' /\ FrameInv' /\ ComingInv' /\ ConsoleInv' /\ FlushedInv'
    BY <1>2, <1>3, <1>5, <2>1 DEF Tidy, RecordsInv, TurnInv, FrameInv, ComingInv, ConsoleInv, FlushedInv
  <2>3. TextInv'
    <3>1. vga.chars = [i \in Cells(vga.info) |-> vga.chars[i]]
      BY <1>2, <1>5 DEF Tidy, TextInv
    <3>2. vga'.chars = [i \in Cells(vga.info) |-> IF i = k THEN ch ELSE vga.chars[i]]
      BY <2>1, <3>1
    <3> QED BY <1>2, <1>5, <2>1, <3>2 DEF Tidy, TextInv, Within
  <2> QED BY <2>2, <2>3 DEF Tidy
<1>6. ASSUME ~vc.info.text, UNCHANGED vga, NEW k \in Cells(vc.info),
             NEW at \in (0 .. vc.info.cols - 1) \X (0 .. vc.info.rows - 1), WritesConsole(k, ch, at)
      PROVE  Tidy'
  <2>1. /\ vc'.info = vc.info /\ vc'.switching = vc.switching
        /\ vc'.chars = [vc.chars EXCEPT ![k] = ch] /\ vc'.diff = vc.diff \cup {k}
        /\ vc'.cursor = at /\ vc'.prev = vc.prev /\ IsConsole(vc')
    BY <1>6 DEF WritesConsole, IsConsole
  <2>2. RecordsInv' /\ TurnInv' /\ TextInv' /\ FrameInv' /\ ComingInv' /\ FlushedInv'
    BY <1>2, <1>3, <1>6, <2>1 DEF Tidy, RecordsInv, TurnInv, TextInv, FrameInv, ComingInv, FlushedInv
  <2>3. ConsoleInv'
    <3>1. vc.chars = [i \in Cells(vc.info) |-> vc.chars[i]]
      BY <1>2, <1>6 DEF Tidy, ConsoleInv
    <3>2. vc'.chars = [i \in Cells(vc.info) |-> IF i = k THEN ch ELSE vc.chars[i]]
      BY <2>1, <3>1
    <3> QED BY <1>2, <1>6, <2>1, <3>2 DEF Tidy, ConsoleInv, Within, PrevPlace
  <2> QED BY <2>2, <2>3 DEF Tidy
<1> QED BY <1>3, <1>4, <1>5, <1>6
-----------------------------------------------------------------------------
(* A flush                                                                   *)

\* The frame buffer's cells that are not drawn are on the screen already.
LEMMA FlushShows ==
  ASSUME Tidy, stage = "idle", ~vc.info.text, NEW v, FlushGraphics(v)
  PROVE  /\ stray' = FALSE /\ DOMAIN Frame(v) = Cells(vga.info)
         /\ DOMAIN screen' = Cells(vga.info)
         /\ \A i \in Cells(vga.info) : screen'[i] = Frame(v)[i]
<1>1. /\ vga.info = vc.info /\ vga.info \in Sizes /\ vga.info.cols % 2 = 0
      /\ DOMAIN vga.frame = Cells(vga.info) /\ Within(vc.info, vc.cursor)
      /\ \A i \in Cells(vga.info) : screen[i] = vga.frame[i]
  BY DEF Tidy, ConsoleInv, RecordsInv, Fits, FrameInv
<1> DEFINE drawn == Drawn \cup Underlined(v)
           marked == Invalidated(drawn)
           shown == Shown(vga.info, marked)
<1>2. CursorPlace \in Cells(vga.info)
  <2>1. PICK x \in 0 .. vc.info.cols - 1, y \in 0 .. vc.info.rows - 1 : vc.cursor = <<x, y>>
    BY <1>1 DEF Within
  <2>2. CursorPlace = y * vc.info.cols + x /\ vc.info.cols \in Nat \ {0} /\ vc.info.rows \in Nat
    BY <1>1, <2>1 DEF CursorPlace, Sizes
  <2>3. CursorPlace \in 0 .. vc.info.cols * vc.info.rows - 1
    BY <2>2, PlaceInGrid
  <2> QED BY <1>1, <2>3 DEF Cells
<1>3. drawn \subseteq Cells(vga.info)
  BY <1>1, <1>2 DEF Drawn, Underlined
<1>4. marked \subseteq Regions(vga.info)
  BY <1>1, <1>3, RegionOfCell DEF Invalidated
<1>5. \A i \in drawn : i \in shown
  BY <1>1, <1>3, RegionOfCell DEF Invalidated, Shown
<1>6. DOMAIN Frame(v) = Cells(vga.info)
  BY <1>1 DEF Frame
<1>7. \A i \in Cells(vga.info) : i \notin drawn => Frame(v)[i] = vga.frame[i]
  BY <1>1 DEF Frame
<1> HIDE DEF drawn
<1>8. /\ screen' = [i \in Cells(vga.info) |-> IF i \in shown THEN Frame(v)[i] ELSE screen[i]]
      /\ stray' = ~(marked \subseteq Regions(vga.info))
  BY DEF FlushGraphics, drawn
<1> HIDE DEF shown, marked
<1>9. \A i \in Cells(vga.info) : screen'[i] = Frame(v)[i]
  <2> TAKE i \in Cells(vga.info)
  <2>1. CASE i \in shown
    BY <1>8, <2>1
  <2>2. CASE i \notin shown
    BY <1>1, <1>5, <1>7, <1>8, <2>2
  <2> QED BY <2>1, <2>2
<1> QED BY <1>4, <1>6, <1>8, <1>9

\* What the frame buffer has after it: the console's cells, and one mark.
LEMMA FrameOfConsole ==
  ASSUME Tidy, stage = "idle", ~vc.info.text, NEW v, NEW i \in Cells(vc.info)
  PROVE  /\ Frame(v)[i].ch = vc.chars[i]
         /\ Frame(v)[i].cursor => i = CursorPlace
<1>1. /\ DOMAIN vga.frame = Cells(vc.info) /\ Within(vc.info, vc.cursor) /\ Within(vc.info, vc.prev)
      /\ i \notin vc.diff => vga.frame[i].ch = vc.chars[i]
      /\ vga.frame[i].cursor => i = PrevPlace
  BY DEF Tidy, ConsoleInv, FrameInv
<1>2. vc.prev = vc.cursor => PrevPlace = CursorPlace
  <2>1. PICK x \in 0 .. vc.info.cols - 1, y \in 0 .. vc.info.rows - 1 : vc.prev = <<x, y>>
    BY <1>1 DEF Within
  <2>2. vc.prev[1] = x /\ ~(x < 0)
    BY <2>1 DEF Tidy, RecordsInv, Sizes
  <2> QED BY <2>2 DEF PrevPlace, CursorPlace
<1>3. CASE i \in Underlined(v)
  <2>1. Frame(v)[i] = [ch |-> IF i \in Drawn THEN vc.chars[i] ELSE vga.frame[i].ch, cursor |-> TRUE]
    BY <1>1, <1>3 DEF Frame
  <2>2. i = CursorPlace
    BY <1>3 DEF Underlined
  <2>3. i \notin Drawn => i \notin vc.diff
    BY DEF Drawn
  <2> QED BY <1>1, <2>1, <2>2, <2>3
<1>4. CASE i \notin Underlined(v) /\ i \in Drawn
  BY <1>1, <1>4 DEF Frame
<1>5. CASE i \notin Underlined(v) /\ i \notin Drawn
  <2>1. Frame(v)[i] = vga.frame[i]
    BY <1>1, <1>5 DEF Frame
  <2>2. i \notin vc.diff /\ (CursorMoved => i # PrevPlace)
    BY <1>5 DEF Drawn
  <2>3. vga.frame[i].cursor => i = CursorPlace
    BY <1>1, <1>2, <2>2 DEF CursorMoved
  <2> QED BY <1>1, <2>1, <2>2, <2>3
<1> QED BY <1>3, <1>4, <1>5

LEMMA GraphicsFlushed ==
  ASSUME Tidy, stage = "idle", ~vc.info.text, NEW v, FlushGraphics(v), flushed' = TRUE, UNCHANGED <<stage, next>>
  PROVE  Tidy'
<1>1. /\ vga.info = vc.info /\ vga.info \in Sizes /\ IsVga(vga) /\ IsConsole(vc)
      /\ DOMAIN vc.chars = Cells(vc.info) /\ vc.chars = [i \in Cells(vc.info) |-> vc.chars[i]]
      /\ Within(vc.info, vc.cursor)
  BY DEF Tidy, ConsoleInv, RecordsInv
<1>2. /\ vga' = [vga EXCEPT !.frame = Frame(v)]
      /\ vc' = [vc EXCEPT !.diff = {}, !.prev = vc.cursor, !.visible = v]
  BY DEF FlushGraphics
<1>3. /\ vga'.mode = vga.mode /\ vga'.info = vga.info /\ vga'.switching = vga.switching
      /\ vga'.chars = vga.chars /\ vga'.frame = Frame(v) /\ vga'.diff = vga.diff
      /\ vga'.cursor = vga.cursor /\ IsVga(vga')
  BY <1>1, <1>2 DEF IsVga
<1>4. vc' = [info |-> vc.info, switching |-> vc.switching, chars |-> vc.chars, diff |-> {},
             cursor |-> vc.cursor, prev |-> vc.cursor, visible |-> v]
  <2>1. IsConsole(vc) /\ vc' = [vc EXCEPT !.diff = {}, !.prev = vc.cursor, !.visible = v]
    BY <1>1, <1>2
  <2> QED BY ONLY <2>1, ConsoleFlushed, ZenonT(30)
<1>5. /\ vc'.info = vc.info /\ vc'.switching = vc.switching /\ vc'.chars = vc.chars /\ vc'.diff = {}
      /\ vc'.cursor = vc.cursor /\ vc'.prev = vc.cursor /\ IsConsole(vc')
  BY <1>4 DEF IsConsole
<1>6. /\ stray' = FALSE /\ DOMAIN Frame(v) = Cells(vga.info) /\ DOMAIN screen' = Cells(vga.info)
      /\ \A i \in Cells(vga.info) : screen'[i] = Frame(v)[i]
  BY FlushShows
<1>7. \A i \in Cells(vc.info) : Frame(v)[i].ch = vc.chars[i] /\ (Frame(v)[i].cursor => i = CursorPlace)
  BY FrameOfConsole
<1>8. PrevPlace' = CursorPlace
  <2>1. PICK x \in 0 .. vc.info.cols - 1, y \in 0 .. vc.info.rows - 1 : vc.cursor = <<x, y>>
    BY <1>1 DEF Within
  <2>2. vc.cursor[1] = x /\ ~(x < 0)
    BY <1>1, <2>1 DEF Sizes
  <2> QED BY <1>5, <2>2 DEF PrevPlace, CursorPlace
<1>9. RecordsInv' /\ TurnInv' /\ TextInv' /\ FrameInv' /\ ComingInv' /\ FlushedInv'
  BY <1>1, <1>3, <1>5, <1>6 DEF Tidy, RecordsInv, TurnInv, TextInv, FrameInv, ComingInv, FlushedInv
<1>10. ConsoleInv'
  BY <1>1, <1>3, <1>5, <1>7, <1>8 DEF ConsoleInv
<1> QED BY <1>9, <1>10 DEF Tidy

LEMMA TextFlushed ==
  ASSUME Tidy, stage = "idle", vc.info.text, vga.info.text, FlushText, flushed' = TRUE, UNCHANGED <<stage, next>>
  PROVE  Tidy'
<1>1. /\ DOMAIN vga.chars = Cells(vga.info) /\ IsVga(vga)
      /\ \A i \in Cells(vga.info) : i \notin vga.diff => screen[i] = [ch |-> vga.chars[i], cursor |-> FALSE]
  BY DEF Tidy, TextInv, RecordsInv
<1>2. /\ vga' = [vga EXCEPT !.diff = {}]
      /\ screen' = [i \in Cells(vga.info) |->
                      IF i \in vga.diff THEN [ch |-> vga.chars[i], cursor |-> FALSE] ELSE screen[i]]
      /\ UNCHANGED <<vc, stray>>
  BY DEF FlushText
<1>3. /\ vga'.mode = vga.mode /\ vga'.info = vga.info /\ vga'.switching = vga.switching
      /\ vga'.chars = vga.chars /\ vga'.frame = vga.frame /\ vga'.diff = {}
      /\ vga'.cursor = vga.cursor /\ IsVga(vga')
  BY <1>1, <1>2 DEF IsVga
<1>4. \A i \in Cells(vga.info) : screen'[i] = [ch |-> vga.chars[i], cursor |-> FALSE]
  BY <1>1, <1>2
<1>5. DOMAIN screen' = Cells(vga.info)
  BY <1>2
<1>6. TextInv'
  BY <1>3, <1>4 DEF Tidy, TextInv
<1>7. RecordsInv' /\ TurnInv' /\ FrameInv' /\ ComingInv' /\ ConsoleInv' /\ FlushedInv'
  BY <1>2, <1>3, <1>5 DEF Tidy, RecordsInv, TurnInv, FrameInv, ComingInv, ConsoleInv, FlushedInv
<1> QED BY <1>6, <1>7 DEF Tidy

\* A flush, whether the cursor is to be seen or not.
LEMMA Flushing ==
  ASSUME Tidy, stage = "idle", NEW v, flush(v), flushed' = TRUE, UNCHANGED <<stage, next>>
  PROVE  Tidy'
<1>1. vga.switching = FALSE /\ vc.switching = FALSE
  BY DEF Tidy, TurnInv
<1>2. CASE ~vc.info.text
  BY <1>1, <1>2, GraphicsFlushed DEF flush, Switching, Known
<1>3. CASE vc.info.text /\ vga.info.text
  BY <1>1, <1>3, TextFlushed DEF flush, Switching, Known
<1>4. CASE vc.info.text /\ ~vga.info.text
  <2>1. UNCHANGED <<vga, vc, screen, stray>>
    BY <1>4 DEF flush, Known
  <2> QED BY <1>4, <2>1 DEF Tidy, RecordsInv, TurnInv, TextInv, FrameInv, ComingInv, ConsoleInv, FlushedInv, PrevPlace
<1> QED BY <1>2, <1>3, <1>4
-----------------------------------------------------------------------------
(* The cursor, and the change of the mode                                    *)

LEMMA CursorSet ==
  ASSUME Tidy, set_cursor_pos
  PROVE  Tidy'
<1>1. PICK row \in {0, Dimension.rows - 1} :
        IF ~vc.info.text THEN vc' = [vc EXCEPT !.cursor = <<0, row>>] /\ UNCHANGED vga
        ELSE IF Known THEN vga' = [vga EXCEPT !.cursor = <<0, row>>] /\ UNCHANGED vc
        ELSE UNCHANGED <<vga, vc>>
  BY DEF set_cursor_pos
<1>2. /\ stage = "idle" /\ flushed' = FALSE
      /\ UNCHANGED <<screen, stage, next, stray>>
  BY DEF set_cursor_pos
<1>3. IsVga(vga) /\ IsConsole(vc) /\ vga.info \in Sizes /\ vc.info \in Sizes
  BY DEF Tidy, RecordsInv
<1>4. CASE ~vc.info.text
  <2>1. vc' = [vc EXCEPT !.cursor = <<0, row>>] /\ UNCHANGED vga
    BY <1>1, <1>4
  <2>2. /\ vc'.info = vc.info /\ vc'.switching = vc.switching /\ vc'.chars = vc.chars /\ vc'.diff = vc.diff
        /\ vc'.cursor = <<0, row>> /\ vc'.prev = vc.prev /\ IsConsole(vc')
    BY <1>3, <2>1 DEF IsConsole
  <2>3. Within(vc.info, <<0, row>>)
    BY <1>3, <1>4 DEF Within, Sizes, Dimension
  <2>4. RecordsInv' /\ TurnInv' /\ TextInv' /\ FrameInv' /\ ComingInv' /\ FlushedInv'
    BY <1>2, <2>1, <2>2 DEF Tidy, RecordsInv, TurnInv, TextInv, FrameInv, ComingInv, FlushedInv
  <2>5. ConsoleInv'
    BY <1>2, <2>1, <2>2, <2>3 DEF Tidy, ConsoleInv, PrevPlace
  <2> QED BY <2>4, <2>5 DEF Tidy
<1>5. CASE vc.info.text /\ Known
  <2>1. vga' = [vga EXCEPT !.cursor = <<0, row>>] /\ UNCHANGED vc
    BY <1>1, <1>5
  <2>2. /\ vga'.mode = vga.mode /\ vga'.info = vga.info /\ vga'.switching = vga.switching
        /\ vga'.chars = vga.chars /\ vga'.frame = vga.frame /\ vga'.diff = vga.diff
        /\ vga'.cursor = <<0, row>> /\ IsVga(vga')
    BY <1>3, <2>1 DEF IsVga
  <2>3. Within(vga.info, <<0, row>>)
    BY <1>3, <1>5 DEF Within, Sizes, Dimension
  <2>4. RecordsInv' /\ TurnInv' /\ FrameInv' /\ ComingInv' /\ ConsoleInv' /\ FlushedInv'
    BY <1>2, <1>5, <2>1, <2>2 DEF Tidy, RecordsInv, TurnInv, FrameInv, ComingInv, ConsoleInv, FlushedInv
  <2>5. TextInv'
    BY <1>2, <2>2, <2>3 DEF Tidy, TextInv
  <2> QED BY <2>4, <2>5 DEF Tidy
<1>6. CASE vc.info.text /\ ~Known
  <2>1. UNCHANGED <<vga, vc>>
    BY <1>1, <1>6
  <2> QED BY <1>2, <2>1 DEF Tidy, RecordsInv, TurnInv, TextInv, FrameInv, ComingInv, ConsoleInv, FlushedInv, PrevPlace
<1> QED BY <1>4, <1>5, <1>6

LEMMA ModeBegins ==
  ASSUME Tidy, set_mode, careful'
  PROVE  Tidy'
<1>1. PICK mode \in DOMAIN VideoModes :
        /\ next' = mode
        /\ IF mode \in RefusedModes THEN stage' = "announce" /\ UNCHANGED vga
           ELSE /\ stage' = "buffers"
                /\ vga' = IF VideoModes[mode].text THEN [vga EXCEPT !.switching = TRUE, !.frame = Freed]
                          ELSE [vga EXCEPT !.switching = TRUE, !.chars = Freed]
        /\ careful' = (careful /\ Suits(VideoModes[mode]))
  BY DEF set_mode
<1>2. stage = "idle" /\ flushed' = FALSE /\ UNCHANGED <<vc, screen, stray>>
  BY DEF set_mode
<1>3. IsVga(vga)
  BY DEF Tidy, RecordsInv
<1>4. CASE mode \in RefusedModes
  <2>1. VideoModes[mode].text
    BY <1>4, ModesAssumption
  <2>2. stage' = "announce" /\ next' = mode /\ UNCHANGED vga
    BY <1>1, <1>4
  <2> QED BY <1>2, <2>1, <2>2 DEF Tidy, RecordsInv, TurnInv, TextInv, FrameInv, ComingInv, ConsoleInv, FlushedInv
<1>5. CASE mode \notin RefusedModes
  <2>1. stage' = "buffers" /\ next' = mode /\ Suits(VideoModes[mode])
    BY <1>1, <1>5
  <2>2. vga'.info = vga.info /\ IsVga(vga')
    <3>1. CASE VideoModes[mode].text
      <4>1. vga' = [vga EXCEPT !.switching = TRUE, !.frame = Freed]
        BY <1>1, <1>5, <3>1
      <4> QED BY <1>3, <4>1, FrameFreed DEF IsVga
    <3>2. CASE ~VideoModes[mode].text
      <4>1. vga' = [vga EXCEPT !.switching = TRUE, !.chars = Freed]
        BY <1>1, <1>5, <3>2
      <4> QED BY <1>3, <4>1, CharsFreed DEF IsVga
    <3> QED BY <3>1, <3>2
  <2>3. Suits(VideoModes[next])'
    BY <2>1, <2>2 DEF Suits
  <2> QED BY <1>2, <2>1, <2>2, <2>3 DEF Tidy, RecordsInv, TurnInv, TextInv, FrameInv, ComingInv, ConsoleInv, FlushedInv
<1> QED BY <1>4, <1>5

LEMMA BuffersSet ==
  ASSUME Tidy, setup_buffer
  PROVE  Tidy'
<1>1. /\ stage = "buffers" /\ stage' = "hardware" /\ UNCHANGED <<vc, screen, next, stray, flushed>>
      /\ vga' = IF VideoModes[next].text
                THEN [vga EXCEPT !.chars = Cleared(VideoModes[next]), !.diff = {}]
                ELSE [vga EXCEPT !.frame = Empty(VideoModes[next])]
  BY DEF setup_buffer, Empty
<1>2. IsVga(vga)
  BY DEF Tidy, RecordsInv
<1>3. /\ vga'.info = vga.info /\ IsVga(vga')
      /\ VideoModes[next].text => vga'.chars = Cleared(VideoModes[next]) /\ vga'.diff = {}
      /\ ~VideoModes[next].text => vga'.frame = Empty(VideoModes[next])
  <2>1. CASE VideoModes[next].text
    <3>1. vga' = [vga EXCEPT !.chars = Cleared(VideoModes[next]), !.diff = {}]
      BY <1>1, <2>1
    <3> QED BY <1>2, <2>1, <3>1, CharsCleared DEF IsVga
  <2>2. CASE ~VideoModes[next].text
    <3>1. vga' = [vga EXCEPT !.frame = Empty(VideoModes[next])]
      BY <1>1, <2>2
    <3> QED BY <1>2, <2>2, <3>1 DEF IsVga
  <2> QED BY <2>1, <2>2
<1>4. Suits(VideoModes[next])'
  BY <1>1, <1>3 DEF Tidy, ComingInv, Suits
<1> QED BY <1>1, <1>3, <1>4 DEF Tidy, RecordsInv, TurnInv, TextInv, FrameInv, ComingInv, ConsoleInv, FlushedInv

LEMMA HardwareSet ==
  ASSUME Tidy, set_hardware_mode
  PROVE  Tidy'
<1> DEFINE info == VideoModes[next]
<1>1. /\ stage = "hardware" /\ stage' = "announce" /\ UNCHANGED <<vc, next, stray, flushed>>
      /\ vga' = [vga EXCEPT !.mode = next, !.info = info, !.switching = FALSE, !.cursor = Homed(info)]
      /\ screen' = Empty(info)
  BY DEF set_hardware_mode, Empty
<1>2. IsVga(vga) /\ next \in DOMAIN VideoModes /\ info \in Sizes /\ Suits(info)
  BY <1>1, ModesAssumption DEF Tidy, RecordsInv, ComingInv, Sizes
<1>3. vga' = [mode |-> next, info |-> info, switching |-> FALSE, chars |-> vga.chars,
              frame |-> vga.frame, diff |-> vga.diff, cursor |-> Homed(info)]
  BY <1>1, <1>2, ModeSet
<1>4. /\ vga'.info = info /\ vga'.switching = FALSE /\ vga'.chars = vga.chars /\ vga'.frame = vga.frame
      /\ vga'.diff = vga.diff /\ vga'.cursor = Homed(info) /\ IsVga(vga')
  BY <1>3 DEF IsVga
<1>5. info.text => Homed(info) = <<0, 0>>
  BY <1>2 DEF Homed, Suits
<1>6. Within(info, <<0, 0>>)
  BY <1>2 DEF Within, Sizes
<1>7. Fits(info)
  BY <1>2 DEF Suits, Fits
<1> HIDE DEF info
<1>8. /\ info.text => vga.chars = Cleared(info) /\ vga.diff = {}
      /\ ~info.text => vga.frame = Empty(info)
  BY <1>1 DEF Tidy, ComingInv, info
<1>9. DOMAIN screen' = Cells(info)
  BY <1>1 DEF Empty
<1>10. RecordsInv'
  BY <1>1, <1>2, <1>4, <1>7, <1>9 DEF Tidy, RecordsInv
<1>11. TextInv'
  <2>1. CASE info.text
    <3>1. vga'.chars = [i \in Cells(info) |-> Blank] /\ vga'.diff = {} /\ vga'.cursor = <<0, 0>>
      BY <1>4, <1>5, <1>8, <2>1 DEF Cleared
    <3>2. \A i \in Cells(info) : screen'[i] = [ch |-> Blank, cursor |-> FALSE]
      BY <1>1 DEF Empty
    <3> QED BY <1>4, <1>6, <3>1, <3>2 DEF TextInv
  <2>2. CASE ~info.text
    BY <1>4, <2>2 DEF TextInv
  <2> QED BY <2>1, <2>2
<1>12. FrameInv'
  BY <1>1, <1>4, <1>8 DEF FrameInv, Empty
<1>13. ComingInv'
  BY <1>1, <1>4, <1>8 DEF ComingInv, info
<1>14. TurnInv' /\ ConsoleInv' /\ FlushedInv'
  BY <1>1, <1>4 DEF Tidy, TurnInv, ConsoleInv, FlushedInv
<1> QED BY <1>10, <1>11, <1>12, <1>13, <1>14 DEF Tidy

LEMMA ConsoleTold ==
  ASSUME Tidy, video_mode_callback
  PROVE  Tidy'
<1>1. /\ stage = "announce" /\ stage' = "callback" /\ UNCHANGED <<vga, screen, next, stray, flushed>>
      /\ vc' = [vc EXCEPT !.switching = TRUE, !.info = VideoModes[next]]
  BY DEF video_mode_callback
<1>2. IsConsole(vc) /\ VideoModes[next] \in Sizes
  BY ModesAssumption DEF Tidy, RecordsInv, Sizes
<1>3. vc'.info = VideoModes[next] /\ IsConsole(vc')
  BY <1>1, <1>2, ConsoleSwitches DEF IsConsole
<1> QED BY <1>1, <1>2, <1>3 DEF Tidy, RecordsInv, TurnInv, TextInv, FrameInv, ComingInv, ConsoleInv, FlushedInv

LEMMA ConsoleReady ==
  ASSUME Tidy, video_mode_callback_end
  PROVE  Tidy'
<1> DEFINE chars == IF vc.info.text THEN Freed ELSE Cleared(vc.info)
<1>1. /\ stage = "callback" /\ stage' = "idle" /\ UNCHANGED <<vga, screen, next, stray, flushed>>
      /\ vc' = [vc EXCEPT !.chars = chars, !.diff = {}, !.cursor = <<0, 0>>, !.prev = <<0, 0>>, !.switching = FALSE]
  BY DEF video_mode_callback_end, Resized
<1>2. IsConsole(vc) /\ vc.info \in Sizes
  BY DEF Tidy, RecordsInv
<1> HIDE DEF chars
<1>3. vc' = [info |-> vc.info, switching |-> FALSE, chars |-> chars, diff |-> {},
             cursor |-> <<0, 0>>, prev |-> <<0, 0>>, visible |-> vc.visible]
  BY <1>1, <1>2, ConsoleResized
<1>4. /\ vc'.info = vc.info /\ vc'.switching = FALSE /\ vc'.chars = chars /\ vc'.diff = {}
      /\ vc'.cursor = <<0, 0>> /\ vc'.prev = <<0, 0>> /\ IsConsole(vc')
  BY <1>3 DEF IsConsole
<1>5. Within(vc.info, <<0, 0>>)
  BY <1>2 DEF Within, Sizes
<1>6. RecordsInv' /\ TurnInv' /\ TextInv' /\ FrameInv' /\ ComingInv' /\ FlushedInv'
  BY <1>1, <1>4 DEF Tidy, RecordsInv, TurnInv, TextInv, FrameInv, ComingInv, FlushedInv
<1>7. ConsoleInv'
  <2>1. CASE ~vc.info.text
    <3>1. vga.info = vc.info /\ vga.frame = Empty(vc.info)
      BY <1>1, <2>1 DEF Tidy, ComingInv
    <3>2. chars = [i \in Cells(vc.info) |-> Blank]
      BY <2>1 DEF chars, Cleared
    <3>3. \A i \in Cells(vc.info) : vga.frame[i].ch = Blank /\ vga.frame[i].cursor = FALSE
      BY <3>1 DEF Empty
    <3> QED BY <1>1, <1>4, <1>5, <3>1, <3>2, <3>3 DEF ConsoleInv
  <2>2. CASE vc.info.text
    BY <1>4, <2>2 DEF ConsoleInv
  <2> QED BY <2>1, <2>2
<1> QED BY <1>6, <1>7 DEF Tidy

LEMMA ModeFails ==
  ASSUME Tidy, setup_buffer_fails \/ video_mode_callback_fails
  PROVE  Tidy'
<1>1. /\ stage \in {"buffers", "callback"} /\ stage' = "panic"
      /\ UNCHANGED <<vga, vc, screen, next, stray, flushed>>
  BY DEF setup_buffer_fails, video_mode_callback_fails
<1> QED BY <1>1 DEF Tidy, RecordsInv, TurnInv, TextInv, FrameInv, ComingInv, ConsoleInv, FlushedInv

-----------------------------------------------------------------------------
LEMMA TidyStarts == DisplayInit => TidyInv
<1> SUFFICES ASSUME DisplayInit PROVE Tidy
  BY DEF TidyInv
<1> DEFINE info == VideoModes[FirstMode]
<1>1. info \in Sizes /\ info.text /\ Fits(info) /\ FirstMode \in DOMAIN VideoModes
  BY ModesAssumption DEF Sizes, Fits
<1>2. /\ vga = [mode |-> FirstMode, info |-> info, switching |-> FALSE, chars |-> Cleared(info),
                frame |-> Freed, diff |-> {}, cursor |-> <<0, 0>>]
      /\ vc = [info |-> info, switching |-> FALSE, chars |-> Freed, diff |-> {},
               cursor |-> <<0, 0>>, prev |-> <<0, 0>>, visible |-> TRUE]
      /\ screen = Empty(info) /\ stage = "idle" /\ next = FirstMode /\ stray = FALSE
  BY DEF DisplayInit, Empty
<1> HIDE DEF info
<1>3. Within(info, <<0, 0>>)
  BY <1>1 DEF Within, Sizes
<1>4. RecordsInv
  BY <1>1, <1>2 DEF RecordsInv, IsVga, IsConsole, Empty
<1>5. TextInv
  BY <1>1, <1>2, <1>3 DEF TextInv, Empty, Cleared
<1>6. TurnInv /\ FrameInv /\ ComingInv /\ ConsoleInv /\ FlushedInv
  BY <1>1, <1>2 DEF TurnInv, FrameInv, ComingInv, ConsoleInv, FlushedInv
<1> QED BY <1>4, <1>5, <1>6 DEF Tidy

LEMMA TidyNext == TidyInv /\ [DisplayNext]_displayVars => TidyInv'
<1> SUFFICES ASSUME TidyInv, [DisplayNext]_displayVars, careful', ~logs' PROVE Tidy'
  BY DEF TidyInv
<1>1. CASE UNCHANGED displayVars
  <2>1. UNCHANGED <<vga, vc, screen, stage, next, stray, flushed>> /\ careful' = careful /\ logs' = logs
    BY <1>1 DEF displayVars
  <2>2. Tidy
    BY <2>1 DEF TidyInv
  <2> QED BY <2>1, <2>2 DEF Tidy, RecordsInv, TurnInv, TextInv, FrameInv, ComingInv, ConsoleInv, FlushedInv,
                            PrevPlace, Suits
<1>2. ASSUME DisplayNext PROVE careful /\ ~logs
  <2>1. logs' = logs
    BY <1>2 DEF DisplayNext, Put, Flush, set_cursor_pos, set_cursor_visibility, log_message, set_mode, setup_buffer,
                setup_buffer_fails, set_hardware_mode, video_mode_callback, video_mode_callback_end,
                video_mode_callback_fails
  <2>2. careful' = careful \/ set_mode
    BY <1>2 DEF DisplayNext, Put, Flush, set_cursor_pos, set_cursor_visibility, log_message, setup_buffer,
                setup_buffer_fails, set_hardware_mode, video_mode_callback, video_mode_callback_end,
                video_mode_callback_fails
  <2>3. ASSUME set_mode PROVE careful
    <3>1. PICK mode : careful' = (careful /\ Suits(VideoModes[mode]))
      BY <2>3 DEF set_mode
    <3> QED BY <3>1, Zenon
  <2> QED BY <2>1, <2>2, <2>3
<1>3. CASE DisplayNext
  <2>1. Tidy /\ ~logs
    BY <1>2, <1>3 DEF TidyInv
  <2>2. CASE Put
    BY <2>1, <2>2, PutKeeps
  <2>3. CASE Flush
    BY <2>1, <2>3, Flushing DEF Flush
  <2>4. CASE set_cursor_pos
    BY <2>1, <2>4, CursorSet
  <2>5. CASE set_cursor_visibility
    <3>1. PICK shown \in BOOLEAN : flush(shown)
      BY <2>5 DEF set_cursor_visibility
    <3>2. stage = "idle" /\ flushed' = TRUE /\ UNCHANGED <<stage, next>>
      BY <2>5 DEF set_cursor_visibility
    <3> QED BY <2>1, <3>1, <3>2, Flushing
  <2>6. CASE log_message
    BY <2>1, <2>6 DEF log_message
  <2>7. CASE set_mode
    BY <2>1, <2>7, ModeBegins
  <2>8. CASE setup_buffer
    BY <2>1, <2>8, BuffersSet
  <2>9. CASE set_hardware_mode
    BY <2>1, <2>9, HardwareSet
  <2>10. CASE video_mode_callback
    BY <2>1, <2>10, ConsoleTold
  <2>11. CASE video_mode_callback_end
    BY <2>1, <2>11, ConsoleReady
  <2>12. CASE setup_buffer_fails \/ video_mode_callback_fails
    BY <2>1, <2>12, ModeFails
  <2> QED BY <1>3, <2>2, <2>3, <2>4, <2>5, <2>6, <2>7, <2>8, <2>9, <2>10, <2>11, <2>12 DEF DisplayNext
<1> QED BY <1>1, <1>3

LEMMA TidySuffices == TidyInv => FlushedIsShown /\ BuffersAreKept
<1>1. TidyInv => BuffersAreKept
  BY DEF TidyInv, Tidy, RecordsInv, BuffersAreKept
<1>2. TidyInv => FlushedIsShown
  <2> SUFFICES ASSUME Tidy, flushed, stage = "idle", vc.info = vga.info, NEW i \in DOMAIN screen
               PROVE  screen[i].ch = Buffer[i] /\ (screen[i].cursor => i = PrevPlace)
    BY DEF TidyInv, FlushedIsShown
  <2>1. DOMAIN screen = Cells(vga.info)
    BY DEF Tidy, RecordsInv
  <2>2. CASE vc.info.text
    <3>1. vga.diff = {} /\ Buffer = vga.chars
      BY <2>2 DEF Tidy, FlushedInv, Buffer
    <3>2. screen[i] = [ch |-> vga.chars[i], cursor |-> FALSE]
      BY <2>1, <2>2, <3>1 DEF Tidy, TextInv
    <3> QED BY <3>1, <3>2
  <2>3. CASE ~vc.info.text
    <3>1. vc.diff = {} /\ Buffer = vc.chars
      BY <2>3 DEF Tidy, FlushedInv, Buffer
    <3>2. screen[i] = vga.frame[i]
      BY <2>1, <2>3 DEF Tidy, FrameInv
    <3> QED BY <2>1, <2>3, <3>1, <3>2 DEF Tidy, ConsoleInv
  <2> QED BY <2>2, <2>3
<1> QED BY <1>1, <1>2

\* In modes that suit the regions and without log messages, the screen shows
\* after each flush what the console keeps, through every change of the mode,
\* and the mark of the cursor in its last place alone (vconsole.c:224).
THEOREM FlushedCorrect == DisplaySpec => []FlushedIsShown
<1>1. DisplayInit => TidyInv
  BY TidyStarts
<1>2. TidyInv /\ [DisplayNext]_displayVars => TidyInv'
  BY TidyNext
<1>3. TidyInv => FlushedIsShown
  BY TidySuffices
<1> QED BY <1>1, <1>2, <1>3, PTL DEF DisplaySpec

\* And nothing is written outside of a buffer (vconsole.c:213, vga.c:317).
THEOREM BuffersCorrect == DisplaySpec => []BuffersAreKept
<1>1. DisplayInit => TidyInv
  BY TidyStarts
<1>2. TidyInv /\ [DisplayNext]_displayVars => TidyInv'
  BY TidyNext
<1>3. TidyInv => BuffersAreKept
  BY TidySuffices
<1> QED BY <1>1, <1>2, <1>3, PTL DEF DisplaySpec

-----------------------------------------------------------------------------
(* The picture of the graphical shell, and the arrow over it                 *)

Shade == {"desk", "black"}  \* all that is drawn but the arrow
Shades == Shade \cup {"arrow"}

(* What the arrow covers is kept aside while it is shown; it is there with a  *)
(* mouse only.                                                               *)
ArrowInv ==
  /\ prev # Nowhere => prev \in Pixels /\ saved \in [Area(prev) -> Shade]
  /\ running /\ hasMouse => prev # Nowhere
  /\ prev # Nowhere => hasMouse

GuiInv ==
  /\ hasMouse \in BOOLEAN /\ running \in BOOLEAN /\ pos \in Pixels
  /\ framebuffer \in [Pixels -> Shades] /\ picture \in [Pixels -> Shade]
  /\ ArrowInv
  /\ \A p \in Pixels : framebuffer[p] = "arrow" => prev # Nowhere /\ Covers(prev, p)
  /\ running => \A p \in Pixels \ damaged : Restored(framebuffer)[p] = picture[p]

LEMMA AreaOnScreen == ASSUME NEW at \in Pixels PROVE Area(at) \subseteq Pixels
BY ScreenAssumption DEF Area, Pixels, Lesser

(* What the arrow covers lies below it.                                      *)
LEMMA CoveredInArea ==
  ASSUME NEW at \in Pixels, NEW p \in Pixels, Covers(at, p)
  PROVE  p \in Area(at)
<1>1. PICK a \in 0 .. width - 1, b \in 0 .. height - 1 : at = <<a, b>>
  BY DEF Pixels
<1>2. PICK x \in 0 .. width - 1, y \in 0 .. height - 1 : p = <<x, y>>
  BY DEF Pixels
<1>3. <<x - a, y - b>> \in (0 .. Wide - 1) \X (0 .. High - 1)
  BY <1>1, <1>2, ScreenAssumption DEF Covers
<1>4. x - a \in 0 .. Wide - 1 /\ y - b \in 0 .. High - 1
  BY <1>3
<1>5. x \in a .. Lesser(a + Wide, width) - 1 /\ y \in b .. Lesser(b + High, height) - 1
  BY <1>4, ScreenAssumption DEF Lesser
<1> QED BY <1>1, <1>2, <1>5 DEF Area

(* With the arrow taken away there is none left.                             *)
LEMMA RestoredShades ==
  ASSUME GuiInv
  PROVE  Restored(framebuffer) \in [Pixels -> Shade] /\ Restored(Desk) \in [Pixels -> Shade]
<1>1. ASSUME NEW fb \in [Pixels -> Shades], NEW p \in Pixels, fb[p] = "arrow" => prev # Nowhere /\ p \in Area(prev)
      PROVE  Restored(fb)[p] \in Shade
  <2>1. CASE prev # Nowhere /\ p \in Area(prev)
    <3>1. saved \in [Area(prev) -> Shade]
      BY <2>1 DEF GuiInv, ArrowInv
    <3>2. Restored(fb)[p] = saved[p]
      BY <2>1, <3>1 DEF Restored
    <3> QED BY <2>1, <3>1, <3>2
  <2>2. CASE prev = Nowhere
    <3>1. Restored(fb)[p] = fb[p]
      BY <2>2 DEF Restored
    <3> QED BY <3>1, <1>1, <2>2 DEF Shade, Shades
  <2>3. CASE prev # Nowhere /\ p \notin Area(prev)
    <3>1. saved \in [Area(prev) -> Shade]
      BY <2>3 DEF GuiInv, ArrowInv
    <3>2. Restored(fb)[p] = fb[p]
      BY <2>3, <3>1 DEF Restored
    <3> QED BY <3>2, <1>1, <2>3 DEF Shade, Shades
  <2> QED BY <2>1, <2>2, <2>3
<1>2. \A p \in Pixels : framebuffer[p] = "arrow" => prev # Nowhere /\ p \in Area(prev)
  BY CoveredInArea DEF GuiInv, ArrowInv
<1>3. \A p \in Pixels : Restored(framebuffer)[p] \in Shade
  BY <1>1, <1>2 DEF GuiInv
<1>4. Desk \in [Pixels -> Shades] /\ \A p \in Pixels : Desk[p] # "arrow"
  BY DEF Desk, Shade, Shades
<1>5. \A p \in Pixels : Restored(Desk)[p] \in Shade
  BY <1>1, <1>4
<1> QED BY <1>3, <1>5 DEF Restored

(* Moving the arrow covers what was restored, and nothing else.               *)
LEMMA ArrowPlaced ==
  ASSUME NEW fb \in [Pixels -> Shade], NEW at \in Pixels, Placed(fb, at)
  PROVE  /\ framebuffer' \in [Pixels -> Shades]
         /\ prev' # Nowhere /\ prev' \in Pixels /\ saved' \in [Area(prev') -> Shade]
         /\ \A p \in Pixels : framebuffer'[p] = "arrow" => Covers(prev', p)
         /\ \A p \in Pixels : Restored(framebuffer)'[p] = fb[p]
<1>1. prev' = at /\ at # Nowhere
  BY DEF Placed, Pixels, Nowhere
<1>2. saved' = [p \in Area(at) |-> fb[p]] /\ saved' \in [Area(at) -> Shade]
  BY AreaOnScreen DEF Placed
<1>3. framebuffer' = [p \in Pixels |-> IF p \in Area(at) /\ Covers(at, p) THEN "arrow" ELSE fb[p]]
  BY DEF Placed
<1>4. framebuffer' \in [Pixels -> Shades]
  BY <1>3 DEF Shade, Shades
<1>5. \A p \in Pixels : framebuffer'[p] = "arrow" => Covers(at, p)
  BY <1>3 DEF Shade, Shades
<1>6. ASSUME NEW p \in Pixels PROVE Restored(framebuffer)'[p] = fb[p]
  <2>1. Restored(framebuffer)'[p] = IF p \in Area(at) THEN saved'[p] ELSE framebuffer'[p]
    BY <1>1, <1>2 DEF Restored
  <2> QED BY <2>1, <1>2, <1>3
<1> QED BY <1>1, <1>2, <1>4, <1>5, <1>6

LEMMA GuiStarts == ASSUME GuiInit PROVE GuiInv
<1>1. pos \in Pixels
  BY ScreenAssumption DEF GuiInit, Pixels
<1>2. Desk \in [Pixels -> Shades] /\ Desk \in [Pixels -> Shade] /\ \A p \in Pixels : Desk[p] # "arrow"
  BY DEF Desk, Shade, Shades
<1> QED BY <1>1, <1>2 DEF GuiInit, GuiInv, ArrowInv

LEMMA HandlerKeeps == ASSUME GuiInv, guishell_handler PROVE GuiInv'
<1>1. Desk \in [Pixels -> Shades] /\ Desk \in [Pixels -> Shade] /\ \A p \in Pixels : Desk[p] = "desk"
  BY DEF Desk, Shade, Shades
<1>2. /\ hasMouse' = hasMouse /\ hasMouse \in BOOLEAN /\ running' = TRUE /\ picture' = Desk
      /\ damaged' = {p \in Pixels : hasMouse /\ Restored(Desk)[p] # "desk"}
  BY DEF guishell_handler, GuiInv
<1>3. CASE hasMouse
  <2>1. pos' = <<width \div 2, height \div 2>> /\ Placed(Restored(Desk), pos')
    BY <1>3 DEF guishell_handler, mouse_move_to
  <2>2. pos' \in Pixels
    BY <2>1, ScreenAssumption DEF Pixels
  <2>3. Restored(Desk) \in [Pixels -> Shade]
    BY RestoredShades
  <2>4. /\ framebuffer' \in [Pixels -> Shades]
        /\ prev' # Nowhere /\ prev' \in Pixels /\ saved' \in [Area(prev') -> Shade]
        /\ \A p \in Pixels : framebuffer'[p] = "arrow" => Covers(prev', p)
        /\ \A p \in Pixels : Restored(framebuffer)'[p] = Restored(Desk)[p]
    BY <2>1, <2>2, <2>3, ArrowPlaced
  <2>5. \A p \in Pixels \ damaged' : Restored(framebuffer)'[p] = picture'[p]
    BY <2>4, <1>1, <1>2, <1>3
  <2> QED BY <2>2, <2>4, <2>5, <1>1, <1>2, <1>3 DEF GuiInv, ArrowInv
<1>4. CASE ~hasMouse
  <2>1. pos' = <<0, 0>> /\ framebuffer' = Desk /\ saved' = saved /\ prev' = prev /\ prev = Nowhere
    BY <1>4 DEF guishell_handler, GuiInv, ArrowInv
  <2>2. pos' \in Pixels
    BY <2>1, ScreenAssumption DEF Pixels
  <2>3. \A p \in Pixels : Restored(framebuffer)'[p] = framebuffer'[p]
    BY <2>1 DEF Restored
  <2> QED BY <2>1, <2>2, <2>3, <1>1, <1>2, <1>4 DEF GuiInv, ArrowInv
<1> QED BY <1>3, <1>4

(* What does not touch the frame buffer keeps all of it.                     *)
LEMMA BufferStays ==
  ASSUME GuiInv, UNCHANGED <<framebuffer, saved, prev, hasMouse, picture, damaged>>,
         running' \in BOOLEAN, running' => running, pos' \in Pixels
  PROVE  GuiInv'
BY DEF GuiInv, ArrowInv, Restored

LEMMA ClickKeeps == ASSUME GuiInv, click PROVE GuiInv'
<1>1. /\ UNCHANGED <<saved, prev, pos, hasMouse>> /\ running /\ hasMouse /\ pos' \in Pixels
      /\ running' \in BOOLEAN
  BY DEF click, Pass, GuiInv
<1>2. CASE UNCHANGED <<framebuffer, picture, damaged>>
  BY <1>1, <1>2, BufferStays
<1>3. ASSUME NEW polygon, framebuffer' = [p \in Pixels |-> IF p \in polygon THEN "black" ELSE framebuffer[p]],
             picture' = [p \in Pixels |-> IF p \in polygon THEN "black" ELSE picture[p]],
             damaged' = (damaged \ polygon) \cup {p \in polygon \cap DOMAIN saved : saved[p] # "black"}
      PROVE  GuiInv'
  <2>1. framebuffer' \in [Pixels -> Shades] /\ picture' \in [Pixels -> Shade]
    BY <1>3 DEF GuiInv, Shade, Shades
  <2>2. \A p \in Pixels : framebuffer'[p] = "arrow" => framebuffer[p] = "arrow"
    BY <1>3
  <2>3. prev # Nowhere /\ prev' = prev /\ DOMAIN saved' = DOMAIN saved /\ saved' = saved
    BY <1>1 DEF GuiInv, ArrowInv
  <2>4. ASSUME NEW p \in Pixels, p \notin damaged' PROVE Restored(framebuffer)'[p] = picture'[p]
    <3>1. Restored(framebuffer)'[p] = IF p \in DOMAIN saved THEN saved[p] ELSE framebuffer'[p]
      BY <2>3 DEF Restored
    <3>2. Restored(framebuffer)[p] = IF p \in DOMAIN saved THEN saved[p] ELSE framebuffer[p]
      BY <2>3 DEF Restored
    <3>3. CASE p \in polygon
      BY <3>1, <3>3, <2>4, <1>3
    <3>4. CASE p \notin polygon
      <4>1. p \notin damaged
        BY <3>4, <2>4, <1>3
      <4>2. Restored(framebuffer)[p] = picture[p]
        BY <4>1, <1>1 DEF GuiInv
      <4> QED BY <3>1, <3>2, <3>4, <4>2, <1>3
    <3> QED BY <3>3, <3>4
  <2> QED BY <1>1, <2>1, <2>2, <2>3, <2>4 DEF GuiInv, ArrowInv
<1>4. UNCHANGED <<framebuffer, picture, damaged>>
      \/ \E polygon :
           /\ framebuffer' = [p \in Pixels |-> IF p \in polygon THEN "black" ELSE framebuffer[p]]
           /\ picture' = [p \in Pixels |-> IF p \in polygon THEN "black" ELSE picture[p]]
           /\ damaged' = (damaged \ polygon) \cup {p \in polygon \cap DOMAIN saved : saved[p] # "black"}
  BY Zenon DEF click
<1> QED BY <1>2, <1>3, <1>4

LEMMA MoveAcrossKeeps == ASSUME GuiInv, move_x PROVE GuiInv'
<1>1. running /\ running' \in BOOLEAN /\ UNCHANGED <<framebuffer, saved, prev, hasMouse, picture, damaged>>
  BY DEF move_x, Pass
<1>2. PICK n \in Jumps : \/ pos' = <<IF pos[1] < n THEN 0 ELSE pos[1] - n, pos[2]>>
                         \/ pos' = <<IF width <= pos[1] + n THEN width - 1 ELSE pos[1] + n, pos[2]>>
  BY DEF move_x
<1>3. pos' \in Pixels
  <2>1. PICK a \in 0 .. width - 1, b \in 0 .. height - 1 : pos = <<a, b>>
    BY DEF Pixels, GuiInv
  <2> QED BY <1>2, <2>1, ScreenAssumption DEF Pixels
<1> QED BY <1>1, <1>3, BufferStays

LEMMA MoveDownKeeps == ASSUME GuiInv, move_y PROVE GuiInv'
<1>1. /\ running /\ running' \in BOOLEAN /\ UNCHANGED <<hasMouse, picture, damaged>>
      /\ hasMouse /\ Placed(Restored(framebuffer), pos')
  BY DEF move_y, Pass, mouse_move_to
<1>2. PICK n \in Jumps : \/ pos' = <<pos[1], IF height <= pos[2] + n THEN height - 1 ELSE pos[2] + n>>
                         \/ pos' = <<pos[1], IF pos[2] < n THEN 0 ELSE pos[2] - n>>
  BY DEF move_y
<1>3. pos' \in Pixels
  <2>1. PICK a \in 0 .. width - 1, b \in 0 .. height - 1 : pos = <<a, b>>
    BY DEF Pixels, GuiInv
  <2> QED BY <1>2, <2>1, ScreenAssumption DEF Pixels
<1>4. Restored(framebuffer) \in [Pixels -> Shade]
  BY RestoredShades
<1>5. /\ framebuffer' \in [Pixels -> Shades]
      /\ prev' # Nowhere /\ prev' \in Pixels /\ saved' \in [Area(prev') -> Shade]
      /\ \A p \in Pixels : framebuffer'[p] = "arrow" => Covers(prev', p)
      /\ \A p \in Pixels : Restored(framebuffer)'[p] = Restored(framebuffer)[p]
  BY <1>1, <1>3, <1>4, ArrowPlaced
<1>6. \A p \in Pixels \ damaged' : Restored(framebuffer)'[p] = picture'[p]
  BY <1>1, <1>5 DEF GuiInv
<1> QED BY <1>1, <1>3, <1>5, <1>6 DEF GuiInv, ArrowInv

LEMMA GuiStepKeeps == GuiInv /\ [GuiNext]_guiVars => GuiInv'
<1> SUFFICES ASSUME GuiInv, [GuiNext]_guiVars PROVE GuiInv'
  OBVIOUS
<1>1. CASE guishell_handler BY <1>1, HandlerKeeps
<1>2. CASE keyboard_only
  <2>1. running /\ running' \in BOOLEAN /\ pos' = pos /\ UNCHANGED <<framebuffer, saved, prev, hasMouse, picture, damaged>>
    BY <1>2 DEF keyboard_only
  <2> QED BY <2>1, BufferStays DEF GuiInv
<1>3. CASE click BY <1>3, ClickKeeps
<1>4. CASE move_x BY <1>4, MoveAcrossKeeps
<1>5. CASE move_y BY <1>5, MoveDownKeeps
<1>6. CASE UNCHANGED guiVars
  <2>1. running' = running /\ pos' = pos /\ UNCHANGED <<framebuffer, saved, prev, hasMouse, picture, damaged>>
    BY <1>6 DEF guiVars
  <2> QED BY <2>1, BufferStays DEF GuiInv
<1> QED BY <1>1, <1>2, <1>3, <1>4, <1>5, <1>6 DEF GuiNext

(* Whatever polygons look like, and wherever the mouse goes: what the arrow  *)
(* of the graphical shell covers is put back before it moves, and there is   *)
(* one arrow at most.                                                        *)
THEOREM PictureCorrect == GuiSpec => []PictureIsKept
<1>1. GuiInit => GuiInv BY GuiStarts
<1>2. GuiInv => PictureIsKept BY DEF GuiInv, PictureIsKept
<1> QED BY <1>1, <1>2, GuiStepKeeps, PTL DEF GuiSpec

-----------------------------------------------------------------------------
(* The real time clock                                                       *)

(* What the fields that were read are: those of moments since the call, none *)
(* before that of the seconds.                                               *)
ReadFrom(got, from) ==
  \E t \in from .. time : \A i \in 1 .. Len(got) :
     \E u \in t .. time : got[i] = Field(i, u) /\ (i = 1 => u = t)

Lists == Seq(Nat)
Readers == [at : {"idle", "wait", "read"}, from : Nat, got : Lists]

ClockInv ==
  /\ time \in Nat /\ torn \in BOOLEAN /\ updating \in BOOLEAN
  /\ reader \in Readers /\ reader.from <= time
  /\ reader.at = "read" => Len(reader.got) <= 3 /\ (~torn => ReadFrom(reader.got, reader.from))
  /\ reader.at # "idle" => answer = None
  /\ answer.fields # <<>> => answer.from \in 0 .. time
  /\ TimeIsShown

LEMMA NothingRead == NoReader \in Readers /\ <<>> \in Lists /\ <<>> # <<0, 0, 0>> /\ Len(<<>>) = 0
<1>1. <<0, 0, 0>> \in Lists /\ <<>> \in Lists
  BY DEF Lists
<1> QED BY <1>1 DEF NoReader, Readers

(* A number is divided in one way only.                                      *)
LEMMA MultipleBelow ==
  ASSUME NEW k \in Int, NEW n \in Nat, NEW d \in Int, k * n = d, d < n, -n < d
  PROVE  d = 0
<1>1. ~(k >= 1)
  <2>1. SUFFICES ASSUME k >= 1 PROVE FALSE
    OBVIOUS
  <2>2. k * n >= n
    BY <2>1
  <2> QED BY <2>2
<1>2. ~(k <= -1)
  <2>1. SUFFICES ASSUME k <= -1 PROVE FALSE
    OBVIOUS
  <2>2. k * n <= -n
    BY <2>1
  <2> QED BY <2>2
<1>3. k = 0
  BY <1>1, <1>2
<1> QED BY <1>3

LEMMA Divides ==
  ASSUME NEW q \in Nat, NEW r \in Nat, NEW n \in Nat, r < n
  PROVE  (q * n + r) \div n = q /\ (q * n + r) % n = r
<1>1. PICK m \in Nat : m = q * n + r
  OBVIOUS
<1>2. PICK d \in Nat, e \in Nat : d = m \div n /\ e = m % n /\ e < n /\ m = n * d + e
  BY Division
<1>3. PICK k \in Int : k = q - d
  BY ONLY q \in Nat, d \in Nat
<1>4. k * n = e - r
  <2>1. k * n = (q * n) - (d * n) /\ d * n = n * d
    BY ONLY <1>3, n \in Nat, q \in Nat, d \in Nat
  <2> QED BY <2>1, <1>1, <1>2
<1>5. e - r = 0
  BY <1>4, <1>3, <1>2, MultipleBelow
<1>6. e = r
  BY <1>5, <1>2
<1>7. q * n = n * d
  BY <1>6, <1>1, <1>2
<1>8. q = d
  <2>1. k * n = 0 /\ n > 0
    BY <1>4, <1>5
  <2>2. k = 0
    BY <2>1, <1>3
  <2> QED BY <2>2, <1>3, <1>2
<1> QED BY <1>8, <1>6, <1>1, <1>2

(* The two digits of a register are those of its number.                     *)
LEMMA DigitsOfRegister ==
  ASSUME NEW n \in Nat, n < Ten * DigitRoom
  PROVE  bcd2int(Register(n)) = n
<1>1. PICK q \in Nat, r \in Nat : q = n \div Ten /\ r = n % Ten /\ n = Ten * q + r /\ r < Ten
  BY Division, ClockAssumption
<1>2. q < DigitRoom
  <2>1. SUFFICES ASSUME DigitRoom <= q PROVE FALSE
    BY <1>1, ClockAssumption
  <2>2. Ten * DigitRoom <= Ten * q
    BY <2>1, <1>1, ClockAssumption
  <2> QED BY <2>2, <1>1, ClockAssumption
<1>3. Register(n) = q * DigitRoom + r /\ r < DigitRoom /\ DigitRoom \in Nat
  BY <1>1, <1>2, ClockAssumption DEF Register
<1>4. (q * DigitRoom + r) \div DigitRoom = q /\ (q * DigitRoom + r) % DigitRoom = r
  BY <1>1, <1>3, Divides
<1>5. q % DigitRoom = q
  BY <1>1, <1>2, <1>3
<1>6. bcd2int(Register(n)) = q * Ten + r
  BY <1>3, <1>4, <1>5 DEF bcd2int
<1> QED BY <1>1, <1>6, ClockAssumption

LEMMA FieldFits ==
  ASSUME NEW i \in 1 .. 3, NEW t \in Nat
  PROVE  Field(i, t) \in Nat /\ Field(i, t) < Ten * DigitRoom
<1>1. PICK n \in Nat \ {0} : n = Seconds * Minutes
  BY ClockAssumption
<1>2. t \div Seconds \in Nat /\ t \div n \in Nat
  BY <1>1, Division, ClockAssumption
<1>3. /\ t % Seconds \in Nat /\ t % Seconds < Seconds
      /\ (t \div Seconds) % Minutes \in Nat /\ (t \div Seconds) % Minutes < Minutes
      /\ (t \div n) % Hours \in Nat /\ (t \div n) % Hours < Hours
  BY <1>2, Division, ClockAssumption
<1>4. PICK m \in Nat : m = Ten * DigitRoom
  BY ClockAssumption
<1> QED BY <1>1, <1>3, <1>4, ClockAssumption DEF Field

(* Moments less than a minute apart with the same second are the same.       *)
LEMMA SameSecond ==
  ASSUME NEW t \in Nat, NEW u \in Nat, t <= u, u - t < Seconds, t % Seconds = u % Seconds
  PROVE  t = u
<1>1. PICK a \in Nat, b \in Nat, e \in Nat : t = Seconds * a + e /\ u = Seconds * b + e
  <2>1. t % Seconds \in Nat /\ t \div Seconds \in Nat /\ u \div Seconds \in Nat
        /\ t = Seconds * (t \div Seconds) + (t % Seconds) /\ u = Seconds * (u \div Seconds) + (u % Seconds)
    BY Division, ClockAssumption
  <2> QED BY <2>1
<1>2. PICK k \in Int : k = b - a
  BY <1>1
<1>3. k * Seconds = u - t
  <2>1. k * Seconds = (Seconds * b) - (Seconds * a)
    BY <1>1, <1>2, ClockAssumption
  <2> QED BY <1>1, <2>1, ClockAssumption
<1>4. u - t \in Int /\ u - t < Seconds /\ -Seconds < u - t /\ Seconds \in Nat
  BY ClockAssumption
<1>5. u - t = 0
  BY <1>2, <1>3, <1>4, MultipleBelow
<1> QED BY <1>5

(* What is read while no update goes on is a field of the moment.            *)
LEMMA Readings ==
  ASSUME time \in Nat, updating \in BOOLEAN, NEW i \in 1 .. 3, NEW r \in Readable(i)
  PROVE  bcd2int(r) \in Nat /\ (~updating => bcd2int(r) = Field(i, time))
<1>1. bcd2int(Register(Field(i, time))) = Field(i, time) /\ Field(i, time) \in Nat
  BY FieldFits, DigitsOfRegister
<1>2. CASE ~updating
  BY <1>1, <1>2 DEF Readable
<1>3. CASE updating
  <2>1. r = 0 \/ r = Register(Field(i, time))
    BY <1>3 DEF Readable
  <2>2. 0 < Ten * DigitRoom
    BY ClockAssumption
  <2>3. 0 < DigitRoom /\ 0 \div DigitRoom = 0 /\ 0 % DigitRoom = 0
    BY ClockAssumption
  <2>4. bcd2int(0) = 0
    BY <2>3, ClockAssumption DEF bcd2int
  <2> QED BY <2>1, <2>4, <1>1, <1>3
<1> QED BY <1>2, <1>3

(* A moment later all of it still holds.                                     *)
LEMMA TimePasses ==
  ASSUME ClockInv, time' \in Nat, time <= time', updating' \in BOOLEAN, torn' = torn, reader' = reader, answer' = answer
  PROVE  ClockInv'
<1>1. time \in Int /\ (answer.fields # <<>> => answer.from \in Int)
  BY DEF ClockInv
<1>2. TimeIsShown'
  <2>1. SUFFICES ASSUME answer.fields # <<>>, ~torn, time' - answer.from < Seconds
                 PROVE  \E t \in answer.from .. time' : answer.fields = Fields(t)
    BY DEF TimeIsShown
  <2>2. time - answer.from < Seconds
    BY <2>1, <1>1, ClockAssumption
  <2>3. PICK t \in answer.from .. time : answer.fields = Fields(t)
    BY <2>1, <2>2 DEF ClockInv, TimeIsShown
  <2> QED BY <2>1, <2>3, <1>1
<1>3. ASSUME ReadFrom(reader.got, reader.from) PROVE ReadFrom(reader.got, reader.from)'
  <2>1. PICK t \in reader.from .. time : \A j \in 1 .. Len(reader.got) :
           \E u \in t .. time : reader.got[j] = Field(j, u) /\ (j = 1 => u = t)
    BY <1>3 DEF ReadFrom
  <2>2. t \in reader.from .. time' /\ t .. time \subseteq t .. time'
    BY <2>1, <1>1 DEF ClockInv
  <2>3. \A j \in 1 .. Len(reader.got) : \E u \in t .. time' : reader.got[j] = Field(j, u) /\ (j = 1 => u = t)
    BY <2>1, <2>2
  <2>4. ReadFrom(reader.got, reader.from)' <=>
          \E t_1 \in reader.from .. time' : \A j \in 1 .. Len(reader.got) :
             \E u \in t_1 .. time' : reader.got[j] = Field(j, u) /\ (j = 1 => u = t_1)
    BY ZenonT(30) DEF ReadFrom
  <2> QED BY <2>2, <2>3, <2>4
<1>4. (answer.fields # <<>> => answer.from \in 0 .. time)'
  BY <1>1 DEF ClockInv
<1>5. (reader.from <= time)'
  BY <1>1 DEF ClockInv, Readers
<1> QED BY <1>2, <1>3, <1>4, <1>5 DEF ClockInv

LEMMA ReadKeeps == ASSUME ClockInv, read_register PROVE ClockInv'
<1> DEFINE i == Len(reader.got) + 1
<1>1. reader.at = "read" /\ reader.got \in Lists /\ i \in 1 .. 3 /\ answer = None
      /\ reader.from \in 0 .. time /\ time \in Nat
  BY DEF read_register, ClockInv, Readers, Lists
<1>2. PICK r \in Readable(i) : reader' = [reader EXCEPT !.got = Append(@, bcd2int(r))]
  BY DEF read_register
<1>3. bcd2int(r) \in Nat /\ (~updating => bcd2int(r) = Field(i, time))
  BY <1>1, <1>2, Readings DEF ClockInv
<1>4. torn' = (torn \/ updating) /\ UNCHANGED <<time, updating, fresh, answer>>
  BY DEF read_register
<1>5. /\ reader' \in Readers /\ reader'.at = "read" /\ reader'.from = reader.from
      /\ reader'.got = Append(reader.got, bcd2int(r)) /\ Len(reader'.got) = i
  <2>1. \A n \in Nat : Append(reader.got, n) \in Lists /\ Len(Append(reader.got, n)) = i
    BY ONLY <1>1 DEF Lists
  <2>2. PICK got \in Lists : got = Append(reader.got, bcd2int(r)) /\ Len(got) = i
    BY ONLY <2>1, <1>3
  <2> QED BY <1>1, <1>2, <2>2 DEF ClockInv, Readers
<1>6. ASSUME ~torn' PROVE ReadFrom(reader.got, reader.from)'
  <2>1. ~torn /\ ~updating /\ ReadFrom(reader.got, reader.from)
    BY <1>6, <1>4, <1>1 DEF ClockInv
  <2>2. PICK t \in reader.from .. time : \A j \in 1 .. Len(reader.got) :
           \E u \in t .. time : reader.got[j] = Field(j, u) /\ (j = 1 => u = t)
    BY <2>1 DEF ReadFrom
  <2>3. time \in reader.from .. time /\ time \in time .. time /\ t \in Int /\ time \in t .. time
    BY <2>2, <1>1
  <2>4. CASE i = 1
    <3>1. \A j \in 1 .. Len(reader'.got) : j = 1 /\ reader'.got[j] = Field(j, time)
      BY <2>4, <1>5, <1>1, <1>3, <2>1 DEF Lists
    <3> QED BY <3>1, <2>3, <1>4, <1>5 DEF ReadFrom
  <2>5. CASE i # 1
    <3>1. ASSUME NEW j \in 1 .. Len(reader'.got)
          PROVE  \E u \in t .. time : reader'.got[j] = Field(j, u) /\ (j = 1 => u = t)
      <4>1. CASE j = i
        BY <4>1, <2>5, <1>5, <1>1, <1>3, <2>1, <2>3 DEF Lists
      <4>2. CASE j # i
        <5>1. j \in 1 .. Len(reader.got) /\ reader'.got[j] = reader.got[j]
          BY <4>2, <1>5, <1>1, <1>3 DEF Lists
        <5> QED BY <5>1, <2>2
      <4> QED BY <4>1, <4>2
    <3> QED BY <3>1, <2>2, <1>4, <1>5 DEF ReadFrom
  <2> QED BY <2>4, <2>5
<1>7. TimeIsShown'
  BY <1>1, <1>4 DEF TimeIsShown, None
<1>8. answer.fields = <<>> /\ torn' \in BOOLEAN
  BY <1>1, <1>4 DEF None, ClockInv
<1> QED BY <1>1, <1>4, <1>5, <1>6, <1>7, <1>8 DEF ClockInv

LEMMA ReadAgainKeeps == ASSUME ClockInv, read_again PROVE ClockInv'
<1>1. /\ reader.at = "read" /\ reader.got \in Lists /\ Len(reader.got) = 3 /\ UNCHANGED <<time, updating>>
      /\ answer = None /\ reader.from \in 0 .. time /\ time \in Nat
  BY DEF read_again, ClockInv, Readers
<1>2. PICK r \in Readable(1) :
          IF Believes(bcd2int(r))
          THEN /\ reader' = NoReader /\ torn' = (torn \/ updating)
               /\ \E ms \in IF ~HasTsc /\ fresh THEN {0, 999} ELSE {0} :
                    answer' = [from |-> reader.from, fields |-> reader.got, millisecond |-> ms]
          ELSE reader' = [reader EXCEPT !.got = <<>>] /\ torn' = FALSE /\ UNCHANGED answer
  BY DEF read_again
<1>3. CASE Believes(bcd2int(r))
  <2>1. /\ reader' = NoReader /\ torn' = (torn \/ updating) /\ answer'.from = reader.from /\ answer'.fields = reader.got
    BY <1>2, <1>3
  <2>2. ASSUME ~torn', time - reader.from < Seconds PROVE reader.got = Fields(time)
    <3>1. ~torn /\ ~updating /\ ReadFrom(reader.got, reader.from)
      BY <2>2, <2>1, <1>1 DEF ClockInv
    <3>2. PICK t \in reader.from .. time : \A j \in 1 .. Len(reader.got) :
             \E u \in t .. time : reader.got[j] = Field(j, u) /\ (j = 1 => u = t)
      BY <3>1 DEF ReadFrom
    <3>3. reader.got[1] = Field(1, t) /\ t \in Nat
      BY <3>2, <1>1
    <3>4. reader.got[1] = Field(1, time)
      BY <1>3, <3>1, Readings DEF Believes, ClockInv
    <3>5. t = time
      <4>1. Field(1, t) = t % Seconds /\ Field(1, time) = time % Seconds
        BY DEF Field
      <4>2. t \in Nat /\ time \in Nat /\ t <= time /\ time - t < Seconds
        BY <3>2, <2>2, <1>1, ClockAssumption
      <4> QED BY <3>3, <3>4, <4>1, <4>2, SameSecond
    <3>6. \A j \in 1 .. 3 : reader.got[j] = Field(j, time)
      BY <3>2, <3>5, <1>1
    <3>7. reader.got = <<reader.got[1], reader.got[2], reader.got[3]>>
      BY <1>1 DEF Lists
    <3>8. reader.got = <<Field(1, time), Field(2, time), Field(3, time)>>
      BY ONLY <3>6, <3>7
    <3> QED BY <3>8 DEF Fields
  <2>3. TimeIsShown'
    BY <2>1, <2>2, <1>1 DEF TimeIsShown, Fields, Field
  <2>4. reader' \in Readers /\ reader'.at = "idle" /\ reader'.from = 0
    BY <2>1, NothingRead DEF NoReader
  <2>5. torn' \in BOOLEAN
    BY <2>1, <1>1 DEF ClockInv
  <2> QED BY <2>1, <2>3, <2>4, <2>5, <1>1 DEF ClockInv
<1>4. CASE ~Believes(bcd2int(r))
  <2>1. reader' = [reader EXCEPT !.got = <<>>] /\ torn' = FALSE /\ answer' = answer
    BY <1>2, <1>4
  <2>2. reader' \in Readers /\ reader'.at = "read" /\ reader'.from = reader.from /\ reader'.got = <<>>
    BY <2>1, <1>1, NothingRead DEF ClockInv, Readers
  <2>3. ReadFrom(reader.got, reader.from)'
    BY <2>2, <1>1 DEF ReadFrom
  <2>4. TimeIsShown'
    BY <2>1, <1>1 DEF TimeIsShown, None
  <2>5. answer'.fields = <<>> /\ torn' \in BOOLEAN /\ Len(reader'.got) = 0
    BY <2>1, <2>2, <1>1, NothingRead DEF None
  <2> QED BY <2>1, <2>2, <2>3, <2>4, <2>5, <1>1 DEF ClockInv
<1> QED BY <1>3, <1>4

LEMMA ClockStepKeeps == ClockInv /\ [ClockNext]_clockVars => ClockInv'
<1> SUFFICES ASSUME ClockInv, [ClockNext]_clockVars PROVE ClockInv'
  OBVIOUS
<1>1. CASE clock_updates
  <2>1. time' = time /\ updating' = TRUE /\ torn' = torn /\ reader' = reader /\ answer' = answer
    BY <1>1 DEF clock_updates
  <2>2. time \in Nat
    BY DEF ClockInv
  <2> QED BY <2>1, <2>2, TimePasses
<1>2. CASE clock_ticks
  <2>1. time' = time + 1 /\ updating' = FALSE /\ torn' = torn /\ reader' = reader /\ answer' = answer
    BY <1>2 DEF clock_ticks
  <2>2. time \in Nat
    BY DEF ClockInv
  <2>3. time' \in Nat /\ time <= time'
    BY ONLY <2>1, <2>2
  <2>4. updating' \in BOOLEAN
    BY <2>1
  <2> QED BY ONLY ClockInv, <2>1, <2>3, <2>4, TimePasses
<1>3. CASE rtc_isr
  <2>1. time' = time /\ updating' = updating /\ torn' = torn /\ reader' = reader /\ answer' = answer
    BY <1>3 DEF rtc_isr
  <2>2. time \in Nat /\ updating \in BOOLEAN
    BY DEF ClockInv
  <2> QED BY <2>1, <2>2, TimePasses
<1>4. CASE get_time
  <2>1. /\ reader' \in Readers /\ reader'.at = "wait" /\ reader'.from = time
        /\ torn' = FALSE /\ answer' = None /\ UNCHANGED <<time, updating>>
    <3>1. reader' = [NoReader EXCEPT !.at = "wait", !.from = time] /\ time \in Nat
      BY <1>4 DEF get_time, ClockInv
    <3>2. reader' \in Readers /\ reader'.at = "wait" /\ reader'.from = time
      BY <3>1, NothingRead DEF Readers
    <3> QED BY <3>2, <1>4 DEF get_time
  <2>2. TimeIsShown'
    BY <2>1 DEF TimeIsShown, None
  <2>3. answer'.fields = <<>> /\ reader'.at # "read"
    BY <2>1 DEF None
  <2>4. time' \in Nat /\ reader'.from <= time'
    BY <2>1 DEF ClockInv
  <2>5. torn' \in BOOLEAN
    BY <2>1
  <2>6. updating' \in BOOLEAN
    BY <2>1 DEF ClockInv
  <2> QED BY <2>1, <2>2, <2>3, <2>4, <2>5, <2>6 DEF ClockInv
<1>5. CASE wait_update
  <2>1. reader.at = "wait" /\ answer = None /\ reader' = [reader EXCEPT !.at = "read", !.got = <<>>] /\ UNCHANGED <<time, updating, torn, answer>>
    BY <1>5 DEF wait_update, ClockInv
  <2>2. reader' \in Readers /\ reader'.at = "read" /\ reader'.from = reader.from /\ reader'.got = <<>>
    BY <2>1, NothingRead DEF ClockInv, Readers
  <2>3. ReadFrom(reader.got, reader.from)'
    BY <2>1, <2>2 DEF ReadFrom, ClockInv
  <2>4. TimeIsShown'
    BY <2>1 DEF TimeIsShown, None
  <2>5. answer'.fields = <<>> /\ Len(reader'.got) = 0 /\ reader'.from <= time'
    BY <2>1, <2>2, NothingRead DEF None, ClockInv
  <2> QED BY <2>1, <2>2, <2>3, <2>4, <2>5 DEF ClockInv
<1>6. CASE read_register BY <1>6, ReadKeeps
<1>7. CASE read_again BY <1>7, ReadAgainKeeps
<1>8. CASE UNCHANGED clockVars
  <2>1. time' = time /\ updating' = updating /\ torn' = torn /\ reader' = reader /\ answer' = answer
    BY <1>8 DEF clockVars
  <2>2. time \in Nat /\ updating \in BOOLEAN
    BY DEF ClockInv
  <2> QED BY <2>1, <2>2, TimePasses
<1> QED BY <1>1, <1>2, <1>3, <1>4, <1>5, <1>6, <1>7, <1>8 DEF ClockNext, Reader

(* However long minutes and hours are, and whatever a register reads as      *)
(* during an update: the time that is answered is one the clock showed.      *)
THEOREM TimeCorrect == ClockSpec => []TimeIsShown
<1>1. ClockInit => ClockInv
  <2> SUFFICES ASSUME ClockInit PROVE ClockInv
    OBVIOUS
  <2>1. Seconds * Minutes * Hours \in Int
    BY ClockAssumption
  <2>2. time \in Nat
    BY <2>1 DEF ClockInit
  <2>3. reader \in Readers /\ reader.from = 0 /\ reader.at = "idle"
    BY NothingRead DEF ClockInit, NoReader
  <2>4. answer.fields = <<>> /\ TimeIsShown
    BY DEF ClockInit, None, TimeIsShown
  <2>5. torn \in BOOLEAN /\ updating \in BOOLEAN
    BY DEF ClockInit
  <2> QED BY <2>2, <2>3, <2>4, <2>5 DEF ClockInv
<1>2. ClockInv => TimeIsShown BY DEF ClockInv
<1> QED BY <1>1, <1>2, ClockStepKeeps, PTL DEF ClockSpec

-----------------------------------------------------------------------------
(* Registers and addresses                                                   *)

ThreeBytes(n) == (n % Octet) + Octet * ((Shifted(n) % Octet) + Octet * (Shifted(Shifted(n)) % Octet))

(* An address is its three lower bytes and what is above them.               *)
LEMMA ThreeBytesOf ==
  ASSUME NEW n \in Nat
  PROVE  /\ Upper(n) \in Nat /\ Shifted(n) \in Nat /\ Shifted(Shifted(n)) \in Nat /\ ThreeBytes(n) \in Nat /\ Third \in Nat
         /\ n = ThreeBytes(n) + Third * Upper(n)
<1>0. Octet \in Nat /\ Octet > 0
  BY IdeAssumption
<1>1. PICK a \in Nat, d \in Nat : a = Shifted(n) /\ d = n % Octet /\ n = Octet * a + d
  BY <1>0, Division DEF Shifted
<1>2. PICK b \in Nat, e \in Nat : b = Shifted(Shifted(n)) /\ e = Shifted(n) % Octet /\ a = Octet * b + e
  BY <1>0, <1>1, Division DEF Shifted
<1>3. PICK c \in Nat, f \in Nat : c = Upper(n) /\ f = Shifted(Shifted(n)) % Octet /\ b = Octet * c + f
  BY <1>0, <1>2, Division DEF Shifted, Upper
<1>4. PICK t \in Nat : t = Octet * Octet * Octet /\ t = Third
  BY <1>0 DEF Third
<1>5. ThreeBytes(n) = d + Octet * (e + Octet * f)
  BY <1>1, <1>2, <1>3 DEF ThreeBytes
<1>6. n = (d + Octet * (e + Octet * f)) + t * c
  <2>1. PICK x \in Nat : x = Octet * f
    BY ONLY <1>0, <1>3
  <2>2. PICK y \in Nat : y = Octet * c
    BY ONLY <1>0, <1>3
  <2>3. PICK z \in Nat : z = Octet * y
    BY ONLY <1>0, <2>2
  <2>4. Octet * b = z + x
    BY ONLY <1>0, <1>3, <2>1, <2>2, <2>3
  <2>5. a = z + (e + x)
    BY ONLY <1>2, <1>3, <2>4, <2>1, <2>3
  <2>6. Octet * a = Octet * z + Octet * (e + x)
    BY ONLY <1>0, <1>2, <2>1, <2>3, <2>5
  <2>7. Octet * z = t * c
    BY ONLY <1>0, <1>3, <1>4, <2>2, <2>3
  <2>8. PICK w \in Nat : w = Octet * (e + x)
    BY ONLY <1>0, <1>2, <2>1
  <2>9. PICK v \in Nat : v = t * c
    BY ONLY <1>3, <1>4
  <2>10. n = v + w + d
    BY ONLY <2>6, <2>7, <2>8, <2>9, <1>1
  <2>11. d + Octet * (e + Octet * f) = d + w
    BY ONLY <2>1, <2>8, <1>1
  <2> QED BY ONLY <2>10, <2>11, <2>9, <2>8, <1>1
<1>7. (d + Octet * (e + Octet * f)) \in Nat
  <2>1. \A x, y \in Nat : x * y \in Nat /\ x + y \in Nat
    OBVIOUS
  <2>2. Octet * f \in Nat
    BY ONLY <2>1, <1>0
  <2>3. e + Octet * f \in Nat
    BY ONLY <2>1, <2>2
  <2>4. Octet * (e + Octet * f) \in Nat
    BY ONLY <2>1, <2>3, <1>0
  <2> QED BY ONLY <2>1, <2>4
<1>8. ThreeBytes(n) \in Nat
  BY ONLY <1>5, <1>7
<1>9. n = ThreeBytes(n) + Third * Upper(n)
  BY ONLY <1>3, <1>4, <1>5, <1>6
<1> QED BY ONLY <1>1, <1>2, <1>3, <1>4, <1>8, <1>9

LEMMA UpperBelow ==
  ASSUME NEW n \in Nat, NEW k \in Nat, n < Third * k
  PROVE  Upper(n) < k
<1>1. PICK u \in Nat, t \in Nat, r \in Nat : u = Upper(n) /\ t = Third /\ n = r + t * u
  BY ThreeBytesOf
<1>2. SUFFICES ASSUME k <= u PROVE FALSE
  BY <1>1
<1>3. t * k <= t * u
  BY <1>1, <1>2
<1> QED BY <1>1, <1>3

(* What the driver writes to the registers asks for what it was asked for.   *)
LEMMA AskedRight ==
  ASSUME NEW lba \in 0 .. Third * Third - 1, NEW n \in 1 .. Octet * Octet - 1,
         n <= Octet \/ Extended(lba), NEW old, DOMAIN old = {"count", "sector", "low", "high"}
  PROVE  LET high == IF Extended(lba) THEN Written(old, Lowest(Upper(lba), Shifted(n))) ELSE old
         IN Asked(Extended(lba), Written(high, Lowest(lba, n)), (Upper(lba) % Octet) % Nibble) = [lba |-> lba, count |-> n]
<1> DEFINE high == IF Extended(lba) THEN Written(old, Lowest(Upper(lba), Shifted(n))) ELSE old
           regs == Written(high, Lowest(lba, n))
<1>0. Octet \in Nat /\ Octet > 0 /\ Third \in Nat /\ lba \in Nat /\ n \in Nat /\ Nibble \in Nat /\ Nibble <= Octet /\ Nibble > 0
  BY IdeAssumption DEF Third
<1>1. /\ DOMAIN high = {"count", "sector", "low", "high"}
      /\ regs.count = <<n % Octet, high.count[1]>> /\ regs.sector = <<lba % Octet, high.sector[1]>>
      /\ regs.low = <<Shifted(lba) % Octet, high.low[1]>> /\ regs.high = <<Shifted(Shifted(lba)) % Octet, high.high[1]>>
  BY DEF Written, Lowest
<1>2. Extended(lba) =>
         /\ high.count[1] = Shifted(n) % Octet /\ high.sector[1] = Upper(lba) % Octet
         /\ high.low[1] = Shifted(Upper(lba)) % Octet /\ high.high[1] = Shifted(Shifted(Upper(lba))) % Octet
  BY DEF Written, Lowest
<1> DEFINE asked(head) == Asked(Extended(lba), regs, head)
<1> HIDE DEF high, regs
<1>3. PICK u \in Nat, low \in Nat :
         u = Upper(lba) /\ lba = low + Third * u /\ low = ThreeBytes(lba)
  BY <1>0, ThreeBytesOf
<1>4. regs.sector[1] + Octet * (regs.low[1] + Octet * regs.high[1]) = low
  BY <1>1, <1>3 DEF ThreeBytes
<1>5. PICK c \in Nat : c = n % Octet /\ regs.count[1] = c
  BY <1>0, <1>1, Division
<1>6. CASE Extended(lba)
  <2>1. u < Third
    BY <1>0, <1>3, UpperBelow
  <2>2. Upper(u) = 0
    <3>1. u < Third * 1
      BY <2>1, <1>0
    <3>2. Upper(u) < 1 /\ Upper(u) \in Nat
      BY <3>1, UpperBelow, ThreeBytesOf
    <3> QED BY <3>2
  <2>3. u = ThreeBytes(u)
    BY <2>2, <1>0, ThreeBytesOf
  <2>4. regs.sector[2] + Octet * (regs.low[2] + Octet * regs.high[2]) = u
    BY <2>3, <1>1, <1>2, <1>3, <1>6 DEF ThreeBytes
  <2>5. regs.count[1] + Octet * regs.count[2] = n
    <3>1. PICK q \in Nat, d \in Nat : q = Shifted(n) /\ d = n % Octet /\ n = Octet * q + d
      BY <1>0, Division DEF Shifted
    <3>2. q < Octet
      <4>1. SUFFICES ASSUME Octet <= q PROVE FALSE
        BY <1>0, <3>1
      <4>2. Octet * Octet <= Octet * q
        BY <4>1, <1>0, <3>1
      <4> QED BY <4>2, <1>0, <3>1
    <3>3. q % Octet = q
      BY <3>1, <3>2, <1>0
    <3>4. regs.count[2] = q /\ regs.count[1] = d
      BY <3>1, <3>3, <1>1, <1>2, <1>6
    <3>5. Octet * q + d = d + Octet * q
      BY ONLY <1>0, <3>1
    <3> QED BY ONLY <3>1, <3>4, <3>5
  <2>6. asked((Upper(lba) % Octet) % Nibble) = [lba |-> low + Third * u, count |-> n]
    BY <1>6, <1>4, <2>4, <2>5, <1>0 DEF Asked
  <2> QED BY <2>6, <1>3 DEF high, regs
<1>7. CASE ~Extended(lba)
  <2>1. u < Nibble
    BY <1>7, <1>0, <1>3, UpperBelow DEF Extended
  <2>2. (Upper(lba) % Octet) % Nibble = u
    <3>1. u % Octet = u
      BY <2>1, <1>0
    <3> QED BY <3>1, <2>1, <1>3, <1>0
  <2>3. n <= Octet
    BY <1>7
  <2>4. asked((Upper(lba) % Octet) % Nibble) = [lba |-> low + Third * u, count |-> IF c # 0 THEN c ELSE Octet]
    BY <1>7, <1>4, <1>5, <2>2 DEF Asked
  <2>5. (IF c # 0 THEN c ELSE Octet) = n
    <3>1. CASE n = Octet
      <4>1. PICK q \in Nat : c < Octet /\ Octet = Octet * q + c
        BY <3>1, <1>0, <1>5, Division
      <4>2. q # 0
        BY <4>1, <1>0
      <4>3. Octet * q >= Octet
        BY <4>1, <4>2, <1>0
      <4>4. c = 0
        BY <4>1, <4>3, <1>0
      <4> QED BY <4>4, <3>1
    <3>2. CASE n # Octet
      BY <3>2, <2>3, <1>0, <1>5
    <3> QED BY <3>1, <3>2
  <2> QED BY <2>4, <2>5, <1>3 DEF high, regs
<1> QED BY <1>6, <1>7 DEF high, regs

-----------------------------------------------------------------------------
(* What drives offer                                                         *)

Items == {Junk, Packet} \cup {Identity(s) : s \in Slaves} \cup {Sector(s, n) : s \in Slaves, n \in Nat}
         \cup {Part(Sector(s, n)) : s \in Slaves, n \in Nat}
Offers == Seq(Items)

(* A part of a sector is told from a whole one.                              *)
LEMMA ItemsOffered ==
  /\ Junk \in Items /\ Packet \in Items /\ \A s \in Slaves : Identity(s) \in Items
  /\ \A s \in Slaves, n \in Nat : Sector(s, n) \in Items /\ Sector(s, n)[1] = "sector"
  /\ \A x \in Items : x[1] = "sector" => Part(x) \in Items /\ Part(x)[1] # "sector"
<1>1. \A s \in Slaves, n \in Nat : Sector(s, n)[1] = "sector"
  BY DEF Sector
<1>2. \A s \in Slaves, n \in Nat : Part(Sector(s, n))[1] = "part"
  BY DEF Sector, Part
<1>3. ASSUME NEW x \in Items, x[1] = "sector"
      PROVE  Part(x) \in Items /\ Part(x)[1] # "sector"
  <2>1. Junk[1] = "junk" /\ Packet[1] = "packet" /\ \A s \in Slaves : Identity(s)[1] = "identity"
    BY DEF Junk, Packet, Identity
  <2>2. PICK s \in Slaves, n \in Nat : x = Sector(s, n)
    BY <1>2, <1>3, <2>1 DEF Items
  <2>3. Part(Sector(s, n)) \in Items
    <3> HIDE DEF Part, Sector
    <3> QED BY DEF Items
  <2>4. Part(x) = Part(Sector(s, n))
    BY <2>2
  <2> QED BY <2>3, <2>4, <1>2
<1> QED BY <1>1, <1>3 DEF Items

LEMMA Offered1 ==
  /\ <<>> \in Offers
  /\ \A x \in Items : <<x>> \in Offers /\ <<x>> # <<>>
  /\ \A o \in Offers, x \in Items : <<x>> \o o \in Offers /\ <<x>> \o o # <<>> /\ (<<x>> \o o)[1] = x
BY DEF Offers

LEMMA OffersMade ==
  /\ \A o \in Offers, x \in Items :
        /\ Append(o, x) \in Offers /\ Len(Append(o, x)) = Len(o) + 1 /\ Append(o, x)[Len(o) + 1] = x
        /\ \A i \in 1 .. Len(o) : Append(o, x)[i] = o[i]
  /\ \A o \in Offers : o # <<>> =>
        /\ Len(o) \in Nat \ {0} /\ Head(o) = o[1] /\ o[1] \in Items
        /\ Tail(o) \in Offers /\ Len(Tail(o)) = Len(o) - 1
        /\ \A i \in 1 .. Len(o) - 1 : Tail(o)[i] = o[i + 1]
  /\ \A o \in Offers : Len(o) \in Nat /\ (o = <<>> <=> Len(o) = 0)
BY DEF Offers

LEMMA BlocksOffered ==
  ASSUME NEW s \in Slaves, NEW ask, ask.lba \in Nat, ask.count \in Nat
  PROVE  /\ Blocks(s, ask) \in Offers /\ Len(Blocks(s, ask)) = ask.count
         /\ \A i \in 1 .. ask.count : Blocks(s, ask)[i] = Sector(s, ask.lba + i - 1)
<1>1. \A i \in 1 .. ask.count : Sector(s, ask.lba + i - 1) \in Items
  BY ItemsOffered
<1> HIDE DEF Items
<1>2. Blocks(s, ask) \in [1 .. ask.count -> Items]
  BY <1>1 DEF Blocks
<1>3. \A n \in Nat : \A f \in [1 .. n -> Items] : f \in Seq(Items) /\ Len(f) = n
  OBVIOUS
<1>4. Blocks(s, ask) \in Offers /\ Len(Blocks(s, ask)) = ask.count
  BY <1>2, <1>3 DEF Offers
<1> QED BY <1>4 DEF Blocks

-----------------------------------------------------------------------------
(* The state of the bus                                                      *)

RegisterFile == [{"count", "sector", "low", "high"} -> Nat \X Nat]
DriveKinds == {"none", "ata", "atapi"}
DriveStates == {"idle", "busy", "data", "error"}
DriveRecords == [kind : DriveKinds, state : DriveStates, left : Offers]
ReadPlaces ==
  {"switch", "switched", "switching", "command", "taken", "data", "check", "packet", "packet wanted",
   "packet taken", "packet data", "ok", "failed"}
Places == ReadPlaces \cup {"reset", "reset done", "signature", "identify"}
IdeCalls ==
  [op : {"detect", "identify", "none", "read"}, at : Places, slave : Slaves, lba : 0 .. Third * Third - 1,
   count : Nat, got : Offers]

BusKept == bus \in [slave : Slaves, regs : RegisterFile]
\* A drive with nothing to do has nothing left, and offers what it has.
DrivesKept ==
  /\ drives \in [Slaves -> DriveRecords]
  /\ \A s \in Slaves : (drives[s].state = "idle" => drives[s].left = <<>>)
                      /\ (drives[s].state = "data" => drives[s].left # <<>>)
FoundKept ==
  /\ found \in [Slaves -> DriveKinds]
  /\ \A s \in Slaves : found[s] # "none" => found[s] = drives[s].kind

(* The reads of which something is promised, what they have, and what is     *)
(* still to come: the rest, or a part of the next block, or nothing, since   *)
(* the drive has failed.                                                     *)
Sure == call.count # 0 /\ (found[call.slave] = "atapi" \/ call.count <= Octet \/ Extended(call.lba))
GotRight ==
  /\ Len(call.got) <= call.count
  /\ \A i \in 1 .. Len(call.got) : call.got[i] = Sector(call.slave, call.lba + i - 1)
Rest(left) ==
  /\ Len(left) = call.count - Len(call.got)
  /\ \A i \in 1 .. Len(left) : left[i] = Sector(call.slave, call.lba + Len(call.got) + i - 1)
Comes(drive) ==
  /\ Len(call.got) < call.count
  /\ \/ drive.state = "error"
     \/ Rest(drive.left)
     \/ drive.kind = "atapi" /\ drive.state = "data" /\ drive.left[1][1] # "sector"

ReadKept ==
  call.op = "read" =>
    /\ call.at \in ReadPlaces /\ found[call.slave] # "none"
    /\ call.at \notin {"switch", "ok", "failed"} => bus.slave = call.slave
    /\ call.at \notin {"data", "packet data", "check", "ok", "failed"} => call.got = <<>>
    /\ call.at \in {"command", "taken", "data"} => found[call.slave] = "ata"
    /\ call.at \in {"packet", "packet wanted", "packet taken", "packet data"} => found[call.slave] = "atapi"
    /\ Sure => /\ GotRight
               /\ call.at \in {"taken", "data", "packet taken", "packet data"} => Comes(drives[call.slave])
               /\ found[call.slave] = "ata" =>
                    /\ call.at = "check" => drives[call.slave].state = "error" \/ Len(call.got) = call.count
                    /\ call.at = "ok" => Len(call.got) = call.count
IdeInv == BusKept /\ DrivesKept /\ FoundKept /\ call \in IdeCalls /\ ReadKept

LEMMA KeptIsRight == IdeInv => TransfersAreRight
<1> SUFFICES ASSUME IdeInv, call.op = "read", call.at = "ok", call.count # 0
             PROVE  LET asked == Blocks(call.slave, call)
                    IN IF found[call.slave] = "atapi" THEN IsPrefix(call.got, asked)
                       ELSE call.count <= Octet \/ Extended(call.lba) => call.got = asked
  BY DEF TransfersAreRight
<1> DEFINE asked == Blocks(call.slave, call)
<1>1. call \in IdeCalls /\ ReadKept /\ found \in [Slaves -> DriveKinds]
  BY DEF IdeInv, FoundKept
<1>2. call.slave \in Slaves /\ call.lba \in Nat /\ call.count \in Nat /\ call.got \in Offers /\ found[call.slave] \in DriveKinds
  BY <1>1, IdeAssumption DEF IdeCalls, Third
<1>3. asked \in Offers /\ Len(asked) = call.count /\ \A i \in 1 .. call.count : asked[i] = Sector(call.slave, call.lba + i - 1)
  BY <1>2, BlocksOffered
<1>4. SUFFICES ASSUME Sure PROVE IF found[call.slave] = "atapi" THEN IsPrefix(call.got, asked) ELSE call.got = asked
  BY DEF Sure
<1>5. GotRight /\ found[call.slave] # "none"
  BY <1>1, <1>4 DEF ReadKept
<1> HIDE DEF asked
<1>6. \A i \in 1 .. Len(call.got) : call.got[i] = asked[i]
  BY <1>5, <1>3, <1>2 DEF GotRight
<1>7. CASE found[call.slave] = "atapi"
  BY <1>7, <1>5, <1>6, <1>2, <1>3 DEF IsPrefix, GotRight, Offers
<1>8. CASE found[call.slave] # "atapi"
  <2>1. Len(call.got) = call.count
    BY <1>8, <1>1, <1>2, <1>4, <1>5 DEF ReadKept, DriveKinds
  <2>2. call.got = asked
    BY ONLY <1>2, <1>3, <1>6, <2>1, SeqEqual DEF Offers
  <2> QED BY <1>8, <2>2
<1> QED BY <1>7, <1>8

-----------------------------------------------------------------------------
(* What a step leaves alone                                                  *)

LEMMA BecomesKeeps ==
  ASSUME DrivesKept, FoundKept, NEW s \in Slaves, NEW state \in DriveStates, NEW left \in Offers,
         state = "idle" => left = <<>>, state = "data" => left # <<>>, Becomes(s, state, left), UNCHANGED found
  PROVE  /\ DrivesKept' /\ FoundKept'
         /\ drives'[s].state = state /\ drives'[s].left = left /\ drives'[s].kind = drives[s].kind
         /\ \A t \in Slaves : t # s => drives'[t] = drives[t]
<1>1. drives \in [Slaves -> DriveRecords] /\ drives[s] \in DriveRecords
  BY DEF DrivesKept
<1> DEFINE d == [drives[s] EXCEPT !.state = state, !.left = left]
<1>2. d \in DriveRecords /\ d.state = state /\ d.left = left /\ d.kind = drives[s].kind
  BY <1>1 DEF DriveRecords
<1>3. drives' = [drives EXCEPT ![s] = d]
  BY <1>1 DEF Becomes, DriveRecords
<1> HIDE DEF d
<1>4. drives' \in [Slaves -> DriveRecords] /\ drives'[s] = d /\ \A t \in Slaves : t # s => drives'[t] = drives[t]
  BY <1>1, <1>2, <1>3
<1>5. DrivesKept'
  BY <1>4, <1>2 DEF DrivesKept
<1>6. FoundKept'
  BY <1>4, <1>2 DEF FoundKept
<1> QED BY <1>4, <1>2, <1>5, <1>6

LEMMA LooksKeeps ==
  ASSUME BusKept, DrivesKept, FoundKept, Looks, UNCHANGED found
  PROVE  BusKept' /\ DrivesKept' /\ FoundKept'
BY DEF Looks, BusKept, DrivesKept, FoundKept

LEMMA GoesTo ==
  ASSUME call \in IdeCalls, NEW p \in Places, Goes(p)
  PROVE  /\ call' \in IdeCalls /\ call'.at = p /\ call'.op = call.op /\ call'.slave = call.slave
         /\ call'.lba = call.lba /\ call'.count = call.count /\ call'.got = call.got
<1> HIDE DEF Places, Offers
<1> QED BY DEF Goes, IdeCalls

\* The call asks for the same, and has as much.
SameCall ==
  /\ call'.op = call.op /\ call'.slave = call.slave /\ call'.lba = call.lba
  /\ call'.count = call.count /\ call'.got = call.got

LEMMA SameIsSure ==
  ASSUME SameCall, UNCHANGED found
  PROVE  /\ Sure' <=> Sure
         /\ GotRight' <=> GotRight
         /\ drives'[call.slave] = drives[call.slave] => (Comes(drives[call.slave])' <=> Comes(drives[call.slave]))
<1>1. Sure' <=> Sure
  BY DEF SameCall, Sure
<1>2. GotRight' <=> GotRight
  BY DEF SameCall, GotRight
<1>3. ASSUME drives'[call.slave] = drives[call.slave]
      PROVE  Comes(drives[call.slave])' <=> Comes(drives[call.slave])
  <2>1. drives'[call'.slave] = drives[call.slave]
    BY <1>3 DEF SameCall
  <2> QED BY <2>1 DEF SameCall, Comes, Rest
<1> QED BY <1>1, <1>2, <1>3

LEMMA NothingGot ==
  ASSUME call \in IdeCalls, call.got = <<>>
  PROVE  GotRight /\ Len(call.got) = 0
<1>1. call.count \in Nat
  BY DEF IdeCalls
<1> QED BY <1>1 DEF GotRight
LEMMA NothingGotNext == (call \in IdeCalls /\ call.got = <<>> => GotRight /\ Len(call.got) = 0)'
<1>1. call \in IdeCalls /\ call.got = <<>> => GotRight /\ Len(call.got) = 0
  BY NothingGot
<1> QED BY <1>1, PTL

-----------------------------------------------------------------------------
(* The drives                                                                *)

LEMMA DriveStepKeeps ==
  ASSUME IdeInv, DriveStep
  PROVE  IdeInv'
<1>1. BusKept /\ DrivesKept /\ FoundKept /\ call \in IdeCalls /\ ReadKept
  BY DEF IdeInv
<1>2. UNCHANGED <<bus, call, found>>
  BY DEF DriveStep, drive_answers, drive_fails, drive_offers_part
<1>3. PICK s \in Slaves, state \in DriveStates, left \in Offers :
         /\ drives[s].state = "busy" /\ Becomes(s, state, left)
         /\ state = "idle" => left = <<>>
         /\ state = "data" => left # <<>>
         /\ \/ state = "error"
            \/ left = drives[s].left
            \/ drives[s].kind = "atapi" /\ state = "data" /\ left[1][1] # "sector"
  <2>0. \A s \in Slaves : drives[s].left \in Offers
    BY <1>1 DEF DrivesKept, DriveRecords
  <2>1. CASE drive_answers
    <3>1. PICK s \in Slaves : drives[s].state = "busy" /\ Becomes(s, IF drives[s].left = <<>> THEN "idle" ELSE "data", drives[s].left)
      BY <2>1 DEF drive_answers
    <3> QED BY <3>1, <2>0 DEF DriveStates
  <2>2. CASE drive_fails
    <3>1. PICK s \in Slaves : drives[s].state = "busy" /\ Becomes(s, "error", <<>>)
      BY <2>2 DEF drive_fails
    <3> QED BY <3>1, Offered1 DEF DriveStates
  <2>3. CASE drive_offers_part
    <3>1. PICK s \in Slaves :
             /\ drives[s].state = "busy" /\ drives[s].kind = "atapi" /\ drives[s].left # <<>>
             /\ Head(drives[s].left)[1] = "sector"
             /\ Becomes(s, "data", <<Part(Head(drives[s].left))>> \o drives[s].left)
      BY <2>3 DEF drive_offers_part
    <3> DEFINE x == Part(Head(drives[s].left))
    <3>2. x \in Items /\ x[1] # "sector"
      BY <3>1, <2>0, OffersMade, ItemsOffered
    <3> HIDE DEF x
    <3>3. <<x>> \o drives[s].left \in Offers /\ <<x>> \o drives[s].left # <<>> /\ (<<x>> \o drives[s].left)[1] = x
      BY <3>2, <2>0, Offered1
    <3>4. Becomes(s, "data", <<x>> \o drives[s].left)
      BY <3>1 DEF x
    <3> QED BY <3>1, <3>2, <3>3, <3>4 DEF DriveStates
  <2> QED BY <2>1, <2>2, <2>3 DEF DriveStep
<1>4. /\ DrivesKept' /\ FoundKept'
      /\ drives'[s].state = state /\ drives'[s].left = left /\ drives'[s].kind = drives[s].kind
      /\ \A t \in Slaves : t # s => drives'[t] = drives[t]
  BY <1>1, <1>2, <1>3, BecomesKeeps
<1>5. BusKept' /\ (call \in IdeCalls)' /\ SameCall /\ call.slave \in Slaves
  BY <1>1, <1>2 DEF BusKept, IdeCalls, SameCall
<1>6. Comes(drives[call.slave]) => Comes(drives[call.slave])'
  <2>1. CASE call.slave # s
    BY <2>1, <1>4, <1>5, <1>2, SameIsSure
  <2>2. CASE call.slave = s
    <3> HIDE DEF Items, Offers
    <3>1. SUFFICES ASSUME Comes(drives[s]) PROVE Comes(drives[s])'
      BY <2>2, <1>2
    <3>2. Len(call.got) < call.count /\ (Rest(drives[s].left) \/ drives[s].state \in {"error", "data"})
      BY <3>1 DEF Comes
    <3>3. Rest(drives[s].left)
      BY <3>2, <1>3
    <3>4. left = drives[s].left => Rest(drives[s].left)'
      BY <3>3, <1>2, <1>4 DEF Rest
    <3>5. (Len(call.got) < call.count)'
      BY <3>2, <1>2
    <3> QED BY <3>4, <3>5, <1>3, <1>4 DEF Comes
  <2> QED BY <2>1, <2>2
<1>7. drives[call.slave].state = "error" => drives'[call.slave].state = "error"
  BY <1>3, <1>4, <1>5
<1>8. ReadKept'
  <2>1. (Sure' <=> Sure) /\ (GotRight' <=> GotRight)
    BY <1>5, <1>2, SameIsSure
  <2> HIDE DEF ReadPlaces, Items, Offers
  <2> QED BY ONLY <2>1, <1>1, <1>2, <1>6, <1>7 DEF ReadKept
<1> QED BY <1>4, <1>5, <1>8 DEF IdeInv

-----------------------------------------------------------------------------
(* The probes                                                                *)

LEMMA ResetKeeps ==
  ASSUME IdeInv, bus_soft_reset
  PROVE  IdeInv'
<1> HIDE DEF Items, Offers, Places
<1>1. BusKept /\ DrivesKept /\ FoundKept /\ call \in IdeCalls /\ ReadKept /\ call.at = "reset" /\ UNCHANGED found
  BY DEF IdeInv, bus_soft_reset, At
<1>2. BusKept'
  BY <1>1 DEF BusKept, bus_soft_reset, Slaves
<1> DEFINE new(s) == [drives[s] EXCEPT !.left = <<>>, !.state = IF drives[s].kind = "none" THEN "idle" ELSE "busy"]
<1>3. \A s \in Slaves : new(s) \in DriveRecords /\ new(s).left = <<>> /\ new(s).state # "data" /\ new(s).kind = drives[s].kind
  <2> SUFFICES ASSUME NEW s \in Slaves
               PROVE  new(s) \in DriveRecords /\ new(s).left = <<>> /\ new(s).state # "data" /\ new(s).kind = drives[s].kind
    OBVIOUS
  <2>1. drives[s] \in DriveRecords
    BY <1>1 DEF DrivesKept
  <2>2. <<>> \in Offers
    BY Offered1
  <2> QED BY <2>1, <2>2 DEF DriveRecords, DriveStates
<1> HIDE DEF new
<1>4. drives' = [s \in Slaves |-> new(s)]
  BY DEF bus_soft_reset, new
<1>5. DrivesKept'
  BY <1>3, <1>4 DEF DrivesKept
<1>6. FoundKept'
  BY <1>1, <1>3, <1>4 DEF FoundKept
<1>7. \E p \in {"failed", "reset done"} : Goes(p)
  BY DEF bus_soft_reset
<1>8. PICK p \in Places : Goes(p)
  BY <1>7 DEF Places, ReadPlaces
<1>9. call' \in IdeCalls /\ call'.op = call.op
  BY <1>1, <1>8, GoesTo
<1>10. call.op # "read"
  BY <1>1 DEF ReadKept, ReadPlaces
<1>11. ReadKept'
  BY ONLY <1>9, <1>10 DEF ReadKept
<1> QED BY <1>2, <1>5, <1>6, <1>9, <1>11 DEF IdeInv

LEMMA LookKeeps ==
  ASSUME IdeInv, bus_soft_reset_done
  PROVE  IdeInv'
<1> HIDE DEF Items, Offers, Places
<1>1. /\ BusKept /\ DrivesKept /\ FoundKept /\ call \in IdeCalls /\ ReadKept
      /\ call.at = "reset done" /\ UNCHANGED found /\ Looks
  BY DEF IdeInv, bus_soft_reset_done, At
<1>2. \E p \in {"failed", "signature"} : Goes(p)
  BY DEF bus_soft_reset_done
<1>3. PICK p \in Places : Goes(p)
  BY <1>2 DEF Places, ReadPlaces
<1>4. call' \in IdeCalls /\ call'.op = call.op
  BY <1>1, <1>3, GoesTo
<1>5. call.op # "read"
  BY <1>1 DEF ReadKept, ReadPlaces
<1>6. ReadKept'
  BY ONLY <1>4, <1>5 DEF ReadKept
<1>7. BusKept' /\ DrivesKept' /\ FoundKept'
  BY <1>1, LooksKeeps
<1> QED BY <1>4, <1>6, <1>7 DEF IdeInv

LEMMA DetectKeeps ==
  ASSUME IdeInv, detect_device
  PROVE  IdeInv'
<1> HIDE DEF Items, Offers, Places
<1>1. /\ BusKept /\ DrivesKept /\ FoundKept /\ call \in IdeCalls /\ ReadKept
      /\ call.at = "signature" /\ UNCHANGED <<found, drives>>
  BY DEF IdeInv, detect_device, At
<1>2. \E p \in {"failed", "switch"} : Goes(p)
  BY DEF detect_device
<1>3. PICK p \in Places : Goes(p)
  BY <1>2 DEF Places, ReadPlaces
<1>4. call' \in IdeCalls /\ call'.op = call.op
  BY <1>1, <1>3, GoesTo
<1>5. call.op # "read"
  BY <1>1 DEF ReadKept, ReadPlaces
<1>6. ReadKept'
  BY ONLY <1>4, <1>5 DEF ReadKept
<1>7. DrivesKept' /\ FoundKept'
  BY <1>1 DEF DrivesKept, FoundKept
<1>8. call.slave \in Slaves
  BY <1>1 DEF IdeCalls
<1>9. BusKept'
  BY <1>1, <1>8 DEF BusKept, detect_device
<1> QED BY <1>4, <1>6, <1>7, <1>9 DEF IdeInv

LEMMA IdentifyKeeps ==
  ASSUME IdeInv, identify
  PROVE  IdeInv'
<1> HIDE DEF Items, Offers, Places
<1>1. /\ BusKept /\ DrivesKept /\ FoundKept /\ call \in IdeCalls /\ ReadKept
      /\ call.at = "identify" /\ UNCHANGED <<found, bus>>
  BY DEF IdeInv, identify, At
<1>2. bus.slave \in Slaves /\ bus' = bus
  BY <1>1 DEF BusKept
<1> DEFINE left == <<Identity(bus.slave)>>
<1>3. left \in Offers /\ left # <<>>
  BY <1>2, ItemsOffered, Offered1
<1>4. Becomes(bus.slave, "busy", left)
  BY <1>2 DEF identify, Takes
<1> HIDE DEF left
<1>5. DrivesKept' /\ FoundKept'
  BY <1>1, <1>2, <1>3, <1>4, BecomesKeeps DEF DriveStates
<1>6. BusKept'
  BY <1>1 DEF BusKept
<1>7. call' \in IdeCalls /\ call'.op = call.op
  <2>1. call' = [call EXCEPT !.at = "taken", !.count = 1] /\ "taken" \in Places
    BY DEF identify, Places, ReadPlaces
  <2> QED BY <2>1, <1>1 DEF IdeCalls
<1>8. call.op # "read"
  BY <1>1 DEF ReadKept, ReadPlaces
<1>9. ReadKept'
  BY ONLY <1>7, <1>8 DEF ReadKept
<1> QED BY <1>5, <1>6, <1>7, <1>9 DEF IdeInv

LEMMA Begun ==
  ASSUME NEW op \in {"detect", "identify", "none", "read"}, NEW at \in Places, NEW s \in Slaves,
         NEW lba \in 0 .. Third * Third - 1, NEW count \in Nat, Begin(op, at, s, lba, count)
  PROVE  /\ call' \in IdeCalls /\ call'.op = op /\ call'.at = at /\ call'.slave = s /\ call'.got = <<>>
<1> HIDE DEF Places, Offers
<1>1. <<>> \in Offers
  BY Offered1
<1> QED BY <1>1 DEF Begin, IdeCalls

LEMMA ThirdCounts == 0 \in 0 .. Third * Third - 1
<1>1. Octet \in Nat /\ Octet >= 1
  BY IdeAssumption
<1>2. Octet * Octet \in Nat /\ Octet * Octet >= 1
  BY <1>1
<1>3. PICK t \in Nat : t = Third /\ t >= 1
  BY <1>1, <1>2 DEF Third
<1>4. t * t >= 1 /\ t * t \in Nat
  BY <1>3
<1> QED BY <1>3, <1>4

LEMMA ProbeKeeps ==
  ASSUME IdeInv, probe
  PROVE  IdeInv'
<1> HIDE DEF Items, Offers, Places
<1>1. /\ BusKept /\ DrivesKept /\ FoundKept /\ call \in IdeCalls /\ ReadKept /\ UNCHANGED <<bus, drives>>
  BY DEF IdeInv, probe, Looks
<1>2. call.slave \in Slaves
  BY <1>1 DEF IdeCalls
<1> DEFINE s == call.slave
           now == [found EXCEPT ![s] = IF call.at = "ok" THEN drives[s].kind ELSE "none"]
           later == {t \in Slaves : now[t] # "none" /\ (call.op = "detect" \/ t > s)}
           chosen == CHOOSE t \in later : \A u \in later : t <= u
<1>3. /\ found' = now
      /\ \/ Begin("detect", "reset", 1, 0, 0)
         \/ Begin("none", "ok", 0, 0, 0)
         \/ later # {} /\ Begin("identify", "switch", chosen, 0, 0)
  BY DEF probe
<1>4. later # {} => chosen \in Slaves
  <2>1. SUFFICES ASSUME later # {} PROVE \E t \in later : \A u \in later : t <= u
    BY DEF Slaves
  <2>2. \A t \in later : t \in {0, 1}
    BY DEF Slaves
  <2> HIDE DEF later
  <2>3. CASE 0 \in later
    BY <2>3, <2>2
  <2>4. CASE 0 \notin later
    BY <2>1, <2>2, <2>4
  <2> QED BY <2>3, <2>4
<1> HIDE DEF chosen, later
<1>5. "reset" \in Places /\ "ok" \in Places /\ "switch" \in Places /\ 0 \in Slaves /\ 1 \in Slaves /\ 0 \in Nat
  BY DEF Places, ReadPlaces, Slaves
<1>6. call' \in IdeCalls /\ call'.op # "read"
  <2>1. CASE Begin("detect", "reset", 1, 0, 0)
    BY <2>1, <1>5, ThirdCounts, Begun
  <2>2. CASE Begin("none", "ok", 0, 0, 0)
    BY <2>2, <1>5, ThirdCounts, Begun
  <2>3. CASE later # {} /\ Begin("identify", "switch", chosen, 0, 0)
    BY <2>3, <1>4, <1>5, ThirdCounts, Begun
  <2> QED BY <1>3, <2>1, <2>2, <2>3
<1>7. ReadKept'
  BY ONLY <1>6 DEF ReadKept
<1>8. BusKept' /\ DrivesKept'
  BY <1>1 DEF BusKept, DrivesKept
<1>9. FoundKept'
  <2>1. drives[s].kind \in DriveKinds /\ "none" \in DriveKinds
    BY <1>1, <1>2 DEF DrivesKept, DriveRecords, DriveKinds
  <2>2. found' \in [Slaves -> DriveKinds]
    BY <1>1, <1>2, <1>3, <2>1 DEF FoundKept
  <2> QED BY <1>1, <1>2, <1>3, <2>2 DEF FoundKept
<1> QED BY <1>6, <1>7, <1>8, <1>9 DEF IdeInv

LEMMA ReadBegins ==
  ASSUME IdeInv, read_blocks
  PROVE  IdeInv'
<1> HIDE DEF Items, Offers, Places
<1>1. /\ BusKept /\ DrivesKept /\ FoundKept /\ Looks /\ UNCHANGED found
  BY DEF IdeInv, read_blocks
<1>2. BusKept' /\ DrivesKept' /\ FoundKept'
  BY <1>1, LooksKeeps
<1>3. PICK s \in Slaves, r \in Requests : found[s] # "none" /\ Begin("read", "switch", s, r.lba, r.count)
  BY DEF read_blocks
<1>4. r.lba \in 0 .. Third * Third - 1 /\ r.count \in Nat /\ "switch" \in Places
  BY IdeAssumption DEF Third, Places, ReadPlaces
<1>5. call' \in IdeCalls /\ call'.op = "read" /\ call'.at = "switch" /\ call'.slave = s /\ call'.got = <<>>
  BY <1>3, <1>4, Begun
<1>6. GotRight'
  BY <1>5, NothingGotNext
<1>7. ReadKept'
  BY ONLY <1>1, <1>3, <1>5, <1>6 DEF ReadKept, ReadPlaces
<1> QED BY <1>2, <1>5, <1>7 DEF IdeInv

-----------------------------------------------------------------------------
(* The way of a read                                                         *)

LEMMA SwitchKeeps ==
  ASSUME IdeInv, switch_device
  PROVE  IdeInv'
<1> HIDE DEF Items, Offers, Places
<1>1. /\ BusKept /\ DrivesKept /\ FoundKept /\ call \in IdeCalls /\ ReadKept
      /\ call.at = "switch" /\ UNCHANGED <<found, drives>>
  BY DEF IdeInv, switch_device, At
<1>2. call.slave \in Slaves /\ "switched" \in Places
  BY <1>1 DEF IdeCalls, Places, ReadPlaces
<1>3. Goes("switched") /\ bus' = [bus EXCEPT !.slave = call.slave]
  BY DEF switch_device, Select
<1>4. call' \in IdeCalls /\ call'.at = "switched" /\ SameCall
  BY <1>1, <1>2, <1>3, GoesTo DEF SameCall
<1>5. BusKept' /\ bus'.slave = call.slave
  BY <1>1, <1>2, <1>3 DEF BusKept
<1>6. DrivesKept' /\ FoundKept'
  BY <1>1 DEF DrivesKept, FoundKept
<1>7. (Sure' <=> Sure) /\ (GotRight' <=> GotRight)
  BY <1>1, <1>4, SameIsSure
<1>8. ReadKept'
  BY ONLY <1>1, <1>4, <1>5, <1>7 DEF ReadKept, SameCall, ReadPlaces
<1> QED BY <1>4, <1>5, <1>6, <1>8 DEF IdeInv

LEMMA SwitchedKeeps ==
  ASSUME IdeInv, switched \/ switching
  PROVE  IdeInv'
<1> HIDE DEF Items, Offers, Places
<1>1. /\ BusKept /\ DrivesKept /\ FoundKept /\ call \in IdeCalls /\ ReadKept
      /\ call.at \in {"switched", "switching"} /\ UNCHANGED found /\ Looks
  BY DEF IdeInv, switched, switching, At
<1>2. BusKept' /\ DrivesKept' /\ FoundKept'
  BY <1>1, LooksKeeps
<1>3. \E p \in {"switching", "failed", Command} : Goes(p)
  BY DEF switched, switching
<1>4. Command \in {"identify", "command", "packet"} /\ (Command = "identify" <=> call.op # "read")
      /\ (Command = "command" => found[call.slave] = "ata")
      /\ (Command = "packet" => call.op = "read" /\ found[call.slave] # "ata")
  BY DEF Command
<1>5. PICK p \in {"switching", "failed", Command} : Goes(p)
  BY <1>3
<1>6. p \in Places /\ (call.op = "read" => p \in {"switching", "failed", "command", "packet"})
  BY <1>4 DEF Places, ReadPlaces
<1>7. call' \in IdeCalls /\ call'.at = p /\ SameCall
  BY <1>1, <1>5, <1>6, GoesTo DEF SameCall
<1>8. (Sure' <=> Sure) /\ (GotRight' <=> GotRight)
  BY <1>1, <1>7, SameIsSure
<1>9. UNCHANGED <<bus, drives>> /\ found[call.slave] \in DriveKinds
  BY <1>1 DEF Looks, FoundKept, IdeCalls
<1>10. p = "command" => found[call.slave] = "ata"
  BY <1>4, <1>5
<1>11. p = "packet" => found[call.slave] \in {"none", "atapi"}
  BY <1>4, <1>5, <1>9 DEF DriveKinds
<1>12. ReadKept'
  BY ONLY <1>1, <1>6, <1>7, <1>8, <1>9, <1>10, <1>11 DEF ReadKept, SameCall, ReadPlaces
<1> QED BY <1>2, <1>7, <1>12 DEF IdeInv

\* A look at the status on the way: what is to come stays the same.
LEMMA WaitKeeps ==
  ASSUME IdeInv, send_command_done \/ packet_taken \/ check
  PROVE  IdeInv'
<1> HIDE DEF Items, Offers, Places
<1>1. /\ BusKept /\ DrivesKept /\ FoundKept /\ call \in IdeCalls /\ ReadKept /\ UNCHANGED found /\ Looks
  BY DEF IdeInv, send_command_done, packet_taken, check, At
<1>2. BusKept' /\ DrivesKept' /\ FoundKept' /\ UNCHANGED <<bus, drives>>
  BY <1>1, LooksKeeps DEF Looks
<1>3. PICK p \in {"failed", "data", "packet data", "ok"} :
         /\ Goes(p)
         /\ p = "data" => call.at = "taken"
         /\ p = "packet data" => call.at = "packet taken"
         /\ p = "ok" => call.at = "check" /\ drives[bus.slave].state # "error"
  BY DEF send_command_done, packet_taken, check, At, Failed, Drive
<1>4. p \in Places
  BY DEF Places, ReadPlaces
<1>5. call' \in IdeCalls /\ call'.at = p /\ SameCall
  BY <1>1, <1>3, <1>4, GoesTo DEF SameCall
<1>6. /\ (Sure' <=> Sure) /\ (GotRight' <=> GotRight)
      /\ Comes(drives[call.slave])' <=> Comes(drives[call.slave])
  BY <1>1, <1>2, <1>5, SameIsSure
<1>7. ReadKept'
  BY ONLY <1>1, <1>2, <1>3, <1>5, <1>6 DEF ReadKept, SameCall, ReadPlaces
<1> QED BY <1>2, <1>5, <1>7 DEF IdeInv

LEMMA WordsWritten ==
  ASSUME NEW regs \in RegisterFile, NEW lba \in Nat, NEW n \in Nat
  PROVE  Written(regs, Lowest(lba, n)) \in RegisterFile
<1>1. Octet \in Nat /\ Octet > 0
  BY IdeAssumption
<1>2. Shifted(lba) \in Nat /\ Shifted(Shifted(lba)) \in Nat
  BY ThreeBytesOf
<1>3. n % Octet \in Nat /\ lba % Octet \in Nat /\ Shifted(lba) % Octet \in Nat /\ Shifted(Shifted(lba)) % Octet \in Nat
  BY <1>1, <1>2, Division
<1> DEFINE v == Lowest(lba, n)
<1>4. v \in [{"count", "sector", "low", "high"} -> Nat]
  BY <1>3 DEF Lowest
<1> HIDE DEF v
<1>5. \A r \in {"count", "sector", "low", "high"} : regs[r][1] \in Nat
  BY DEF RegisterFile
<1>6. Written(regs, v) \in RegisterFile
  BY <1>4, <1>5 DEF Written, RegisterFile
<1> QED BY <1>6 DEF v

LEMMA AskedTyped ==
  ASSUME NEW regs \in RegisterFile, NEW head \in Nat, NEW extended \in BOOLEAN
  PROVE  Asked(extended, regs, head).lba \in Nat /\ Asked(extended, regs, head).count \in Nat
<1>1. Octet \in Nat /\ Third \in Nat /\ \A x, y \in Nat : x * y \in Nat /\ x + y \in Nat
  BY IdeAssumption DEF Third
<1>2. \A r \in {"count", "sector", "low", "high"} : regs[r][1] \in Nat /\ regs[r][2] \in Nat
  BY DEF RegisterFile
<1> DEFINE Address(i) == regs.sector[i] + Octet * (regs.low[i] + Octet * regs.high[i])
           n == regs.count[1] + IF extended THEN Octet * regs.count[2] ELSE 0
<1>3. \A x, y, z \in Nat : x + Octet * (y + Octet * z) \in Nat
  <2> SUFFICES ASSUME NEW x \in Nat, NEW y \in Nat, NEW z \in Nat PROVE x + Octet * (y + Octet * z) \in Nat
    OBVIOUS
  <2>1. y + Octet * z \in Nat
    BY <1>1
  <2>2. Octet * (y + Octet * z) \in Nat
    BY ONLY <2>1, <1>1
  <2> QED BY ONLY <2>2, <1>1
<1>4. Address(1) \in Nat /\ Address(2) \in Nat
  BY ONLY <1>2, <1>3
<1>5. n \in Nat /\ Octet * Octet \in Nat
  BY <1>1, <1>2
<1>6. Third * (IF extended THEN Address(2) ELSE head) \in Nat
  <2> HIDE DEF Address
  <2>1. (IF extended THEN Address(2) ELSE head) \in Nat
    BY <1>4
  <2> QED BY ONLY <2>1, <1>1
<1> HIDE DEF Address
<1>7. Address(1) + Third * (IF extended THEN Address(2) ELSE head) \in Nat
  BY ONLY <1>4, <1>6, <1>1
<1> HIDE DEF n
<1>8. Asked(extended, regs, head) =
        [lba |-> Address(1) + Third * (IF extended THEN Address(2) ELSE head),
         count |-> IF n # 0 THEN n ELSE IF extended THEN Octet * Octet ELSE Octet]
  BY DEF Asked, Address, n
<1> QED BY <1>1, <1>5, <1>7, <1>8

LEMMA AnswersTo ==
  ASSUME DrivesKept, FoundKept, UNCHANGED found, NEW s \in Slaves, bus'.slave = s,
         NEW ask, ask.lba \in Nat, ask.count \in Nat, Answers(ask)
  PROVE  /\ DrivesKept' /\ FoundKept' /\ drives'[s].kind = drives[s].kind
         /\ drives'[s].state = "error" \/ drives'[s].left = Blocks(s, ask)
<1> DEFINE blocks == Blocks(s, ask)
<1>1. blocks \in Offers /\ <<>> \in Offers
  BY BlocksOffered, Offered1
<1>2. Becomes(s, "busy", blocks) \/ Becomes(s, "error", <<>>)
  BY DEF Answers, Takes, Refuses
<1> HIDE DEF blocks, Offers
<1>3. CASE Becomes(s, "busy", blocks)
  <2>1. DrivesKept' /\ FoundKept' /\ drives'[s].kind = drives[s].kind /\ drives'[s].left = blocks
    BY <1>3, <1>1, BecomesKeeps DEF DriveStates
  <2> QED BY <2>1 DEF blocks
<1>4. CASE Becomes(s, "error", <<>>)
  BY <1>4, <1>1, BecomesKeeps DEF DriveStates
<1> QED BY <1>2, <1>3, <1>4

LEMMA Whole ==
  ASSUME call \in IdeCalls, call.got = <<>>, call.count # 0, NEW drive,
         drive.state = "error" \/ drive.left = Blocks(call.slave, [lba |-> call.lba, count |-> call.count])
  PROVE  Comes(drive)
<1> DEFINE ask == [lba |-> call.lba, count |-> call.count]
           blocks == Blocks(call.slave, ask)
<1>1. call.slave \in Slaves /\ call.lba \in Nat /\ call.count \in Nat /\ ask.lba = call.lba /\ ask.count = call.count
  BY IdeAssumption DEF IdeCalls, Third
<1>2. Len(blocks) = call.count /\ \A i \in 1 .. call.count : blocks[i] = Sector(call.slave, call.lba + i - 1)
  BY <1>1, BlocksOffered
<1>3. drive.state = "error" \/ drive.left = blocks
  OBVIOUS
<1> HIDE DEF blocks, ask
<1>4. Len(call.got) = 0
  OBVIOUS
<1>5. Rest(blocks)
  <2>1. \A i \in 1 .. call.count : call.lba + Len(call.got) + i - 1 = call.lba + i - 1
    BY <1>1, <1>4
  <2> QED BY <2>1, <1>1, <1>2, <1>4 DEF Rest
<1> QED BY <1>1, <1>3, <1>4, <1>5 DEF Comes
LEMMA WholeNext ==
  (call \in IdeCalls /\ call.got = <<>> /\ call.count # 0
   /\ (drives[call.slave].state = "error"
       \/ drives[call.slave].left = Blocks(call.slave, [lba |-> call.lba, count |-> call.count]))
   => Comes(drives[call.slave]))'
<1>1. (call \in IdeCalls /\ call.got = <<>> /\ call.count # 0
       /\ (drives[call.slave].state = "error"
           \/ drives[call.slave].left = Blocks(call.slave, [lba |-> call.lba, count |-> call.count]))
       => Comes(drives[call.slave]))
  BY Whole
<1> QED BY <1>1, PTL

LEMMA CommandKeeps ==
  ASSUME IdeInv, send_command
  PROVE  IdeInv'
<1> HIDE DEF Items, Offers, Places
<1>1. /\ BusKept /\ DrivesKept /\ FoundKept /\ call \in IdeCalls /\ ReadKept
      /\ call.at = "command" /\ UNCHANGED found
  BY DEF IdeInv, send_command, At
<1>2. /\ call.slave \in Slaves /\ call.lba \in 0 .. Third * Third - 1 /\ call.lba \in Nat /\ call.count \in Nat
      /\ bus \in [slave : Slaves, regs : RegisterFile] /\ bus.regs \in RegisterFile /\ bus.slave \in Slaves
  BY <1>1, IdeAssumption DEF IdeCalls, BusKept, Third
<1> DEFINE n == Clip(call.count)
           high == IF Extended(call.lba) THEN Written(bus.regs, Lowest(Upper(call.lba), Shifted(n))) ELSE bus.regs
           regs == Written(high, Lowest(call.lba, n))
           head == (Upper(call.lba) % Octet) % Nibble
           ask == Asked(Extended(call.lba), regs, head)
<1>3. n \in Nat /\ (call.count # 0 => n \in 1 .. Octet * Octet - 1) /\ Shifted(n) \in Nat
  <2>1. Octet * Octet > 1 /\ Octet * Octet \in Nat
    <3>1. Octet \in Nat /\ Octet >= 2
      BY IdeAssumption
    <3>2. Octet * Octet >= 2 * Octet
      BY <3>1
    <3> QED BY <3>1, <3>2
  <2>2. n \in Nat /\ (call.count # 0 => n \in 1 .. Octet * Octet - 1)
    BY <2>1, <1>2 DEF Clip
  <2> QED BY <2>2, ThreeBytesOf
<1>4. bus' = [bus EXCEPT !.regs = regs] /\ Answers(ask) /\ call' = [call EXCEPT !.at = "taken", !.count = n]
  BY DEF send_command
<1> HIDE DEF n
<1>5. high \in RegisterFile /\ regs \in RegisterFile
  <2>1. Upper(call.lba) \in Nat
    BY <1>2, ThreeBytesOf
  <2>2. high \in RegisterFile
    BY <2>1, <1>2, <1>3, WordsWritten
  <2> HIDE DEF high
  <2> QED BY <2>2, <1>2, <1>3, WordsWritten
<1>6. head \in Nat /\ Extended(call.lba) \in BOOLEAN
  <2>1. Upper(call.lba) \in Nat /\ Octet \in Nat /\ Octet > 0 /\ Nibble \in Nat /\ Nibble > 0
    BY <1>2, ThreeBytesOf, IdeAssumption
  <2>2. Upper(call.lba) % Octet \in Nat
    BY <2>1, Division
  <2>3. head \in Nat
    BY <2>1, <2>2, Division
  <2> QED BY <2>3 DEF Extended
<1>7. n \in 1 .. Octet * Octet - 1 /\ (n <= Octet \/ Extended(call.lba)) => ask = [lba |-> call.lba, count |-> n]
  <2>1. DOMAIN bus.regs = {"count", "sector", "low", "high"}
    BY <1>2 DEF RegisterFile
  <2> QED BY <2>1, <1>2, AskedRight
<1> HIDE DEF regs, head
<1>8. ask.lba \in Nat /\ ask.count \in Nat
  BY <1>5, <1>6, AskedTyped
<1> HIDE DEF ask
<1>9. BusKept' /\ bus'.slave = bus.slave
  BY <1>2, <1>4, <1>5 DEF BusKept
<1>10. /\ DrivesKept' /\ FoundKept'
       /\ drives'[bus.slave].state = "error" \/ drives'[bus.slave].left = Blocks(bus.slave, ask)
  BY <1>1, <1>2, <1>4, <1>8, <1>9, AnswersTo
<1>11. /\ call' \in IdeCalls /\ call'.at = "taken" /\ call'.count = n /\ call'.op = call.op
       /\ call'.slave = call.slave /\ call'.lba = call.lba /\ call'.got = call.got
  <2>1. "taken" \in Places
    BY DEF Places, ReadPlaces
  <2> QED BY <2>1, <1>1, <1>3, <1>4 DEF IdeCalls
<1>12. ASSUME call.op = "read"
       PROVE  /\ bus.slave = call.slave /\ found[call.slave] = "ata" /\ call.got = <<>>
              /\ Sure' => GotRight' /\ Comes(drives[call.slave])'
  <2>1. bus.slave = call.slave /\ found[call.slave] = "ata" /\ call.got = <<>>
    BY <1>1, <1>12 DEF ReadKept
  <2>2. GotRight'
    BY <1>11, <2>1, NothingGotNext
  <2>3. ASSUME Sure' PROVE Comes(drives[call.slave])'
    <3>1. n # 0 /\ (n <= Octet \/ Extended(call.lba))
      BY <2>1, <2>3, <1>1, <1>11 DEF Sure
    <3>2. n \in 1 .. Octet * Octet - 1
      BY <3>1, <1>3, <1>2 DEF n, Clip
    <3>3. ask = [lba |-> call'.lba, count |-> call'.count]
      BY <3>1, <3>2, <1>7, <1>11
    <3>4. call'.got = <<>> /\ call'.count # 0
      BY <2>1, <3>1, <1>11
    <3>5. \/ drives'[call'.slave].state = "error"
          \/ drives'[call'.slave].left = Blocks(call'.slave, [lba |-> call'.lba, count |-> call'.count])
      BY <1>10, <1>11, <2>1, <3>3
    <3> QED BY <1>11, <3>4, <3>5, WholeNext DEF Blocks
  <2> QED BY <2>1, <2>2, <2>3
<1>13. ReadKept'
  BY ONLY <1>1, <1>9, <1>11, <1>12 DEF ReadKept, ReadPlaces
<1> QED BY <1>9, <1>10, <1>11, <1>13 DEF IdeInv

-----------------------------------------------------------------------------
(* Blocks that are read                                                      *)

LEMMA HandedOver ==
  ASSUME BusKept, DrivesKept, FoundKept, Handed, UNCHANGED <<bus, found>>
  PROVE  /\ BusKept' /\ DrivesKept' /\ FoundKept' /\ Offered \in Items
         /\ Wanted => /\ drives'[bus.slave].left = Tail(drives[bus.slave].left) /\ Offered = Head(drives[bus.slave].left)
                      /\ drives[bus.slave].left # <<>>
<1>1. bus.slave \in Slaves /\ BusKept'
  BY DEF BusKept
<1>2. CASE ~Wanted
  BY <1>1, <1>2, ItemsOffered DEF Handed, Offered, DrivesKept, FoundKept
<1>3. CASE Wanted
  <2> DEFINE left == drives[bus.slave].left
  <2>1. left \in Offers /\ left # <<>>
    BY <1>1, <1>3 DEF Wanted, Drive, DrivesKept, DriveRecords
  <2>2. Becomes(bus.slave, IF Len(left) > 1 THEN "busy" ELSE "idle", Tail(left)) /\ Offered = Head(left)
    BY <1>3 DEF Handed, Offered, Drive
  <2> HIDE DEF left
  <2>3. Len(left) \in Nat \ {0} /\ Head(left) \in Items /\ Tail(left) \in Offers /\ Len(Tail(left)) = Len(left) - 1
    BY <2>1, OffersMade
  <2>4. ~(Len(left) > 1) => Tail(left) = <<>>
    <3>1. Len(Tail(left)) = 0 => Tail(left) = <<>>
      BY <2>3, OffersMade
    <3> QED BY <3>1, <2>3
  <2>5. PICK state \in {"busy", "idle"} : Becomes(bus.slave, state, Tail(left)) /\ (state = "idle" => Tail(left) = <<>>)
    BY <2>2, <2>4
  <2>6. /\ DrivesKept' /\ FoundKept' /\ drives'[bus.slave].left = Tail(left)
    BY <1>1, <2>3, <2>5, BecomesKeeps DEF DriveStates
  <2> QED BY <1>1, <2>1, <2>2, <2>3, <2>6 DEF left
<1> QED BY <1>2, <1>3

LEMMA OneMore ==
  ASSUME IdeInv, GotRight, Len(call.got) < call.count, Rest(drives[call.slave].left), UNCHANGED found,
         call' \in IdeCalls, call'.op = call.op, call'.slave = call.slave, call'.lba = call.lba, call'.count = call.count,
         call'.got = Append(call.got, Head(drives[call.slave].left)),
         drives'[call.slave].left = Tail(drives[call.slave].left)
  PROVE  /\ GotRight' /\ Len(call'.got) = Len(call.got) + 1
         /\ Len(call.got) + 1 < call.count => Comes(drives[call.slave])'
<1> DEFINE left == drives[call.slave].left
           k == Len(call.got)
           nth(i) == Sector(call.slave, call.lba + k + i - 1)
<1>1. call \in IdeCalls /\ DrivesKept
  BY DEF IdeInv
<1>2. call.got \in Offers /\ call.slave \in Slaves /\ call.lba \in Nat /\ call.count \in Nat /\ k \in Nat
  BY <1>1, IdeAssumption, OffersMade DEF IdeCalls, Third
<1>3. left \in Offers /\ Len(left) = call.count - k /\ \A i \in 1 .. Len(left) : left[i] = nth(i)
  BY <1>1, <1>2 DEF DrivesKept, DriveRecords, Rest
<1>4. call'.got = Append(call.got, Head(left)) /\ drives'[call.slave].left = Tail(left) /\ k < call.count
  OBVIOUS
<1>5. \A i \in 1 .. k : call.got[i] = Sector(call.slave, call.lba + i - 1)
  BY DEF GotRight
<1> HIDE DEF left
<1>6. left # <<>> /\ Len(left) \in Nat
  BY <1>3, <1>4, <1>2, OffersMade
<1>7. Head(left) = left[1] /\ left[1] \in Items /\ left[1] = Sector(call.slave, call.lba + k)
  <2>1. Head(left) = left[1] /\ left[1] \in Items
    BY <1>3, <1>6, OffersMade
  <2>2. left[1] = nth(1) /\ call.lba + k + 1 - 1 = call.lba + k
    BY <1>2, <1>3, <1>4
  <2> QED BY <2>1, <2>2
<1>8. /\ Tail(left) \in Offers /\ Len(Tail(left)) = Len(left) - 1
      /\ \A i \in 1 .. Len(left) - 1 : Tail(left)[i] = left[i + 1]
  BY <1>3, <1>6, OffersMade
<1>9. /\ Len(call'.got) = k + 1 /\ call'.got[k + 1] = Sector(call.slave, call.lba + k)
      /\ \A i \in 1 .. k : call'.got[i] = call.got[i]
  BY <1>2, <1>4, <1>7, OffersMade
<1> HIDE DEF Items, Offers, Sector, k
<1>10. GotRight'
  <2>1. ASSUME NEW i \in 1 .. k + 1 PROVE call'.got[i] = Sector(call.slave, call.lba + i - 1)
    <3>1. CASE i \in 1 .. k
      BY <3>1, <1>5, <1>9
    <3>2. CASE i = k + 1
      <4>1. call.lba + i - 1 = call.lba + k
        BY <3>2, <1>2
      <4> QED BY <3>2, <4>1, <1>9
    <3>3. i \in 1 .. k \/ i = k + 1
      BY ONLY <1>2
    <3> QED BY <3>1, <3>2, <3>3
  <2>2. k + 1 <= call.count
    BY <1>2, <1>4
  <2> QED BY <2>1, <2>2, <1>9 DEF GotRight
<1>11. Rest(drives[call.slave].left)'
  <2> DEFINE t == Tail(left)
  <2>1. Len(t) = call.count - (k + 1)
    BY <1>2, <1>3, <1>8
  <2>2. ASSUME NEW i \in 1 .. Len(t) PROVE t[i] = Sector(call.slave, call.lba + (k + 1) + i - 1)
    <3>1. i \in 1 .. Len(left) - 1 /\ i + 1 \in 1 .. Len(left)
      BY <1>6, <1>8
    <3>2. t[i] = nth(i + 1)
      BY <3>1, <1>3, <1>8
    <3>3. call.lba + k + (i + 1) - 1 = call.lba + (k + 1) + i - 1
      <4>1. i \in Int /\ call.lba \in Int /\ k \in Int
        BY ONLY <1>2
      <4> QED BY ONLY <4>1
    <3> QED BY <3>2, <3>3
  <2>3. t = drives'[call.slave].left
    BY <1>4
  <2> HIDE DEF t
  <2>4. /\ Len(drives'[call'.slave].left) = call'.count - Len(call'.got)
        /\ \A i \in 1 .. Len(drives'[call'.slave].left) :
             drives'[call'.slave].left[i] = Sector(call'.slave, call'.lba + Len(call'.got) + i - 1)
    BY <2>1, <2>2, <2>3, <1>9
  <2> QED BY <2>4 DEF Rest
<1>12. ASSUME k + 1 < call.count PROVE Comes(drives[call.slave])'
  <2>1. (Len(call.got) < call.count)'
    BY <1>12, <1>9
  <2> QED BY <2>1, <1>11 DEF Comes
<1> QED BY <1>9, <1>10, <1>12 DEF k

LEMMA InputKeeps ==
  ASSUME IdeInv, send_command_pVlA_Input
  PROVE  IdeInv'
<1> HIDE DEF Items, Offers, Places
<1>1. /\ BusKept /\ DrivesKept /\ FoundKept /\ call \in IdeCalls /\ ReadKept
      /\ call.at = "data" /\ UNCHANGED <<bus, found>> /\ ~IsBusy
  BY DEF IdeInv, send_command_pVlA_Input, At
<1>2. call.slave \in Slaves /\ call.got \in Offers /\ bus.slave \in Slaves /\ Len(call.got) \in Nat /\ call.count \in Nat
  BY <1>1, OffersMade DEF IdeCalls, BusKept
<1>3. "data" \in Places /\ "check" \in Places
  BY DEF Places, ReadPlaces
<1>4. CASE Failed
  <2>1. Looks /\ Goes("check") /\ drives[bus.slave].state = "error"
    BY <1>4 DEF send_command_pVlA_Input, Failed, Drive
  <2>2. BusKept' /\ DrivesKept' /\ FoundKept' /\ UNCHANGED drives
    BY <1>1, <2>1, LooksKeeps DEF Looks
  <2>3. call' \in IdeCalls /\ call'.at = "check" /\ SameCall
    BY <1>1, <1>3, <2>1, GoesTo DEF SameCall
  <2>4. (Sure' <=> Sure) /\ (GotRight' <=> GotRight)
    BY <1>1, <2>3, SameIsSure
  <2>5. ReadKept'
    BY ONLY <1>1, <2>1, <2>2, <2>3, <2>4 DEF ReadKept, SameCall, ReadPlaces
  <2> QED BY <2>2, <2>3, <2>5 DEF IdeInv
<1>5. CASE ~Failed
  <2> DEFINE p == IF Len(call.got) + 1 < call.count THEN "data" ELSE "check"
  <2>1. Handed /\ call' = [call EXCEPT !.got = Append(@, Offered), !.at = p]
    BY <1>5 DEF send_command_pVlA_Input
  <2>2. /\ BusKept' /\ DrivesKept' /\ FoundKept' /\ Offered \in Items
        /\ Wanted => /\ drives'[bus.slave].left = Tail(drives[bus.slave].left)
                     /\ Offered = Head(drives[bus.slave].left)
    BY <1>1, <2>1, HandedOver
  <2>3. /\ p \in Places /\ p \in {"data", "check"}
        /\ p = "data" <=> Len(call.got) + 1 < call.count
    BY <1>3
  <2> HIDE DEF p
  <2>4. /\ call' \in IdeCalls /\ call'.at = p /\ call'.op = call.op /\ call'.slave = call.slave
        /\ call'.lba = call.lba /\ call'.count = call.count /\ call'.got = Append(call.got, Offered)
    <3>1. Append(call.got, Offered) \in Offers
      BY <1>2, <2>2, OffersMade
    <3> QED BY <3>1, <2>1, <2>3, <1>1 DEF IdeCalls
  <2>5. ASSUME call.op = "read"
        PROVE  /\ bus.slave = call.slave /\ found[call.slave] = "ata"
               /\ Sure' => /\ GotRight' /\ Len(call'.got) = Len(call.got) + 1 /\ Len(call.got) < call.count
                           /\ p = "data" => Comes(drives[call.slave])'
    <3>1. bus.slave = call.slave /\ found[call.slave] = "ata"
      BY <2>5, <1>1 DEF ReadKept
    <3>2. SUFFICES ASSUME Sure'
                   PROVE  /\ GotRight' /\ Len(call'.got) = Len(call.got) + 1 /\ Len(call.got) < call.count
                          /\ p = "data" => Comes(drives[call.slave])'
      BY <3>1
    <3>3. Sure
      BY <3>2, <2>4, <1>1 DEF Sure
    <3>4. GotRight /\ Comes(drives[call.slave])
      BY <3>3, <2>5, <1>1 DEF ReadKept
    <3> DEFINE d == drives[call.slave]
    <3>5. /\ d.state \in DriveStates /\ d.left \in Offers /\ d.kind = "ata" /\ d.state # "error" /\ d.state # "busy"
          /\ d.state = "idle" => d.left = <<>>
      BY <3>1, <1>1, <1>2, <1>5 DEF DrivesKept, DriveRecords, FoundKept, Failed, IsBusy, Drive
    <3>6. Len(call.got) < call.count /\ Rest(d.left)
      BY <3>4, <3>5 DEF Comes
    <3>7. d.left # <<>>
      BY <3>6, <1>2 DEF Rest
    <3>8. Wanted
      BY <3>1, <3>5, <3>7 DEF Wanted, Drive, DriveStates
    <3>9. /\ GotRight' /\ Len(call'.got) = Len(call.got) + 1
          /\ Len(call.got) + 1 < call.count => Comes(drives[call.slave])'
      <4>1. UNCHANGED found
        BY <1>1
      <4>2. /\ call'.got = Append(call.got, Head(drives[call.slave].left))
            /\ drives'[call.slave].left = Tail(drives[call.slave].left)
        BY <3>1, <3>8, <2>2, <2>4
      <4> QED BY <4>1, <4>2, <2>4, <3>4, <3>6, OneMore
    <3> QED BY <3>6, <3>9, <2>3
  <2>6. ReadKept'
    <3>1. SUFFICES ASSUME call.op = "read" PROVE ReadKept'
      BY <2>4 DEF ReadKept
    <3>2. /\ bus.slave = call.slave /\ found[call.slave] = "ata"
          /\ Sure' => /\ GotRight' /\ Len(call'.got) = Len(call.got) + 1 /\ Len(call.got) < call.count
                      /\ p = "data" => Comes(drives[call.slave])'
      BY <2>5, <3>1
    <3>3. Sure' /\ p = "check" => Len(call'.got) = call'.count
      BY <3>2, <2>3, <2>4, <1>2
    <3> QED BY ONLY <3>1, <3>2, <3>3, <2>3, <2>4, <1>1 DEF ReadKept, ReadPlaces
  <2> QED BY <2>2, <2>4, <2>6 DEF IdeInv
<1> QED BY <1>4, <1>5

LEMMA PacketKeeps ==
  ASSUME IdeInv, send_command_packet
  PROVE  IdeInv'
<1> HIDE DEF Items, Offers, Places
<1>1. /\ BusKept /\ DrivesKept /\ FoundKept /\ call \in IdeCalls /\ ReadKept
      /\ call.at = "packet" /\ UNCHANGED <<bus, found>> /\ Goes("packet wanted")
  BY DEF IdeInv, send_command_packet, At
<1>2. bus.slave \in Slaves /\ bus' = bus /\ "packet wanted" \in Places
  BY <1>1 DEF BusKept, Places, ReadPlaces
<1>3. Becomes(bus.slave, "busy", <<Packet>>)
  BY <1>2 DEF send_command_packet, Takes
<1>4. DrivesKept' /\ FoundKept'
  <2>1. <<Packet>> \in Offers /\ <<Packet>> # <<>>
    BY ItemsOffered, Offered1
  <2> HIDE DEF Packet
  <2>2. "busy" \in DriveStates /\ UNCHANGED found /\ ("busy" = "idle" => <<Packet>> = <<>>)
    BY <1>1 DEF DriveStates
  <2> QED BY <1>1, <1>2, <1>3, <2>1, <2>2, BecomesKeeps
<1>5. BusKept'
  BY <1>1 DEF BusKept
<1>6. call' \in IdeCalls /\ call'.at = "packet wanted" /\ SameCall
  BY <1>1, <1>2, GoesTo DEF SameCall
<1>7. (Sure' <=> Sure) /\ (GotRight' <=> GotRight)
  BY <1>1, <1>6, SameIsSure
<1>8. ReadKept'
  BY ONLY <1>1, <1>6, <1>7 DEF ReadKept, SameCall, ReadPlaces
<1> QED BY <1>4, <1>5, <1>6, <1>8 DEF IdeInv

LEMMA WrittenKeeps ==
  ASSUME IdeInv, packet_written
  PROVE  IdeInv'
<1> HIDE DEF Items, Offers, Places
<1>1. /\ BusKept /\ DrivesKept /\ FoundKept /\ call \in IdeCalls /\ ReadKept
      /\ call.at = "packet wanted" /\ UNCHANGED <<bus, found>>
  BY DEF IdeInv, packet_written, At
<1>2. /\ bus.slave \in Slaves /\ bus' = bus /\ call.slave \in Slaves /\ call.lba \in Nat /\ call.count \in Nat
      /\ "packet taken" \in Places /\ "failed" \in Places
  <2>1. "packet taken" \in Places /\ "failed" \in Places
    BY DEF Places, ReadPlaces
  <2>2. call.slave \in Slaves /\ call.lba \in Nat /\ call.count \in Nat
    <3>1. call.slave \in Slaves /\ call.lba \in 0 .. Third * Third - 1 /\ call.count \in Nat
      BY <1>1 DEF IdeCalls
    <3> QED BY ONLY <3>1
  <2>3. bus.slave \in Slaves /\ bus' = bus
    BY <1>1 DEF BusKept
  <2> QED BY <2>1, <2>2, <2>3
<1>3. BusKept'
  BY <1>1 DEF BusKept
<1> DEFINE ask == [lba |-> call.lba, count |-> call.count]
<1>4. PICK p \in {"failed", "packet taken"} :
        /\ Goes(p) /\ DrivesKept' /\ FoundKept'
        /\ p = "packet taken" /\ call.count # 0 =>
             drives'[bus.slave].state = "error" \/ drives'[bus.slave].left = Blocks(bus.slave, ask)
  <2>1. CASE Failed
    <3>1. Looks /\ Goes("failed")
      BY <2>1 DEF packet_written
    <3>2. DrivesKept' /\ FoundKept'
      BY <3>1, <1>1, LooksKeeps
    <3> QED BY <3>1, <3>2
  <2>2. CASE ~Failed /\ call.count = 0
    <3>1. Becomes(bus.slave, "busy", <<>>) /\ Goes("packet taken")
      BY <2>2, <1>2 DEF packet_written, Takes
    <3>2. <<>> \in Offers
      BY Offered1
    <3>3. DrivesKept' /\ FoundKept'
      BY <3>1, <3>2, <1>1, <1>2, BecomesKeeps DEF DriveStates
    <3> QED BY <2>2, <3>1, <3>3
  <2>3. CASE ~Failed /\ call.count # 0
    <3>1. Answers(ask) /\ Goes("packet taken")
      BY <2>3 DEF packet_written
    <3>2. ask.lba \in Nat /\ ask.count \in Nat /\ bus'.slave = bus.slave /\ UNCHANGED found
      BY <1>1, <1>2
    <3> HIDE DEF ask
    <3>3. /\ DrivesKept' /\ FoundKept'
          /\ drives'[bus.slave].state = "error" \/ drives'[bus.slave].left = Blocks(bus.slave, ask)
      BY <3>1, <3>2, <1>1, <1>2, AnswersTo
    <3> QED BY <3>1, <3>3
  <2> QED BY <2>1, <2>2, <2>3
<1>5. call' \in IdeCalls /\ call'.at = p /\ SameCall
  BY <1>1, <1>2, <1>4, GoesTo DEF SameCall
<1>6. (Sure' <=> Sure) /\ (GotRight' <=> GotRight)
  BY <1>1, <1>5, SameIsSure
<1>7. ASSUME call.op = "read", Sure, p = "packet taken" PROVE Comes(drives[call.slave])'
  <2>1. bus.slave = call.slave /\ call.got = <<>> /\ call.count # 0
    BY <1>7, <1>1 DEF ReadKept, Sure
  <2>2. /\ call'.slave = call.slave /\ call'.got = <<>> /\ call'.count # 0
        /\ ask = [lba |-> call'.lba, count |-> call'.count]
    BY <2>1, <1>5 DEF SameCall
  <2>3. \/ drives'[call'.slave].state = "error"
        \/ drives'[call'.slave].left = Blocks(call'.slave, [lba |-> call'.lba, count |-> call'.count])
    BY <1>4, <1>7, <2>1, <2>2
  <2> QED BY <1>5, <2>2, <2>3, WholeNext DEF Blocks
<1>8. ReadKept'
  BY ONLY <1>1, <1>4, <1>5, <1>6, <1>7 DEF ReadKept, SameCall, ReadPlaces
<1> QED BY <1>3, <1>4, <1>5, <1>8 DEF IdeInv

LEMMA PacketInputKeeps ==
  ASSUME IdeInv, send_command_packet_input
  PROVE  IdeInv'
<1> HIDE DEF Items, Offers, Places
<1>1. /\ BusKept /\ DrivesKept /\ FoundKept /\ call \in IdeCalls /\ ReadKept
      /\ call.at = "packet data" /\ UNCHANGED <<bus, found>>
  BY DEF IdeInv, send_command_packet_input, At
<1>2. call.slave \in Slaves /\ call.got \in Offers /\ bus.slave \in Slaves /\ Len(call.got) \in Nat /\ call.count \in Nat
  BY <1>1, OffersMade DEF IdeCalls, BusKept
<1>3. "packet data" \in Places /\ "check" \in Places
  BY DEF Places, ReadPlaces
<1>4. ASSUME UNCHANGED <<bus, found>>, Goes("check"), BusKept', DrivesKept', FoundKept', call.op = "read" => found[call.slave] # "ata"
      PROVE  IdeInv'
  <2>1. call' \in IdeCalls /\ call'.at = "check" /\ SameCall
    BY <1>1, <1>3, <1>4, GoesTo DEF SameCall
  <2>2. (Sure' <=> Sure) /\ (GotRight' <=> GotRight)
    BY <1>1, <2>1, SameIsSure
  <2>3. ReadKept'
    BY ONLY <1>1, <1>4, <2>1, <2>2 DEF ReadKept, SameCall, ReadPlaces
  <2> QED BY <1>4, <2>1, <2>3 DEF IdeInv
<1>5. call.op = "read" => found[call.slave] = "atapi" /\ bus.slave = call.slave
  BY <1>1 DEF ReadKept
<1>6. CASE Failed
  <2>1. Looks /\ Goes("check")
    BY <1>6 DEF send_command_packet_input
  <2>2. BusKept' /\ DrivesKept' /\ FoundKept'
    BY <1>1, <2>1, LooksKeeps
  <2> QED BY <1>1, <1>4, <1>5, <2>1, <2>2
<1>7. CASE ~Failed
  <2> DEFINE whole == Offered[1] = "sector"
             p == IF whole /\ Len(call.got) + 1 < call.count THEN "packet data" ELSE "check"
  <2>1. Wanted /\ Handed /\ call' = [call EXCEPT !.got = IF whole THEN Append(@, Offered) ELSE @, !.at = p]
    BY <1>7 DEF send_command_packet_input
  <2>2. /\ BusKept' /\ DrivesKept' /\ FoundKept' /\ Offered \in Items
        /\ drives'[bus.slave].left = Tail(drives[bus.slave].left)
        /\ Offered = Head(drives[bus.slave].left) /\ drives[bus.slave].left # <<>>
    BY <1>1, <2>1, HandedOver
  <2>3. CASE ~whole
    <3>1. call' = [call EXCEPT !.at = "check"]
      BY <2>1, <2>3, <1>1 DEF IdeCalls
    <3> QED BY <1>1, <1>4, <1>5, <2>2, <3>1 DEF Goes
  <2>4. CASE whole
    <3>1. /\ p \in Places /\ p \in {"packet data", "check"}
          /\ p = "packet data" <=> Len(call.got) + 1 < call.count
      BY <1>3, <2>4
    <3>2. call' = [call EXCEPT !.got = Append(call.got, Offered), !.at = p]
      BY <2>1, <2>4
    <3> HIDE DEF p
    <3>3. /\ call' \in IdeCalls /\ call'.at = p /\ call'.op = call.op /\ call'.slave = call.slave
          /\ call'.lba = call.lba /\ call'.count = call.count /\ call'.got = Append(call.got, Offered)
      <4>1. Append(call.got, Offered) \in Offers
        BY <1>2, <2>2, OffersMade
      <4> QED BY <4>1, <3>1, <3>2, <1>1 DEF IdeCalls
    <3>4. ASSUME call.op = "read", Sure'
          PROVE  GotRight' /\ (p = "packet data" => Comes(drives[call.slave])')
      <4>1. Sure
        BY <3>4, <3>3, <1>1 DEF Sure
      <4>2. GotRight /\ Comes(drives[call.slave]) /\ bus.slave = call.slave
        BY <4>1, <3>4, <1>1 DEF ReadKept
      <4>3. drives[call.slave].left[1][1] = "sector"
        <5>1. drives[call.slave].left \in Offers
          BY <1>1, <1>2 DEF DrivesKept, DriveRecords
        <5>2. Head(drives[call.slave].left) = drives[call.slave].left[1]
          BY <5>1, <2>2, <4>2, OffersMade
        <5> QED BY <5>2, <2>2, <2>4, <4>2
      <4>4. Len(call.got) < call.count /\ Rest(drives[call.slave].left)
        BY <4>2, <4>3, <1>7 DEF Comes, Failed, Drive
      <4>5. UNCHANGED found
        BY <1>1
      <4>6. /\ call'.got = Append(call.got, Head(drives[call.slave].left))
            /\ drives'[call.slave].left = Tail(drives[call.slave].left)
        BY <4>2, <2>2, <3>3
      <4>7. /\ GotRight' /\ Len(call'.got) = Len(call.got) + 1
            /\ Len(call.got) + 1 < call.count => Comes(drives[call.slave])'
        BY <3>3, <4>2, <4>4, <4>5, <4>6, OneMore
      <4> QED BY <4>7, <3>1
    <3>5. ReadKept'
      BY ONLY <1>1, <1>5, <3>1, <3>3, <3>4 DEF ReadKept, ReadPlaces
    <3> QED BY <2>2, <3>3, <3>5 DEF IdeInv
  <2> QED BY <2>3, <2>4
<1> QED BY <1>6, <1>7

-----------------------------------------------------------------------------

LEMMA IdeStepKeeps == IdeInv /\ [IdeNext]_ideVars => IdeInv'
<1> SUFFICES ASSUME IdeInv, [IdeNext]_ideVars PROVE IdeInv'
  OBVIOUS
<1>1. CASE DriveStep
  BY <1>1, DriveStepKeeps
<1>2. CASE DriverStep
  BY <1>2, ResetKeeps, LookKeeps, DetectKeeps, SwitchKeeps, SwitchedKeeps, IdentifyKeeps, CommandKeeps, WaitKeeps,
     InputKeeps, PacketKeeps, WrittenKeeps, PacketInputKeeps, ProbeKeeps DEF DriverStep
<1>3. CASE read_blocks
  BY <1>3, ReadBegins
<1>4. CASE UNCHANGED ideVars
  BY <1>4 DEF ideVars, IdeInv, BusKept, DrivesKept, FoundKept, ReadKept, Sure, GotRight, Comes, Rest
<1> QED BY <1>1, <1>2, <1>3, <1>4 DEF IdeNext

(* For any width of a register, any drives and any requests: a read that     *)
(* succeeds has the blocks that were asked for, of the drive that was asked, *)
(* in order, whatever the drives do and when.                                *)
THEOREM TransfersCorrect == IdeSpec => []TransfersAreRight
<1>1. IdeInit => IdeInv
  <2> SUFFICES ASSUME IdeInit PROVE IdeInv
    OBVIOUS
  <2>1. BusKept
    BY DEF IdeInit, BusKept, RegisterFile, Slaves
  <2>2. <<>> \in Offers
    BY Offered1
  <2> HIDE DEF Items, Offers
  <2>3. PICK k \in Kinds : drives = [s \in Slaves |-> [kind |-> k[s + 1], state |-> "idle", left |-> <<>>]]
    BY DEF IdeInit
  <2>4. \A s \in Slaves : k[s + 1] \in DriveKinds
    BY IdeAssumption DEF Slaves, DriveKinds
  <2>5. DrivesKept
    BY <2>2, <2>3, <2>4 DEF DrivesKept, DriveRecords, DriveStates
  <2>6. FoundKept
    BY DEF IdeInit, FoundKept, DriveKinds
  <2>7. call \in IdeCalls /\ call.op # "read"
    BY <2>2, ThirdCounts DEF IdeInit, IdeCalls, Places, Slaves
  <2> QED BY <2>1, <2>5, <2>6, <2>7 DEF IdeInv, ReadKept
<1> QED BY <1>1, KeptIsRight, IdeStepKeeps, PTL DEF IdeSpec

-----------------------------------------------------------------------------
(* The partitions that are registered *)

\* Tables and how far they are read; an entry that names a table lies before
\* what is inside.
EntryPlaces == (0 .. Room) \X (0 .. PerTable)
Told(d, f, x) ==
    LET b == x[1]
        i == x[2]
        e == On(d, b).entries[i]
    IN IF i = 0 \/ ~TableAt(d, b) THEN <<>>
       ELSE f[<<b, i - 1>>] \o
              CASE e.type = "none" -> <<>>
                [] e.type = "extended" -> f[<<b + e.base, PerTable>>]
                [] OTHER -> <<[base |-> b + e.base, limit |-> b + e.base + e.count - 1]>>
Tells(d, f) == f = [x \in EntryPlaces |-> Told(d, f, x)]
Depth(x) == (Room - x[1]) * (PerTable + 1) + x[2]
ToldTo(d, f, k) == f = [x \in {y \in EntryPlaces : Depth(y) < k} |-> Told(d, f, x)]

LEMMA MoreThanOne ==
  ASSUME NEW a \in Nat \ {0}, NEW n \in Nat
  PROVE  a * n \in Nat /\ a * n >= n
<1>1. a - 1 \in Nat
  OBVIOUS
<1>2. PICK c \in Nat : c = a - 1
  BY <1>1
<1>3. c * n \in Nat
  OBVIOUS
<1>4. a * n = c * n + n
  BY <1>2
<1> QED BY <1>3, <1>4

LEMMA DepthIsNat ==
  ASSUME NEW x \in EntryPlaces
  PROVE  Depth(x) \in Nat
<1>1. x[1] \in 0 .. Room /\ x[2] \in 0 .. PerTable /\ Room - x[1] \in Nat /\ PerTable + 1 \in Nat
  BY PartitionAssumption DEF EntryPlaces
<1>2. (Room - x[1]) * (PerTable + 1) \in Nat
  <2> PICK m \in Nat, n \in Nat : m = Room - x[1] /\ n = PerTable + 1
    BY <1>1
  <2>1. m * n \in Nat
    OBVIOUS
  <2> QED BY <2>1
<1> QED BY <1>1, <1>2 DEF Depth

LEMMA EntryIs ==
  ASSUME NEW d \in Disks, NEW b, TableAt(d, b), NEW i \in 1 .. PerTable
  PROVE  On(d, b).entries[i] \in EntryRecords
<1>1. b \in DOMAIN d
  BY DEF TableAt, On
<1> QED BY <1>1, PartitionAssumption DEF TableAt

\* The cells before an entry, and those inside of it, are nearer the end.
LEMMA DepthFalls ==
  ASSUME NEW d \in Disks, NEW x \in EntryPlaces, x[2] # 0, TableAt(d, x[1]),
         NEW e, e = On(d, x[1]).entries[x[2]]
  PROVE  /\ e \in EntryRecords
         /\ <<x[1], x[2] - 1>> \in EntryPlaces /\ Depth(<<x[1], x[2] - 1>>) < Depth(x)
         /\ e.type = "extended" =>
              <<x[1] + e.base, PerTable>> \in EntryPlaces /\ Depth(<<x[1] + e.base, PerTable>>) < Depth(x)
<1>0. PerTable \in Nat /\ Room \in Nat /\ Behind(d)
  BY PartitionAssumption
<1>1. x[1] \in 0 .. Room /\ x[2] \in 1 .. PerTable
  BY <1>0 DEF EntryPlaces
<1>2. e \in EntryRecords
  BY <1>1, EntryIs
<1>3. <<x[1], x[2] - 1>> \in EntryPlaces
  BY <1>0, <1>1 DEF EntryPlaces
<1>4. PICK r \in Nat : r = Room - x[1]
  BY <1>0, <1>1
<1>5. PICK w \in Nat : w = PerTable + 1
  BY <1>0
<1>6. r * w \in Nat /\ Depth(x) = r * w + x[2]
  BY <1>4, <1>5 DEF Depth
<1>7. Depth(<<x[1], x[2] - 1>>) = r * w + (x[2] - 1)
  BY <1>4, <1>5 DEF Depth
<1>8. ASSUME e.type = "extended"
      PROVE  <<x[1] + e.base, PerTable>> \in EntryPlaces /\ Depth(<<x[1] + e.base, PerTable>>) < Depth(x)
  <2>1. e.base \in Nat \ {0} /\ x[1] + e.base <= Room
    BY <1>0, <1>1, <1>2, <1>8 DEF Behind, EntryRecords
  <2>2. <<x[1] + e.base, PerTable>> \in EntryPlaces
    BY <1>0, <1>1, <2>1 DEF EntryPlaces
  <2>3. PICK c \in Nat \ {0} : c = e.base
    BY <2>1
  <2>4. r - c \in Nat
    BY <1>0, <1>1, <1>4, <2>1, <2>3
  <2>5. PICK s \in Nat : s = r - c
    BY <2>4
  <2>6. r * w = s * w + c * w
    BY <2>5
  <2>7. c * w \in Nat /\ c * w >= w
    BY MoreThanOne
  <2>8. Room - (x[1] + e.base) = s
    BY <1>0, <1>1, <1>4, <2>1, <2>3, <2>5
  <2>9. Depth(<<x[1] + e.base, PerTable>>) = s * w + PerTable
    BY <1>5, <2>8 DEF Depth
  <2>10. s * w \in Nat
    OBVIOUS
  <2> QED BY <1>0, <1>1, <1>5, <1>6, <2>2, <2>6, <2>7, <2>9, <2>10
<1> QED BY <1>1, <1>2, <1>3, <1>6, <1>7, <1>8

\* What is told depends on what is nearer the end only.
LEMMA ToldAlike ==
  ASSUME NEW d \in Disks, NEW x \in EntryPlaces, NEW f, NEW g,
         \A y \in EntryPlaces : Depth(y) < Depth(x) => f[y] = g[y]
  PROVE  Told(d, f, x) = Told(d, g, x)
<1>1. CASE x[2] = 0 \/ ~TableAt(d, x[1])
  BY <1>1 DEF Told
<1>2. CASE x[2] # 0 /\ TableAt(d, x[1])
  <2> DEFINE e == On(d, x[1]).entries[x[2]]
  <2>1. f[<<x[1], x[2] - 1>>] = g[<<x[1], x[2] - 1>>]
    BY <1>2, DepthFalls
  <2>2. e.type = "extended" => f[<<x[1] + e.base, PerTable>>] = g[<<x[1] + e.base, PerTable>>]
    BY <1>2, DepthFalls
  <2> QED BY <2>1, <2>2 DEF Told
<1> QED BY <1>1, <1>2

LEMMA ToldFurther ==
  ASSUME NEW d \in Disks, NEW k \in Nat, NEW f, ToldTo(d, f, k)
  PROVE  \E g : ToldTo(d, g, k + 1)
<1> DEFINE D(m) == {y \in EntryPlaces : Depth(y) < m}
           g == [x \in D(k + 1) |-> Told(d, f, x)]
<1>1. \A y \in D(k) : f[y] = Told(d, f, y)
  <2>1. \A h : h = [x \in D(k) |-> Told(d, f, x)] => \A y \in D(k) : h[y] = Told(d, f, y)
    OBVIOUS
  <2> QED BY <2>1 DEF ToldTo
<1>2. \A y \in D(k) : y \in D(k + 1)
  BY DepthIsNat
<1>3. \A y \in D(k) : f[y] = g[y]
  BY <1>1, <1>2
<1>4. ASSUME NEW x \in D(k + 1)
      PROVE  Told(d, f, x) = Told(d, g, x)
  <2>1. ASSUME NEW y \in EntryPlaces, Depth(y) < Depth(x)
        PROVE  f[y] = g[y]
    <3>1. Depth(y) \in Nat /\ Depth(x) \in Nat /\ Depth(x) < k + 1
      BY DepthIsNat
    <3>2. Depth(y) < k
      BY <2>1, <3>1
    <3> QED BY <1>3, <3>2
  <2>2. x \in EntryPlaces
    OBVIOUS
  <2> HIDE DEF g
  <2> QED BY <2>1, <2>2, ToldAlike
<1>5. g = [x \in D(k + 1) |-> Told(d, g, x)]
  <2>1. PICK h : h = g
    OBVIOUS
  <2>2. \A x \in D(k + 1) : Told(d, f, x) = Told(d, h, x)
    BY <1>4, <2>1
  <2>3. h = [x \in D(k + 1) |-> Told(d, f, x)]
    BY <2>1
  <2>4. h = [x \in D(k + 1) |-> Told(d, h, x)]
    BY ONLY <2>2, <2>3
  <2> QED BY <2>1, <2>4
<1> QED BY <1>5 DEF ToldTo

LEMMA ToldSomehow ==
  ASSUME NEW d \in Disks
  PROVE  \A k \in Nat : \E f : ToldTo(d, f, k)
<1> DEFINE T == {k \in Nat : ~\E f : ToldTo(d, f, k)}
<1>1. SUFFICES ASSUME T # {} PROVE FALSE
  OBVIOUS
<1>2. PICK k \in T : \A u \in T : k <= u
  <2>1. T \in SUBSET Nat
    OBVIOUS
  <2> HIDE DEF T
  <2> QED BY <1>1, <2>1, LeastNatural
<1>3. k # 0
  <2>1. {y \in EntryPlaces : Depth(y) < 0} = {}
    BY DepthIsNat
  <2>2. PICK f : f = [x \in {} |-> 0]
    OBVIOUS
  <2>3. f = [x \in {y \in EntryPlaces : Depth(y) < 0} |-> Told(d, f, x)]
    BY <2>1, <2>2
  <2>4. ToldTo(d, f, 0)
    BY <2>3 DEF ToldTo
  <2> QED BY <2>4
<1>4. k - 1 \in Nat /\ k - 1 \notin T /\ (k - 1) + 1 = k
  BY <1>2, <1>3
<1>5. PICK f : ToldTo(d, f, k - 1)
  BY <1>4
<1>6. \E g : ToldTo(d, g, k)
  BY <1>4, <1>5, ToldFurther
<1> QED BY <1>6

\* So what tables describe is told by an equation.
LEMMA NestedTells ==
  ASSUME NEW d \in Disks
  PROVE  Tells(d, Nested(d))
<1> DEFINE K == (Room + 1) * (PerTable + 1) + 1
<1>0. Room \in Nat /\ PerTable \in Nat
  BY PartitionAssumption
<1>1. K \in Nat
  <2> PICK m \in Nat, n \in Nat : m = Room + 1 /\ n = PerTable + 1
    BY <1>0
  <2>1. m * n \in Nat
    OBVIOUS
  <2> QED BY <2>1
<1>2. ASSUME NEW y \in EntryPlaces
      PROVE  Depth(y) < K
  <2>1. y[1] \in 0 .. Room /\ y[2] \in 0 .. PerTable
    BY DEF EntryPlaces
  <2>2. PICK b \in Nat : b = y[1] + 1
    BY <2>1
  <2>3. PICK r \in Nat : r = Room - y[1]
    BY <1>0, <2>1
  <2>4. PICK w \in Nat : w = PerTable + 1
    BY <1>0
  <2>5. Room + 1 = r + b
    BY <1>0, <2>1, <2>2, <2>3
  <2>6. (r + b) * w = r * w + b * w
    OBVIOUS
  <2>7. b * w >= w /\ b * w \in Nat
    BY <2>1, <2>2, MoreThanOne
  <2>8. Depth(y) = r * w + y[2]
    BY <2>3, <2>4 DEF Depth
  <2>9. K = r * w + b * w + 1
    BY <2>4, <2>5, <2>6
  <2>10. r * w \in Nat
    OBVIOUS
  <2> HIDE DEF K
  <2> QED BY <1>0, <2>1, <2>4, <2>7, <2>8, <2>9, <2>10
<1>3. {y \in EntryPlaces : Depth(y) < K} = EntryPlaces
  BY <1>2
<1>4. PICK f : ToldTo(d, f, K)
  BY <1>1, ToldSomehow
<1>5. Tells(d, f)
  BY <1>3, <1>4 DEF ToldTo, Tells
<1> DEFINE upto == CHOOSE g : Tells(d, g)
<1>6. Tells(d, upto)
  BY <1>5
<1>7. Nested(d) = upto
  BY Zenon DEF Nested, Tells, Told, EntryPlaces
<1> QED BY <1>6, <1>7

LEMMA NestedIs ==
  ASSUME NEW d \in Disks, NEW x \in EntryPlaces
  PROVE  Nested(d)[x] = Told(d, Nested(d), x)
<1>1. \A h : h = [y \in EntryPlaces |-> Told(d, Nested(d), y)] => h[x] = Told(d, Nested(d), x)
  OBVIOUS
<1> QED BY <1>1, NestedTells DEF Tells

LEMMA NestedIsSeq ==
  ASSUME NEW d \in Disks
  PROVE  \A x \in EntryPlaces : Nested(d)[x] \in Seq(PartRecords)
<1> DEFINE B == {x \in EntryPlaces : Nested(d)[x] \notin Seq(PartRecords)}
           T == {Depth(x) : x \in B}
<1>1. SUFFICES ASSUME B # {} PROVE FALSE
  OBVIOUS
<1>2. PICK t \in T : \A u \in T : t <= u
  <2>1. T \in SUBSET Nat /\ T # {}
    BY <1>1, DepthIsNat
  <2> HIDE DEF T
  <2> QED BY <2>1, LeastNatural
<1>3. PICK x \in B : t = Depth(x)
  OBVIOUS
<1>4. ASSUME NEW y \in EntryPlaces, Depth(y) < Depth(x)
      PROVE  Nested(d)[y] \in Seq(PartRecords)
  <2>1. y \in B => Depth(y) \in T
    OBVIOUS
  <2>2. Depth(y) \in Nat /\ Depth(x) \in Nat
    BY DepthIsNat
  <2>3. y \notin B
    <3> HIDE DEF T, B
    <3> QED BY <1>2, <1>3, <1>4, <2>1, <2>2
  <2> QED BY <2>3
<1> DEFINE e == On(d, x[1]).entries[x[2]]
<1>5. Nested(d)[x] = Told(d, Nested(d), x)
  BY NestedIs
<1>6. CASE x[2] = 0 \/ ~TableAt(d, x[1])
  <2>1. Nested(d)[x] = <<>>
    BY <1>5, <1>6 DEF Told
  <2>2. Nested(d)[x] \notin Seq(PartRecords)
    OBVIOUS
  <2>3. <<>> \in Seq(PartRecords)
    OBVIOUS
  <2> HIDE DEF B
  <2> QED BY <2>1, <2>2, <2>3
<1>7. CASE x[2] # 0 /\ TableAt(d, x[1])
  <2>0. x \in EntryPlaces /\ x[1] \in Nat
    BY PartitionAssumption DEF EntryPlaces
  <2>1. e \in EntryRecords /\ Nested(d)[<<x[1], x[2] - 1>>] \in Seq(PartRecords)
    BY <1>4, <1>7, DepthFalls
  <2>2. e.type = "extended" => Nested(d)[<<x[1] + e.base, PerTable>>] \in Seq(PartRecords)
    BY <1>4, <1>7, DepthFalls
  <2>3. [base |-> x[1] + e.base, limit |-> x[1] + e.base + e.count - 1] \in PartRecords
    BY <2>0, <2>1 DEF EntryRecords, PartRecords
  <2> HIDE DEF e
  <2>4. (CASE e.type = "none" -> <<>>
           [] e.type = "extended" -> Nested(d)[<<x[1] + e.base, PerTable>>]
           [] OTHER -> <<[base |-> x[1] + e.base, limit |-> x[1] + e.base + e.count - 1]>>) \in Seq(PartRecords)
    BY <2>2, <2>3
  <2>5. \A s, u : s \in Seq(PartRecords) /\ u \in Seq(PartRecords) => s \o u \in Seq(PartRecords)
    OBVIOUS
  <2> QED BY <1>5, <1>7, <2>1, <2>4, <2>5 DEF Told, e
<1> QED BY <1>6, <1>7

\* What the entries of a table describe, one after the other.
LEMMA UpToIs ==
  ASSUME NEW d \in Disks, NEW b \in 0 .. Room
  PROVE  /\ \A i \in 0 .. PerTable : UpTo(d, b, i) \in Seq(PartRecords)
         /\ UpTo(d, b, 0) = <<>>
         /\ TableAt(d, b) =>
              \A i \in 1 .. PerTable :
                  LET e == On(d, b).entries[i]
                  IN /\ e.type = "none" => UpTo(d, b, i) = UpTo(d, b, i - 1)
                     /\ e.type = "extended" =>
                          b + e.base \in 0 .. Room /\ UpTo(d, b, i) = UpTo(d, b, i - 1) \o UpTo(d, b + e.base, PerTable)
                     /\ e.type \notin {"none", "extended"} =>
                          UpTo(d, b, i) = Append(UpTo(d, b, i - 1), [base |-> b + e.base, limit |-> b + e.base + e.count - 1])
<1>0. PerTable \in Nat /\ Room \in Nat
  BY PartitionAssumption
<1>1. \A i \in 0 .. PerTable : <<b, i>> \in EntryPlaces
  BY DEF EntryPlaces
<1>2. \A i \in 0 .. PerTable : UpTo(d, b, i) \in Seq(PartRecords)
  BY <1>1, NestedIsSeq DEF UpTo
<1>3. UpTo(d, b, 0) = <<>>
  <2>1. <<b, 0>> \in EntryPlaces
    BY <1>0, <1>1
  <2>2. Nested(d)[<<b, 0>>] = Told(d, Nested(d), <<b, 0>>)
    BY <2>1, NestedIs
  <2> QED BY <2>2 DEF UpTo, Told
<1>4. ASSUME TableAt(d, b), NEW i \in 1 .. PerTable, NEW e, e = On(d, b).entries[i]
      PROVE  /\ e.type = "none" => UpTo(d, b, i) = UpTo(d, b, i - 1)
             /\ e.type = "extended" =>
                  b + e.base \in 0 .. Room /\ UpTo(d, b, i) = UpTo(d, b, i - 1) \o UpTo(d, b + e.base, PerTable)
             /\ e.type \notin {"none", "extended"} =>
                  UpTo(d, b, i) = Append(UpTo(d, b, i - 1), [base |-> b + e.base, limit |-> b + e.base + e.count - 1])
  <2>1. <<b, i>> \in EntryPlaces /\ i # 0 /\ i - 1 \in 0 .. PerTable
    BY <1>0, <1>1
  <2>2. UpTo(d, b, i) = Told(d, Nested(d), <<b, i>>)
    BY <2>1, NestedIs DEF UpTo
  <2>3. UpTo(d, b, i) = UpTo(d, b, i - 1) \o
              CASE e.type = "none" -> <<>>
                [] e.type = "extended" -> UpTo(d, b + e.base, PerTable)
                [] OTHER -> <<[base |-> b + e.base, limit |-> b + e.base + e.count - 1]>>
    BY <1>4, <2>1, <2>2 DEF Told, UpTo
  <2>4. UpTo(d, b, i - 1) \in Seq(PartRecords)
    BY <1>2, <2>1
  <2>5. PICK s \in Seq(PartRecords) : s = UpTo(d, b, i - 1)
    BY <2>4
  <2>6. e \in EntryRecords /\ (e.type = "extended" => b + e.base \in 0 .. Room)
    <3>1. e \in EntryRecords
      BY <1>4, EntryIs
    <3>2. e.type = "extended" => e.base > 0 /\ b + e.base <= Room
      BY <1>4, PartitionAssumption DEF Behind
    <3> QED BY <1>0, <3>1, <3>2 DEF EntryRecords
  <2>7. CASE e.type = "none"
    BY <2>3, <2>5, <2>7
  <2>8. CASE e.type = "extended"
    BY <2>3, <2>6, <2>8
  <2>9. CASE e.type \notin {"none", "extended"}
    <3> DEFINE r == [base |-> b + e.base, limit |-> b + e.base + e.count - 1]
    <3>1. UpTo(d, b, i) = s \o <<r>>
      BY <2>3, <2>5, <2>9
    <3>2. r \in PartRecords
      BY <2>6, PartitionAssumption DEF EntryRecords, PartRecords
    <3> HIDE DEF r
    <3>3. s \o <<r>> = Append(s, r)
      BY <3>2
    <3> QED BY <2>5, <2>9, <3>1, <3>3 DEF r
  <2> QED BY <2>7, <2>8, <2>9
<1> QED BY <1>2, <1>3, <1>4

\* The tables that are being read: each but the last one up to the entry that
\* names the inner, and what was registered before each.
Rows == [base : 0 .. Room, i : 0 .. PerTable + 1]
Inside(d, row, inner) ==
    /\ row.i - 1 \in 1 .. PerTable
    /\ LET e == On(d, row.base).entries[row.i - 1]
       IN e.type = "extended" /\ inner.base = row.base + e.base
Gathered(d, t, p, acc) ==
    /\ acc \in Seq(Seq(PartRecords)) /\ Len(acc) = Len(t) /\ acc[1] = <<>>
    /\ \A j \in 1 .. Len(t) - 1 : acc[j + 1] = acc[j] \o UpTo(d, t[j].base, t[j].i - 2)
    /\ p = acc[Len(t)] \o UpTo(d, t[Len(t)].base, IF t[Len(t)].i = 0 THEN 0 ELSE t[Len(t)].i - 1)
TablesInv ==
    /\ tables \in Seq(Rows) /\ tables # <<>> /\ tables[1].base = 0
    /\ \A j \in 1 .. Len(tables) : tables[j].i # 0 => TableAt(disk, tables[j].base)
    /\ tables[1].i # 0 => ~IsProtective(0)
    /\ \A j \in 1 .. Len(tables) - 1 : Inside(disk, tables[j], tables[j + 1])
    /\ \E acc : Gathered(disk, tables, parts, acc)

\* The entries of a list that were registered, and where the buffer is in it.
HeaderAt(d) == On(d, On(d, 0).entries[1].base)
InBuffer(header) ==
    \E turn, old \in Nat :
        /\ gpt.i = turn * gpt.size + gpt.at /\ gpt.lba = header.list + turn
        /\ old <= turn /\ gpt.buf = Content(header.list + old).entries
        /\ ~misread => old = turn
ListInv ==
    LET header == HeaderAt(disk)
    IN /\ IsProtective(0) /\ header.kind = "header"
       /\ gpt.n = header.n /\ gpt.size = header.size /\ gpt.i \in 0 .. gpt.n /\ gpt.at \in 0 .. gpt.size - 1
       /\ gpt = [lba |-> gpt.lba, buf |-> gpt.buf, at |-> gpt.at, size |-> gpt.size, i |-> gpt.i, n |-> gpt.n]
       /\ InBuffer(header)
       /\ parts \in Seq(PartRecords) /\ Len(parts) = gpt.i
       /\ ~misread => \A k \in 1 .. gpt.i :
            /\ Nth(disk, header, k).type # "none"
            /\ parts[k] = [base |-> Nth(disk, header, k).base, limit |-> Nth(disk, header, k).limit]

ReadingInv ==
    reading.part # 0 =>
        /\ step = "done" /\ reading.part \in 1 .. Len(parts)
        /\ reading.lba \in Lbas /\ reading.count \in ReadCounts
        /\ reading.sector = parts[reading.part].base + reading.lba
        /\ reading.got = Clipped(parts[reading.part], reading.lba, reading.count)

PartInv ==
    /\ disk \in Disks /\ step \in {"mbr", "gpt", "list", "done", "none"} /\ misread \in BOOLEAN
    /\ step = "mbr" => TablesInv
    /\ step = "gpt" => parts = <<>>
    /\ step = "list" => ListInv
    /\ step = "done" => parts \in Seq(PartRecords) /\ (~misread => parts = Described)
    /\ ReadingInv

LEMMA PartInvSuffices == PartInv => PartitionsAreRight
<1> SUFFICES ASSUME PartInv PROVE PartitionsAreRight
  OBVIOUS
<1>1. step = "done" /\ ~misread => parts = Described
  BY DEF PartInv
<1>2. ASSUME reading.part # 0
      PROVE  LET p == parts[reading.part]
                 left == p.limit - reading.sector
             IN left >= 0 => reading.got = IF reading.count < left THEN reading.count ELSE left
  <2>1. /\ parts \in Seq(PartRecords) /\ reading.part \in 1 .. Len(parts)
        /\ reading.lba \in Lbas /\ reading.count \in ReadCounts
        /\ reading.sector = parts[reading.part].base + reading.lba
        /\ reading.got = Clipped(parts[reading.part], reading.lba, reading.count)
    BY <1>2 DEF PartInv, ReadingInv
  <2>2. PICK p \in PartRecords : p = parts[reading.part]
    BY <2>1
  <2>3. p.base \in Int /\ p.limit \in Int
    BY DEF PartRecords
  <2>4. PICK lba \in Nat, count \in Nat : lba = reading.lba /\ count = reading.count /\ count < Wrap
    <3>1. reading.lba \in Nat /\ reading.count \in 0 .. Wrap - 1 /\ Wrap \in Nat
      BY <2>1, PartitionAssumption
    <3> QED BY <3>1
  <2>5. PICK over \in Int : over = p.base + lba + count - p.limit
    BY <2>3
  <2>6. PICK left \in Int : left = p.limit - (p.base + lba)
    BY <2>3
  <2>7. over = count - left
    BY <2>3, <2>5, <2>6
  <2>8. reading.got = IF over > 0 THEN (count - over) % Wrap ELSE count
    BY <2>1, <2>2, <2>4, <2>5 DEF Clipped
  <2>9. ASSUME left >= 0
        PROVE  reading.got = IF count < left THEN count ELSE left
    <3>1. CASE over > 0
      <4>1. count - over = left /\ left < count /\ left \in Nat
        BY <2>7, <2>9, <3>1
      <4>2. Wrap \in Nat /\ left < Wrap
        BY <2>4, <4>1, PartitionAssumption
      <4>3. left % Wrap = left
        BY <4>1, <4>2
      <4> QED BY <2>8, <3>1, <4>1, <4>3
    <3>2. CASE ~(over > 0)
      <4>1. count <= left
        BY <2>7, <3>2
      <4> QED BY <2>8, <3>2, <4>1
    <3> QED BY <3>1, <3>2
  <2> QED BY <2>1, <2>2, <2>4, <2>6, <2>9
<1> QED BY <1>1, <1>2 DEF PartitionsAreRight

LEMMA PartStart == PartitionInit => PartInv
<1> SUFFICES ASSUME PartitionInit PROVE PartInv
  OBVIOUS
<1>0. Room \in Nat /\ PerTable \in Nat /\ disk \in Disks
  BY PartitionAssumption DEF PartitionInit
<1>1. tables \in Seq(Rows) /\ Len(tables) = 1 /\ tables[1] = [base |-> 0, i |-> 0]
  BY <1>0 DEF PartitionInit, Rows
<1>2. UpTo(disk, 0, 0) = <<>>
  BY <1>0, UpToIs
<1>3. \E acc : Gathered(disk, tables, parts, acc)
  <2>1. PICK none \in Seq(PartRecords) : none = <<>>
    BY EmptySeq
  <2>2. PICK acc : acc = <<none>>
    OBVIOUS
  <2>3. acc \in Seq(Seq(PartRecords)) /\ Len(acc) = 1 /\ acc[1] = none
    BY <2>2
  <2>4. parts = <<>> /\ <<>> \o <<>> = <<>>
    BY DEF PartitionInit
  <2>5. Gathered(disk, tables, parts, acc)
    BY <1>1, <1>2, <2>1, <2>3, <2>4 DEF Gathered
  <2> QED BY <2>5
<1>4. TablesInv
  <2>1. tables # <<>> /\ tables[1].base = 0 /\ tables[1].i = 0
    <3>1. tables # <<>>
      <4>1. Len(<<>>) = 0 /\ Len(tables) = 1
        BY <1>1
      <4> QED BY ONLY <4>1
    <3>2. tables[1].base = 0 /\ tables[1].i = 0
      BY <1>1
    <3> QED BY <3>1, <3>2
  <2>2. \A j \in 1 .. Len(tables) : j = 1
    BY <1>1
  <2>3. \A j \in 1 .. Len(tables) - 1 : FALSE
    BY <1>1
  <2> QED BY <1>1, <1>3, <2>1, <2>2, <2>3 DEF TablesInv
<1> QED BY <1>0, <1>4 DEF PartitionInit, PartInv, ReadingInv, NoRead

LEMMA FrontIs ==
  ASSUME NEW S, NEW s \in Seq(S), s # <<>>
  PROVE  /\ Len(s) \in Nat \ {0} /\ Last(s) = s[Len(s)] /\ Last(s) \in S
         /\ Front(s) \in Seq(S) /\ Len(Front(s)) = Len(s) - 1
         /\ \A j \in 1 .. Len(s) - 1 : Front(s)[j] = s[j]
<1>1. Len(s) \in Nat \ {0} /\ \A j \in 1 .. Len(s) : s[j] \in S
  OBVIOUS
<1>2. PICK n \in Nat : n = Len(s) - 1
  BY <1>1
<1>3. \A j \in 1 .. n : s[j] \in S
  BY <1>1, <1>2
<1>4. /\ SubSeq(s, 1, n) \in Seq(S)
      /\ Len(SubSeq(s, 1, n)) = IF 1 <= n THEN n - 1 + 1 ELSE 0
      /\ \A i \in 1 .. n - 1 + 1 : SubSeq(s, 1, n)[i] = s[1 + i - 1]
  BY <1>3, SubSeqProperties
<1>5. n - 1 + 1 = n /\ \A i \in 1 .. n : 1 + i - 1 = i
  OBVIOUS
<1>6. Len(SubSeq(s, 1, n)) = n
  BY <1>4
<1>7. Front(s) = SubSeq(s, 1, n)
  BY <1>2 DEF Front
<1> QED BY <1>1, <1>2, <1>4, <1>5, <1>6, <1>7 DEF Last

\* The last of a sequence in another form.
LEMMA Renewed ==
  ASSUME NEW S, NEW s \in Seq(S), s # <<>>, NEW r \in S
  PROVE  /\ Append(Front(s), r) \in Seq(S) /\ Len(Append(Front(s), r)) = Len(s)
         /\ \A j \in 1 .. Len(s) - 1 : Append(Front(s), r)[j] = s[j]
         /\ Append(Front(s), r)[Len(s)] = r
<1>1. PICK f \in Seq(S) : f = Front(s) /\ Len(f) = Len(s) - 1 /\ \A j \in 1 .. Len(s) - 1 : f[j] = s[j]
  BY FrontIs
<1>2. Len(s) \in Nat
  OBVIOUS
<1> QED BY <1>1, <1>2

LEMMA Appended ==
  ASSUME NEW S, NEW n \in Nat, NEW s \in Seq(S), Len(s) = n, NEW x \in S
  PROVE  /\ Append(s, x) \in Seq(S) /\ Len(Append(s, x)) = n + 1
         /\ \A j \in 1 .. n : Append(s, x)[j] = s[j]
         /\ Append(s, x)[n + 1] = x
OBVIOUS

LEMMA TableIs ==
  ASSUME TablesInv
  PROVE  /\ tables \in Seq(Rows) /\ tables # <<>> /\ Len(tables) \in Nat \ {0}
         /\ Table \in Rows /\ Table = tables[Len(tables)]
         /\ Table = [base |-> Table.base, i |-> Table.i]
<1>1. tables \in Seq(Rows) /\ tables # <<>>
  BY DEF TablesInv
<1>2. Last(tables) \in Rows /\ Last(tables) = tables[Len(tables)] /\ Len(tables) \in Nat \ {0}
  BY <1>1, FrontIs
<1> QED BY <1>1, <1>2 DEF Table, Rows

\* A table moves on to its inner entry, what it described so far being registered.
LEMMA TableMovesOn ==
  ASSUME TablesInv, NEW p, tables' = Append(Front(tables), Later), disk' = disk, parts' = p,
         Table.i <= PerTable, TableAt(disk, Table.base), Len(tables) = 1 => ~IsProtective(0),
         \A acc \in Seq(PartRecords) :
           parts = acc \o UpTo(disk, Table.base, IF Table.i = 0 THEN 0 ELSE Table.i - 1)
             => p = acc \o UpTo(disk, Table.base, Table.i)
  PROVE  TablesInv'
<1>0. PerTable \in Nat
  BY PartitionAssumption
<1>1. /\ tables \in Seq(Rows) /\ tables # <<>> /\ Len(tables) \in Nat \ {0} /\ Table \in Rows
      /\ Table = tables[Len(tables)]
  BY TableIs
<1>2. Later = [base |-> Table.base, i |-> Table.i + 1] /\ Later \in Rows
  <2>1. Later = [base |-> Table.base, i |-> Table.i + 1]
    BY TableIs DEF Later
  <2> QED BY <1>0, <1>1, <2>1 DEF Rows
<1> HIDE DEF Later, Table
<1>3. PICK n \in Nat \ {0} : n = Len(tables)
  BY <1>1
<1>4. PICK t \in Seq(Rows) : t = tables' /\ Len(t) = n /\ (\A j \in 1 .. n - 1 : t[j] = tables[j]) /\ t[n] = Later
  <2>1. /\ Append(Front(tables), Later) \in Seq(Rows) /\ Len(Append(Front(tables), Later)) = Len(tables)
        /\ \A j \in 1 .. Len(tables) - 1 : Append(Front(tables), Later)[j] = tables[j]
        /\ Append(Front(tables), Later)[Len(tables)] = Later
    BY <1>1, <1>2, Renewed
  <2> QED BY <1>3, <2>1
<1>5. t[1].base = 0 /\ (t[1].i # 0 => ~IsProtective(0))
  <2>1. CASE n = 1
    BY <1>1, <1>2, <1>3, <1>4, <2>1 DEF TablesInv
  <2>2. CASE n # 1
    <3>1. 1 \in 1 .. n - 1
      BY <2>2
    <3> QED BY <1>4, <3>1 DEF TablesInv
  <2> QED BY <2>1, <2>2
<1>6. \A j \in 1 .. n : t[j].i # 0 => TableAt(disk, t[j].base)
  <2> SUFFICES ASSUME NEW j \in 1 .. n, t[j].i # 0 PROVE TableAt(disk, t[j].base)
    OBVIOUS
  <2>1. j = n \/ j \in 1 .. n - 1
    OBVIOUS
  <2>2. CASE j = n
    BY <1>2, <1>4, <2>2
  <2>3. CASE j \in 1 .. n - 1
    BY <1>3, <1>4, <2>3 DEF TablesInv
  <2> QED BY <2>1, <2>2, <2>3
<1>7. \A j \in 1 .. n - 1 : Inside(disk, t[j], t[j + 1])
  <2> SUFFICES ASSUME NEW j \in 1 .. n - 1 PROVE Inside(disk, t[j], t[j + 1])
    OBVIOUS
  <2>1. Inside(disk, tables[j], tables[j + 1]) /\ t[j] = tables[j]
    BY <1>3, <1>4 DEF TablesInv
  <2>2. t[j + 1].base = tables[j + 1].base
    <3>1. j + 1 = n \/ j + 1 \in 1 .. n - 1
      OBVIOUS
    <3>2. CASE j + 1 = n
      BY <1>1, <1>2, <1>3, <1>4, <3>2
    <3>3. CASE j + 1 \in 1 .. n - 1
      BY <1>4, <3>3
    <3> QED BY <3>1, <3>2, <3>3
  <2> QED BY <2>1, <2>2 DEF Inside
<1>8. \E acc : Gathered(disk, t, p, acc)
  <2>1. PICK acc : Gathered(disk, tables, parts, acc)
    BY DEF TablesInv
  <2>2. /\ acc \in Seq(Seq(PartRecords)) /\ Len(acc) = n /\ acc[1] = <<>>
        /\ \A j \in 1 .. n - 1 : acc[j + 1] = acc[j] \o UpTo(disk, tables[j].base, tables[j].i - 2)
        /\ parts = acc[n] \o UpTo(disk, Table.base, IF Table.i = 0 THEN 0 ELSE Table.i - 1)
    BY <1>1, <1>3, <2>1 DEF Gathered
  <2>3. acc[n] \in Seq(PartRecords)
    BY <2>2
  <2>4. p = acc[n] \o UpTo(disk, Table.base, Table.i)
    BY <2>2, <2>3
  <2>5. t[n].base = Table.base /\ t[n].i # 0 /\ t[n].i - 1 = Table.i
    <3>1. Table.i \in Nat
      BY <1>1 DEF Rows
    <3>2. t[n].base = Table.base /\ t[n].i = Table.i + 1
      BY <1>2, <1>4
    <3>3. PICK i \in Nat : i = Table.i
      BY <3>1
    <3>4. t[n].i = i + 1
      BY <3>2, <3>3
    <3>5. t[n].i # 0 /\ t[n].i - 1 = i
      BY ONLY <3>4, i \in Nat
    <3> QED BY <3>2, <3>3, <3>5
  <2>6. \A j \in 1 .. n - 1 : acc[j + 1] = acc[j] \o UpTo(disk, t[j].base, t[j].i - 2)
    BY <1>4, <2>2
  <2>7. Gathered(disk, t, p, acc)
    BY <1>4, <2>2, <2>4, <2>5, <2>6 DEF Gathered
  <2> QED BY <2>7
<1>9. t # <<>>
  BY <1>4
<1>10. IsProtective(0)' = IsProtective(0)
  BY DEF IsProtective, IsTable, TableAt, Content, On
<1>11. \A b : TableAt(disk, b)' = TableAt(disk', b)
  BY DEF TableAt, On
<1> QED BY <1>4, <1>5, <1>6, <1>7, <1>8, <1>9, <1>10 DEF TablesInv

LEMMA SameDisk ==
  ASSUME disk' = disk
  PROVE  /\ IsProtective(0)' = IsProtective(0) /\ HeaderAt(disk)' = HeaderAt(disk)
         /\ UpTo(disk, 0, PerTable)' = UpTo(disk, 0, PerTable)
         /\ InList(disk, HeaderAt(disk))' = InList(disk, HeaderAt(disk))
         /\ (\A lba : Content(lba)' = Content(lba))
<1>1. IsProtective(0)' = IsProtective(0)
  BY DEF IsProtective, IsTable, TableAt, Content, On
<1>2. HeaderAt(disk)' = HeaderAt(disk) /\ (\A lba : Content(lba)' = Content(lba))
  BY DEF HeaderAt, Content, On
<1>3. UpTo(disk, 0, PerTable)' = UpTo(disk, 0, PerTable)
  OBVIOUS
<1>4. InList(disk, HeaderAt(disk))' = InList(disk, HeaderAt(disk))
  BY <1>2
<1> QED BY <1>1, <1>2, <1>3, <1>4

LEMMA UpToIsSeq ==
  ASSUME disk \in Disks, NEW b \in 0 .. Room, NEW i \in 0 .. PerTable
  PROVE  UpTo(disk, b, i) \in Seq(PartRecords)
BY UpToIs

\* An entry names a table, which is read inner.
LEMMA GoesInside ==
  ASSUME TablesInv, disk \in Disks, disk' = disk, parts' = parts, NEW inner \in Rows, inner.i = 0,
         tables' = Append(Append(Front(tables), Later), inner),
         Table.i \in 1 .. PerTable, TableAt(disk, Table.base), TableEntry.type = "extended",
         inner.base = Table.base + TableEntry.base
  PROVE  TablesInv'
<1>0. PerTable \in Nat
  BY PartitionAssumption
<1>1. /\ tables \in Seq(Rows) /\ tables # <<>> /\ Len(tables) \in Nat \ {0} /\ Table \in Rows
      /\ Table = tables[Len(tables)]
  BY TableIs
<1>2. Later = [base |-> Table.base, i |-> Table.i + 1] /\ Later \in Rows
  <2>1. Later = [base |-> Table.base, i |-> Table.i + 1]
    BY TableIs DEF Later
  <2> QED BY <1>0, <1>1, <2>1 DEF Rows
<1>i. PICK i \in Nat : i = Table.i /\ i \in 1 .. PerTable
  OBVIOUS
<1>b. PICK b \in 0 .. Room : b = Table.base
  BY <1>1 DEF Rows
<1>e. PICK e : e = TableEntry /\ e = On(disk, b).entries[i]
  BY <1>i, <1>b DEF TableEntry, Content
<1> HIDE DEF Later, Table
<1>3. PICK n \in Nat \ {0} : n = Len(tables)
  BY <1>1
<1>4. PICK f \in Seq(Rows) :
        f = Append(Front(tables), Later) /\ Len(f) = n /\ (\A j \in 1 .. n - 1 : f[j] = tables[j]) /\ f[n] = Later
  <2>1. /\ Append(Front(tables), Later) \in Seq(Rows) /\ Len(Append(Front(tables), Later)) = Len(tables)
        /\ \A j \in 1 .. Len(tables) - 1 : Append(Front(tables), Later)[j] = tables[j]
        /\ Append(Front(tables), Later)[Len(tables)] = Later
    BY <1>1, <1>2, Renewed
  <2> QED BY <1>3, <2>1
<1>5. PICK t \in Seq(Rows) : t = tables' /\ t = Append(f, inner)
  <2>1. Append(f, inner) \in Seq(Rows)
    BY <1>4, Appended
  <2> QED BY <1>4, <2>1
<1>6. Len(t) = n + 1 /\ (\A j \in 1 .. n : t[j] = f[j]) /\ t[n + 1] = inner
  BY <1>4, <1>5, Appended
<1>7. /\ \A j \in 1 .. n : t[j].base = tables[j].base
      /\ \A j \in 1 .. n - 1 : t[j] = tables[j]
      /\ t[n] = Later /\ t[n].base = b /\ t[n].i = i + 1
  <2>1. \A j \in 1 .. n : j = n \/ j \in 1 .. n - 1
    OBVIOUS
  <2>2. t[n] = Later /\ Later.base = b /\ Later.i = i + 1 /\ tables[n].base = b
    BY <1>1, <1>2, <1>3, <1>4, <1>6, <1>i, <1>b
  <2>3. \A j \in 1 .. n - 1 : t[j] = tables[j]
    <3>1. \A j \in 1 .. n - 1 : j \in 1 .. n
      OBVIOUS
    <3> QED BY <1>4, <1>6, <3>1
  <2> QED BY <2>1, <2>2, <2>3
<1>8. t[1].base = 0 /\ (t[1].i # 0 => ~IsProtective(0))
  <2>1. CASE n = 1
    <3>1. tables[1] = Table /\ Table.i # 0
      BY <1>1, <1>3, <1>i, <2>1
    <3> QED BY <1>7, <2>1, <3>1 DEF TablesInv
  <2>2. CASE n # 1
    <3>1. 1 \in 1 .. n - 1
      BY <2>2
    <3> QED BY <1>7, <3>1 DEF TablesInv
  <2> QED BY <2>1, <2>2
<1>9. \A j \in 1 .. n + 1 : t[j].i # 0 => TableAt(disk, t[j].base)
  <2> SUFFICES ASSUME NEW j \in 1 .. n + 1, t[j].i # 0 PROVE TableAt(disk, t[j].base)
    OBVIOUS
  <2>1. j = n + 1 \/ j = n \/ j \in 1 .. n - 1
    OBVIOUS
  <2>2. CASE j = n
    BY <1>7, <1>b, <2>2
  <2>3. CASE j \in 1 .. n - 1
    <3>1. j \in 1 .. Len(tables) /\ t[j] = tables[j]
      <4>1. j \in 1 .. n
        BY <2>3
      <4>2. j \in 1 .. Len(tables)
        BY ONLY <1>3, <4>1
      <4>3. t[j] = tables[j]
        BY ONLY <1>7, <2>3
      <4> QED BY <4>2, <4>3
    <3>2. \A k \in 1 .. Len(tables) : tables[k].i # 0 => TableAt(disk, tables[k].base)
      BY DEF TablesInv
    <3> QED BY ONLY <2>3, <3>1, <3>2, t[j].i # 0
  <2>4. CASE j = n + 1
    BY <1>6, <2>4
  <2> QED BY <2>1, <2>2, <2>3, <2>4
<1>10. \A j \in 1 .. n : Inside(disk, t[j], t[j + 1])
  <2> SUFFICES ASSUME NEW j \in 1 .. n PROVE Inside(disk, t[j], t[j + 1])
    OBVIOUS
  <2>1. j = n \/ j \in 1 .. n - 1
    OBVIOUS
  <2>2. CASE j = n
    <3>1. t[n].i - 1 = i /\ t[n].base = b
      BY ONLY <1>7, i \in Nat
    <3>2. t[n + 1].base = b + e.base /\ e.type = "extended"
      BY <1>6, <1>b, <1>e
    <3>3. On(disk, t[n].base).entries[t[n].i - 1] = e
      BY <1>e, <3>1
    <3>4. t[n].i - 1 \in 1 .. PerTable
      BY <1>i, <3>1
    <3> QED BY <2>2, <3>1, <3>2, <3>3, <3>4 DEF Inside
  <2>3. CASE j \in 1 .. n - 1
    <3>1. Inside(disk, tables[j], tables[j + 1]) /\ t[j] = tables[j]
      BY <1>3, <1>7, <2>3 DEF TablesInv
    <3>2. t[j + 1].base = tables[j + 1].base
      <4>1. j + 1 \in 1 .. n
        BY <2>3
      <4> QED BY <1>7, <4>1
    <3> QED BY <3>1, <3>2 DEF Inside
  <2> QED BY <2>1, <2>2, <2>3
<1>11. \E acc : Gathered(disk, t, parts, acc)
  <2>1. PICK old : Gathered(disk, tables, parts, old)
    BY DEF TablesInv
  <2>2. /\ old \in Seq(Seq(PartRecords)) /\ Len(old) = n /\ old[1] = <<>>
        /\ \A j \in 1 .. n - 1 : old[j + 1] = old[j] \o UpTo(disk, tables[j].base, tables[j].i - 2)
        /\ parts = old[n] \o UpTo(disk, Table.base, IF Table.i = 0 THEN 0 ELSE Table.i - 1)
    BY <1>1, <1>3, <2>1 DEF Gathered
  <2>3. old[n] \in Seq(PartRecords) /\ parts = old[n] \o UpTo(disk, b, i - 1)
    <3>1. old[n] \in Seq(PartRecords)
      BY <2>2
    <3>2. Table.i = i /\ Table.base = b /\ i # 0
      BY <1>i, <1>b
    <3>3. (IF Table.i = 0 THEN 0 ELSE Table.i - 1) = i - 1
      BY <3>2
    <3> QED BY <2>2, <3>1, <3>2, <3>3
  <2>4. UpTo(disk, b, i - 1) \in Seq(PartRecords) /\ UpTo(disk, inner.base, 0) = <<>>
    <3>1. i - 1 \in 0 .. PerTable
      BY <1>0, <1>i
    <3>2. inner.base \in 0 .. Room
      BY DEF Rows
    <3> QED BY <3>1, <3>2, UpToIs
  <2>5. parts \in Seq(PartRecords)
    <3>1. \A s, u : s \in Seq(PartRecords) /\ u \in Seq(PartRecords) => s \o u \in Seq(PartRecords)
      OBVIOUS
    <3> QED BY <2>3, <2>4, <3>1
  <2>0. /\ Append(old, parts) \in Seq(Seq(PartRecords)) /\ Len(Append(old, parts)) = n + 1
        /\ \A j \in 1 .. n : Append(old, parts)[j] = old[j]
        /\ Append(old, parts)[n + 1] = parts
    <3>1. old \in Seq(Seq(PartRecords)) /\ Len(old) = n /\ n \in Nat
      BY <2>2
    <3> QED BY ONLY <2>5, <3>1, Appended
  <2>6. PICK acc \in Seq(Seq(PartRecords)) : acc = Append(old, parts)
    BY <2>0
  <2>7. Len(acc) = n + 1 /\ (\A j \in 1 .. n : acc[j] = old[j]) /\ acc[n + 1] = parts
    BY <2>0, <2>6
  <2>8. acc[1] = <<>>
    BY <2>2, <2>7
  <2>9. ASSUME NEW j \in 1 .. n
        PROVE  acc[j + 1] = acc[j] \o UpTo(disk, t[j].base, t[j].i - 2)
    <3>1. j = n \/ j \in 1 .. n - 1
      OBVIOUS
    <3>2. CASE j = n
      <4>1. t[n].i - 2 = i - 1
        BY ONLY <1>7, i \in Nat
      <4> QED BY <1>7, <2>3, <2>7, <3>2, <4>1
    <3>3. CASE j \in 1 .. n - 1
      <4>1. j + 1 \in 1 .. n
        BY <3>3
      <4> QED BY <1>7, <2>2, <2>7, <3>3, <4>1
    <3> QED BY <3>1, <3>2, <3>3
  <2>10. parts = acc[n + 1] \o UpTo(disk, t[n + 1].base, IF t[n + 1].i = 0 THEN 0 ELSE t[n + 1].i - 1)
    <3>1. \A s : s \in Seq(PartRecords) => s \o <<>> = s
      OBVIOUS
    <3> QED BY <1>6, <2>4, <2>5, <2>7, <3>1
  <2>11. (n + 1) - 1 = n
    OBVIOUS
  <2>12. Gathered(disk, t, parts, acc)
    BY <1>6, <2>6, <2>7, <2>8, <2>9, <2>10, <2>11 DEF Gathered
  <2> QED BY <2>12
<1>12. t # <<>>
  BY <1>5
<1>13. IsProtective(0)' = IsProtective(0)
  BY SameDisk
<1>14. Len(t) - 1 = n
  BY <1>6
<1> QED BY <1>5, <1>6, <1>8, <1>9, <1>10, <1>11, <1>12, <1>13, <1>14 DEF TablesInv

\* A table that ends has been registered after what was before it.
LEMMA ComesBack ==
  ASSUME TablesInv, disk \in Disks, disk' = disk, parts' = parts, tables' = Front(tables),
         Table.i > PerTable, Len(tables) # 1
  PROVE  TablesInv'
<1>0. PerTable \in Nat
  BY PartitionAssumption
<1>1. /\ tables \in Seq(Rows) /\ tables # <<>> /\ Len(tables) \in Nat \ {0} /\ Table \in Rows
      /\ Table = tables[Len(tables)]
  BY TableIs
<1> HIDE DEF Table
<1>2. PICK n \in Nat \ {0} : n + 1 = Len(tables)
  <2>1. Len(tables) - 1 \in Nat \ {0} /\ (Len(tables) - 1) + 1 = Len(tables)
    BY <1>1
  <2> QED BY <2>1
<1>3. PICK t \in Seq(Rows) : t = tables' /\ Len(t) = n /\ \A j \in 1 .. n : t[j] = tables[j]
  <2>1. (n + 1) - 1 = n
    OBVIOUS
  <2> QED BY <1>1, <1>2, <2>1, FrontIs
<1>4. Table.i = PerTable + 1 /\ tables[n + 1] = Table
  <2>1. Table.i \in 0 .. PerTable + 1
    BY <1>1 DEF Rows
  <2>2. PICK i \in Nat : i = Table.i /\ i <= PerTable + 1
    BY <1>0, <2>1
  <2> QED BY <1>0, <1>1, <1>2, <2>2
<1>5. \A j \in 1 .. n : j \in 1 .. Len(tables)
  BY <1>2
<1>6. Inside(disk, tables[n], Table) /\ TableAt(disk, tables[n].base)
  <2>1. n \in 1 .. Len(tables) - 1 /\ n \in 1 .. Len(tables)
    BY <1>2
  <2>2. Inside(disk, tables[n], tables[n + 1]) /\ (tables[n].i # 0 => TableAt(disk, tables[n].base))
    BY <2>1 DEF TablesInv
  <2>3. tables[n].i # 0
    <3>1. tables[n].i - 1 \in 1 .. PerTable
      BY <2>2 DEF Inside
    <3>2. tables[n] \in Rows
      BY <1>1, <2>1
    <3>3. PICK i \in Nat : i = tables[n].i
      BY <1>0, <3>2 DEF Rows
    <3> QED BY <3>1, <3>3
  <2> QED BY <1>4, <2>2, <2>3
<1>7. \E b \in 0 .. Room, i \in 1 .. PerTable : \E e :
        /\ b = tables[n].base /\ i + 1 = tables[n].i /\ e = On(disk, b).entries[i]
        /\ e.type = "extended" /\ Table.base = b + e.base
  <2>1. tables[n] \in Rows
    BY <1>1, <1>5
  <2>2. PICK k \in Nat : k = tables[n].i
    BY <1>0, <2>1 DEF Rows
  <2>3. k - 1 \in 1 .. PerTable /\ (k - 1) + 1 = k /\ tables[n].i - 1 = k - 1
    BY <1>6, <2>2 DEF Inside
  <2>4. tables[n].base \in 0 .. Room
    BY <2>1 DEF Rows
  <2> QED BY <1>6, <2>2, <2>3, <2>4 DEF Inside
<1>14. PICK b \in 0 .. Room, i \in 1 .. PerTable : \E e :
        /\ b = tables[n].base /\ i + 1 = tables[n].i /\ e = On(disk, b).entries[i]
        /\ e.type = "extended" /\ Table.base = b + e.base
  BY <1>7
<1>15. PICK e :
        /\ b = tables[n].base /\ i + 1 = tables[n].i /\ e = On(disk, b).entries[i]
        /\ e.type = "extended" /\ Table.base = b + e.base
  BY <1>14
<1>8. \E acc : Gathered(disk, t, parts, acc)
  <2>1. PICK old : Gathered(disk, tables, parts, old)
    BY DEF TablesInv
  <2>99. (n + 1) - 1 = n
    OBVIOUS
  <2>2. /\ old \in Seq(Seq(PartRecords)) /\ Len(old) = n + 1 /\ old[1] = <<>>
        /\ \A j \in 1 .. n : old[j + 1] = old[j] \o UpTo(disk, tables[j].base, tables[j].i - 2)
        /\ parts = old[n + 1] \o UpTo(disk, Table.base, IF Table.i = 0 THEN 0 ELSE Table.i - 1)
    BY <1>2, <1>4, <2>1, <2>99 DEF Gathered
  <2>3. old[n] \in Seq(PartRecords) /\ old[n + 1] = old[n] \o UpTo(disk, b, i - 1)
    <3>1. old[n] \in Seq(PartRecords)
      BY <2>2
    <3>2. old[n + 1] = old[n] \o UpTo(disk, tables[n].base, tables[n].i - 2)
      <4>1. \A j \in 1 .. n : old[j + 1] = old[j] \o UpTo(disk, tables[j].base, tables[j].i - 2)
        BY <2>2
      <4>2. n \in 1 .. n
        OBVIOUS
      <4> QED BY ONLY <4>1, <4>2
    <3>3. tables[n].i - 2 = i - 1
      BY ONLY <1>15, i \in 1 .. PerTable
    <3> QED BY <1>15, <3>1, <3>2, <3>3
  <2>4. parts = old[n + 1] \o UpTo(disk, Table.base, PerTable)
    <3>1. (IF Table.i = 0 THEN 0 ELSE Table.i - 1) = PerTable
      BY <1>0, <1>4
    <3> QED BY <2>2, <3>1
  <2>5. /\ UpTo(disk, b, i - 1) \in Seq(PartRecords) /\ UpTo(disk, b + e.base, PerTable) \in Seq(PartRecords)
        /\ UpTo(disk, b, i) = UpTo(disk, b, i - 1) \o UpTo(disk, b + e.base, PerTable)
    <3>1. i - 1 \in 0 .. PerTable /\ PerTable \in 0 .. PerTable
      BY <1>0
    <3>2. TableAt(disk, b)
      BY <1>6, <1>15
    <3>3. b + e.base \in 0 .. Room /\ UpTo(disk, b, i) = UpTo(disk, b, i - 1) \o UpTo(disk, b + e.base, PerTable)
      BY <1>15, <3>2, UpToIs
    <3>4. UpTo(disk, b, i - 1) \in Seq(PartRecords)
      BY <3>1, UpToIs
    <3>5. UpTo(disk, b + e.base, PerTable) \in Seq(PartRecords)
      BY <3>1, <3>3, UpToIs
    <3> QED BY <3>3, <3>4, <3>5
  <2>6. parts = old[n] \o UpTo(disk, b, i)
    <3>1. PICK s \in Seq(PartRecords), u \in Seq(PartRecords), w \in Seq(PartRecords) :
                s = old[n] /\ u = UpTo(disk, b, i - 1) /\ w = UpTo(disk, b + e.base, PerTable)
      BY <2>3, <2>5
    <3>2. (s \o u) \o w = s \o (u \o w)
      BY ConcatAssociative
    <3> QED BY <1>15, <2>3, <2>4, <2>5, <3>1, <3>2
  <2>7. PICK acc \in Seq(Seq(PartRecords)) : Len(acc) = n /\ \A j \in 1 .. n : acc[j] = old[j]
    <3>1. old # <<>> /\ Len(old) - 1 = n
      <4>1. Len(<<>>) = 0
        OBVIOUS
      <4> QED BY <2>2, <2>99, <4>1
    <3> QED BY <2>2, <3>1, FrontIs
  <2>8. acc[1] = <<>>
    BY <2>2, <2>7
  <2>9. ASSUME NEW j \in 1 .. n - 1
        PROVE  acc[j + 1] = acc[j] \o UpTo(disk, t[j].base, t[j].i - 2)
    <3>1. j \in 1 .. n /\ j + 1 \in 1 .. n
      OBVIOUS
    <3> QED BY <1>3, <2>2, <2>7, <3>1
  <2>10. parts = acc[n] \o UpTo(disk, t[n].base, IF t[n].i = 0 THEN 0 ELSE t[n].i - 1)
    <3>1. t[n].base = b /\ t[n].i = i + 1 /\ acc[n] = old[n]
      BY <1>3, <1>15, <2>7
    <3>2. (IF t[n].i = 0 THEN 0 ELSE t[n].i - 1) = i
      BY <3>1
    <3> QED BY <2>6, <3>1, <3>2
  <2>11. Gathered(disk, t, parts, acc)
    BY <1>3, <2>7, <2>8, <2>9, <2>10 DEF Gathered
  <2> QED BY <2>11
<1>9. t # <<>>
  <2>1. Len(<<>>) = 0
    OBVIOUS
  <2> QED BY <1>3, <2>1
<1>10. t[1].base = 0 /\ (t[1].i # 0 => ~IsProtective(0))
  <2>1. t[1] = tables[1]
    BY <1>3
  <2> QED BY <2>1 DEF TablesInv
<1>11. \A j \in 1 .. n : t[j].i # 0 => TableAt(disk, t[j].base)
  <2> SUFFICES ASSUME NEW j \in 1 .. n, t[j].i # 0 PROVE TableAt(disk, t[j].base)
    OBVIOUS
  <2>1. j \in 1 .. Len(tables) /\ t[j] = tables[j]
    BY <1>3, <1>5
  <2> QED BY <2>1 DEF TablesInv
<1>12. \A j \in 1 .. n - 1 : Inside(disk, t[j], t[j + 1])
  <2> SUFFICES ASSUME NEW j \in 1 .. n - 1 PROVE Inside(disk, t[j], t[j + 1])
    OBVIOUS
  <2>1. j \in 1 .. Len(tables) - 1 /\ j \in 1 .. n /\ j + 1 \in 1 .. n
    BY <1>2
  <2> QED BY <1>3, <2>1 DEF TablesInv
<1>13. IsProtective(0)' = IsProtective(0)
  BY SameDisk
<1> QED BY <1>3, <1>8, <1>9, <1>10, <1>11, <1>12, <1>13 DEF TablesInv

\* The outermost one has registered all that is described.
LEMMA OutermostEnds ==
  ASSUME TablesInv, disk \in Disks, Table.i > PerTable, Len(tables) = 1
  PROVE  parts \in Seq(PartRecords) /\ parts = Described
<1>0. PerTable \in Nat /\ Room \in Nat
  BY PartitionAssumption
<1>1. Table \in Rows /\ Table = tables[1]
  BY TableIs
<1> HIDE DEF Table
<1>2. Table.i = PerTable + 1 /\ Table.base = 0
  <2>1. Table.i \in 0 .. PerTable + 1
    BY <1>1 DEF Rows
  <2>2. PICK i \in Nat : i = Table.i /\ i <= PerTable + 1
    BY <1>0, <2>1
  <2>3. Table.base = 0
    BY <1>1 DEF TablesInv
  <2> QED BY <1>0, <2>2, <2>3
<1>3. ~IsProtective(0)
  <2>1. Table.i # 0
    BY <1>0, <1>2
  <2> QED BY <1>1, <2>1 DEF TablesInv
<1>4. PICK acc : Gathered(disk, tables, parts, acc)
  BY DEF TablesInv
<1>5. parts = <<>> \o UpTo(disk, 0, PerTable)
  <2>1. parts = <<>> \o UpTo(disk, 0, IF Table.i = 0 THEN 0 ELSE Table.i - 1)
    BY <1>1, <1>2, <1>4 DEF Gathered
  <2>2. (IF Table.i = 0 THEN 0 ELSE Table.i - 1) = PerTable
    BY <1>0, <1>2
  <2> QED BY <2>1, <2>2
<1>6. UpTo(disk, 0, PerTable) \in Seq(PartRecords)
  <2>1. 0 \in 0 .. Room /\ PerTable \in 0 .. PerTable
    BY <1>0
  <2> QED BY <2>1, UpToIsSeq
<1>7. \A s : s \in Seq(PartRecords) => <<>> \o s = s
  OBVIOUS
<1> QED BY <1>3, <1>5, <1>6, <1>7 DEF Described

-----------------------------------------------------------------------------
(* The list of gpt.c *)

\* Where an entry is in the sectors of its list.
LEMMA PlaceOfEntry ==
  ASSUME NEW turn \in Nat, NEW size \in Nat \ {0}, NEW at \in 0 .. size - 1
  PROVE  (turn * size + at) \div size = turn /\ (turn * size + at) % size = at
<1>1. turn * size + at \in Nat
  <2>1. turn * size \in Nat
    OBVIOUS
  <2> QED BY <2>1
<1>2. PICK k \in Nat : k = turn * size + at
  BY <1>1
<1>3. PICK q \in Nat, r \in Nat : q = k \div size /\ r = k % size /\ r < size /\ k = size * q + r
  BY Division
<1>4. q = turn
  <2>1. CASE q < turn
    <3>1. PICK c \in Nat \ {0} : turn = q + c
      <4>1. turn - q \in Nat \ {0} /\ turn = q + (turn - q)
        BY <2>1
      <4> QED BY <4>1
    <3>2. turn * size = q * size + c * size
      BY <3>1
    <3>3. c * size >= size /\ c * size \in Nat
      BY MoreThanOne
    <3>4. size * q = q * size
      OBVIOUS
    <3>5. q * size \in Nat
      OBVIOUS
    <3> QED BY <1>2, <1>3, <3>2, <3>3, <3>4, <3>5
  <2>2. CASE turn < q
    <3>1. PICK c \in Nat \ {0} : q = turn + c
      <4>1. q - turn \in Nat \ {0} /\ q = turn + (q - turn)
        BY <2>2
      <4> QED BY <4>1
    <3>2. size * q = turn * size + c * size
      BY <3>1
    <3>3. c * size >= size /\ c * size \in Nat
      BY MoreThanOne
    <3>4. turn * size \in Nat
      OBVIOUS
    <3> QED BY <1>2, <1>3, <3>2, <3>3, <3>4
  <2> QED BY <2>1, <2>2
<1>5. r = at
  <2>1. size * q = turn * size /\ turn * size \in Nat
    BY <1>4
  <2> QED BY <1>2, <1>3, <2>1
<1> QED BY <1>2, <1>3, <1>4, <1>5

LEMMA HeaderIs ==
  ASSUME disk \in Disks, HeaderAt(disk).kind = "header"
  PROVE  LET header == HeaderAt(disk)
         IN /\ header.list \in Nat /\ header.size \in Nat \ {0} /\ header.n \in Nat
            /\ \A i \in 1 .. header.n : Nth(disk, header, i) \in EntryRecords
<1> DEFINE lba == On(disk, 0).entries[1].base
<1>1. lba \in DOMAIN disk
  BY DEF HeaderAt, On
<1>2. HeaderAt(disk) = On(disk, lba)
  BY DEF HeaderAt
<1> HIDE DEF lba
<1> QED BY <1>1, <1>2, PartitionAssumption

\* The table that protects the list is in the first sector.
LEMMA HeaderFound ==
  ASSUME IsProtective(0)
  PROVE  HeaderAt(disk) = Content(disk[0].entries[1].base)
<1>1. On(disk, 0) = disk[0]
  BY DEF IsProtective, IsTable, TableAt, On
<1> QED BY <1>1 DEF HeaderAt, Content

LEMMA ListBegins ==
  ASSUME PartInv, disk' = disk, gpt_probe, step' = "list"
  PROVE  ListInv'
<1>1. /\ IsProtective(0) /\ step = "gpt" /\ parts' = parts
      /\ Content(disk[0].entries[1].base).kind = "header"
      /\ gpt' = [lba |-> Content(disk[0].entries[1].base).list,
                 buf |-> Content(Content(disk[0].entries[1].base).list).entries, at |-> 0,
                 size |-> Content(disk[0].entries[1].base).size, i |-> 0, n |-> Content(disk[0].entries[1].base).n]
  BY DEF gpt_probe, Fails, Probing
<1>2. PICK header : header = HeaderAt(disk)
  OBVIOUS
<1>3. header = Content(disk[0].entries[1].base)
  BY <1>1, <1>2, HeaderFound
<1>4. /\ header.kind = "header" /\ header.list \in Nat /\ header.size \in Nat \ {0} /\ header.n \in Nat
  BY <1>1, <1>2, <1>3, HeaderIs DEF PartInv
<1>5. gpt' = [lba |-> header.list, buf |-> Content(header.list).entries, at |-> 0, size |-> header.size, i |-> 0, n |-> header.n]
  BY <1>1, <1>3
<1>6. IsProtective(0)' /\ HeaderAt(disk)' = header /\ Content(header.list)' = Content(header.list)
  BY <1>1, <1>2, SameDisk
<1>7. parts' = <<>> /\ parts' \in Seq(PartRecords) /\ Len(parts') = 0
  <2>1. parts' = <<>>
    BY <1>1 DEF PartInv
  <2> QED BY <2>1, EmptySeq
<1>8. InBuffer(header)'
  <2>1. 0 = 0 * header.size + 0 /\ header.list + 0 = header.list
    BY <1>4
  <2>2. gpt'.i = 0 /\ gpt'.size = header.size /\ gpt'.at = 0 /\ gpt'.lba = header.list /\ gpt'.buf = Content(header.list)'.entries
    BY <1>5, <1>6
  <2>3. Content(header.list + 0)' = Content(header.list)'
    BY <2>1
  <2>4. /\ gpt'.i = 0 * gpt'.size + gpt'.at /\ gpt'.lba = header.list + 0
        /\ 0 <= 0 /\ gpt'.buf = Content(header.list + 0)'.entries
        /\ ~misread' => 0 = 0
    BY <2>1, <2>2, <2>3
  <2> QED BY <2>4 DEF InBuffer
<1>9. 0 \in 0 .. header.n /\ 0 \in 0 .. header.size - 1
  BY <1>4
<1>10. \A k \in 1 .. 0 : FALSE
  OBVIOUS
<1> QED BY <1>4, <1>5, <1>6, <1>7, <1>8, <1>9, <1>10 DEF ListInv

LEMMA EntryRead ==
  ASSUME disk \in Disks, ListInv, gpt.i < gpt.n, NEW turn \in Nat, NEW old \in Nat, old <= turn,
         gpt.i = turn * gpt.size + gpt.at, gpt.buf = Content(HeaderAt(disk).list + old).entries,
         ~misread => old = turn
  PROVE  /\ gpt.buf[gpt.at + 1] \in EntryRecords
         /\ ~misread => gpt.buf[gpt.at + 1] = Nth(disk, HeaderAt(disk), gpt.i + 1)
<1>1. PICK header : header = HeaderAt(disk)
  OBVIOUS
<1>2. /\ header.kind = "header" /\ gpt.n = header.n /\ gpt.size = header.size /\ gpt.i \in 0 .. gpt.n
      /\ gpt.at \in 0 .. gpt.size - 1
  BY <1>1 DEF ListInv
<1>3. /\ header.list \in Nat /\ header.size \in Nat \ {0} /\ header.n \in Nat
      /\ \A i \in 1 .. header.n : Nth(disk, header, i) \in EntryRecords
  BY <1>1, <1>2, HeaderIs
<1>4. PICK size \in Nat \ {0}, at \in Nat, i \in Nat, n \in Nat :
        /\ size = gpt.size /\ at = gpt.at /\ i = gpt.i /\ n = gpt.n
        /\ at \in 0 .. size - 1 /\ i < n /\ i = turn * size + at
  BY <1>2, <1>3
<1>5. /\ old * size + at + 1 \in Nat \ {0}
      /\ Nth(disk, header, old * size + at + 1) = On(disk, header.list + old).entries[at + 1]
  <2>1. header.list \in Int /\ header.size = size /\ at \in 0 .. size - 1
    BY <1>2, <1>3, <1>4
  <2>2. /\ old * size + at + 1 \in Nat \ {0}
        /\ Nth(disk, header, old * size + at + 1) = On(disk, header.list + old).entries[at + 1]
    <3>1. old * size \in Nat
      OBVIOUS
    <3>2. PICK k \in Nat : k = old * size + at
      BY <3>1
    <3>3. k \div size = old /\ k % size = at
      <4>1. at \in 0 .. size - 1
        BY <2>1
      <4>2. (old * size + at) \div size = old /\ (old * size + at) % size = at
        BY ONLY <4>1, PlaceOfEntry, old \in Nat, size \in Nat \ {0}
      <4> QED BY <3>2, <4>2
    <3>4. (k + 1) - 1 = k /\ k + 1 \in Nat \ {0}
      OBVIOUS
    <3>5. Nth(disk, header, k + 1) = On(disk, header.list + old).entries[at + 1]
      BY <2>1, <3>3, <3>4 DEF Nth
    <3> QED BY <3>2, <3>4, <3>5
  <2> QED BY <2>2
<1>6. gpt.buf[gpt.at + 1] = Nth(disk, header, old * size + at + 1)
  BY <1>1, <1>4, <1>5 DEF Content
<1>7. old * size + at + 1 \in 1 .. n
  <2>1. PICK c \in Nat : turn = old + c
    <3>1. turn - old \in Nat /\ turn = old + (turn - old)
      OBVIOUS
    <3> QED BY <3>1
  <2>2. turn * size = old * size + c * size /\ c * size \in Nat /\ old * size \in Nat
    BY <2>1
  <2> QED BY <1>4, <1>5, <2>2
<1>8. gpt.buf[gpt.at + 1] \in EntryRecords
  BY <1>2, <1>3, <1>4, <1>6, <1>7
<1>9. ~misread => gpt.buf[gpt.at + 1] = Nth(disk, header, gpt.i + 1)
  BY <1>4, <1>6
<1> QED BY <1>1, <1>8, <1>9

LEMMA ListContinues ==
  ASSUME PartInv, gpt_entry
  PROVE  ListInv'
<1>0. /\ step = "list" /\ disk' = disk /\ disk \in Disks /\ ListInv /\ misread \in BOOLEAN
      /\ gpt.i < gpt.n /\ gpt.buf[gpt.at + 1].type # "none"
  BY DEF gpt_entry, Probing, PartInv
<1>1. PICK header : header = HeaderAt(disk)
  OBVIOUS
<1>2. /\ IsProtective(0) /\ header.kind = "header"
      /\ gpt.n = header.n /\ gpt.size = header.size /\ gpt.i \in 0 .. gpt.n /\ gpt.at \in 0 .. gpt.size - 1
      /\ gpt = [lba |-> gpt.lba, buf |-> gpt.buf, at |-> gpt.at, size |-> gpt.size, i |-> gpt.i, n |-> gpt.n]
      /\ InBuffer(header)
      /\ parts \in Seq(PartRecords) /\ Len(parts) = gpt.i
      /\ ~misread => \A k \in 1 .. gpt.i :
            /\ Nth(disk, header, k).type # "none"
            /\ parts[k] = [base |-> Nth(disk, header, k).base, limit |-> Nth(disk, header, k).limit]
  BY <1>0, <1>1 DEF ListInv
<1>3. header.list \in Nat /\ header.size \in Nat \ {0} /\ header.n \in Nat
  BY <1>0, <1>1, <1>2, HeaderIs
<1>4. PICK turn \in Nat, old \in Nat :
        /\ gpt.i = turn * gpt.size + gpt.at /\ gpt.lba = header.list + turn
        /\ old <= turn /\ gpt.buf = Content(header.list + old).entries
        /\ ~misread => old = turn
  BY <1>2 DEF InBuffer
<1>5. PICK size \in Nat \ {0}, at \in Nat, i \in Nat, n \in Nat, lba \in Nat :
        /\ size = gpt.size /\ at = gpt.at /\ i = gpt.i /\ n = gpt.n /\ lba = gpt.lba /\ lba = header.list + turn
        /\ at < size /\ i < n /\ i = turn * size + at
  BY <1>0, <1>2, <1>3, <1>4
<1>6. PICK buf : buf = gpt.buf
  OBVIOUS
<1>7. gpt = [lba |-> lba, buf |-> buf, at |-> at, size |-> size, i |-> i, n |-> n]
  BY <1>2, <1>5, <1>6
<1>8. PICK entry : entry = buf[at + 1]
  OBVIOUS
<1>9. entry \in EntryRecords /\ entry.type # "none" /\ (~misread => entry = Nth(disk, header, i + 1))
  <2>1. entry = gpt.buf[gpt.at + 1]
    BY <1>5, <1>6, <1>8
  <2>2. /\ gpt.buf[gpt.at + 1] \in EntryRecords
        /\ ~misread => gpt.buf[gpt.at + 1] = Nth(disk, HeaderAt(disk), gpt.i + 1)
    BY <1>0, <1>1, <1>4, EntryRead
  <2>3. entry.type # "none"
    BY <1>0, <2>1
  <2> QED BY <1>1, <1>5, <2>1, <2>2, <2>3
<1>10. PICK r \in PartRecords : r = [base |-> entry.base, limit |-> entry.limit]
  <2>1. entry.base \in Int /\ entry.limit \in Int
    BY <1>9 DEF EntryRecords
  <2>2. [base |-> entry.base, limit |-> entry.limit] \in PartRecords
    BY <2>1 DEF PartRecords
  <2> QED BY <2>2
<1>11. parts' = Append(parts, r)
  <2>1. parts' = Append(parts, [base |-> gpt.buf[gpt.at + 1].base, limit |-> gpt.buf[gpt.at + 1].limit])
    BY DEF gpt_entry, Registers
  <2> QED BY <1>5, <1>6, <1>8, <1>10, <2>1
<1>12. /\ parts' \in Seq(PartRecords) /\ Len(parts') = i + 1
       /\ (\A k \in 1 .. i : parts'[k] = parts[k]) /\ parts'[i + 1] = r
  BY <1>2, <1>5, <1>11, Appended
<1>13. IsProtective(0)' /\ HeaderAt(disk)' = header /\ (\A l : Content(l)' = Content(l))
       /\ (\A k : Nth(disk, header, k)' = Nth(disk, header, k))
  BY <1>0, <1>1, <1>2, SameDisk DEF Nth, On
<1>14. \/ /\ at + 1 < size /\ misread' = misread
          /\ gpt' = [lba |-> lba, buf |-> buf, at |-> at + 1, size |-> size, i |-> i + 1, n |-> n]
       \/ /\ at + 1 = size /\ misread' = misread
          /\ gpt' = [lba |-> lba + 1, buf |-> Content(lba + 1).entries, at |-> 0, size |-> size, i |-> i + 1, n |-> n]
       \/ /\ at + 1 = size /\ misread' = TRUE
          /\ gpt' = [lba |-> lba + 1, buf |-> buf, at |-> 0, size |-> size, i |-> i + 1, n |-> n]
  <2>0. PICK a : a = [gpt EXCEPT !.i = @ + 1]
    OBVIOUS
  <2>1. a = [lba |-> lba, buf |-> buf, at |-> at, size |-> size, i |-> i + 1, n |-> n]
    BY ONLY <1>7, <2>0
  <2>2. PICK moved : moved = [a EXCEPT !.at = @ + 1]
    OBVIOUS
  <2>4. moved = [lba |-> lba, buf |-> buf, at |-> at + 1, size |-> size, i |-> i + 1, n |-> n]
    BY ONLY <2>1, <2>2
  <2>5. [gpt EXCEPT !.i = @ + 1, !.at = @ + 1] = moved
    BY ONLY <2>0, <2>2
  <2>6. PICK c : c = [moved EXCEPT !.at = 0]
    OBVIOUS
  <2>7. c = [lba |-> lba, buf |-> buf, at |-> 0, size |-> size, i |-> i + 1, n |-> n]
    BY ONLY <2>4, <2>6
  <2>8. PICK turned : turned = [c EXCEPT !.lba = @ + 1]
    OBVIOUS
  <2>9. turned = [lba |-> lba + 1, buf |-> buf, at |-> 0, size |-> size, i |-> i + 1, n |-> n]
    BY ONLY <2>7, <2>8
  <2>10. [moved EXCEPT !.at = 0, !.lba = @ + 1] = turned
    BY ONLY <2>6, <2>8
  <2>11. [turned EXCEPT !.buf = Content(lba + 1).entries]
          = [lba |-> lba + 1, buf |-> Content(lba + 1).entries, at |-> 0, size |-> size, i |-> i + 1, n |-> n]
    BY ONLY <2>9
  <2>3. IF moved.at < gpt.size THEN gpt' = moved /\ misread' = misread
        ELSE \/ gpt' = [turned EXCEPT !.buf = Content(turned.lba).entries] /\ misread' = misread
             \/ gpt' = turned /\ misread' = TRUE
    BY <2>5, <2>10 DEF gpt_entry
  <2>12. moved.at = at + 1 /\ turned.lba = lba + 1
    BY ONLY <2>4, <2>9
  <2>13. at + 1 < size \/ at + 1 = size
    BY <1>5
  <2>14. CASE at + 1 < size
    BY <1>5, <2>3, <2>4, <2>12, <2>14
  <2>15. CASE at + 1 = size
    <3>1. ~(moved.at < gpt.size)
      BY <1>5, <2>12, <2>15
    <3> QED BY <2>3, <2>9, <2>11, <2>12, <2>15, <3>1
  <2> QED BY <2>13, <2>14, <2>15
<1>15. gpt'.i = i + 1 /\ gpt'.n = n /\ gpt'.size = size /\ gpt'.at \in 0 .. size - 1
       /\ gpt' = [lba |-> gpt'.lba, buf |-> gpt'.buf, at |-> gpt'.at, size |-> gpt'.size, i |-> gpt'.i, n |-> gpt'.n]
  <2>1. 0 \in 0 .. size - 1 /\ (at + 1 < size => at + 1 \in 0 .. size - 1)
    BY <1>5
  <2> QED BY <1>14, <2>1
<1>16. InBuffer(header)'
  <2>0. misread \in BOOLEAN
    BY <1>0
  <2>1. CASE /\ at + 1 < size /\ misread' = misread
             /\ gpt' = [lba |-> lba, buf |-> buf, at |-> at + 1, size |-> size, i |-> i + 1, n |-> n]
    <3>1. i + 1 = turn * size + (at + 1)
      BY <1>5
    <3>2. /\ gpt'.i = turn * gpt'.size + gpt'.at /\ gpt'.lba = header.list + turn
          /\ old <= turn /\ gpt'.buf = Content(header.list + old)'.entries
          /\ ~misread' => old = turn
      BY <1>4, <1>5, <1>6, <1>13, <2>1, <3>1
    <3> QED BY <3>2 DEF InBuffer
  <2>2. ASSUME at + 1 = size
        PROVE  /\ i + 1 = (turn + 1) * size + 0 /\ lba + 1 = header.list + (turn + 1) /\ turn + 1 \in Nat
               /\ turn + 1 <= turn + 1 /\ old <= turn + 1
    <3>1. (turn + 1) * size = turn * size + size /\ turn * size \in Nat
      OBVIOUS
    <3>2. i + 1 = (turn + 1) * size + 0
      BY <1>5, <2>2, <3>1
    <3> QED BY <1>3, <1>4, <1>5, <3>2
  <2>3. CASE /\ at + 1 = size /\ misread' = misread
             /\ gpt' = [lba |-> lba + 1, buf |-> Content(lba + 1).entries, at |-> 0, size |-> size, i |-> i + 1, n |-> n]
    <3>1. gpt'.i = i + 1 /\ gpt'.size = size /\ gpt'.at = 0 /\ gpt'.lba = lba + 1 /\ gpt'.buf = Content(lba + 1).entries
      BY <2>3
    <3>2. Content(header.list + (turn + 1))' = Content(lba + 1)
      BY <1>13, <2>2, <2>3
    <3>3. /\ gpt'.i = (turn + 1) * gpt'.size + gpt'.at /\ gpt'.lba = header.list + (turn + 1)
          /\ turn + 1 <= turn + 1 /\ gpt'.buf = Content(header.list + (turn + 1))'.entries
          /\ ~misread' => turn + 1 = turn + 1
      BY <2>2, <2>3, <3>1, <3>2
    <3>4. turn + 1 \in Nat
      BY <2>2, <2>3
    <3> QED BY <3>3, <3>4 DEF InBuffer
  <2>4. CASE /\ at + 1 = size /\ misread' = TRUE
             /\ gpt' = [lba |-> lba + 1, buf |-> buf, at |-> 0, size |-> size, i |-> i + 1, n |-> n]
    <3>1. gpt'.i = i + 1 /\ gpt'.size = size /\ gpt'.at = 0 /\ gpt'.lba = lba + 1 /\ gpt'.buf = buf
      BY <2>4
    <3>2. buf = Content(header.list + old)'.entries
      BY <1>4, <1>6, <1>13
    <3>3. /\ gpt'.i = (turn + 1) * gpt'.size + gpt'.at /\ gpt'.lba = header.list + (turn + 1)
          /\ old <= turn + 1 /\ gpt'.buf = Content(header.list + old)'.entries
          /\ ~misread' => old = turn + 1
      BY <2>2, <2>4, <3>1, <3>2
    <3>4. turn + 1 \in Nat
      BY <2>2, <2>4
    <3> QED BY <3>3, <3>4 DEF InBuffer
  <2> QED BY <1>14, <2>1, <2>3, <2>4
<1>17. ~misread' => \A k \in 1 .. i + 1 :
            /\ Nth(disk, header, k)'.type # "none"
            /\ parts'[k] = [base |-> Nth(disk, header, k)'.base, limit |-> Nth(disk, header, k)'.limit]
  <2> SUFFICES ASSUME ~misread', NEW k \in 1 .. i + 1
               PROVE  /\ Nth(disk, header, k).type # "none"
                      /\ parts'[k] = [base |-> Nth(disk, header, k).base, limit |-> Nth(disk, header, k).limit]
    BY <1>13
  <2>1. ~misread
    BY <1>14
  <2>2. k = i + 1 \/ k \in 1 .. i
    OBVIOUS
  <2>3. CASE k = i + 1
    BY <1>9, <1>10, <1>12, <2>1, <2>3
  <2>4. CASE k \in 1 .. i
    BY <1>2, <1>5, <1>12, <2>1, <2>4
  <2> QED BY <2>2, <2>3, <2>4
<1>18. i + 1 \in 0 .. n
  BY <1>5
<1> QED BY <1>2, <1>5, <1>12, <1>13, <1>15, <1>16, <1>17, <1>18 DEF ListInv

\* At the end of the list, or at its first empty entry, all are registered.
LEMMA ListEnds ==
  ASSUME PartInv, gpt_end
  PROVE  parts \in Seq(PartRecords) /\ (~misread => parts = Described)
<1>0. step = "list" /\ disk \in Disks /\ ListInv /\ (gpt.i = gpt.n \/ gpt.buf[gpt.at + 1].type = "none")
  BY DEF gpt_end, Probing, PartInv
<1>1. PICK header : header = HeaderAt(disk)
  OBVIOUS
<1>2. /\ IsProtective(0) /\ header.kind = "header"
      /\ gpt.n = header.n /\ gpt.i \in 0 .. gpt.n /\ InBuffer(header)
      /\ parts \in Seq(PartRecords) /\ Len(parts) = gpt.i
      /\ ~misread => \A k \in 1 .. gpt.i :
            /\ Nth(disk, header, k).type # "none"
            /\ parts[k] = [base |-> Nth(disk, header, k).base, limit |-> Nth(disk, header, k).limit]
  BY <1>0, <1>1 DEF ListInv
<1>3. header.n \in Nat
  BY <1>0, <1>1, <1>2, HeaderIs
<1>4. PICK i \in Nat, n \in Nat : i = gpt.i /\ n = header.n /\ n = gpt.n /\ i <= n
  BY <1>2, <1>3
<1>5. ASSUME ~misread
      PROVE  parts = Described
  <2> DEFINE used == {m \in 0 .. n : \A k \in 1 .. m : Nth(disk, header, k).type # "none"}
  <2>1. i \in used
    BY <1>2, <1>4, <1>5
  <2>2. \A m \in used : m <= i
    <3>1. CASE i = n
      BY <3>1
    <3>2. CASE i # n
      <4>1. gpt.i < gpt.n /\ gpt.buf[gpt.at + 1].type = "none"
        BY <1>0, <1>4, <3>2
      <4>2. PICK turn \in Nat, old \in Nat :
              /\ gpt.i = turn * gpt.size + gpt.at /\ old <= turn
              /\ gpt.buf = Content(header.list + old).entries /\ (~misread => old = turn)
        BY <1>2 DEF InBuffer
      <4>3. gpt.buf[gpt.at + 1] = Nth(disk, HeaderAt(disk), gpt.i + 1)
        BY <1>0, <1>1, <1>5, <4>1, <4>2, EntryRead
      <4>4. Nth(disk, header, i + 1).type = "none"
        BY <1>1, <1>4, <4>1, <4>3
      <4> SUFFICES ASSUME NEW m \in used, i < m PROVE FALSE
        BY <1>4
      <4>5. i + 1 \in 1 .. m
        OBVIOUS
      <4> QED BY <4>4, <4>5
    <3> QED BY <3>1, <3>2
  <2>3. used \subseteq Nat
    OBVIOUS
  <2> DEFINE all == CHOOSE m \in used : \A k \in used : k <= m
  <2>4. all = i
    <3> HIDE DEF used
    <3>1. all \in used /\ \A k \in used : k <= all
      BY <2>1, <2>2
    <3>2. all \in Nat
      BY <2>3, <3>1
    <3>3. i <= all /\ all <= i
      BY <2>1, <2>2, <3>1
    <3> HIDE DEF all
    <3> QED BY <3>2, <3>3
  <2>5. InList(disk, header) = [k \in 1 .. all |-> [base |-> Nth(disk, header, k).base, limit |-> Nth(disk, header, k).limit]]
    BY <1>4 DEF InList
  <2> HIDE DEF all, used
  <2>6. PICK l : l = [k \in 1 .. i |-> [base |-> Nth(disk, header, k).base, limit |-> Nth(disk, header, k).limit]]
    OBVIOUS
  <2>7. parts = [k \in 1 .. i |-> parts[k]]
    BY <1>2, <1>4
  <2>8. \A k \in 1 .. i : parts[k] = [base |-> Nth(disk, header, k).base, limit |-> Nth(disk, header, k).limit]
    BY <1>2, <1>4, <1>5
  <2>9. parts = l
    BY ONLY <2>6, <2>7, <2>8
  <2>10. Described = InList(disk, header)
    BY <1>1, <1>2, HeaderFound DEF Described
  <2> QED BY <2>4, <2>5, <2>6, <2>9, <2>10
<1> QED BY <1>2, <1>5

-----------------------------------------------------------------------------
LEMMA DescribedStays ==
  ASSUME disk' = disk
  PROVE  Described' = Described
BY SameDisk DEF Described, IsProtective, IsTable, TableAt, Content, On

LEMMA NotReadBefore ==
  ASSUME PartInv, step # "done", reading' = reading
  PROVE  ReadingInv'
<1>1. reading.part = 0
  BY DEF PartInv, ReadingInv
<1> QED BY <1>1 DEF ReadingInv

LEMMA FailingIsFine ==
  ASSUME PartInv, Fails, disk' = disk, reading' = reading, step # "done"
  PROVE  PartInv'
<1>1. ReadingInv'
  BY NotReadBefore
<1>2. disk' \in Disks /\ misread' \in BOOLEAN /\ step' \in {"gpt", "none"} /\ parts' = <<>>
  BY DEF Fails, PartInv
<1> QED BY <1>1, <1>2 DEF PartInv

LEMMA AppendTo ==
  ASSUME NEW s \in Seq(PartRecords), NEW u \in Seq(PartRecords), NEW r \in PartRecords
  PROVE  Append(s \o u, r) = s \o Append(u, r)
<1>1. <<r>> \in Seq(PartRecords)
  OBVIOUS
<1>2. s \o u \in Seq(PartRecords)
  OBVIOUS
<1>3. Append(s \o u, r) = (s \o u) \o <<r>>
  BY <1>2, AppendIsConcat
<1>4. Append(u, r) = u \o <<r>>
  BY AppendIsConcat
<1>5. (s \o u) \o <<r>> = s \o (u \o <<r>>)
  BY <1>1, ConcatAssociative
<1> QED BY <1>3, <1>4, <1>5

LEMMA PartNextCorrect ==
  ASSUME PartInv, [PartitionNext]_partitionVars
  PROVE  PartInv'
<1>0. disk \in Disks /\ misread \in BOOLEAN /\ PerTable \in Nat \ {0} /\ Room \in Nat
  BY PartitionAssumption DEF PartInv
<1>1. CASE register_partitions
  <2>1. /\ step = "mbr" /\ disk' = disk /\ reading' = reading /\ Table.i = 0 /\ TablesInv
    BY <1>1 DEF register_partitions, Probing, PartInv
  <2>2. CASE Fails
    BY <2>1, <2>2, FailingIsFine
  <2>3. CASE /\ IsTable(Table.base) /\ ~IsProtective(Table.base)
             /\ tables' = Append(Front(tables), Later)
             /\ UNCHANGED <<step, gpt, parts, misread>>
    <3>1. Table.i <= PerTable /\ TableAt(disk, Table.base)
      BY <1>0, <2>1, <2>3 DEF IsTable
    <3>2. Len(tables) = 1 => ~IsProtective(0)
      <4>1. Table = tables[Len(tables)]
        BY <2>1, TableIs
      <4> QED BY <2>1, <2>3, <4>1 DEF TablesInv
    <3>3. (IF Table.i = 0 THEN 0 ELSE Table.i - 1) = Table.i
      BY <2>1
    <3>4. TablesInv'
      BY <2>1, <2>3, <3>1, <3>2, <3>3, TableMovesOn
    <3>5. ReadingInv'
      BY <2>1, NotReadBefore
    <3> QED BY <1>0, <2>1, <2>3, <3>4, <3>5 DEF PartInv
  <2> QED BY <1>1, <2>2, <2>3 DEF register_partitions
<1>2. CASE register_entry
  <2>1. /\ step = "mbr" /\ disk' = disk /\ reading' = reading /\ Table.i \in 1 .. PerTable /\ TablesInv
        /\ gpt' = gpt /\ misread' = misread
    BY <1>2 DEF register_entry, Probing, PartInv
  <2>2. /\ tables \in Seq(Rows) /\ tables # <<>> /\ Len(tables) \in Nat \ {0} /\ Table \in Rows
        /\ Table = tables[Len(tables)]
    BY <2>1, TableIs
  <2>3. PICK b \in 0 .. Room, i \in 1 .. PerTable : b = Table.base /\ i = Table.i /\ i - 1 \in 0 .. PerTable /\ i # 0
    BY <1>0, <2>1, <2>2 DEF Rows
  <2>4. TableAt(disk, b)
    <3>1. Len(tables) \in 1 .. Len(tables)
      BY <2>2
    <3> QED BY <2>1, <2>2, <2>3, <3>1 DEF TablesInv
  <2>5. Len(tables) = 1 => ~IsProtective(0)
    BY <2>1, <2>2, <2>3 DEF TablesInv
  <2>6. PICK e \in EntryRecords : e = TableEntry /\ e = On(disk, b).entries[i]
    <3>1. TableEntry = On(disk, b).entries[i]
      BY <2>3 DEF TableEntry, Content
    <3> QED BY <1>0, <2>4, <3>1, EntryIs
  <2>7. /\ e.type = "none" => UpTo(disk, b, i) = UpTo(disk, b, i - 1)
        /\ e.type = "extended" => b + e.base \in 0 .. Room
        /\ e.type \notin {"none", "extended"} =>
             UpTo(disk, b, i) = Append(UpTo(disk, b, i - 1), [base |-> b + e.base, limit |-> b + e.base + e.count - 1])
    BY <1>0, <2>4, <2>6, UpToIs
  <2>8. (IF Table.i = 0 THEN 0 ELSE Table.i - 1) = i - 1
    BY <2>3
  <2>9. ReadingInv'
    BY <2>1, NotReadBefore
  <2>10. /\ Below(Table, TableEntry) = b + e.base /\ TableAt(disk, Table.base) /\ Table.i <= PerTable
    BY <2>3, <2>4, <2>6 DEF Below
  <2>11. step' = step /\ TablesInv'
    <3>1. CASE e.type = "none"
      <4>1. tables' = Append(Front(tables), Later) /\ step' = step /\ parts' = parts
        BY <1>2, <2>6, <3>1 DEF register_entry
      <4>2. \A acc \in Seq(PartRecords) :
              parts = acc \o UpTo(disk, Table.base, IF Table.i = 0 THEN 0 ELSE Table.i - 1)
                => parts = acc \o UpTo(disk, Table.base, Table.i)
        BY <2>3, <2>7, <2>8, <3>1
      <4> QED BY <2>1, <2>5, <2>10, <4>1, <4>2, TableMovesOn
    <3>2. CASE e.type = "extended"
      <4>1. PICK inner \in Rows : inner = [base |-> b + e.base, i |-> 0]
        <5>1. [base |-> b + e.base, i |-> 0] \in Rows
          BY <1>0, <2>7, <3>2 DEF Rows
        <5> QED BY <5>1
      <4>2. tables' = Append(Front(tables), Later) \o <<inner>> /\ step' = step /\ parts' = parts
        BY <1>2, <2>6, <2>10, <3>2, <4>1 DEF register_entry
      <4>3. Append(Front(tables), Later) \o <<inner>> = Append(Append(Front(tables), Later), inner)
        <5>1. Later \in Rows
          <6>1. Later = [base |-> Table.base, i |-> Table.i + 1]
            BY <2>1, TableIs DEF Later
          <6> QED BY <1>0, <2>1, <2>2, <6>1 DEF Rows
        <5>2. Append(Front(tables), Later) \in Seq(Rows)
          BY <2>2, <5>1, Renewed
        <5>3. PICK f \in Seq(Rows) : f = Append(Front(tables), Later)
          BY <5>2
        <5>4. f \o <<inner>> = Append(f, inner)
          OBVIOUS
        <5> QED BY <5>3, <5>4
      <4>4. inner.i = 0 /\ inner.base = Table.base + TableEntry.base /\ TableEntry.type = "extended"
        BY <2>3, <2>6, <3>2, <4>1
      <4> QED BY <1>0, <2>1, <2>10, <4>2, <4>3, <4>4, GoesInside
    <3>3. CASE e.type \notin {"none", "extended"}
      <4>1. PICK r \in PartRecords : r = [base |-> b + e.base, limit |-> b + e.base + e.count - 1]
        <5>1. [base |-> b + e.base, limit |-> b + e.base + e.count - 1] \in PartRecords
          BY DEF EntryRecords, PartRecords
        <5> QED BY <5>1
      <4>2. tables' = Append(Front(tables), Later) /\ step' = step /\ parts' = Append(parts, r)
        BY <1>2, <2>6, <2>10, <3>3, <4>1 DEF register_entry, Registers
      <4>3. \A acc \in Seq(PartRecords) :
              parts = acc \o UpTo(disk, Table.base, IF Table.i = 0 THEN 0 ELSE Table.i - 1)
                => Append(parts, r) = acc \o UpTo(disk, Table.base, Table.i)
        <5> SUFFICES ASSUME NEW acc \in Seq(PartRecords), parts = acc \o UpTo(disk, b, i - 1)
                     PROVE  Append(parts, r) = acc \o UpTo(disk, b, i)
          BY <2>3, <2>8
        <5>1. PICK u \in Seq(PartRecords) : u = UpTo(disk, b, i - 1)
          BY <1>0, <2>3, UpToIs
        <5>2. UpTo(disk, b, i) = Append(u, r)
          BY <2>7, <3>3, <4>1, <5>1
        <5>3. Append(acc \o u, r) = acc \o Append(u, r)
          BY ONLY AppendTo, acc \in Seq(PartRecords), u \in Seq(PartRecords), r \in PartRecords
        <5> QED BY <5>1, <5>2, <5>3
      <4> QED BY <2>1, <2>5, <2>10, <4>2, <4>3, TableMovesOn
    <3> QED BY <3>1, <3>2, <3>3
  <2> QED BY <1>0, <2>1, <2>9, <2>11 DEF PartInv
<1>3. CASE register_entry_fails
  BY <1>3, FailingIsFine DEF register_entry_fails, Probing
<1>4. CASE register_partitions_end
  <2>1. /\ step = "mbr" /\ disk' = disk /\ reading' = reading /\ Table.i > PerTable /\ TablesInv
        /\ tables' = Front(tables) /\ parts' = parts /\ misread' = misread
        /\ step' = IF Len(tables) = 1 THEN "done" ELSE step
    BY <1>4 DEF register_partitions_end, Probing, PartInv
  <2>2. ReadingInv'
    BY <2>1, NotReadBefore
  <2>3. CASE Len(tables) = 1
    <3>1. parts \in Seq(PartRecords) /\ parts = Described
      BY <1>0, <2>1, <2>3, OutermostEnds
    <3>2. Described' = Described
      BY <2>1, DescribedStays
    <3> QED BY <1>0, <2>1, <2>2, <2>3, <3>1, <3>2 DEF PartInv
  <2>4. CASE Len(tables) # 1
    <3>1. TablesInv'
      BY <1>0, <2>1, <2>4, ComesBack
    <3> QED BY <1>0, <2>1, <2>2, <2>4, <3>1 DEF PartInv
  <2> QED BY <2>3, <2>4
<1>5. CASE gpt_probe
  <2>1. step = "gpt" /\ disk' = disk /\ reading' = reading
    BY <1>5 DEF gpt_probe, Probing
  <2>2. ReadingInv'
    BY <2>1, NotReadBefore
  <2>3. CASE Fails
    BY <2>1, <2>3, FailingIsFine
  <2>4. CASE ~Fails
    <3>1. step' = "list" /\ misread' = misread
      BY <1>5, <2>4 DEF gpt_probe
    <3>2. ListInv'
      BY <1>5, <2>1, <3>1, ListBegins
    <3> QED BY <1>0, <2>1, <2>2, <3>1, <3>2 DEF PartInv
  <2> QED BY <2>3, <2>4
<1>6. CASE gpt_entry
  <2>1. step = "list" /\ step' = step /\ disk' = disk /\ reading' = reading
    BY <1>6 DEF gpt_entry, Probing
  <2>2. misread' \in BOOLEAN
    BY <1>0, <1>6 DEF gpt_entry
  <2>3. ReadingInv'
    BY <2>1, NotReadBefore
  <2>4. ListInv'
    BY <1>6, ListContinues
  <2> QED BY <1>0, <2>1, <2>2, <2>3, <2>4 DEF PartInv
<1>7. CASE gpt_entry_fails
  BY <1>7, FailingIsFine DEF gpt_entry_fails, Probing
<1>8. CASE gpt_end
  <2>1. step = "list" /\ step' = "done" /\ disk' = disk /\ reading' = reading /\ parts' = parts /\ misread' = misread
    BY <1>8 DEF gpt_end, Probing
  <2>2. ReadingInv'
    BY <2>1, NotReadBefore
  <2>3. parts \in Seq(PartRecords) /\ (~misread => parts = Described)
    BY <1>8, ListEnds
  <2>4. Described' = Described
    BY <2>1, DescribedStays
  <2> QED BY <1>0, <2>1, <2>2, <2>3, <2>4 DEF PartInv
<1>9. CASE read_sectors
  <2>1. PICK p \in 1 .. Len(parts), lba \in Lbas, count \in ReadCounts :
        /\ step = "done"
        /\ reading' = [part |-> p, lba |-> lba, count |-> count,
                       got |-> Clipped(parts[p], lba, count), sector |-> parts[p].base + lba]
        /\ UNCHANGED <<disk, step, tables, gpt, parts, misread>>
    BY <1>9 DEF read_sectors
  <2>2. ReadingInv'
    BY <2>1 DEF ReadingInv, Clipped
  <2>3. Described' = Described
    BY <2>1, DescribedStays
  <2>4. parts \in Seq(PartRecords) /\ (~misread => parts = Described)
    BY <2>1 DEF PartInv
  <2> QED BY <1>0, <2>1, <2>2, <2>3, <2>4 DEF PartInv
<1>10. CASE UNCHANGED partitionVars
  <2>1. /\ disk' = disk /\ step' = step /\ tables' = tables /\ gpt' = gpt /\ parts' = parts /\ misread' = misread
        /\ reading' = reading
    BY <1>10 DEF partitionVars
  <2>2. TablesInv' = TablesInv /\ ListInv' = ListInv /\ ReadingInv' = ReadingInv /\ Described' = Described
    BY <2>1, DescribedStays DEF TablesInv, ListInv, ReadingInv, IsProtective, IsTable, TableAt, Content, On, Clipped,
       HeaderAt, InBuffer, Nth
  <2> QED BY <2>1, <2>2 DEF PartInv
<1> QED BY <1>1, <1>2, <1>3, <1>4, <1>5, <1>6, <1>7, <1>8, <1>9, <1>10 DEF PartitionNext

(* A probe that succeeds has registered what the tables describe, nested    *)
(* ones included (mbr.c:73), and a read that begins in a partition has its  *)
(* sectors up to the last (part.c:104), for any disk, however deep its      *)
(* tables are nested and however long its list is.                          *)
THEOREM PartitionsCorrect == PartitionSpec => []PartitionsAreRight
<1>1. PartitionInit => PartInv
  BY PartStart
<1>2. PartInv /\ [PartitionNext]_partitionVars => PartInv'
  BY PartNextCorrect
<1>3. PartInv => PartitionsAreRight
  BY PartInvSuffices
<1> QED
  BY <1>1, <1>2, <1>3, PTL DEF PartitionSpec

-----------------------------------------------------------------------------
(* The terminal                                                              *)

\* Where a sequence that is heard has its numbers: a number that was begun is
\* in the last argument.
ArgumentsInv ==
    esc.state = "csi" =>
        \E args \in Seq(Int), digits \in BOOLEAN : esc = Csi(args, digits) /\ (digits => args # <<>>)

OnScreenInv ==
    /\ ~outside /\ ArgumentsInv
    /\ \E x \in 0 .. Width - 1, y \in 0 .. Height - 1 : cursor = <<x, y>>
    /\ \E x \in 0 .. Width - 1, y \in 0 .. Height - 1 : saved_cursor = <<x, y>>

TermInv == tame \in BOOLEAN /\ (tame => OnScreenInv)

LEMMA SizesAreNatural ==
  /\ Width \in Nat /\ Width > 0 /\ Height \in Nat /\ Height > 0
  /\ TabStop \in Nat /\ TabStop > 0 /\ TabStop <= Width
BY TerminalAssumption

\* A box of cells that are on the screen is.
LEMMA BoxIsInside ==
  ASSUME NEW x0, NEW y0, NEW x1, NEW y1, x0 .. x1 \subseteq 0 .. Width - 1, y0 .. y1 \subseteq 0 .. Height - 1
  PROVE  Box(x0, y0, x1, y1) \subseteq Positions
<1> SUFFICES ASSUME NEW x \in x0 .. x1, NEW y \in y0 .. y1
             PROVE  CellAt(x, y) \in Positions
  BY DEF Box
<1>1. x \in 0 .. Width - 1 /\ y \in 0 .. Height - 1
  OBVIOUS
<1>2. Width \in Nat \ {0} /\ Height \in Nat
  BY SizesAreNatural
<1>3. y * Width + x \in 0 .. Width * Height - 1
  BY ONLY <1>1, <1>2, PlaceInGrid
<1> QED BY <1>3 DEF CellAt, Positions

LEMMA CellIsInside ==
  ASSUME NEW x \in 0 .. Width - 1, NEW y \in 0 .. Height - 1
  PROVE  CellAt(x, y) \in Positions
<1>1. Width \in Nat \ {0} /\ Height \in Nat
  BY SizesAreNatural
<1>2. y * Width + x \in 0 .. Width * Height - 1
  BY ONLY <1>1, PlaceInGrid
<1> QED BY <1>2 DEF CellAt, Positions

\* Neither kind of console moves a coordinate that is not negative.
LEMMA PlacedAsAsked ==
  ASSUME NEW x \in Nat, NEW y \in Nat
  PROVE  PlacedAt(x, y) = <<x, y>>
BY DEF PlacedAt

LEMMA ReachesInside ==
  ASSUME NEW places, places \subseteq Positions, Reaches(places)
  PROVE  ~outside'
BY DEF Reaches

\* On the next row, or on the last one after the screen was scrolled.
LEMMA NewLineStays ==
  ASSUME ~outside, NEW x \in 0 .. Width - 1, NEW y \in 0 .. Height - 1, NewLine(x, y)
  PROVE  ~outside' /\ \E v \in 0 .. Width - 1, w \in 0 .. Height - 1 : cursor' = <<v, w>>
<1>0. Width \in Nat /\ Height \in Nat /\ Height > 0 /\ x \in Nat /\ y \in Nat
  BY SizesAreNatural
<1>1. CASE y + 1 < Height
  <2>1. cursor' = <<x, y + 1>> /\ outside' = outside
    BY <1>0, <1>1, PlacedAsAsked DEF NewLine, Keep
  <2>2. y + 1 \in 0 .. Height - 1
    BY <1>0, <1>1
  <2> QED BY <2>1, <2>2
<1>2. CASE ~(y + 1 < Height)
  <2>1. cursor' = PlacedAt(x, Height - 1) /\ console_scroll(1)
    BY <1>2 DEF NewLine
  <2>2. Height - 1 \in Nat /\ Height - 1 \in 0 .. Height - 1
    BY <1>0
  <2>3. cursor' = <<x, Height - 1>>
    BY <1>0, <2>1, <2>2, PlacedAsAsked
  <2>4. FreeRows(1) \subseteq Positions
    <3>1. FreeRows(1) = Box(0, Height - 1, Width - 1, Height - 1)
      BY DEF FreeRows
    <3>2. 0 .. Width - 1 \subseteq 0 .. Width - 1 /\ Height - 1 .. Height - 1 \subseteq 0 .. Height - 1
      BY <1>0
    <3> QED BY ONLY <3>1, <3>2, BoxIsInside
  <2>5. Reaches(FreeRows(1))
    BY <2>1 DEF console_scroll
  <2>6. ~outside'
    BY ONLY <2>4, <2>5, ReachesInside
  <2> QED BY <2>2, <2>3, <2>6
<1> QED BY <1>1, <1>2

\* What every step keeps that leaves the arguments and the place that was
\* saved alone.
LEMMA OthersAreKept ==
  ASSUME OnScreenInv, ~outside',
         esc' = esc \/ esc'.state # "csi", saved_cursor' = saved_cursor,
         \E v \in 0 .. Width - 1, w \in 0 .. Height - 1 : cursor' = <<v, w>>
  PROVE  OnScreenInv'
<1>1. ArgumentsInv'
  <2>1. CASE esc' = esc
    BY <2>1 DEF OnScreenInv, ArgumentsInv
  <2>2. CASE esc'.state # "csi"
    BY <2>2 DEF ArgumentsInv
  <2> QED BY <2>1, <2>2
<1> QED BY <1>1 DEF OnScreenInv

\* Where the cursor is while the terminal is tame.
LEMMA CursorIs ==
  ASSUME OnScreenInv
  PROVE  \E x \in 0 .. Width - 1, y \in 0 .. Height - 1 : cursor = <<x, y>> /\ cx = x /\ cy = y
BY DEF OnScreenInv, cx, cy

LEMMA BellStays ==
  ASSUME OnScreenInv, bell
  PROVE  OnScreenInv'
<1>1. PICK x \in 0 .. Width - 1, y \in 0 .. Height - 1 : cx = x /\ cy = y
  BY CursorIs
<1>2. cursor' = PlacedAt(x, y) /\ esc' = esc /\ outside' = outside /\ saved_cursor' = saved_cursor
  BY <1>1 DEF bell, Text, Keep
<1>3. cursor' = <<x, y>>
  BY <1>2, SizesAreNatural, PlacedAsAsked
<1>4. ~outside
  BY DEF OnScreenInv
<1> QED BY <1>2, <1>3, <1>4, OthersAreKept

\* Back to the last cell in use, or to the tab stop before the cursor.
LEMMA BackspaceGoesBack ==
  ASSUME NEW x \in 0 .. Width - 1, NEW y, x >= 1, cx = x, cy = y
  PROVE  console_backspace \in 0 .. x
<1>0. Width \in Nat /\ TabStop \in Nat /\ TabStop > 0 /\ x \in Nat /\ x - 1 \in Nat
  BY SizesAreNatural
<1> DEFINE back == ((x - 1) \div TabStop) * TabStop
           used == {p \in back .. (x - 1) : CellAt(p, y) \in Positions /\ cells[CellAt(p, y)] # Nothing}
           last == CHOOSE p \in used : \A other \in used : other <= p
<1>1. back \in 0 .. x - 1
  <2>1. PICK b \in Nat : b = x - 1
    BY <1>0
  <2>2. PICK q \in Nat : q = b \div TabStop
    BY <1>0, <2>1, Division
  <2>3. b = TabStop * q + (b % TabStop) /\ b % TabStop \in Nat
    BY <1>0, <2>2, Division
  <2>4. TabStop * q \in Nat /\ q * TabStop = TabStop * q
    BY <1>0
  <2> QED BY <2>1, <2>2, <2>3, <2>4
<1>2. console_backspace = IF cells[CellAt(x - 1, y)] # Nothing THEN x - 1 ELSE IF used = {} THEN back ELSE 1 + last
  BY DEF console_backspace
<1>3. used # {} => last \in back .. x - 1
  <2>1. ASSUME used # {} PROVE \E p \in used : \A other \in used : other <= p
    <3> DEFINE far == {n \in Nat : x - n \in used}
    <3>1. used \subseteq back .. x - 1
      OBVIOUS
    <3> HIDE DEF used, back
    <3>2. \A p \in used : p \in Nat /\ x - p \in far
      BY <1>0, <1>1, <3>1
    <3>3. far \in SUBSET Nat /\ far # {}
      BY <2>1, <3>2
    <3>4. PICK n \in far : \A k \in far : n <= k
      BY <3>3, LeastNatural
    <3>5. x - n \in used /\ n \in Nat
      BY <3>4
    <3>6. \A other \in used : other <= x - n
      BY <1>0, <3>2, <3>4, <3>5
    <3> QED BY <3>5, <3>6
  <2>2. ASSUME used # {} PROVE last \in used
    BY <2>1, <2>2
  <2> QED BY <2>2
<1> HIDE DEF used, last, back
<1>4. CASE cells[CellAt(x - 1, y)] # Nothing
  BY <1>0, <1>2, <1>4
<1>5. CASE ~(cells[CellAt(x - 1, y)] # Nothing) /\ used = {}
  BY <1>0, <1>1, <1>2, <1>5
<1>6. CASE ~(cells[CellAt(x - 1, y)] # Nothing) /\ used # {}
  BY <1>0, <1>1, <1>2, <1>3, <1>6
<1> QED BY <1>4, <1>5, <1>6

LEMMA BackspaceStays ==
  ASSUME OnScreenInv, backspace
  PROVE  OnScreenInv'
<1>1. PICK x \in 0 .. Width - 1, y \in 0 .. Height - 1 : cursor = <<x, y>> /\ cx = x /\ cy = y
  BY CursorIs
<1>2. esc' = esc /\ saved_cursor' = saved_cursor /\ ~outside
  BY DEF backspace, Text, OnScreenInv
<1>3. x \in Nat /\ y \in Nat /\ Width \in Nat /\ Height \in Nat
  BY SizesAreNatural
<1>4. CASE x < 1
  <2>1. cursor' = PlacedAt(x, y) /\ outside' = outside
    BY <1>1, <1>4 DEF backspace, Keep
  <2>2. cursor' = <<x, y>>
    BY <1>3, <2>1, PlacedAsAsked
  <2> QED BY <1>2, <2>1, <2>2, OthersAreKept
<1>5. CASE ~(x < 1)
  <2>1. x - 1 \in 0 .. Width - 1
    BY <1>3, <1>5
  <2>2. CellAt(x - 1, y) \in Positions
    BY <2>1, CellIsInside
  <2>3. cursor' = PlacedAt(console_backspace, y) /\ outside' = outside
    BY <1>1, <1>5, <2>2 DEF backspace, Keep
  <2>4. x >= 1
    BY <1>3, <1>5
  <2>5. console_backspace \in 0 .. x
    BY <1>1, <2>4, BackspaceGoesBack
  <2>6. PICK b \in 0 .. x : b = console_backspace
    BY <2>5
  <2>7. b \in Nat /\ b \in 0 .. Width - 1
    BY <1>3, <2>6
  <2>8. cursor' = <<b, y>>
    BY <1>3, <2>3, <2>6, <2>7, PlacedAsAsked
  <2> QED BY <1>2, <2>3, <2>7, <2>8, OthersAreKept
<1> QED BY <1>4, <1>5

\* The next stop is at most a tab away.
LEMMA StopIsNear ==
  ASSUME NEW x \in Nat
  PROVE  NextStop(x) \in Nat /\ NextStop(x) > x /\ NextStop(x) <= x + TabStop
<1>0. TabStop \in Nat /\ TabStop > 0
  BY SizesAreNatural
<1>1. PICK q \in Nat : q = x \div TabStop
  BY <1>0, Division
<1>2. x = TabStop * q + (x % TabStop) /\ x % TabStop \in Nat /\ x % TabStop < TabStop
  BY <1>0, <1>1, Division
<1>3. NextStop(x) = (q + 1) * TabStop
  BY <1>1 DEF NextStop
<1>4. (q + 1) * TabStop = TabStop * q + TabStop /\ TabStop * q \in Nat
  BY <1>0
<1> QED BY <1>0, <1>2, <1>3, <1>4

LEMMA TabStays ==
  ASSUME OnScreenInv, tab, tame'
  PROVE  OnScreenInv'
<1>1. PICK x \in 0 .. Width - 1, y \in 0 .. Height - 1 : cursor = <<x, y>> /\ cx = x /\ cy = y
  BY CursorIs
<1>2. x \in Nat /\ y \in Nat /\ Width \in Nat /\ Height \in Nat /\ Height > 0 /\ Width > 0 /\ TabStop \in Nat /\ TabStop <= Width
  BY SizesAreNatural
<1>3. PICK stop \in Nat : stop = NextStop(x) /\ stop > x /\ stop <= x + TabStop
  BY <1>2, StopIsNear
<1>4. /\ Reaches(Box(x, y, stop, y)) /\ esc' = esc /\ saved_cursor' = saved_cursor
      /\ IF stop < Width THEN cursor' = PlacedAt(stop, y)
         ELSE IF y + 1 < Height THEN cursor' = PlacedAt(0, y + 1)
         ELSE cursor' = PlacedAt(0, Height - 1)
      /\ stop < Width \/ y < Height - 1
  BY <1>1, <1>3 DEF tab, Text
<1>5. \E v \in 0 .. Width - 1, w \in 0 .. Height - 1 : cursor' = <<v, w>>
  <2>1. CASE stop < Width
    <3>1. cursor' = <<stop, y>>
      BY <1>2, <1>4, <2>1, PlacedAsAsked
    <3>2. stop \in 0 .. Width - 1
      BY <1>2, <2>1
    <3> QED BY <3>1, <3>2
  <2>2. CASE ~(stop < Width)
    <3>1. y + 1 < Height /\ y + 1 \in 0 .. Height - 1 /\ 0 \in 0 .. Width - 1
      BY <1>2, <1>4, <2>2
    <3>2. cursor' = <<0, y + 1>>
      BY <1>2, <1>4, <2>2, <3>1, PlacedAsAsked
    <3> QED BY <3>1, <3>2
  <2> QED BY <2>1, <2>2
<1>6. Box(x, y, stop, y) \subseteq Positions
  <2> SUFFICES ASSUME NEW p \in x .. stop, NEW row \in y .. y
               PROVE  CellAt(p, row) \in Positions
    BY DEF Box
  <2>1. row = y /\ p \in Nat
    BY <1>2
  <2>2. CASE p < Width
    <3>1. p \in 0 .. Width - 1
      BY <1>2, <2>1, <2>2
    <3> QED BY <2>1, <3>1, CellIsInside
  <2>3. CASE ~(p < Width)
    <3>1. p - Width \in 0 .. Width - 1
      BY <1>2, <1>3, <2>1, <2>3
    <3>2. y + 1 \in 0 .. Height - 1
      BY <1>2, <1>3, <1>4, <2>1, <2>3
    <3>3. CellAt(p - Width, y + 1) \in Positions
      BY <3>1, <3>2, CellIsInside
    <3>4. CellAt(p - Width, y + 1) = CellAt(p, y)
      BY <1>2, <2>1 DEF CellAt
    <3> QED BY <2>1, <3>3, <3>4
  <2> QED BY <2>2, <2>3
<1>7. ~outside'
  BY ONLY <1>4, <1>6, ReachesInside
<1> QED BY <1>4, <1>5, <1>7, OthersAreKept

LEMMA NewLinesStay ==
  ASSUME OnScreenInv, newline \/ vertical_tab
  PROVE  OnScreenInv'
<1>1. PICK x \in 0 .. Width - 1, y \in 0 .. Height - 1 : cursor = <<x, y>> /\ cx = x /\ cy = y
  BY CursorIs
<1>2. esc' = esc /\ saved_cursor' = saved_cursor /\ ~outside
  BY DEF newline, vertical_tab, Text, OnScreenInv
<1>3. 0 \in 0 .. Width - 1
  BY SizesAreNatural
<1>4. NewLine(0, y) \/ NewLine(x, y)
  BY <1>1 DEF newline, vertical_tab
<1>5. ~outside' /\ \E v \in 0 .. Width - 1, w \in 0 .. Height - 1 : cursor' = <<v, w>>
  BY <1>2, <1>3, <1>4, NewLineStays
<1> QED BY <1>2, <1>5, OthersAreKept

LEMMA ReturnAndEscapeStay ==
  ASSUME OnScreenInv, carriage_return \/ escape
  PROVE  OnScreenInv'
<1>1. PICK x \in 0 .. Width - 1, y \in 0 .. Height - 1 : cursor = <<x, y>> /\ cx = x /\ cy = y
  BY CursorIs
<1>2. /\ esc' = esc \/ esc'.state # "csi"
      /\ saved_cursor' = saved_cursor /\ ~outside /\ outside' = outside
  BY DEF carriage_return, escape, Text, Keep, OnScreenInv
<1>3. cursor' = PlacedAt(0, y) \/ cursor' = PlacedAt(x, y)
  BY <1>1 DEF carriage_return, escape
<1>4. 0 \in 0 .. Width - 1 /\ x \in Nat /\ y \in Nat
  BY SizesAreNatural
<1>5. cursor' = <<0, y>> \/ cursor' = <<x, y>>
  BY <1>3, <1>4, PlacedAsAsked
<1> QED BY <1>2, <1>4, <1>5, OthersAreKept

\* A wide character that does not fit starts in the next row.
LEMMA StartIsInside ==
  ASSUME NEW ch, NEW x \in 0 .. Width - 1, NEW y \in 0 .. Height - 1, cursor = <<x, y>>
  PROVE  \E v \in 0 .. Width - 1, w \in 0 .. Height - 1 :
            Start(ch) = <<v, w>> /\ v = IF Wraps(ch) THEN 0 ELSE x
<1>0. Width \in Nat /\ Height \in Nat /\ x \in Nat /\ y \in Nat /\ 0 \in 0 .. Width - 1 /\ cy = y
  BY SizesAreNatural DEF cy
<1>1. CASE ~Wraps(ch)
  BY <1>1 DEF Start
<1>2. CASE Wraps(ch)
  <2>1. PICK w : w = IF Scrolls(ch) THEN Height - 1 ELSE y + 1
    OBVIOUS
  <2>2. w \in 0 .. Height - 1 /\ w \in Nat
    BY <1>0, <1>2, <2>1, SizesAreNatural DEF Scrolls
  <2>3. Start(ch) = PlacedAt(0, w)
    BY <1>0, <1>2, <2>1 DEF Start
  <2>4. Start(ch) = <<0, w>>
    BY <2>2, <2>3, PlacedAsAsked
  <2> QED BY <1>0, <1>2, <2>2, <2>4
<1> QED BY <1>1, <1>2

LEMMA PrintStays ==
  ASSUME OnScreenInv, print, tame'
  PROVE  OnScreenInv'
<1>1. PICK x \in 0 .. Width - 1, y \in 0 .. Height - 1 : cursor = <<x, y>> /\ cx = x /\ cy = y
  BY CursorIs
<1>2. x \in Nat /\ y \in Nat /\ Width \in Nat /\ Height \in Nat /\ Height > 0 /\ Width > 0
  BY SizesAreNatural
<1>3. PICK ch \in {"char", "wide", "joiner", "DEL"} :
        /\ esc' = esc /\ saved_cursor' = saved_cursor
        /\ Reaches(Printed(ch).touched)
        /\ LET to == (IF Wraps(ch) THEN 0 ELSE x) + wcwidth(ch)
               row == Start(ch)[2]
           IN IF to < Width THEN cursor' = PlacedAt(to, row)
              ELSE IF row + 1 < Height THEN cursor' = PlacedAt(0, row + 1)
              ELSE cursor' = PlacedAt(0, Height - 1)
        /\ ~(graphics /\ ch = "DEL" /\ x = 0)
  BY <1>1 DEF print, Text
<1>4. PICK v \in 0 .. Width - 1, w \in 0 .. Height - 1 :
        Start(ch) = <<v, w>> /\ v = IF Wraps(ch) THEN 0 ELSE x
  BY <1>1, StartIsInside
<1>5. v \in Nat /\ w \in Nat
  BY <1>2
<1>6. /\ wcwidth(ch) \in {-1, 0, 1, 2}
      /\ wcwidth(ch) = -1 => ch = "DEL"
      /\ wcwidth(ch) = -1 => ~Wraps(ch)
  BY DEF wcwidth, Wraps
<1>7. PICK by \in {-1, 0, 1, 2} : by = wcwidth(ch)
  BY <1>6
<1>8. IF v + by < Width THEN cursor' = PlacedAt(v + by, w)
      ELSE IF w + 1 < Height THEN cursor' = PlacedAt(0, w + 1)
      ELSE cursor' = PlacedAt(0, Height - 1)
  BY <1>3, <1>4, <1>7
<1>9. \E a \in 0 .. Width - 1, b \in 0 .. Height - 1 : cursor' = <<a, b>>
  <2>1. CASE v + by < Width /\ v + by >= 0
    <3>1. v + by \in Nat /\ v + by \in 0 .. Width - 1
      BY <1>2, <1>5, <2>1
    <3>2. cursor' = <<v + by, w>>
      BY <1>5, <1>8, <2>1, <3>1, PlacedAsAsked
    <3> QED BY <3>1, <3>2
  <2>2. CASE v + by < 0
    <3>1. v = 0 /\ by = -1
      BY <1>5, <2>2
    <3>2. ch = "DEL" /\ x = 0
      BY <1>4, <1>6, <1>7, <3>1
    <3>3. ~graphics
      BY <1>3, <3>2
    <3>4. cursor' = PlacedAt(-1, w)
      BY <1>2, <1>8, <3>1
    <3>5. cursor' = <<x, w>>
      BY <1>1, <1>5, <3>3, <3>4 DEF PlacedAt
    <3> QED BY <3>5
  <2>3. CASE ~(v + by < Width)
    <3>1. PICK to \in Nat : to \in 0 .. Height - 1 /\ cursor' = PlacedAt(0, to)
      <4>1. CASE w + 1 < Height
        BY <1>2, <1>5, <1>8, <2>3, <4>1
      <4>2. CASE ~(w + 1 < Height)
        <5>1. Height - 1 \in Nat /\ Height - 1 \in 0 .. Height - 1
          BY <1>2
        <5> QED BY <1>8, <2>3, <4>2, <5>1
      <4> QED BY <4>1, <4>2
    <3>2. cursor' = <<0, to>> /\ 0 \in 0 .. Width - 1
      BY <1>2, <3>1, PlacedAsAsked
    <3> QED BY <3>1, <3>2
  <2> QED BY <1>5, <2>1, <2>2, <2>3
<1>10. Printed(ch).touched \subseteq Positions
  <2>1. Printed(ch).touched = {CellAt(v, w)} \cup (IF wcwidth(ch) = 2 /\ v + 1 < Width THEN {CellAt(v, w) + 1} ELSE {})
    BY <1>4 DEF Printed
  <2>2. CellAt(v, w) \in Positions
    BY CellIsInside
  <2>3. v + 1 < Width => CellAt(v, w) + 1 \in Positions
    <3> SUFFICES ASSUME v + 1 < Width PROVE CellAt(v, w) + 1 \in Positions
      OBVIOUS
    <3>1. v + 1 \in 0 .. Width - 1
      BY <1>2, <1>5
    <3>2. CellAt(v + 1, w) \in Positions
      BY <3>1, CellIsInside
    <3>3. CellAt(v + 1, w) = CellAt(v, w) + 1
      BY <1>2, <1>5 DEF CellAt
    <3> QED BY <3>2, <3>3
  <2> QED BY <2>1, <2>2, <2>3
<1>11. ~outside'
  BY ONLY <1>3, <1>10, ReachesInside
<1> QED BY <1>3, <1>9, <1>11, OthersAreKept

-----------------------------------------------------------------------------
(* The sequences of the terminal                                             *)

\* The final character ends a sequence.
LEMMA FinalEnds ==
  ASSUME NEW ch, Final(ch)
  PROVE  esc.state = "csi" /\ esc'.state # "csi"
BY DEF Final, In, Default

\* Sequences that move no cursor and clear nothing.
LEMMA QuietStays ==
  ASSUME OnScreenInv,
         handle_esc \/ drop_other \/ handle_sgr \/ handle_dsr \/ handle_dectcem \/ unknown
  PROVE  OnScreenInv'
<1>1. /\ cursor' = cursor /\ saved_cursor' = saved_cursor /\ outside' = outside
      /\ \/ esc'.state # "csi"
         \/ esc' = Csi(<<>>, FALSE)
  <2>1. CASE handle_esc
    BY <2>1 DEF handle_esc, Csi, Default
  <2>2. CASE drop_other
    BY <2>2 DEF drop_other, Default
  <2>3. CASE handle_sgr \/ handle_dsr \/ handle_dectcem \/ unknown
    <3>1. cursor' = cursor /\ saved_cursor' = saved_cursor /\ outside' = outside
      BY <2>3 DEF handle_sgr, handle_dsr, handle_dectcem, unknown
    <3>2. \E ch : Final(ch)
      BY <2>3 DEF handle_sgr, handle_dsr, handle_dectcem, unknown
    <3> QED BY <3>1, <3>2, FinalEnds
  <2> QED BY <2>1, <2>2, <2>3
<1>2. ArgumentsInv'
  <2>1. CASE esc'.state # "csi"
    BY <2>1 DEF ArgumentsInv
  <2>2. CASE esc' = Csi(<<>>, FALSE)
    <3>1. <<>> \in Seq(Int) /\ FALSE \in BOOLEAN
      OBVIOUS
    <3>2. \E args \in Seq(Int), digits \in BOOLEAN : esc' = Csi(args, digits) /\ (digits => args # <<>>)
      BY <2>2, <3>1
    <3> QED BY <3>2 DEF ArgumentsInv
  <2> QED BY <1>1, <2>1, <2>2
<1> QED BY <1>1, <1>2 DEF OnScreenInv

\* The arguments of a sequence are numbers, and those that are missing are
\* what they are taken for.
LEMMA ArgumentIs ==
  ASSUME OnScreenInv, esc.state = "csi", NEW n \in Nat \ {0}, NEW otherwise \in Int
  PROVE  Arg(n, otherwise) \in Int
<1>1. PICK args \in Seq(Int), digits \in BOOLEAN : esc = Csi(args, digits)
  BY DEF OnScreenInv, ArgumentsInv
<1>2. esc.args = args
  BY <1>1 DEF Csi
<1> QED BY <1>2 DEF Arg

LEMMA SavingStays ==
  ASSUME OnScreenInv, handle_scosc
  PROVE  OnScreenInv'
<1>1. cursor' = cursor /\ saved_cursor' = cursor /\ outside' = outside /\ esc'.state # "csi"
  BY FinalEnds DEF handle_scosc
<1> QED BY <1>1 DEF OnScreenInv, ArgumentsInv

LEMMA RestoringStays ==
  ASSUME OnScreenInv, handle_scorc
  PROVE  OnScreenInv'
<1>1. PICK x \in 0 .. Width - 1, y \in 0 .. Height - 1 : saved_cursor = <<x, y>>
  BY DEF OnScreenInv
<1>2. /\ cursor' = PlacedAt(x, y) /\ saved_cursor' = saved_cursor /\ outside' = outside /\ ~outside
      /\ esc'.state # "csi"
  BY <1>1, FinalEnds DEF handle_scorc, OnScreenInv
<1>3. cursor' = <<x, y>>
  BY <1>2, SizesAreNatural, PlacedAsAsked
<1> QED BY <1>2, <1>3, OthersAreKept

\* What is cleared from the cursor on, or up to it, is on the screen.
LEMMA ErasingStays ==
  ASSUME OnScreenInv, handle_ed \/ handle_el
  PROVE  OnScreenInv'
<1>1. PICK x \in 0 .. Width - 1, y \in 0 .. Height - 1 : cursor = <<x, y>> /\ cx = x /\ cy = y
  BY CursorIs
<1>2. /\ cursor' = cursor /\ saved_cursor' = saved_cursor /\ esc'.state # "csi"
      /\ Reaches(ErasedScreen) \/ Reaches(ErasedLine)
  BY FinalEnds DEF handle_ed, handle_el, console_erase
<1>3. /\ Width \in Nat /\ Height \in Nat /\ x \in Nat /\ y \in Nat
      /\ x .. Width - 1 \subseteq 0 .. Width - 1 /\ 0 .. x \subseteq 0 .. Width - 1
      /\ 0 .. Width - 1 \subseteq 0 .. Width - 1
      /\ y .. y \subseteq 0 .. Height - 1 /\ 0 .. y - 1 \subseteq 0 .. Height - 1
      /\ y + 1 .. Height - 1 \subseteq 0 .. Height - 1
  BY SizesAreNatural
<1>4. /\ Box(x, y, Width - 1, y) \subseteq Positions /\ Box(0, y, x, y) \subseteq Positions
      /\ Box(0, y, Width - 1, y) \subseteq Positions
      /\ Box(0, y + 1, Width - 1, Height - 1) \subseteq Positions
      /\ Box(0, 0, Width - 1, y - 1) \subseteq Positions
  BY ONLY <1>3, BoxIsInside
<1>5. ErasedScreen \subseteq Positions
  <2> DEFINE n == Arg(1, 0)
  <2>1. CASE n = 0
    BY <1>1, <1>4, <2>1 DEF ErasedScreen
  <2>2. CASE n # 0 /\ n = 1
    BY <1>1, <1>4, <2>2 DEF ErasedScreen
  <2>3. CASE n # 0 /\ n # 1 /\ n \in {2, 3}
    BY <2>3 DEF ErasedScreen
  <2>4. CASE n # 0 /\ n # 1 /\ n \notin {2, 3}
    BY <2>4 DEF ErasedScreen
  <2> QED BY <2>1, <2>2, <2>3, <2>4
<1>6. ErasedLine \subseteq Positions
  BY <1>1, <1>4 DEF ErasedLine
<1>7. ~outside'
  BY ONLY <1>2, <1>5, <1>6, ReachesInside
<1>8. \E v \in 0 .. Width - 1, w \in 0 .. Height - 1 : cursor' = <<v, w>>
  BY <1>1, <1>2
<1> QED BY <1>2, <1>7, <1>8, OthersAreKept

\* Up by no more rows than there are, down by fewer.
LEMMA ScrollStays ==
  ASSUME OnScreenInv, scroll, tame'
  PROVE  OnScreenInv'
<1>1. PICK x \in 0 .. Width - 1, y \in 0 .. Height - 1 : cursor = <<x, y>> /\ cx = x /\ cy = y
  BY CursorIs
<1>2. PICK ch \in {"S", "T"} :
        /\ Final(ch)
        /\ LET n == IF ch = "S" THEN Arg(1, 1) ELSE -Arg(1, 1)
           IN console_scroll(n) /\ n <= Height /\ -n < Height
        /\ cursor' = cursor /\ saved_cursor' = saved_cursor
  BY DEF scroll
<1>3. esc.state = "csi" /\ esc'.state # "csi"
  BY <1>2, FinalEnds
<1>4. Arg(1, 1) \in Int
  BY <1>3, ArgumentIs
<1>5. PICK n \in Int : console_scroll(n) /\ n <= Height /\ -n < Height
  BY <1>2, <1>4
<1>6. Width \in Nat /\ Height \in Nat
  BY SizesAreNatural
<1>7. FreeRows(n) \subseteq Positions
  <2>1. CASE n > 0
    <3>1. FreeRows(n) = Box(0, Height - n, Width - 1, Height - 1)
      BY <2>1 DEF FreeRows
    <3>2. 0 .. Width - 1 \subseteq 0 .. Width - 1 /\ Height - n .. Height - 1 \subseteq 0 .. Height - 1
      BY <1>5, <1>6
    <3> QED BY ONLY <3>1, <3>2, BoxIsInside
  <2>2. CASE ~(n > 0)
    <3>1. FreeRows(n) = Box(0, 0, Width - 1, -n)
      BY <2>2 DEF FreeRows
    <3>2. 0 .. Width - 1 \subseteq 0 .. Width - 1 /\ 0 .. -n \subseteq 0 .. Height - 1
      BY <1>5, <1>6
    <3> QED BY ONLY <3>1, <3>2, BoxIsInside
  <2> QED BY <2>1, <2>2
<1>8. ~outside'
  <2>1. CASE n = 0
    <3>1. outside' = outside
      BY <1>5, <2>1 DEF console_scroll, Keep
    <3> QED BY <3>1 DEF OnScreenInv
  <2>2. CASE n # 0
    <3>1. Reaches(FreeRows(n))
      BY <1>5, <2>2 DEF console_scroll
    <3> QED BY ONLY <1>7, <3>1, ReachesInside
  <2> QED BY <2>1, <2>2
<1>9. \E v \in 0 .. Width - 1, w \in 0 .. Height - 1 : cursor' = <<v, w>>
  BY <1>1, <1>2
<1> QED BY <1>2, <1>3, <1>8, <1>9, OthersAreKept

\* A coordinate is on the screen, or is to be left as it is by a console that
\* understands that.
LEMMA PlacedInside ==
  ASSUME NEW x \in 0 .. Width - 1, NEW y \in 0 .. Height - 1, cx = x, cy = y,
         NEW p \in Int, NEW q \in Int,
         p \in 0 .. Width - 1 \/ (p = -1 /\ ~graphics),
         q \in 0 .. Height - 1 \/ (q = -1 /\ ~graphics)
  PROVE  \E v \in 0 .. Width - 1, w \in 0 .. Height - 1 : PlacedAt(p, q) = <<v, w>>
<1>1. CASE graphics
  BY <1>1 DEF PlacedAt
<1>2. CASE ~graphics
  <2>1. PlacedAt(p, q) = <<IF p < 0 THEN x ELSE p, IF q < 0 THEN y ELSE q>>
    BY <1>2 DEF PlacedAt
  <2>2. (IF p < 0 THEN x ELSE p) \in 0 .. Width - 1 /\ (IF q < 0 THEN y ELSE q) \in 0 .. Height - 1
    OBVIOUS
  <2> QED BY <2>1, <2>2
<1> QED BY <1>1, <1>2

LEMMA MoveStays ==
  ASSUME OnScreenInv, move, tame'
  PROVE  OnScreenInv'
<1>1. PICK x \in 0 .. Width - 1, y \in 0 .. Height - 1 : cursor = <<x, y>> /\ cx = x /\ cy = y
  BY CursorIs
<1>2. PICK ch \in Moves :
        /\ Final(ch) /\ cursor' = PlacedAt(Target(ch)[1], Target(ch)[2])
        /\ Confined(ch) /\ Arg(1, 1) >= 0
        /\ saved_cursor' = saved_cursor /\ outside' = outside
  BY DEF move
<1>3. esc.state = "csi" /\ esc'.state # "csi" /\ ~outside
  BY <1>2, FinalEnds DEF OnScreenInv
<1>4. Arg(1, 1) \in Int /\ Arg(2, 1) \in Int
  BY <1>3, ArgumentIs
<1>5. PICK a \in Nat, b \in Int : a = Arg(1, 1) /\ b = Arg(2, 1)
  BY <1>2, <1>4
<1>6. Width \in Nat /\ Height \in Nat /\ Width > 0 /\ Height > 0 /\ x \in Nat /\ y \in Nat
  BY SizesAreNatural
<1>7. /\ Up = Capped(a, y) /\ Down = Capped(a, Height - y)
      /\ Capped(a, y) \in 0 .. y /\ Capped(a, x) \in 0 .. x
  BY <1>1, <1>5, <1>6 DEF Up, Down, Capped
<1>8. \E p, q \in Int :
        /\ Target(ch) = <<p, q>>
        /\ p \in 0 .. Width - 1 \/ (p = -1 /\ ~graphics)
        /\ q \in 0 .. Height - 1 \/ (q = -1 /\ ~graphics)
  <2>1. CASE ch = "A"
    <3>1. Target(ch) = <<-1, y - Capped(a, y)>>
      BY <1>1, <1>7, <2>1 DEF Target
    <3>2. ~graphics
      BY <1>2, <2>1 DEF Confined
    <3>3. y - Capped(a, y) \in 0 .. Height - 1
      BY <1>6, <1>7
    <3> QED BY <3>1, <3>2, <3>3
  <2>2. CASE ch = "B"
    <3>1. ~graphics /\ y + a < Height
      BY <1>1, <1>2, <1>5, <2>2 DEF Confined
    <3>2. Down = a
      BY <1>6, <1>7, <3>1 DEF Capped
    <3>3. Target(ch) = <<-1, y + a>>
      BY <1>1, <2>2, <3>2 DEF Target
    <3>4. y + a \in 0 .. Height - 1
      BY <1>6, <3>1
    <3> QED BY <3>1, <3>3, <3>4
  <2>3. CASE ch = "C"
    <3>1. ~graphics /\ x + a < Width
      BY <1>1, <1>2, <1>5, <2>3 DEF Confined
    <3>2. Capped(a, Width - x) = a
      BY <1>6, <3>1 DEF Capped
    <3>3. Target(ch) = <<x + a, -1>>
      BY <1>1, <1>5, <2>3, <3>2 DEF Target
    <3>4. x + a \in 0 .. Width - 1
      BY <1>6, <3>1
    <3> QED BY <3>1, <3>3, <3>4
  <2>4. CASE ch = "D"
    <3>1. Target(ch) = <<x - Capped(a, x), -1>>
      BY <1>1, <1>5, <2>4 DEF Target
    <3>2. ~graphics
      BY <1>2, <2>4 DEF Confined
    <3>3. x - Capped(a, x) \in 0 .. Width - 1
      BY <1>6, <1>7
    <3> QED BY <3>1, <3>2, <3>3
  <2>5. CASE ch = "E"
    <3>1. y + a < Height
      BY <1>1, <1>2, <1>5, <2>5 DEF Confined
    <3>2. Down = a
      BY <1>6, <1>7, <3>1 DEF Capped
    <3>3. Target(ch) = <<0, y + a>>
      BY <1>1, <2>5, <3>2 DEF Target
    <3>4. y + a \in 0 .. Height - 1 /\ 0 \in 0 .. Width - 1
      BY <1>6, <3>1
    <3> QED BY <3>3, <3>4
  <2>6. CASE ch = "F"
    <3>1. Target(ch) = <<0, y - Capped(a, y)>>
      BY <1>1, <1>7, <2>6 DEF Target
    <3>2. y - Capped(a, y) \in 0 .. Height - 1 /\ 0 \in 0 .. Width - 1
      BY <1>6, <1>7
    <3> QED BY <3>1, <3>2
  <2>7. CASE ch = "G"
    <3>1. ~graphics /\ a <= Width
      BY <1>1, <1>2, <1>5, <2>7 DEF Confined
    <3>2. Target(ch) = <<IF a < 1 THEN 0 ELSE a - 1, -1>>
      BY <1>5, <2>7 DEF Target
    <3>3. (IF a < 1 THEN 0 ELSE a - 1) \in 0 .. Width - 1
      BY <1>6, <3>1
    <3> QED BY <3>1, <3>2, <3>3
  <2>8. CASE ch = "H"
    <3>1. a <= Height /\ b <= Width
      BY <1>1, <1>2, <1>5, <2>8 DEF Confined
    <3>2. Target(ch) = <<IF b < 1 THEN 0 ELSE b - 1, IF a < 1 THEN 0 ELSE a - 1>>
      BY <1>5, <2>8 DEF Target
    <3>3. (IF b < 1 THEN 0 ELSE b - 1) \in 0 .. Width - 1 /\ (IF a < 1 THEN 0 ELSE a - 1) \in 0 .. Height - 1
      BY <1>6, <3>1
    <3> QED BY <3>2, <3>3
  <2> QED BY <2>1, <2>2, <2>3, <2>4, <2>5, <2>6, <2>7, <2>8 DEF Moves
<1>9. PICK p \in Int, q \in Int :
        /\ Target(ch) = <<p, q>>
        /\ p \in 0 .. Width - 1 \/ (p = -1 /\ ~graphics)
        /\ q \in 0 .. Height - 1 \/ (q = -1 /\ ~graphics)
  BY <1>8
<1>10. cursor' = PlacedAt(p, q)
  BY <1>2, <1>9
<1>11. \E v \in 0 .. Width - 1, w \in 0 .. Height - 1 : PlacedAt(p, q) = <<v, w>>
  BY <1>1, <1>9, PlacedInside
<1> QED BY <1>2, <1>3, <1>10, <1>11, OthersAreKept

-----------------------------------------------------------------------------
(* Their arguments                                                           *)

\* A digit has an argument to go to, since none goes on that was not begun.
LEMMA ArgumentStays ==
  ASSUME OnScreenInv, digit \/ question_mark \/ separator
  PROVE  OnScreenInv'
<1>1. /\ esc.state = "csi" /\ cursor' = cursor /\ saved_cursor' = saved_cursor /\ ~outside
  BY DEF digit, question_mark, separator, Argument, In, OnScreenInv
<1>2. PICK args \in Seq(Int), digits \in BOOLEAN : esc = Csi(args, digits) /\ (digits => args # <<>>)
  BY <1>1 DEF OnScreenInv, ArgumentsInv
<1>3. esc.args = args /\ esc.digits = digits
  BY <1>2 DEF Csi
<1>4. ~NowhereToGo
  BY <1>2, <1>3 DEF NowhereToGo
<1>5. ~outside'
  BY <1>1, <1>4 DEF digit, question_mark, separator
<1>6. \E s \in Seq(Int), f \in BOOLEAN : esc' = Csi(s, f) /\ (f => s # <<>>)
  <2>1. CASE digit
    <3>1. PICK d \in DigitValues : esc' = Digit(d)
      BY <2>1 DEF digit
    <3>2. d \in Int
      BY TerminalAssumption
    <3>3. CASE Full
      <4>1. esc' = Csi(args, digits)
        BY <1>2, <3>1, <3>3 DEF Digit
      <4> QED BY <1>2, <4>1
    <3>4. CASE ~Full /\ digits
      <4>1. esc' = Csi(Front(args) \o <<Last(args) * 10 + d>>, TRUE)
        BY <1>3, <1>4, <3>1, <3>4 DEF Digit
      <4>2. args # <<>>
        BY <1>2, <3>4
      <4>3. Last(args) \in Int /\ Front(args) \in Seq(Int)
        BY <4>2 DEF Last, Front
      <4>4. Last(args) * 10 + d \in Int
        BY <3>2, <4>3
      <4>5. Front(args) \o <<Last(args) * 10 + d>> \in Seq(Int) /\ Front(args) \o <<Last(args) * 10 + d>> # <<>>
        BY <4>3, <4>4
      <4> QED BY <4>1, <4>5
    <3>5. CASE ~Full /\ ~digits
      <4>1. esc' = Csi(Append(args, d), TRUE)
        BY <1>3, <1>4, <3>1, <3>5 DEF Digit
      <4>2. Append(args, d) \in Seq(Int) /\ Append(args, d) # <<>>
        BY <3>2
      <4> QED BY <4>1, <4>2
    <3> QED BY <3>3, <3>4, <3>5
  <2>2. CASE question_mark
    <3>1. CASE Full
      <4>1. esc' = Csi(args, digits)
        BY <1>2, <2>2, <3>1 DEF question_mark
      <4> QED BY <1>2, <4>1
    <3>2. CASE ~Full
      <4>1. esc' = Csi(Append(args, Question), digits)
        BY <1>3, <2>2, <3>2 DEF question_mark
      <4>2. Append(args, Question) \in Seq(Int) /\ Append(args, Question) # <<>>
        BY DEF Question
      <4> QED BY <4>1, <4>2
    <3> QED BY <3>1, <3>2
  <2>3. CASE separator
    <3>1. esc' = Csi(args, FALSE)
      BY <1>3, <2>3 DEF separator
    <3> QED BY <3>1
  <2> QED BY <2>1, <2>2, <2>3
<1> QED BY <1>1, <1>5, <1>6 DEF OnScreenInv, ArgumentsInv

-----------------------------------------------------------------------------
LEMMA TermStart ==
  ASSUME TerminalInit
  PROVE  TermInv
<1>1. 0 \in 0 .. Width - 1 /\ 0 \in 0 .. Height - 1
  BY SizesAreNatural
<1>2. tame = (esc.state # "csi") /\ cursor = <<0, 0>> /\ saved_cursor = <<0, 0>> /\ outside = FALSE
  BY DEF TerminalInit
<1> QED BY <1>1, <1>2 DEF TermInv, OnScreenInv, ArgumentsInv

\* A terminal that was not tame never is.
LEMMA TameBefore ==
  ASSUME TermInv, TerminalNext
  PROVE  tame' \in BOOLEAN /\ (tame' => OnScreenInv)
<1>1. tame \in BOOLEAN /\ (tame => OnScreenInv)
  BY DEF TermInv
<1>2. tame' = tame \/ \E also \in BOOLEAN : tame' = (tame /\ also)
  <2>1. CASE bell \/ backspace \/ newline \/ vertical_tab \/ carriage_return \/ escape
    BY <2>1 DEF bell, backspace, newline, vertical_tab, carriage_return, escape
  <2>2. CASE tab
    BY <2>2 DEF tab
  <2>3. CASE print
    BY <2>3 DEF print
  <2>4. CASE handle_esc \/ drop_other \/ handle_ed \/ handle_el \/ handle_sgr \/ handle_dsr
    BY <2>4 DEF handle_esc, drop_other, handle_ed, handle_el, handle_sgr, handle_dsr
  <2>5. CASE move
    BY <2>5 DEF move
  <2>6. CASE scroll
    BY <2>6 DEF scroll
  <2>7. CASE handle_scosc \/ handle_scorc \/ handle_dectcem \/ unknown
    BY <2>7 DEF handle_scosc, handle_scorc, handle_dectcem, unknown
  <2>8. CASE digit \/ question_mark \/ separator
    BY <2>8 DEF digit, question_mark, separator, Argument
  <2> QED BY <2>1, <2>2, <2>3, <2>4, <2>5, <2>6, <2>7, <2>8 DEF TerminalNext
<1> QED BY <1>1, <1>2

LEMMA TermNextCorrect ==
  ASSUME TermInv, [TerminalNext]_terminalVars
  PROVE  TermInv'
<1>1. CASE TerminalNext
  <2>1. tame' \in BOOLEAN /\ (tame' => OnScreenInv)
    BY <1>1, TameBefore
  <2>2. ASSUME tame' PROVE OnScreenInv'
    <3>1. OnScreenInv
      BY <2>1, <2>2
    <3>2. CASE bell
      BY <3>1, <3>2, BellStays
    <3>3. CASE backspace
      BY <3>1, <3>3, BackspaceStays
    <3>4. CASE tab
      BY <2>2, <3>1, <3>4, TabStays
    <3>5. CASE newline \/ vertical_tab
      BY <3>1, <3>5, NewLinesStay
    <3>6. CASE carriage_return \/ escape
      BY <3>1, <3>6, ReturnAndEscapeStay
    <3>7. CASE print
      BY <2>2, <3>1, <3>7, PrintStays
    <3>8. CASE handle_esc \/ drop_other \/ handle_sgr \/ handle_dsr \/ handle_dectcem \/ unknown
      BY <3>1, <3>8, QuietStays
    <3>9. CASE move
      BY <2>2, <3>1, <3>9, MoveStays
    <3>10. CASE handle_ed \/ handle_el
      BY <3>1, <3>10, ErasingStays
    <3>11. CASE scroll
      BY <2>2, <3>1, <3>11, ScrollStays
    <3>12. CASE handle_scosc
      BY <3>1, <3>12, SavingStays
    <3>13. CASE handle_scorc
      BY <3>1, <3>13, RestoringStays
    <3>14. CASE digit \/ question_mark \/ separator
      BY <3>1, <3>14, ArgumentStays
    <3> QED
      BY <1>1, <3>2, <3>3, <3>4, <3>5, <3>6, <3>7, <3>8, <3>9, <3>10, <3>11, <3>12, <3>13, <3>14 DEF TerminalNext
  <2> QED BY <2>1, <2>2 DEF TermInv
<1>2. CASE UNCHANGED terminalVars
  BY <1>2 DEF terminalVars, TermInv, OnScreenInv, ArgumentsInv
<1> QED BY <1>1, <1>2

(* Text and the sequences that are confined, in any mix and of any length,   *)
(* keep the cursor on the screen and write nothing outside of its cells      *)
(* (put_char, ansiterm.c:1140), on a screen of any size whose rows are no    *)
(* shorter than a tab.                                                       *)
THEOREM TerminalCorrect == TerminalSpec => []StaysOnScreen
<1>1. TerminalInit => TermInv
  BY TermStart
<1>2. TermInv /\ [TerminalNext]_terminalVars => TermInv'
  BY TermNextCorrect
<1>3. TermInv => StaysOnScreen
  BY DEF TermInv, OnScreenInv, StaysOnScreen, OnTerminal
<1> QED
  BY <1>1, <1>2, <1>3, PTL DEF TerminalSpec

=============================================================================
