------------------------------- MODULE PageMap -------------------------------
(***************************************************************************)
(* The virtual memory manager of vellum/mm/mm.c on top of the frame        *)
(* allocator: page tables, the allocator of virtual pages, mm_map,         *)
(* mm_allocate_pages, mm_allocate_pages_to and mm_free_pages. Each step    *)
(* makes at most one call to the frame allocator, so that the frame        *)
(* allocator's specification can be checked to describe what it is asked.  *)
(*                                                                         *)
(* Page tables are never freed and never move, so a page table entry is    *)
(* named by its page: pte[vpn] is the entry the recursive mapping shows at *)
(* pt[vpn]. Pages 0 .. PtSize - 1 are the identity mapping of the image.   *)
(***************************************************************************)
EXTENDS Integers, FiniteSets

CONSTANTS
  BasePfn, LimitPfn, ImageLimit, MarkLimit,  \* the frame allocator's geometry
  PtSize,       \* entries of a page table
  Vpns,         \* the pages: 0 .. n, the recursive window left out
  HeapLimit,    \* bound: mm_allocate_pages is called while it stays below
  MaxPages,     \* bound: pages of one call
  DefaultPages, \* device pages mapped with PF_DEFAULT (ACPI tables)
  CachePages    \* device pages mapped with PF_WTCACHE (frame buffer)

MaxRequest == 1  \* every caller of the frame allocator asks for one frame

DevicePages == DefaultPages \cup CachePages

ASSUME PageAssumption ==
  /\ PtSize \in Nat \ {0} /\ HeapLimit \in Nat /\ PtSize < HeapLimit
  /\ MaxPages \in Nat
  /\ Cardinality(Vpns) \in Nat /\ Vpns = 0 .. Cardinality(Vpns) - 1
  /\ HeapLimit <= Cardinality(Vpns)
  /\ \A page \in DevicePages :
       page \in Vpns /\ (page < PtSize \/ page >= HeapLimit)

(* The memory map reserves what device pages show of memory.               *)
ASSUME MemoryAssumption ==
  /\ BasePfn \in Nat /\ LimitPfn \in Nat /\ MarkLimit \in Nat
  /\ ImageLimit \in BasePfn .. LimitPfn - 1 /\ BasePfn <= MarkLimit
  /\ \A page \in DevicePages :
       page \in BasePfn .. LimitPfn - 1 => page <= ImageLimit \/ page = MarkLimit

NoFrame == -1

VARIABLES
  pma_bitmap, pma_available_frames, pma_free_frames, booting, held,
  pde,         \* page directory: the frame of each page table
  pte,         \* page table entries
  alloc_vpn,   \* next page alloc_virt_page hands out
  op,          \* the call in progress
  regions,     \* history: what mm_allocate_pages returned and nobody freed
  table_failed \* history: a page table could not be allocated

pma_vars == <<pma_bitmap, pma_available_frames, pma_free_frames, booting, held>>
vars == <<pma_vars, pde, pte, alloc_vpn, op, regions, table_failed>>

PMA == INSTANCE FrameAllocator

Entry(pfn, flags) == [pfn |-> pfn, flags |-> flags]
NotPresent == Entry(NoFrame, "none")
FLAGS == {"default", "wtcache"}

Table(vpn) == vpn \div PtSize
Tables == {Table(vpn) : vpn \in Vpns}
PagesOf(table) == {vpn \in Vpns : Table(vpn) = table}
HasTable(vpn) == pde[Table(vpn)] # NoFrame

(* mm_vpn_to_pfn succeeds.                                                 *)
Present(vpn) == HasTable(vpn) /\ pte[vpn] # NotPresent

Idle == [kind |-> "idle"]
Running(kind) == op.kind = kind

-----------------------------------------------------------------------------
(* Boot: init_pma reserves what the memory map says, then                  *)
(* init_page_directory allocates the page table of the identity mapping.   *)

Init ==
  /\ PMA!mm_pma_init
  /\ pde = [t \in Tables |-> NoFrame]
  /\ pte = [vpn \in Vpns |-> NotPresent]
  /\ alloc_vpn = PtSize
  /\ op = [kind |-> "map_memory"]
  /\ regions = {}
  /\ table_failed = FALSE

ReserveFirmware ==
  /\ Running("map_memory")
  /\ PMA!mm_pma_mark_reserved(MarkLimit, MarkLimit)
  /\ op' = [kind |-> "init_page_directory"]
  /\ UNCHANGED <<pde, pte, alloc_vpn, regions, table_failed>>

init_page_directory ==
  /\ Running("init_page_directory")
  /\ \E new_pt_pfn \in PMA!Frames :
       /\ PMA!mm_pma_allocate_frame(1, new_pt_pfn)
       /\ pde' = [pde EXCEPT ![0] = new_pt_pfn]
  /\ pte' = [vpn \in Vpns |-> IF Table(vpn) = 0 THEN Entry(vpn, "default") ELSE pte[vpn]]
  /\ op' = Idle
  /\ UNCHANGED <<alloc_vpn, regions, table_failed>>

-----------------------------------------------------------------------------
(* The calls. A call walks the pages vpn .. end - 1; first is where it     *)
(* started. Allocating calls alternate between "frame" (look the page up,  *)
(* allocate its frame) and "map" (enter it into the page table).           *)

Call(kind, vpn, end) ==
  [kind |-> kind, step |-> "frame", first |-> vpn, vpn |-> vpn, end |-> end,
   pfn |-> NoFrame, flags |-> "default"]

OverlappingPages(page_count) == alloc_vpn' = alloc_vpn + page_count - 1  \* a slip to compare with

alloc_virt_page(page_count) == alloc_vpn' = alloc_vpn + page_count

mm_allocate_pages(page_count) ==
  /\ op = Idle
  /\ alloc_vpn + page_count <= HeapLimit
  /\ alloc_virt_page(page_count)
  /\ op' = Call("allocate", alloc_vpn, alloc_vpn + page_count)
  /\ UNCHANGED <<pma_vars, pde, pte, regions, table_failed>>

(* VlElf_LoadProgram asks for the pages of a segment inside the region     *)
(* VlModule_Load has just allocated.                                       *)
mm_allocate_pages_to(vpn, page_count) ==
  /\ op = Idle
  /\ \E r \in regions : r.first <= vpn /\ vpn + page_count <= r.end
  /\ op' = Call("allocate_to", vpn, vpn + page_count)
  /\ UNCHANGED <<pma_vars, pde, pte, alloc_vpn, regions, table_failed>>

(* uacpi_kernel_map and the frame buffer of vga.c: frame and page number   *)
(* are the same.                                                           *)
mm_map(vpn, flags) ==
  /\ op = Idle
  /\ op' = [Call("map", vpn, vpn + 1) EXCEPT !.step = "map", !.pfn = vpn, !.flags = flags]
  /\ UNCHANGED <<pma_vars, pde, pte, alloc_vpn, regions, table_failed>>

mm_free_pages(r) ==
  /\ op = Idle
  /\ op' = Call("free", r.first, r.end)
  /\ regions' = regions \ {r}
  /\ UNCHANGED <<pma_vars, pde, pte, alloc_vpn, table_failed>>

BeginCall ==
  \/ \E n \in 1 .. MaxPages : mm_allocate_pages(n)
  \/ \E vpn \in Vpns, n \in 1 .. MaxPages : mm_allocate_pages_to(vpn, n)
  \/ \E vpn \in DefaultPages : mm_map(vpn, "default")
  \/ \E vpn \in CachePages : mm_map(vpn, "wtcache")
  \/ \E r \in regions : mm_free_pages(r)

-----------------------------------------------------------------------------
(* The steps of a call.                                                    *)

Allocating == Running("allocate") \/ Running("allocate_to")
At(step) == (Allocating \/ Running("map")) /\ op.step = step

Region == [first |-> op.first, end |-> op.end]

NextPage ==
  IF op.vpn + 1 < op.end
    THEN /\ op' = [op EXCEPT !.vpn = @ + 1, !.step = "frame", !.pfn = NoFrame]
         /\ UNCHANGED regions
    ELSE /\ op' = Idle
         /\ regions' = IF Running("allocate") THEN regions \cup {Region} ELSE regions

GiveUp == op' = Idle /\ UNCHANGED regions

PagePresent ==
  /\ At("frame")
  /\ Present(op.vpn)
  /\ NextPage
  /\ UNCHANGED <<pma_vars, pde, pte, alloc_vpn, table_failed>>

AllocateFrame ==
  /\ At("frame")
  /\ ~Present(op.vpn)
  /\ \E pfn \in PMA!Frames :
       /\ PMA!mm_pma_allocate_frame(1, pfn)
       /\ op' = [op EXCEPT !.step = "map", !.pfn = pfn]
  /\ UNCHANGED <<pde, pte, alloc_vpn, regions, table_failed>>

(* The pages mapped so far stay mapped: the caller gets no page number.    *)
FrameRefused ==
  /\ At("frame")
  /\ ~Present(op.vpn)
  /\ PMA!mm_pma_insufficient_memory(1)
  /\ GiveUp
  /\ UNCHANGED <<pde, pte, alloc_vpn, table_failed>>

AllocateTable ==
  /\ At("map")
  /\ ~HasTable(op.vpn)
  /\ \E new_pt_pfn \in PMA!Frames :
       /\ PMA!mm_pma_allocate_frame(1, new_pt_pfn)
       /\ pde' = [pde EXCEPT ![Table(op.vpn)] = new_pt_pfn]
  /\ pte' = [vpn \in Vpns |-> IF vpn \in PagesOf(Table(op.vpn)) THEN NotPresent ELSE pte[vpn]]
  /\ UNCHANGED <<alloc_vpn, op, regions, table_failed>>

(* The frame allocated for the page itself is not given back.              *)
TableRefused ==
  /\ At("map")
  /\ ~HasTable(op.vpn)
  /\ PMA!mm_pma_insufficient_memory(1)
  /\ GiveUp
  /\ table_failed' = TRUE
  /\ UNCHANGED <<pde, pte, alloc_vpn>>

Conflicts == pte[op.vpn] # NotPresent /\ pte[op.vpn].flags # op.flags

WriteEntry ==
  /\ At("map")
  /\ HasTable(op.vpn)
  /\ ~Conflicts
  /\ pte' = [pte EXCEPT ![op.vpn] = Entry(op.pfn, op.flags)]
  /\ NextPage
  /\ UNCHANGED <<pma_vars, pde, alloc_vpn, table_failed>>

(* STATUS_CONFLICTING_STATE                                                *)
RefuseEntry ==
  /\ At("map")
  /\ HasTable(op.vpn)
  /\ Conflicts
  /\ GiveUp
  /\ UNCHANGED <<pma_vars, pde, pte, alloc_vpn, table_failed>>

unmap(vpn) == pte' = [pte EXCEPT ![vpn] = NotPresent]

(* Slips to compare with: the page stays mapped, the frame is not given    *)
(* back, as many frames are given back as the call has pages.              *)
FreeMapped(vpn) == PMA!mm_pma_free_frame(pte[vpn].pfn, 1) /\ UNCHANGED pte
UnmapOnly(vpn) == unmap(vpn) /\ UNCHANGED pma_vars
FreeCallSize(vpn) == PMA!mm_pma_free_frame(pte[vpn].pfn, op.end - op.first) /\ unmap(vpn)

UnmapAndFree(vpn) == PMA!mm_pma_free_frame(pte[vpn].pfn, 1) /\ unmap(vpn)

FreePage ==
  /\ Running("free")
  /\ IF Present(op.vpn) THEN UnmapAndFree(op.vpn) ELSE UNCHANGED <<pma_vars, pte>>
  /\ NextPage
  /\ UNCHANGED <<pde, alloc_vpn, table_failed>>

Next ==
  \/ ReserveFirmware \/ init_page_directory
  \/ BeginCall
  \/ PagePresent \/ AllocateFrame \/ FrameRefused
  \/ AllocateTable \/ TableRefused
  \/ WriteEntry \/ RefuseEntry
  \/ FreePage

Spec == Init /\ [][Next]_vars

-----------------------------------------------------------------------------
Calls == [kind : {"allocate", "allocate_to", "map", "free"}, step : {"frame", "map"},
          first : Nat, vpn : Vpns, end : Nat, pfn : PMA!Frames \cup Vpns \cup {NoFrame},
          flags : FLAGS]

TypeOK ==
  /\ pma_bitmap \in [PMA!Slots -> PMA!States] /\ held \subseteq PMA!Frames
  /\ pde \in [Tables -> PMA!Frames \cup {NoFrame}]
  /\ pte \in [Vpns -> [pfn : PMA!Frames \cup Vpns, flags : FLAGS] \cup {NotPresent}]
  /\ alloc_vpn \in PtSize .. HeapLimit
  /\ op \in Calls \cup {[kind |-> "map_memory"], [kind |-> "init_page_directory"], Idle}
  /\ regions \subseteq [first : Nat, end : Nat]
  /\ table_failed \in BOOLEAN

Paged == {vpn \in Vpns : Table(vpn) # 0 /\ Present(vpn)}
TableFrames == {pde[t] : t \in Tables} \ {NoFrame}
PagesIn(r) == r.first .. r.end - 1

(* The frame allocator is used as its specification allows: every frame    *)
(* mm.c gives back it holds, or lies outside what can be allocated.        *)
FrameAllocatorSpec == PMA!Spec

(* No page, and no page table, lives in a frame that the allocator would   *)
(* hand out again; the frames of page tables hold nothing else.            *)
MappedIsHeld ==
  /\ TableFrames \subseteq held
  /\ \A vpn \in Paged :
       LET pfn == pte[vpn].pfn
       IN  /\ pfn \in PMA!Frames => pma_bitmap[pfn] # PMA!FREE
           /\ pfn \notin TableFrames

(* What mm_allocate_pages has returned is backed throughout, by frames no  *)
(* other page above the identity mapping shows, and shared with no other   *)
(* caller.                                                                 *)
RegionsArePrivate ==
  /\ \A r \in regions : \A vpn \in PagesIn(r) :
       /\ vpn \in Paged /\ pte[vpn].pfn \in held
       /\ \A other \in Paged : pte[other].pfn = pte[vpn].pfn => other = vpn
  /\ \A r, s \in regions : PagesIn(r) \cap PagesIn(s) # {} => r = s

(* Between calls, every frame held is in use, until the memory for a page  *)
(* table has once run out: mm_allocate_pages then drops the frame in hand. *)
NothingLost ==
  op = Idle /\ ~table_failed =>
    held \subseteq TableFrames \cup {pte[vpn].pfn : vpn \in Paged}
=============================================================================
