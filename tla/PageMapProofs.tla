---------------------------- MODULE PageMapProofs ----------------------------
(* Proofs about paging and page allocation, for every number of frames and   *)
(* pages, every size of a page table, and whatever runs out in a call.       *)
EXTENDS PageMap, TLAPS

-----------------------------------------------------------------------------
(* The inductive invariant.                                                  *)

HeapPages == PtSize .. HeapLimit - 1
Shown(vpn) == pte[vpn].pfn
InCall == op \in Calls

(* What the frame allocator says of frames that are held, and of memory      *)
(* that device pages show.                                                   *)
FramesInv ==
  /\ \A f \in PMA!Frames : f \in held <=> pma_bitmap[f] = PMA!ALLOCATED
  /\ \A page \in DevicePages : page \in PMA!Frames =>
       \/ pma_bitmap[page] = PMA!RESERVED
       \/ page = MarkLimit /\ Running("map_memory")

(* Until the page directory is there, nothing is.                            *)
BootInv ==
  /\ Running("map_memory") => booting
  /\ Running("map_memory") \/ Running("init_page_directory") =>
       held = {} /\ regions = {} /\ \A t \in Tables : pde[t] = NoFrame

(* A page of the heap shows a frame of its own, a page of a device itself.   *)
EntriesInv ==
  /\ \A t \in Tables : pde[t] # NoFrame => pde[t] \in held
  /\ \A vpn \in Paged :
       IF vpn \in HeapPages
       THEN /\ Shown(vpn) \in held
            /\ \A t \in Tables : pde[t] # Shown(vpn)
            /\ \A other \in Paged \cap HeapPages : Shown(other) = Shown(vpn) => other = vpn
       ELSE vpn \in DevicePages /\ Shown(vpn) = vpn

(* Regions are backed, and apart from one another.                           *)
RegionsInv ==
  /\ \A r \in regions : PtSize <= r.first /\ r.first < r.end /\ r.end <= alloc_vpn
  /\ \A r \in regions : \A vpn \in PagesIn(r) : vpn \in Paged
  /\ \A r, s \in regions : PagesIn(r) \cap PagesIn(s) # {} => r = s

(* The call in progress: what it has passed is backed, and what it allocates *)
(* or frees is nobody else's.                                                *)
CallInv ==
  InCall =>
    /\ op.first <= op.vpn /\ op.vpn < op.end
    /\ op.kind # "map" => PtSize <= op.first /\ op.end <= alloc_vpn
    /\ op.kind = "map" => op.step = "map" /\ op.vpn \in DevicePages /\ op.pfn = op.vpn
                          /\ op.end = op.vpn + 1
    /\ op.kind \in {"allocate", "free"} => \A r \in regions : PagesIn(r) \cap (op.first .. op.end - 1) = {}
    /\ op.kind = "allocate" => \A vpn \in op.first .. op.vpn - 1 : vpn \in Paged
    /\ op.kind = "allocate_to" => \A vpn \in op.first .. op.end - 1 : vpn \in Paged
    /\ op.kind = "free" => op.step = "frame"

InHand == InCall /\ op.kind \in {"allocate", "allocate_to"} /\ op.step = "map"

(* The frame a call has in hand is held and shown nowhere yet.               *)
HandInv ==
  InHand =>
    /\ op.pfn \in held /\ ~Present(op.vpn)
    /\ \A t \in Tables : pde[t] # op.pfn
    /\ \A vpn \in Paged \cap HeapPages : Shown(vpn) # op.pfn

(* Every frame held is a page table's, a page's, or in hand.                 *)
UseInv ==
  ~table_failed =>
    \A f \in held : \/ \E t \in Tables : pde[t] = f
                    \/ \E vpn \in Paged : Shown(vpn) = f
                    \/ InHand /\ op.pfn = f

IInv ==
  /\ TypeOK /\ FramesInv /\ BootInv /\ EntriesInv
  /\ RegionsInv /\ CallInv /\ HandInv /\ UseInv

-----------------------------------------------------------------------------
(* Pages and tables.                                                         *)

LEMMA PagesHaveTables ==
  /\ \A vpn \in Vpns : Table(vpn) \in Tables
  /\ \A vpn \in HeapPages : vpn \in Vpns /\ Table(vpn) # 0
<1>1. \A vpn \in Vpns : Table(vpn) \in Tables
  BY DEF Tables
<1>2. ASSUME NEW vpn \in HeapPages PROVE vpn \in Vpns /\ Table(vpn) # 0
  <2>1. vpn \in Nat /\ PtSize \in Nat \ {0} /\ PtSize <= vpn /\ vpn < HeapLimit
    BY PageAssumption DEF HeapPages
  <2>2. vpn \in Vpns
    BY <2>1, PageAssumption
  <2>3. vpn = (PtSize * (vpn \div PtSize)) + (vpn % PtSize) /\ vpn % PtSize < PtSize /\ vpn \div PtSize \in Int
    BY <2>1
  <2>4. QED
    BY <2>1, <2>2, <2>3 DEF Table
<1>3. QED
  BY <1>1, <1>2

(* A device page is no page of the heap.                                     *)
LEMMA DevicesAreApart == \A vpn \in DevicePages : vpn \in Vpns /\ vpn \notin HeapPages
BY PageAssumption DEF HeapPages

LEMMA NoFrameIsNone == NoFrame \notin PMA!Frames
BY MemoryAssumption DEF NoFrame, PMA!Frames

-----------------------------------------------------------------------------
(* What the frame allocator does for paging.                                 *)

LEMMA FrameTaken ==
  ASSUME TypeOK, FramesInv, NEW pfn \in PMA!Frames, PMA!mm_pma_allocate_frame(1, pfn)
  PROVE  /\ pfn \notin held /\ held' = held \cup {pfn} /\ held' \subseteq PMA!Frames
         /\ pma_bitmap' \in [PMA!Slots -> PMA!States]
         /\ \A f \in PMA!Frames : f \in held' <=> pma_bitmap'[f] = PMA!ALLOCATED
         /\ \A f \in PMA!Frames : pma_bitmap[f] = PMA!RESERVED => pma_bitmap'[f] = PMA!RESERVED
         /\ pma_bitmap[pfn] = PMA!FREE
<1>1. pfn .. pfn + 1 - 1 = {pfn} /\ pfn \in Int
  BY MemoryAssumption DEF PMA!Frames
<1>2. pma_bitmap[pfn] = PMA!FREE
  BY <1>1 DEF PMA!mm_pma_allocate_frame, PMA!IsFirstRun, PMA!IsRun
<1>3. PMA!Frames \subseteq PMA!Slots
  BY MemoryAssumption DEF PMA!Frames, PMA!Slots
<1>4. held' = held \cup {pfn} /\ pma_bitmap' = [f \in PMA!Slots |-> IF f \in {pfn} THEN PMA!ALLOCATED ELSE pma_bitmap[f]]
  BY <1>1 DEF PMA!mm_pma_allocate_frame
<1>5. pfn \notin held
  BY <1>2 DEF FramesInv, PMA!FREE, PMA!ALLOCATED
<1>6. pma_bitmap' \in [PMA!Slots -> PMA!States]
  BY <1>4 DEF TypeOK, PMA!States
<1>7. QED
  BY <1>2, <1>3, <1>4, <1>5, <1>6 DEF FramesInv, TypeOK, PMA!FREE, PMA!ALLOCATED, PMA!RESERVED

LEMMA FrameGivenBack ==
  ASSUME TypeOK, FramesInv, NEW pfn \in held, PMA!mm_pma_free_frame(pfn, 1)
  PROVE  /\ held' = held \ {pfn}
         /\ pma_bitmap' \in [PMA!Slots -> PMA!States]
         /\ \A f \in PMA!Frames : f \in held' <=> pma_bitmap'[f] = PMA!ALLOCATED
         /\ \A f \in PMA!Frames : pma_bitmap[f] = PMA!RESERVED => pma_bitmap'[f] = PMA!RESERVED
<1>1. pfn \in PMA!Frames /\ pfn \in PMA!Slots /\ PMA!Frames \subseteq PMA!Slots /\ pfn \in Int
  BY MemoryAssumption DEF TypeOK, PMA!Frames, PMA!Slots
<1>2. PMA!FreeSpan(pfn, 1) = 1
  BY <1>1, MemoryAssumption DEF PMA!FreeSpan, PMA!Frames
<1>3. {f \in PMA!Slots : pfn <= f /\ f < pfn + PMA!FreeSpan(pfn, 1)} = {pfn}
  BY <1>1, <1>2, MemoryAssumption DEF PMA!Slots
<1>4. pma_bitmap[pfn] = PMA!ALLOCATED
  BY <1>1 DEF FramesInv
<1>5. pfn .. pfn + 1 - 1 = {pfn}
  BY <1>1
<1>6. held' = held \ {pfn} /\ pma_bitmap' = [f \in PMA!Slots |-> IF f = pfn THEN PMA!FREE ELSE pma_bitmap[f]]
  BY <1>1, <1>3, <1>4, <1>5 DEF PMA!mm_pma_free_frame
<1>7. pma_bitmap' \in [PMA!Slots -> PMA!States]
  BY <1>6 DEF TypeOK, PMA!States
<1>8. QED
  BY <1>1, <1>4, <1>6, <1>7 DEF FramesInv, TypeOK, PMA!FREE, PMA!ALLOCATED, PMA!RESERVED

-----------------------------------------------------------------------------
(* The beginning.                                                            *)

LEMMA InvInit == Init => IInv
<1> SUFFICES ASSUME Init PROVE IInv
  OBVIOUS
<1> USE DEF Init
<1>1. /\ pma_bitmap \in [PMA!Slots -> PMA!States] /\ booting /\ held = {}
      /\ \A f \in PMA!Frames : f <= ImageLimit => pma_bitmap[f] = PMA!RESERVED
      /\ \A f \in PMA!Frames : pma_bitmap[f] # PMA!ALLOCATED
  <2>1. \A f \in PMA!Frames : f \in PMA!Slots /\ f # LimitPfn
    BY MemoryAssumption DEF PMA!Frames, PMA!Slots
  <2>2. PICK past \in PMA!States :
          pma_bitmap = [f \in PMA!Slots |-> IF f = LimitPfn THEN past
                                            ELSE IF f <= ImageLimit THEN PMA!RESERVED ELSE PMA!FREE]
    BY DEF PMA!mm_pma_init
  <2>3. pma_bitmap \in [PMA!Slots -> PMA!States]
    BY <2>2 DEF PMA!States
  <2>4. QED
    BY <2>1, <2>2, <2>3 DEF PMA!mm_pma_init, PMA!FREE, PMA!ALLOCATED, PMA!RESERVED
<1>2. TypeOK
  <2>1. pde \in [Tables -> PMA!Frames \cup {NoFrame}]
    OBVIOUS
  <2>2. pte \in [Vpns -> [pfn : PMA!Frames \cup Vpns, flags : FLAGS] \cup {NotPresent}]
    OBVIOUS
  <2>3. alloc_vpn \in PtSize .. HeapLimit
    BY PageAssumption
  <2>4. QED
    BY <1>1, <2>1, <2>2, <2>3 DEF TypeOK
<1>3. FramesInv
  BY <1>1, MemoryAssumption DEF FramesInv, PMA!Frames, Running
<1>4. BootInv
  BY <1>1, PagesHaveTables DEF BootInv
<1>5. Paged = {} /\ ~InCall
  BY PagesHaveTables DEF Paged, Present, HasTable, InCall, Calls
<1>6. EntriesInv /\ RegionsInv /\ CallInv /\ HandInv /\ UseInv
  BY <1>1, <1>5 DEF EntriesInv, RegionsInv, CallInv, HandInv, UseInv, InHand
<1>7. QED
  BY <1>2, <1>3, <1>4, <1>6 DEF IInv

-----------------------------------------------------------------------------
(* Steps that leave the tables and the frames alone.                         *)

LEMMA TablesAlone ==
  ASSUME IInv, UNCHANGED <<pma_bitmap, held, pde, pte>>, ~Running("map_memory")
  PROVE  /\ Paged' = Paged /\ FramesInv' /\ EntriesInv'
         /\ \A vpn \in Vpns : (Present(vpn)' <=> Present(vpn)) /\ Shown(vpn)' = Shown(vpn)
<1>1. \A vpn \in Vpns : (Present(vpn)' <=> Present(vpn)) /\ Shown(vpn)' = Shown(vpn)
  BY DEF Present, HasTable, Shown
<1>2. Paged' = Paged
  BY <1>1 DEF Paged
<1>3. Paged \subseteq Vpns
  BY DEF Paged
<1>4. EntriesInv'
  BY <1>1, <1>2, <1>3 DEF IInv, EntriesInv
<1>5. FramesInv'
  BY DEF IInv, FramesInv, Running
<1>6. QED
  BY <1>1, <1>2, <1>4, <1>5

(* Between calls nothing is in hand, and a call that begins has nothing yet. *)
LEMMA BeginsEmpty ==
  ASSUME IInv, op = Idle, UNCHANGED <<pma_vars, pde, pte, table_failed>>,
         op' \in Calls, op'.kind \in {"map", "free"} \/ op'.step = "frame",
         alloc_vpn' \in PtSize .. HeapLimit, regions' \subseteq regions, alloc_vpn <= alloc_vpn', CallInv'
  PROVE  IInv'
<1>1. ~Running("map_memory") /\ ~InCall /\ ~InHand
  BY DEF Idle, Running, InCall, InHand, Calls
<1>2. FramesInv' /\ EntriesInv' /\ Paged' = Paged /\ \A vpn \in Vpns : Shown(vpn)' = Shown(vpn)
  BY <1>1, TablesAlone DEF pma_vars
<1>3. TypeOK'
  BY DEF IInv, TypeOK, pma_vars
<1>4. BootInv'
  BY DEF BootInv, Running, Calls
<1>5. RegionsInv'
  <2>1. \A r \in regions : r.end \in Nat /\ alloc_vpn \in Nat /\ alloc_vpn' \in Nat
    BY PageAssumption DEF IInv, TypeOK
  <2>2. QED
    BY <1>2, <2>1 DEF IInv, RegionsInv, PagesIn
<1>6. ~InHand'
  BY DEF InHand, CallInv, InCall
<1>7. HandInv' /\ UseInv'
  <2>1. Paged \subseteq Vpns
    BY DEF Paged
  <2>2. QED
    BY <1>1, <1>2, <1>6, <2>1 DEF IInv, HandInv, UseInv, pma_vars
<1>8. QED
  BY <1>2, <1>3, <1>4, <1>5, <1>7 DEF IInv

LEMMA BeginKeeps == IInv /\ BeginCall => IInv'
<1> SUFFICES ASSUME IInv, BeginCall PROVE IInv'
  OBVIOUS
<1>1. /\ alloc_vpn \in Nat /\ PtSize \in Nat /\ HeapLimit \in Nat /\ PtSize <= alloc_vpn
      /\ alloc_vpn \in PtSize .. HeapLimit /\ alloc_vpn <= HeapLimit
      /\ Vpns \subseteq Nat /\ \A vpn \in Nat : vpn < HeapLimit => vpn \in Vpns
  BY PageAssumption DEF IInv, TypeOK
<1>2. \A r \in regions : /\ r.first \in Nat /\ r.end \in Nat /\ PtSize <= r.first
                         /\ r.first < r.end /\ r.end <= alloc_vpn
  BY DEF IInv, TypeOK, RegionsInv
<1>3. ASSUME NEW n \in 1 .. MaxPages, mm_allocate_pages(n) PROVE IInv'
  <2>1. n \in Nat /\ n >= 1 /\ alloc_vpn + n <= HeapLimit /\ alloc_vpn' = alloc_vpn + n
    BY <1>3, PageAssumption DEF mm_allocate_pages, alloc_virt_page
  <2>2. op' = Call("allocate", alloc_vpn, alloc_vpn + n) /\ op' \in Calls
    BY <1>1, <1>3, <2>1 DEF mm_allocate_pages, Call, Calls, FLAGS
  <2>3. CallInv'
    BY <1>1, <1>2, <1>3, <2>1, <2>2 DEF CallInv, Call, mm_allocate_pages, PagesIn
  <2>4. QED
    BY <1>1, <1>3, <2>1, <2>2, <2>3, BeginsEmpty DEF mm_allocate_pages, Call
<1>4. ASSUME NEW vpn \in Vpns, NEW n \in 1 .. MaxPages, mm_allocate_pages_to(vpn, n) PROVE IInv'
  <2>1. PICK r \in regions : r.first <= vpn /\ vpn + n <= r.end
    BY <1>4 DEF mm_allocate_pages_to
  <2>2. op' = Call("allocate_to", vpn, vpn + n) /\ op' \in Calls
    BY <1>1, <1>4, PageAssumption DEF mm_allocate_pages_to, Call, Calls, FLAGS
  <2>3. \A v \in vpn .. vpn + n - 1 : v \in Paged
    <3>1. \A v \in PagesIn(r) : v \in Paged
      BY DEF IInv, RegionsInv
    <3>2. vpn \in Nat /\ n \in Nat /\ r.first \in Nat /\ r.end \in Nat
      BY <1>1, <1>2, PageAssumption
    <3>3. \A v \in vpn .. vpn + n - 1 : v \in r.first .. r.end - 1
      BY <2>1, <3>2
    <3>4. QED
      BY <3>1, <3>3 DEF PagesIn
  <2>4. Paged' = Paged
    BY <1>4 DEF mm_allocate_pages_to, Paged, Present, HasTable
  <2>5. CallInv'
    <3>1. /\ op'.kind = "allocate_to" /\ op'.first = vpn /\ op'.vpn = vpn /\ op'.end = vpn + n
          /\ UNCHANGED <<alloc_vpn, regions>>
      BY <1>4, <2>2 DEF Call, mm_allocate_pages_to
    <3>2. vpn \in Nat /\ n \in Nat /\ n >= 1
      BY <1>1, PageAssumption
    <3>3. vpn < vpn + n /\ PtSize <= vpn /\ vpn + n <= alloc_vpn
      BY <1>1, <1>2, <2>1, <3>2
    <3>4. QED
      BY <2>3, <2>4, <3>1, <3>2, <3>3 DEF CallInv
  <2>6. QED
    BY <1>1, <1>4, <2>2, <2>5, BeginsEmpty DEF mm_allocate_pages_to, Call
<1>5. ASSUME NEW vpn \in DevicePages, NEW flags \in FLAGS, mm_map(vpn, flags) PROVE IInv'
  <2>1. vpn \in Vpns /\ vpn \in Nat
    BY <1>1, DevicesAreApart
  <2>2. op' = [kind |-> "map", step |-> "map", first |-> vpn, vpn |-> vpn, end |-> vpn + 1,
               pfn |-> vpn, flags |-> flags]
    BY <1>5 DEF mm_map, Call
  <2>3. op' \in Calls
    BY <2>1, <2>2 DEF Calls
  <2>4. CallInv'
    BY <1>5, <2>1, <2>2 DEF CallInv
  <2>5. op = Idle /\ UNCHANGED <<pma_vars, pde, pte, alloc_vpn, regions, table_failed>>
    BY <1>5 DEF mm_map
  <2>6. op'.kind = "map"
    BY <2>2
  <2>7. QED
    BY <1>1, <2>3, <2>4, <2>5, <2>6, BeginsEmpty
<1>6. ASSUME NEW r \in regions, mm_free_pages(r) PROVE IInv'
  <2>1. r.first \in Vpns /\ op' = Call("free", r.first, r.end) /\ op' \in Calls
    BY <1>1, <1>2, <1>6 DEF mm_free_pages, Call, Calls, FLAGS
  <2>2. \A s \in regions' : PagesIn(s) \cap PagesIn(r) = {}
    BY <1>6 DEF mm_free_pages, IInv, RegionsInv
  <2>3. CallInv'
    BY <1>1, <1>2, <1>6, <2>1, <2>2 DEF CallInv, Call, mm_free_pages, PagesIn
  <2>4. QED
    BY <1>1, <1>6, <2>1, <2>3, BeginsEmpty DEF mm_free_pages, Call
<1>7. QED
  BY <1>3, <1>4, <1>5, <1>6 DEF BeginCall, DevicePages, FLAGS

-----------------------------------------------------------------------------
(* The steps of a call.                                                      *)

LEMMA CallParts ==
  ASSUME IInv, InCall
  PROVE  /\ op.vpn \in Vpns /\ op.vpn \in Nat /\ op.first \in Nat /\ op.end \in Nat
         /\ op.first <= op.vpn /\ op.vpn < op.end
         /\ op.kind \in {"allocate", "allocate_to", "map", "free"}
         /\ op.kind # "map" => op.vpn \in HeapPages
         /\ alloc_vpn \in Nat /\ PtSize \in Nat /\ alloc_vpn <= HeapLimit
         /\ op # Idle /\ ~Running("map_memory") /\ ~Running("init_page_directory")
<1>1. /\ op.vpn \in Vpns /\ op.first \in Nat /\ op.end \in Nat
      /\ op.kind \in {"allocate", "allocate_to", "map", "free"}
  BY DEF InCall, Calls
<1>2. /\ op.first <= op.vpn /\ op.vpn < op.end
      /\ op.kind # "map" => PtSize <= op.first /\ op.end <= alloc_vpn
  BY DEF IInv, CallInv
<1>3. alloc_vpn \in Nat /\ PtSize \in Nat /\ HeapLimit \in Nat /\ alloc_vpn <= HeapLimit /\ Vpns \subseteq Nat
  BY PageAssumption DEF IInv, TypeOK
<1>4. op # Idle /\ ~Running("map_memory") /\ ~Running("init_page_directory")
  BY <1>1 DEF Idle, Running
<1>5. op.vpn \in Nat
  BY <1>1, <1>3
<1>6. op.kind # "map" => op.vpn \in HeapPages
  BY <1>1, <1>2, <1>3, <1>5 DEF HeapPages
<1>7. QED
  BY <1>1, <1>2, <1>3, <1>4, <1>5, <1>6

(* A call that ends early leaves its regions, and what it had in hand.       *)
LEMMA GivesUp ==
  ASSUME IInv, InCall, op' = Idle, UNCHANGED <<pma_bitmap, held, pde, pte, alloc_vpn, regions>>,
         table_failed' \in BOOLEAN, table_failed => table_failed', ~InHand \/ table_failed'
  PROVE  IInv'
<1>1. FramesInv' /\ EntriesInv' /\ Paged' = Paged /\ \A vpn \in Vpns : Shown(vpn)' = Shown(vpn)
  BY CallParts, TablesAlone
<1>2. TypeOK'
  BY DEF IInv, TypeOK
<1>3. op'.kind = "idle" /\ ~InCall' /\ ~InHand'
  BY DEF Idle, InCall, InHand, Calls
<1>4. BootInv' /\ CallInv' /\ HandInv'
  BY <1>3 DEF BootInv, Running, CallInv, HandInv
<1>5. RegionsInv'
  BY <1>1 DEF IInv, RegionsInv, PagesIn
<1>6. UseInv'
  <2>1. Paged \subseteq Vpns
    BY DEF Paged
  <2>2. QED
    BY <1>1, <2>1 DEF IInv, UseInv
<1>7. QED
  BY <1>1, <1>2, <1>4, <1>5, <1>6 DEF IInv

(* A call goes on to its next page, or returns: given what it made of this   *)
(* page, what it has passed stays backed.                                    *)
LEMMA GoesOn ==
  ASSUME IInv, InCall, NextPage, UNCHANGED alloc_vpn,
         \A vpn \in Paged : vpn \in Paged' \/ (op.kind = "free" /\ vpn = op.vpn),
         op.kind = "allocate" => op.vpn \in Paged',
         op.kind = "free" => op.step = "frame"
  PROVE  /\ op' \in Calls \cup {Idle} /\ ~InHand' /\ regions' \subseteq [first : Nat, end : Nat]
         /\ RegionsInv' /\ CallInv' /\ BootInv'
<1>1. CASE op.vpn + 1 < op.end
  <2>1. /\ op' = [op EXCEPT !.vpn = op.vpn + 1, !.step = "frame", !.pfn = NoFrame]
        /\ UNCHANGED regions
    BY <1>1 DEF NextPage
  <2>2. op.kind # "map" /\ op.vpn + 1 \in Vpns
    <3>1. op.kind # "map"
      BY <1>1, CallParts DEF IInv, CallInv
    <3>2. op.end <= alloc_vpn
      BY <3>1 DEF IInv, CallInv
    <3>3. QED
      BY <1>1, <3>1, <3>2, CallParts, PageAssumption
  <2>3. op' \in Calls
    BY <2>1, <2>2 DEF InCall, Calls
  <2>4. /\ op'.kind = op.kind /\ op'.vpn = op.vpn + 1 /\ op'.first = op.first /\ op'.end = op.end
        /\ op'.step = "frame"
    BY <2>1 DEF InCall, Calls
  <2>5. ~InHand'
    BY <2>4 DEF InHand
  <2>6. RegionsInv'
    BY <2>1, CallParts DEF IInv, RegionsInv, CallInv, PagesIn
  <2>7. CallInv'
    BY <1>1, <2>1, <2>2, <2>4, CallParts DEF IInv, CallInv, PagesIn
  <2>8. BootInv'
    BY <2>4, CallParts DEF BootInv, Running
  <2>9. QED
    BY <2>1, <2>3, <2>5, <2>6, <2>7, <2>8 DEF IInv, TypeOK
<1>2. CASE ~(op.vpn + 1 < op.end)
  <2>1. op' = Idle /\ regions' = IF Running("allocate") THEN regions \cup {Region} ELSE regions
    BY <1>2 DEF NextPage
  <2>2. op.end = op.vpn + 1
    BY <1>2, CallParts
  <2>3. op'.kind = "idle" /\ ~InCall' /\ ~InHand'
    BY <2>1 DEF Idle, InCall, InHand, Calls
  <2>4. CallInv' /\ BootInv'
    BY <2>3 DEF CallInv, BootInv, Running
  <2>5. \A r \in regions : \A vpn \in PagesIn(r) : vpn \in Paged'
    BY CallParts DEF IInv, RegionsInv, CallInv, PagesIn
  <2>6. CASE Running("allocate")
    <3>1. op.kind = "allocate" /\ regions' = regions \cup {Region} /\ Region \in [first : Nat, end : Nat]
      BY <2>1, <2>6, CallParts DEF Running, Region
    <3>2. PtSize <= Region.first /\ Region.first < Region.end /\ Region.end <= alloc_vpn
      BY <3>1, CallParts DEF Region, IInv, CallInv
    <3>3. PagesIn(Region) = op.first .. op.end - 1
      BY DEF Region, PagesIn
    <3>4. \A vpn \in PagesIn(Region) : vpn \in Paged'
      BY <2>2, <3>1, <3>3, CallParts DEF IInv, CallInv
    <3>5. \A r \in regions : PagesIn(r) \cap PagesIn(Region) = {}
      BY <3>1, <3>3 DEF IInv, CallInv
    <3>6. RegionsInv'
      BY <2>5, <3>1, <3>2, <3>4, <3>5 DEF IInv, RegionsInv, PagesIn
    <3>7. QED
      BY <2>1, <2>3, <2>4, <3>1, <3>6 DEF IInv, TypeOK
  <2>7. CASE ~Running("allocate")
    <3>1. RegionsInv'
      BY <2>1, <2>5, <2>7 DEF IInv, RegionsInv, PagesIn
    <3>2. QED
      BY <2>1, <2>3, <2>4, <2>7, <3>1 DEF IInv, TypeOK
  <2>8. QED
    BY <2>6, <2>7
<1>3. QED
  BY <1>1, <1>2

-----------------------------------------------------------------------------
(* One step of each kind keeps the invariant.                                *)

LEMMA AllocatingCalls ==
  ASSUME IInv
  PROVE  /\ \A step \in {"frame", "map"} : At(step) => InCall /\ op.step = step
         /\ At("frame") => op.kind \in {"allocate", "allocate_to"} /\ ~InHand
         /\ Running("free") => InCall /\ ~InHand /\ op.step = "frame" /\ op.vpn \in HeapPages
         /\ At("map") => (op.kind = "map" /\ op.vpn \in DevicePages /\ op.pfn = op.vpn) \/ InHand
<1>1. Running("allocate") \/ Running("allocate_to") \/ Running("map") \/ Running("free") => InCall
  BY DEF Running, InCall, IInv, TypeOK, Idle
<1>2. \A step \in {"frame", "map"} : At(step) => InCall /\ op.step = step
  BY <1>1 DEF At, Allocating
<1>3. At("frame") => op.kind \in {"allocate", "allocate_to"} /\ ~InHand
  BY <1>2 DEF At, Allocating, Running, InHand, IInv, CallInv
<1>4. Running("free") => InCall /\ ~InHand /\ op.step = "frame" /\ op.vpn \in HeapPages
  BY <1>1, CallParts DEF Running, InHand, IInv, CallInv
<1>5. At("map") => (op.kind = "map" /\ op.vpn \in DevicePages /\ op.pfn = op.vpn) \/ InHand
  BY <1>2 DEF At, Allocating, Running, InHand, IInv, CallInv
<1>6. QED
  BY <1>2, <1>3, <1>4, <1>5

LEMMA RefusedKeeps == IInv /\ (FrameRefused \/ TableRefused \/ RefuseEntry) => IInv'
<1> SUFFICES ASSUME IInv, FrameRefused \/ TableRefused \/ RefuseEntry PROVE IInv'
  OBVIOUS
<1>1. CASE FrameRefused
  BY <1>1, AllocatingCalls, GivesUp
     DEF FrameRefused, GiveUp, PMA!mm_pma_insufficient_memory, IInv, TypeOK
<1>2. CASE TableRefused
  BY <1>2, AllocatingCalls, GivesUp
     DEF TableRefused, GiveUp, PMA!mm_pma_insufficient_memory, IInv, TypeOK
<1>3. CASE RefuseEntry
  <2>1. ~InHand
    BY <1>3 DEF RefuseEntry, Conflicts, Present, IInv, HandInv
  <2>2. QED
    BY <1>3, <2>1, AllocatingCalls, GivesUp DEF RefuseEntry, GiveUp, pma_vars, IInv, TypeOK
<1>4. QED
  BY <1>1, <1>2, <1>3

LEMMA PresentKeeps == IInv /\ PagePresent => IInv'
<1> SUFFICES ASSUME IInv, PagePresent PROVE IInv'
  OBVIOUS
<1>1. InCall /\ ~InHand /\ op.vpn \in HeapPages
  BY AllocatingCalls, CallParts DEF PagePresent
<1>2. /\ FramesInv' /\ EntriesInv' /\ Paged' = Paged
      /\ \A vpn \in Vpns : (Present(vpn)' <=> Present(vpn)) /\ Shown(vpn)' = Shown(vpn)
  BY <1>1, CallParts, TablesAlone DEF PagePresent, pma_vars
<1>3. op.vpn \in Paged
  BY <1>1, PagesHaveTables DEF Paged, PagePresent
<1>4. op.kind # "free"
  BY AllocatingCalls DEF PagePresent
<1>5. /\ op' \in Calls \cup {Idle} /\ ~InHand' /\ regions' \subseteq [first : Nat, end : Nat]
      /\ RegionsInv' /\ CallInv' /\ BootInv'
  BY <1>1, <1>2, <1>3, <1>4, GoesOn DEF PagePresent
<1>6. TypeOK'
  BY <1>5 DEF PagePresent, pma_vars, IInv, TypeOK
<1>7. HandInv' /\ UseInv'
  <2>1. Paged \subseteq Vpns
    BY DEF Paged
  <2>2. QED
    BY <1>1, <1>2, <1>5, <2>1 DEF PagePresent, pma_vars, IInv, HandInv, UseInv
<1>8. QED
  BY <1>2, <1>5, <1>6, <1>7 DEF IInv

LEMMA FrameKeeps == IInv /\ AllocateFrame => IInv'
<1> SUFFICES ASSUME IInv, AllocateFrame PROVE IInv'
  OBVIOUS
<1>1. PICK pfn \in PMA!Frames : /\ PMA!mm_pma_allocate_frame(1, pfn)
                                /\ op' = [op EXCEPT !.step = "map", !.pfn = pfn]
  BY DEF AllocateFrame
<1>2. /\ InCall /\ ~InHand /\ op.kind \in {"allocate", "allocate_to"} /\ ~Present(op.vpn)
      /\ UNCHANGED <<pde, pte, alloc_vpn, regions, table_failed>>
  BY AllocatingCalls DEF AllocateFrame
<1>3. /\ pfn \notin held /\ held' = held \cup {pfn} /\ held' \subseteq PMA!Frames
      /\ pma_bitmap' \in [PMA!Slots -> PMA!States]
      /\ \A f \in PMA!Frames : f \in held' <=> pma_bitmap'[f] = PMA!ALLOCATED
      /\ \A f \in PMA!Frames : pma_bitmap[f] = PMA!RESERVED => pma_bitmap'[f] = PMA!RESERVED
  BY <1>1, FrameTaken DEF IInv
<1>4. /\ op' \in Calls /\ op'.kind = op.kind /\ op'.vpn = op.vpn /\ op'.first = op.first
      /\ op'.end = op.end /\ op'.step = "map" /\ op'.pfn = pfn
  BY <1>1, <1>2 DEF InCall, Calls
<1>5. Paged' = Paged /\ Paged \subseteq Vpns /\ \A vpn \in Vpns : (Present(vpn)' <=> Present(vpn)) /\ Shown(vpn)' = Shown(vpn)
  BY <1>2 DEF Paged, Present, HasTable, Shown
<1>6. TypeOK'
  BY <1>2, <1>3, <1>4 DEF IInv, TypeOK
<1>7. FramesInv'
  BY <1>2, <1>3, CallParts DEF IInv, FramesInv
<1>8. BootInv'
  BY <1>2, <1>4, CallParts DEF BootInv, Running
<1>9. EntriesInv'
  BY <1>2, <1>3, <1>5 DEF IInv, EntriesInv
<1>10. RegionsInv'
  BY <1>2, <1>5 DEF IInv, RegionsInv, PagesIn
<1>11. CallInv'
  BY <1>2, <1>4, <1>5 DEF IInv, CallInv, InCall, PagesIn
<1>12. HandInv'
  <2>1. op'.pfn \in held' /\ (~Present(op.vpn))'
    BY <1>2, <1>3, <1>4 DEF Present, HasTable
  <2>2. \A t \in Tables : pde'[t] # pfn
    BY <1>2, <1>3, NoFrameIsNone DEF IInv, EntriesInv
  <2>3. \A vpn \in Paged \cap HeapPages : Shown(vpn) # pfn
    BY <1>3 DEF IInv, EntriesInv
  <2>4. QED
    BY <1>4, <1>5, <2>1, <2>2, <2>3 DEF HandInv
<1>13. UseInv'
  <2>1. InHand'
    BY <1>2, <1>4 DEF InHand, InCall
  <2>2. QED
    BY <1>2, <1>3, <1>4, <1>5, <2>1 DEF IInv, UseInv
<1>14. QED
  BY <1>6, <1>7, <1>8, <1>9, <1>10, <1>11, <1>12, <1>13 DEF IInv

LEMMA TableKeeps == IInv /\ AllocateTable => IInv'
<1> SUFFICES ASSUME IInv, AllocateTable PROVE IInv'
  OBVIOUS
<1>1. PICK pfn \in PMA!Frames : /\ PMA!mm_pma_allocate_frame(1, pfn)
                                /\ pde' = [pde EXCEPT ![Table(op.vpn)] = pfn]
  BY DEF AllocateTable
<1>2. /\ InCall /\ ~HasTable(op.vpn)
      /\ pte' = [vpn \in Vpns |-> IF vpn \in PagesOf(Table(op.vpn)) THEN NotPresent ELSE pte[vpn]]
      /\ UNCHANGED <<op, alloc_vpn, regions, table_failed>>
  BY AllocatingCalls DEF AllocateTable
<1>3. /\ pfn \notin held /\ held' = held \cup {pfn} /\ held' \subseteq PMA!Frames
      /\ pma_bitmap' \in [PMA!Slots -> PMA!States]
      /\ \A f \in PMA!Frames : f \in held' <=> pma_bitmap'[f] = PMA!ALLOCATED
      /\ \A f \in PMA!Frames : pma_bitmap[f] = PMA!RESERVED => pma_bitmap'[f] = PMA!RESERVED
      /\ pma_bitmap[pfn] = PMA!FREE
  BY <1>1, FrameTaken DEF IInv
<1>4. Table(op.vpn) \in Tables /\ pde[Table(op.vpn)] = NoFrame /\ op.vpn \in Vpns
  BY <1>2, CallParts, PagesHaveTables DEF HasTable
<1>5. \A t \in Tables : pde'[t] = IF t = Table(op.vpn) THEN pfn ELSE pde[t]
  BY <1>1, <1>4 DEF IInv, TypeOK
<1>6. \A vpn \in Vpns : /\ (Present(vpn)' <=> Present(vpn))
                        /\ Present(vpn) => Shown(vpn)' = Shown(vpn)
  <2>1. ASSUME NEW vpn \in Vpns
        PROVE (Present(vpn)' <=> Present(vpn)) /\ (Present(vpn) => Shown(vpn)' = Shown(vpn))
    <3>1. CASE Table(vpn) = Table(op.vpn)
      <4>1. ~HasTable(vpn) /\ pte'[vpn] = NotPresent
        BY <1>2, <1>4, <3>1 DEF HasTable, PagesOf
      <4>2. ~Present(vpn) /\ ~Present(vpn)'
        BY <4>1 DEF Present
      <4>3. QED
        BY <4>2
    <3>2. CASE Table(vpn) # Table(op.vpn)
      <4>1. pte'[vpn] = pte[vpn] /\ pde'[Table(vpn)] = pde[Table(vpn)]
        BY <1>2, <1>5, <3>2, PagesHaveTables DEF PagesOf
      <4>2. QED
        BY <4>1 DEF Present, HasTable, Shown
    <3>3. QED
      BY <3>1, <3>2
  <2>2. QED
    BY <2>1
<1>7. Paged' = Paged /\ Paged \subseteq Vpns /\ \A vpn \in Paged : Shown(vpn)' = Shown(vpn)
  BY <1>6 DEF Paged
<1>8. TypeOK'
  <2>1. pde' \in [Tables -> PMA!Frames \cup {NoFrame}]
    BY <1>1 DEF IInv, TypeOK
  <2>2. pte' \in [Vpns -> [pfn : PMA!Frames \cup Vpns, flags : FLAGS] \cup {NotPresent}]
    BY <1>2 DEF IInv, TypeOK
  <2>3. QED
    BY <1>2, <1>3, <2>1, <2>2 DEF IInv, TypeOK
<1>9. FramesInv'
  BY <1>2, <1>3, CallParts DEF IInv, FramesInv
<1>10. BootInv'
  BY <1>2, CallParts DEF BootInv, Running
<1>11. \A vpn \in Paged : vpn \in HeapPages => Shown(vpn) # pfn
  BY <1>3 DEF IInv, EntriesInv
<1>12. EntriesInv'
  <2>1. \A t \in Tables : pde'[t] # NoFrame => pde'[t] \in held'
    BY <1>3, <1>5 DEF IInv, EntriesInv
  <2>2. QED
    BY <1>3, <1>5, <1>7, <1>11, <2>1 DEF IInv, EntriesInv
<1>13. RegionsInv'
  BY <1>2, <1>7 DEF IInv, RegionsInv, PagesIn
<1>14. CallInv'
  BY <1>2, <1>7 DEF IInv, CallInv, InCall, PagesIn
<1>15. InHand' = InHand
  BY <1>2 DEF InHand, InCall
<1>16. HandInv'
  BY <1>2, <1>3, <1>4, <1>5, <1>6, <1>7, <1>15 DEF IInv, HandInv
<1>17. UseInv'
  <2>1. \A t \in Tables : pde[t] \in held => pde'[t] = pde[t]
    BY <1>4, <1>5, NoFrameIsNone DEF IInv, TypeOK
  <2>2. QED
    BY <1>2, <1>3, <1>4, <1>5, <1>7, <1>15, <2>1 DEF IInv, UseInv
<1>18. QED
  BY <1>8, <1>9, <1>10, <1>12, <1>13, <1>14, <1>16, <1>17 DEF IInv

LEMMA WriteKeeps == IInv /\ WriteEntry => IInv'
<1> SUFFICES ASSUME IInv, WriteEntry PROVE IInv'
  OBVIOUS
<1>1. /\ InCall /\ HasTable(op.vpn) /\ NextPage /\ op.kind # "free"
      /\ pte' = [pte EXCEPT ![op.vpn] = Entry(op.pfn, op.flags)]
      /\ UNCHANGED <<pma_bitmap, held, booting, pde, alloc_vpn, table_failed>>
      /\ (op.kind = "map" /\ op.vpn \in DevicePages /\ op.pfn = op.vpn) \/ InHand
  BY AllocatingCalls DEF WriteEntry, pma_vars, InHand
<1>2. op.vpn \in Vpns /\ pte \in [Vpns -> [pfn : PMA!Frames \cup Vpns, flags : FLAGS] \cup {NotPresent}]
  BY <1>1, CallParts DEF IInv, TypeOK
<1>3. Entry(op.pfn, op.flags) \in [pfn : PMA!Frames \cup Vpns, flags : FLAGS] /\ Entry(op.pfn, op.flags) # NotPresent
  <2>1. op.flags \in FLAGS
    BY <1>1 DEF InCall, Calls
  <2>2. op.pfn \in PMA!Frames \cup Vpns
    BY <1>1, <1>2 DEF IInv, HandInv, TypeOK
  <2>3. QED
    BY <2>1, <2>2 DEF Entry, NotPresent, FLAGS
<1>4. /\ pte'[op.vpn] = Entry(op.pfn, op.flags)
      /\ \A vpn \in Vpns : vpn # op.vpn => pte'[vpn] = pte[vpn]
  BY <1>1, <1>2
<1>5. \A vpn \in Vpns : vpn # op.vpn => (Present(vpn)' <=> Present(vpn)) /\ Shown(vpn)' = Shown(vpn)
  BY <1>1, <1>4 DEF Present, HasTable, Shown
<1>6. pte'[op.vpn] # NotPresent /\ pde'[Table(op.vpn)] # NoFrame /\ pte'[op.vpn].pfn = op.pfn
  BY <1>1, <1>3, <1>4 DEF HasTable, Entry
<1>7. /\ Paged' = IF Table(op.vpn) # 0 THEN Paged \cup {op.vpn} ELSE Paged \ {op.vpn}
      /\ Paged \subseteq Vpns /\ Paged \subseteq Paged' /\ Paged' \subseteq Vpns
  <2>1. \A vpn \in Vpns : vpn \in Paged' <=> (IF vpn = op.vpn THEN Table(vpn) # 0 ELSE vpn \in Paged)
    BY <1>5, <1>6 DEF Paged, Present, HasTable
  <2>2. op.vpn \in Paged => Table(op.vpn) # 0
    BY DEF Paged
  <2>3. Paged \subseteq Vpns /\ Paged' \subseteq Vpns
    BY DEF Paged
  <2>4. QED
    BY <1>2, <2>1, <2>2, <2>3
<1>8. InHand => op.vpn \in HeapPages /\ op.vpn \in Paged' /\ op.vpn \notin Paged
  BY <1>1, <1>7, CallParts, PagesHaveTables DEF InHand, IInv, HandInv, Paged
<1>9. /\ op' \in Calls \cup {Idle} /\ ~InHand' /\ regions' \subseteq [first : Nat, end : Nat]
      /\ RegionsInv' /\ CallInv' /\ BootInv'
  <2>1. op.kind = "allocate" => op.vpn \in Paged'
    BY <1>1, <1>8
  <2>2. QED
    BY <1>1, <1>7, <2>1, GoesOn
<1>10. TypeOK'
  <2>1. pte' \in [Vpns -> [pfn : PMA!Frames \cup Vpns, flags : FLAGS] \cup {NotPresent}]
    BY <1>1, <1>2, <1>3
  <2>2. QED
    BY <1>1, <1>9, <2>1 DEF IInv, TypeOK
<1>11. FramesInv'
  BY <1>1, CallParts DEF IInv, FramesInv, Running
<1>12. CASE InHand
  <2>1. \A vpn \in Paged : vpn # op.vpn /\ Shown(vpn)' = Shown(vpn)
    BY <1>5, <1>7, <1>8, <1>12
  <2>2. (\A vpn \in Paged' : vpn = op.vpn \/ vpn \in Paged) /\ pte'[op.vpn].pfn = op.pfn
    BY <1>6, <1>7
  <2>3. /\ op.pfn \in held /\ \A t \in Tables : pde[t] # op.pfn
        /\ \A vpn \in Paged \cap HeapPages : Shown(vpn) # op.pfn
    BY <1>12 DEF IInv, HandInv
  <2> DEFINE Now(vpn) == pte'[vpn].pfn
  <2>4. \A vpn \in Paged : Now(vpn) = Shown(vpn)
    BY <2>1 DEF Shown
  <2>5. \A t \in Tables : pde'[t] # NoFrame => pde'[t] \in held'
    BY <1>1 DEF IInv, EntriesInv
  <2>6. \A vpn \in Paged' :
          IF vpn \in HeapPages
          THEN /\ Now(vpn) \in held' /\ \A t \in Tables : pde'[t] # Now(vpn)
               /\ \A other \in Paged' \cap HeapPages : Now(other) = Now(vpn) => other = vpn
          ELSE vpn \in DevicePages /\ Now(vpn) = vpn
    <3> HIDE DEF Now
    <3>1. Now(op.vpn) = op.pfn
      BY <2>2 DEF Now
    <3>2. QED
      BY <1>1, <1>8, <1>12, <2>2, <2>3, <2>4, <3>1 DEF IInv, EntriesInv
  <2>7. EntriesInv'
    BY <2>5, <2>6 DEF EntriesInv, Shown
  <2>8. HandInv' /\ UseInv'
    <3>1. \A f \in held : f = op.pfn \/ (\E t \in Tables : pde[t] = f) \/ (\E vpn \in Paged : Shown(vpn) = f) \/ table_failed
      BY DEF IInv, UseInv
    <3>2. op.vpn \in Paged' /\ Shown(op.vpn) = Shown(op.vpn)
      BY <1>8, <1>12
    <3>3. \A f \in held : (\E t \in Tables : pde[t] = f) \/ (\E vpn \in Paged' : Now(vpn) = f) \/ table_failed
      BY <1>7, <2>2, <2>4, <3>1, <3>2
    <3>4. QED
      BY <1>1, <1>9, <3>3 DEF HandInv, UseInv, Shown
  <2>9. QED
    BY <1>9, <1>10, <1>11, <2>7, <2>8 DEF IInv
<1>13. CASE op.kind = "map" /\ op.vpn \in DevicePages /\ op.pfn = op.vpn
  <2>1. op.vpn \notin HeapPages
    BY <1>13, DevicesAreApart
  <2> DEFINE Now(vpn) == pte'[vpn].pfn
  <2>2. \A vpn \in Paged : Now(vpn) = Shown(vpn)
    <3>1. op.vpn \in Paged => Shown(op.vpn) = op.vpn
      BY <2>1 DEF IInv, EntriesInv
    <3>2. QED
      BY <1>4, <1>6, <1>7, <1>13, <3>1 DEF Shown
  <2>3. Now(op.vpn) = op.vpn /\ \A vpn \in Paged' : vpn = op.vpn \/ vpn \in Paged
    BY <1>6, <1>7, <1>13
  <2>4. EntriesInv'
    <3> HIDE DEF Now
    <3>1. \A vpn \in Paged' :
            IF vpn \in HeapPages
            THEN /\ Now(vpn) \in held' /\ \A t \in Tables : pde'[t] # Now(vpn)
                 /\ \A other \in Paged' \cap HeapPages : Now(other) = Now(vpn) => other = vpn
            ELSE vpn \in DevicePages /\ Now(vpn) = vpn
      BY <1>1, <1>13, <2>1, <2>2, <2>3 DEF IInv, EntriesInv
    <3>2. \A t \in Tables : pde'[t] # NoFrame => pde'[t] \in held'
      BY <1>1 DEF IInv, EntriesInv
    <3>3. QED
      BY <3>1, <3>2 DEF EntriesInv, Shown, Now
  <2>5. HandInv' /\ UseInv'
    <3>1. ~InHand
      BY <1>13 DEF InHand
    <3>2. \A f \in held : (\E t \in Tables : pde[t] = f) \/ (\E vpn \in Paged' : Now(vpn) = f) \/ table_failed
      BY <1>7, <2>2, <3>1 DEF IInv, UseInv
    <3>3. QED
      BY <1>1, <1>9, <3>2 DEF HandInv, UseInv, Shown
  <2>6. QED
    BY <1>9, <1>10, <1>11, <2>4, <2>5 DEF IInv
<1>14. QED
  BY <1>1, <1>12, <1>13

LEMMA FreeKeeps == IInv /\ FreePage => IInv'
<1> SUFFICES ASSUME IInv, FreePage PROVE IInv'
  OBVIOUS
<1>1. /\ InCall /\ ~InHand /\ op.kind = "free" /\ op.step = "frame" /\ op.vpn \in HeapPages /\ op.vpn \in Vpns
      /\ NextPage /\ UNCHANGED <<pde, alloc_vpn, table_failed>>
  BY AllocatingCalls, CallParts DEF FreePage, Running
<1>2. Paged \subseteq Vpns /\ pte \in [Vpns -> [pfn : PMA!Frames \cup Vpns, flags : FLAGS] \cup {NotPresent}]
  BY DEF Paged, IInv, TypeOK
<1>3. ASSUME \A vpn \in Paged : vpn \in Paged' \/ vpn = op.vpn
      PROVE  /\ op' \in Calls \cup {Idle} /\ ~InHand' /\ regions' \subseteq [first : Nat, end : Nat]
             /\ RegionsInv' /\ CallInv' /\ BootInv'
  BY <1>1, <1>3, GoesOn
<1>4. CASE ~Present(op.vpn)
  <2>1. UNCHANGED <<pma_bitmap, held, booting, pte>>
    BY <1>4 DEF FreePage, pma_vars
  <2>2. FramesInv' /\ EntriesInv' /\ Paged' = Paged /\ \A vpn \in Vpns : Shown(vpn)' = Shown(vpn)
    BY <1>1, <2>1, CallParts, TablesAlone
  <2>3. TypeOK' /\ RegionsInv' /\ CallInv' /\ BootInv'
    BY <1>1, <1>3, <2>1, <2>2 DEF IInv, TypeOK
  <2>4. HandInv' /\ UseInv'
    BY <1>1, <1>2, <1>3, <2>1, <2>2 DEF IInv, HandInv, UseInv
  <2>5. QED
    BY <2>2, <2>3, <2>4 DEF IInv
<1>5. CASE Present(op.vpn)
  <2> DEFINE frame == Shown(op.vpn)
  <2>1. op.vpn \in Paged
    BY <1>1, <1>5, PagesHaveTables DEF Paged
  <2>2. /\ frame \in held /\ \A t \in Tables : pde[t] # frame
        /\ \A other \in Paged \cap HeapPages : other # op.vpn => Shown(other) # frame
    BY <1>1, <2>1 DEF IInv, EntriesInv
  <2>3. PMA!mm_pma_free_frame(frame, 1) /\ pte' = [pte EXCEPT ![op.vpn] = NotPresent]
    BY <1>5 DEF FreePage, UnmapAndFree, unmap, Shown
  <2> HIDE DEF frame
  <2>4. /\ held' = held \ {frame} /\ pma_bitmap' \in [PMA!Slots -> PMA!States]
        /\ \A f \in PMA!Frames : f \in held' <=> pma_bitmap'[f] = PMA!ALLOCATED
        /\ \A f \in PMA!Frames : pma_bitmap[f] = PMA!RESERVED => pma_bitmap'[f] = PMA!RESERVED
    BY <2>2, <2>3, FrameGivenBack DEF IInv
  <2>5. /\ pte'[op.vpn] = NotPresent
        /\ \A vpn \in Vpns : vpn # op.vpn => pte'[vpn] = pte[vpn]
    BY <1>1, <1>2, <2>3
  <2>6. Paged' = Paged \ {op.vpn}
    BY <1>1, <2>5 DEF Paged, Present, HasTable
  <2>7. \A vpn \in Paged' : vpn \in Paged /\ vpn # op.vpn /\ Shown(vpn)' = Shown(vpn)
    BY <1>2, <2>5, <2>6 DEF Shown
  <2>8. /\ op' \in Calls \cup {Idle} /\ ~InHand' /\ regions' \subseteq [first : Nat, end : Nat]
        /\ RegionsInv' /\ CallInv' /\ BootInv'
    BY <1>3, <2>6
  <2>9. TypeOK'
    <3>1. pte' \in [Vpns -> [pfn : PMA!Frames \cup Vpns, flags : FLAGS] \cup {NotPresent}]
      BY <1>2, <2>3
    <3>2. QED
      BY <1>1, <2>4, <2>8, <3>1 DEF IInv, TypeOK
  <2>10. FramesInv'
    BY <1>1, <2>4, CallParts DEF IInv, FramesInv
  <2>11. EntriesInv'
    <3>1. \A t \in Tables : pde'[t] # NoFrame => pde'[t] \in held'
      BY <1>1, <2>2, <2>4 DEF IInv, EntriesInv
    <3>2. \A vpn \in Paged' : IF vpn \in HeapPages
                              THEN /\ Shown(vpn) \in held'
                                   /\ \A t \in Tables : pde'[t] # Shown(vpn)
                                   /\ \A other \in Paged' \cap HeapPages : Shown(other) = Shown(vpn) => other = vpn
                              ELSE vpn \in DevicePages /\ Shown(vpn) = vpn
      BY <1>1, <2>2, <2>4, <2>7 DEF IInv, EntriesInv
    <3>3. QED
      BY <2>7, <3>1, <3>2 DEF EntriesInv
  <2>12. HandInv' /\ UseInv'
    <3>1. \A f \in held' : table_failed \/ (\E t \in Tables : pde[t] = f) \/ (\E vpn \in Paged' : Shown(vpn) = f)
      <4>1. frame = Shown(op.vpn)
        BY DEF frame
      <4>2. QED
        BY <1>1, <2>4, <2>6, <4>1 DEF IInv, UseInv
    <3>2. QED
      BY <1>1, <2>7, <2>8, <3>1 DEF HandInv, UseInv
  <2>13. QED
    BY <2>8, <2>9, <2>10, <2>11, <2>12 DEF IInv
<1>6. QED
  BY <1>4, <1>5

(* The boot reserves what firmware keeps, before anything is allocated.      *)
LEMMA ReserveKeeps == IInv /\ ReserveFirmware => IInv'
<1> SUFFICES ASSUME IInv, ReserveFirmware PROVE IInv'
  OBVIOUS
<1>1. /\ Running("map_memory") /\ op' = [kind |-> "init_page_directory"] /\ booting
      /\ held = {} /\ regions = {} /\ \A t \in Tables : pde[t] = NoFrame
      /\ UNCHANGED <<pde, pte, alloc_vpn, regions, table_failed>>
  BY DEF ReserveFirmware, IInv, BootInv
<1>2. /\ pma_bitmap' = [f \in PMA!Slots |-> IF f = MarkLimit THEN PMA!RESERVED ELSE pma_bitmap[f]]
      /\ UNCHANGED <<booting, held>>
  <2>1. \A f \in PMA!Slots : f \in PMA!Clamped(MarkLimit, MarkLimit) <=> f = MarkLimit
    BY MemoryAssumption DEF PMA!Clamped, PMA!Slots
  <2>2. QED
    BY <2>1 DEF ReserveFirmware, PMA!mm_pma_mark_reserved
<1>3. PMA!Frames \subseteq PMA!Slots
  BY MemoryAssumption DEF PMA!Frames, PMA!Slots
<1>4. TypeOK'
  <2>1. pma_bitmap' \in [PMA!Slots -> PMA!States]
    BY <1>2 DEF IInv, TypeOK, PMA!States
  <2>2. QED
    BY <1>1, <1>2, <2>1 DEF IInv, TypeOK
<1>5. FramesInv'
  BY <1>1, <1>2, <1>3 DEF IInv, FramesInv, PMA!RESERVED, PMA!ALLOCATED
<1>6. ~InCall' /\ ~InHand' /\ BootInv'
  BY <1>1, <1>2 DEF InCall, InHand, Calls, BootInv, Running
<1>7. Paged' = {} /\ RegionsInv' /\ CallInv' /\ HandInv'
  BY <1>1, <1>6, PagesHaveTables DEF Paged, Present, HasTable, RegionsInv, CallInv, HandInv
<1>8. EntriesInv' /\ UseInv'
  BY <1>1, <1>2, <1>7 DEF EntriesInv, UseInv
<1>9. QED
  BY <1>4, <1>5, <1>6, <1>7, <1>8 DEF IInv

LEMMA DirectoryKeeps == IInv /\ init_page_directory => IInv'
<1> SUFFICES ASSUME IInv, init_page_directory PROVE IInv'
  OBVIOUS
<1>1. PICK pfn \in PMA!Frames : PMA!mm_pma_allocate_frame(1, pfn) /\ pde' = [pde EXCEPT ![0] = pfn]
  BY DEF init_page_directory
<1>2. /\ Running("init_page_directory") /\ op' = Idle
      /\ held = {} /\ regions = {} /\ \A t \in Tables : pde[t] = NoFrame
      /\ pte' = [vpn \in Vpns |-> IF Table(vpn) = 0 THEN Entry(vpn, "default") ELSE pte[vpn]]
      /\ UNCHANGED <<alloc_vpn, regions, table_failed>>
  BY DEF init_page_directory, IInv, BootInv
<1>3. /\ pfn \notin held /\ held' = held \cup {pfn} /\ held' \subseteq PMA!Frames
      /\ pma_bitmap' \in [PMA!Slots -> PMA!States]
      /\ \A f \in PMA!Frames : f \in held' <=> pma_bitmap'[f] = PMA!ALLOCATED
      /\ \A f \in PMA!Frames : pma_bitmap[f] = PMA!RESERVED => pma_bitmap'[f] = PMA!RESERVED
  BY <1>1, FrameTaken DEF IInv
<1>4. 0 \in Tables
  <2>1. 0 \in Vpns /\ 0 \div PtSize = 0
    BY PageAssumption
  <2>2. QED
    BY <2>1 DEF Tables, Table
<1>5. \A t \in Tables : pde'[t] = IF t = 0 THEN pfn ELSE NoFrame
  BY <1>1, <1>2 DEF IInv, TypeOK
<1>6. TypeOK'
  <2>1. pde' \in [Tables -> PMA!Frames \cup {NoFrame}]
    BY <1>1, <1>4 DEF IInv, TypeOK
  <2>2. pte' \in [Vpns -> [pfn : PMA!Frames \cup Vpns, flags : FLAGS] \cup {NotPresent}]
    BY <1>2 DEF IInv, TypeOK, Entry, FLAGS
  <2>3. QED
    BY <1>2, <1>3, <2>1, <2>2 DEF IInv, TypeOK
<1>7. FramesInv'
  BY <1>2, <1>3 DEF IInv, FramesInv, Running
<1>8. ~InCall' /\ ~InHand' /\ BootInv'
  BY <1>2 DEF Idle, InCall, InHand, Calls, BootInv, Running
<1>9. Paged' = {}
  BY <1>5, PagesHaveTables DEF Paged, Present, HasTable
<1>10. RegionsInv' /\ CallInv' /\ HandInv'
  BY <1>2, <1>8 DEF RegionsInv, CallInv, HandInv
<1>11. EntriesInv' /\ UseInv'
  BY <1>2, <1>3, <1>4, <1>5, <1>9 DEF EntriesInv, UseInv
<1>12. QED
  BY <1>6, <1>7, <1>8, <1>10, <1>11 DEF IInv

-----------------------------------------------------------------------------
(* What follows from the invariant.                                          *)

LEMMA InvNext == IInv /\ [Next]_vars => IInv'
<1> SUFFICES ASSUME IInv, [Next]_vars PROVE IInv'
  OBVIOUS
<1>1. CASE UNCHANGED vars
  BY <1>1 DEF vars, pma_vars, IInv, TypeOK, FramesInv, BootInv, EntriesInv, RegionsInv, CallInv,
     HandInv, UseInv, InHand, InCall, Paged, Present, HasTable, Shown, Running, PagesIn
<1>2. CASE Next
  BY <1>2, ReserveKeeps, DirectoryKeeps, BeginKeeps, PresentKeeps, FrameKeeps, RefusedKeeps,
     TableKeeps, WriteKeeps, FreeKeeps DEF Next
<1>3. QED
  BY <1>1, <1>2

LEMMA InvAlways == Spec => []IInv
BY InvInit, InvNext, PTL DEF Spec

(* Device pages show memory that is reserved, and no frame that is held.     *)
LEMMA DevicesShowReserved ==
  ASSUME IInv, NEW vpn \in Paged, vpn \notin HeapPages
  PROVE  /\ Shown(vpn) \notin held
         /\ Shown(vpn) \in PMA!Frames => pma_bitmap[Shown(vpn)] = PMA!RESERVED
<1>1. Shown(vpn) = vpn /\ vpn \in DevicePages
  BY DEF IInv, EntriesInv
<1>2. ~Running("map_memory")
  BY PagesHaveTables DEF IInv, BootInv, Paged, Present, HasTable
<1>3. Shown(vpn) \in PMA!Frames => pma_bitmap[Shown(vpn)] = PMA!RESERVED
  BY <1>1, <1>2 DEF IInv, FramesInv
<1>4. QED
  BY <1>3 DEF IInv, FramesInv, TypeOK, PMA!RESERVED, PMA!ALLOCATED

(* No page shows a frame that the allocator would hand out again, and page   *)
(* tables share their frames with nobody, whatever ran out in any call       *)
(* (mm_allocate_pages, mm_map, mm_free_pages).                               *)
THEOREM MappedCorrect == Spec => []MappedIsHeld
<1>1. IInv => MappedIsHeld
  <2> SUFFICES ASSUME IInv PROVE MappedIsHeld
    OBVIOUS
  <2>1. TableFrames \subseteq held
    BY DEF TableFrames, IInv, EntriesInv
  <2>2. ASSUME NEW vpn \in Paged
        PROVE  /\ Shown(vpn) \in PMA!Frames => pma_bitmap[Shown(vpn)] # PMA!FREE
               /\ Shown(vpn) \notin TableFrames
    <3>1. CASE vpn \in HeapPages
      <4>1. Shown(vpn) \in held /\ \A t \in Tables : pde[t] # Shown(vpn)
        BY <3>1 DEF IInv, EntriesInv
      <4>2. QED
        BY <4>1 DEF TableFrames, IInv, FramesInv, PMA!FREE, PMA!ALLOCATED
    <3>2. CASE vpn \notin HeapPages
      BY <2>1, <3>2, DevicesShowReserved DEF PMA!FREE, PMA!RESERVED
    <3>3. QED
      BY <3>1, <3>2
  <2>3. QED
    BY <2>1, <2>2 DEF MappedIsHeld, Shown
<1>2. QED
  BY <1>1, InvAlways, PTL

(* A region that mm_allocate_pages returned is backed throughout until it is *)
(* freed, by frames that no other page shows, and overlaps no other region.  *)
THEOREM RegionsCorrect == Spec => []RegionsArePrivate
<1>1. IInv => RegionsArePrivate
  <2> SUFFICES ASSUME IInv PROVE RegionsArePrivate
    OBVIOUS
  <2>1. ASSUME NEW r \in regions, NEW vpn \in PagesIn(r)
        PROVE  /\ vpn \in Paged /\ Shown(vpn) \in held
               /\ \A other \in Paged : Shown(other) = Shown(vpn) => other = vpn
    <3>1. r.first \in Nat /\ r.end \in Nat /\ PtSize <= r.first /\ r.end <= alloc_vpn /\ vpn \in Paged
      BY DEF IInv, RegionsInv, TypeOK
    <3>2. PtSize \in Nat /\ HeapLimit \in Nat /\ alloc_vpn \in Nat /\ alloc_vpn <= HeapLimit
      BY PageAssumption DEF IInv, TypeOK
    <3>3. vpn \in HeapPages
      BY <3>1, <3>2 DEF PagesIn, HeapPages
    <3>4. /\ Shown(vpn) \in held
          /\ \A other \in Paged \cap HeapPages : Shown(other) = Shown(vpn) => other = vpn
      BY <3>1, <3>3 DEF IInv, EntriesInv
    <3>5. \A other \in Paged : other \notin HeapPages => Shown(other) \notin held
      BY DevicesShowReserved
    <3>6. QED
      BY <3>1, <3>4, <3>5
  <2>2. QED
    BY <2>1 DEF RegionsArePrivate, Shown, IInv, RegionsInv
<1>2. QED
  BY <1>1, InvAlways, PTL

(* Between calls every frame that was taken and not given back is a page     *)
(* table's or a page's, as long as no page table was refused: the frame of   *)
(* a page whose table cannot be had is the only one that mm.c ever drops.    *)
THEOREM NothingLostCorrect == Spec => []NothingLost
<1>1. IInv => NothingLost
  <2> SUFFICES ASSUME IInv, op = Idle, ~table_failed, NEW f \in held
               PROVE  f \in TableFrames \cup {pte[vpn].pfn : vpn \in Paged}
    BY DEF NothingLost
  <2>1. ~InHand
    BY DEF InHand, InCall, Idle, Calls
  <2>2. f # NoFrame
    BY NoFrameIsNone DEF IInv, TypeOK
  <2>3. QED
    BY <2>1, <2>2 DEF IInv, UseInv, TableFrames, Shown
<1>2. QED
  BY <1>1, InvAlways, PTL

(* Every step of paging is a step that the frame allocator allows its        *)
(* callers, or none: mm.c gives back only frames that it holds.              *)
THEOREM UsesFrameAllocator == Spec => FrameAllocatorSpec
<1>1. Init => PMA!mm_pma_init
  BY DEF Init
<1>2. IInv /\ [Next]_vars => [PMA!Next]_(PMA!vars)
  <2> SUFFICES ASSUME IInv, [Next]_vars PROVE PMA!Next \/ UNCHANGED PMA!vars
    OBVIOUS
  <2>1. CASE ReserveFirmware
    <3>1. booting /\ PMA!mm_pma_mark_reserved(MarkLimit, MarkLimit)
      BY <2>1 DEF ReserveFirmware, IInv, BootInv
    <3>2. MarkLimit \in 0 .. MarkLimit /\ MarkLimit \in BasePfn .. MarkLimit /\ MarkLimit <= MarkLimit
      BY MemoryAssumption
    <3>3. QED
      BY <3>1, <3>2 DEF PMA!Next, PMA!MarkReserved
  <2>2. CASE init_page_directory \/ AllocateFrame \/ AllocateTable
    <3>1. 1 \in 1 .. MaxRequest
      BY DEF MaxRequest
    <3>2. \E pfn \in PMA!Frames : PMA!mm_pma_allocate_frame(1, pfn)
      BY <2>2 DEF init_page_directory, AllocateFrame, AllocateTable
    <3>3. QED
      BY <3>1, <3>2 DEF PMA!Next, PMA!AllocateFrame
  <2>3. CASE FrameRefused \/ TableRefused
    <3>1. 1 \in 1 .. MaxRequest
      BY DEF MaxRequest
    <3>2. PMA!mm_pma_insufficient_memory(1)
      BY <2>3 DEF FrameRefused, TableRefused
    <3>3. QED
      BY <3>1, <3>2 DEF PMA!Next, PMA!AllocateFails
  <2>4. CASE FreePage
    <3>1. CASE Present(op.vpn)
      <4>1. op.vpn \in Paged /\ op.vpn \in HeapPages
        BY <2>4, <3>1, AllocatingCalls, PagesHaveTables DEF FreePage, Paged
      <4>2. Shown(op.vpn) \in held /\ Shown(op.vpn) \in PMA!Frames
        BY <4>1 DEF IInv, EntriesInv, TypeOK
      <4>3. PMA!mm_pma_free_frame(Shown(op.vpn), 1)
        BY <2>4, <3>1 DEF FreePage, UnmapAndFree, Shown
      <4>4. Shown(op.vpn) .. Shown(op.vpn) + 1 - 1 \subseteq held /\ 1 \in 1 .. MaxRequest
        BY <4>2, MemoryAssumption DEF MaxRequest, PMA!Frames
      <4>5. QED
        BY <4>2, <4>3, <4>4 DEF PMA!Next, PMA!FreeHeld
    <3>2. CASE ~Present(op.vpn)
      BY <2>4, <3>2 DEF FreePage, pma_vars, PMA!vars
    <3>3. QED
      BY <3>1, <3>2
  <2>5. CASE BeginCall
    BY <2>5 DEF BeginCall, mm_allocate_pages, mm_allocate_pages_to, mm_map, mm_free_pages, pma_vars, PMA!vars
  <2>6. CASE PagePresent \/ WriteEntry \/ RefuseEntry
    BY <2>6 DEF PagePresent, WriteEntry, RefuseEntry, pma_vars, PMA!vars
  <2>7. CASE UNCHANGED vars
    BY <2>7 DEF vars, pma_vars, PMA!vars
  <2>8. QED
    BY <2>1, <2>2, <2>3, <2>4, <2>5, <2>6, <2>7 DEF Next
<1>3. QED
  BY <1>1, <1>2, InvAlways, PTL DEF Spec, FrameAllocatorSpec, PMA!Spec
=============================================================================
