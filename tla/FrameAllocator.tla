--------------------------- MODULE FrameAllocator ---------------------------
(***************************************************************************)
(* The physical memory allocator of vellum/mm/mm.c: a bitmap of two bits   *)
(* per page frame and two counters kept beside it.                         *)
(*                                                                         *)
(* Frames are named by their page frame number. The bitmap describes the   *)
(* frames BasePfn .. LimitPfn - 1; mm_pma_mark_reserved and                *)
(* mm_pma_free_frame also touch the descriptor of LimitPfn itself, one     *)
(* past the last frame that can be allocated, so the bitmap has a slot     *)
(* for it. LimitPfn is the frame that holds the last usable byte.          *)
(*                                                                         *)
(* held is a history variable: the frames callers were given and have not  *)
(* given back.                                                             *)
(***************************************************************************)
EXTENDS Integers, FiniteSets, FiniteSetTheorems, TLAPS

CONSTANTS
  BasePfn,     \* pma_base_pfn
  LimitPfn,    \* pma_limit_pfn
  ImageLimit,  \* last frame of the kernel image and of the bitmap behind it
  MarkLimit,   \* highest frame number the memory map asks to reserve
  MaxRequest   \* most frames one call allocates or frees

ASSUME GeometryAssumption ==
  /\ BasePfn \in Nat /\ LimitPfn \in Nat
  /\ ImageLimit \in BasePfn .. LimitPfn - 1
  /\ MarkLimit \in Nat
  /\ MaxRequest \in Nat \ {0}

FREE      == "free"
ALLOCATED == "allocated"
RESERVED  == "reserved"
States    == {FREE, ALLOCATED, RESERVED}

Frames == BasePfn .. LimitPfn - 1
Slots  == BasePfn .. LimitPfn

VARIABLES
  pma_bitmap,            \* the two-bit descriptors
  pma_available_frames,  \* frames that are not reserved
  pma_free_frames,       \* frames that can be allocated now
  booting,               \* init_pma is still reading the memory map
  held                   \* history: frames in the hands of callers

vars == <<pma_bitmap, pma_available_frames, pma_free_frames, booting, held>>

InState(s) == {f \in Frames : pma_bitmap[f] = s}

-----------------------------------------------------------------------------
(* mm_pma_init: everything free, then the image and the bitmap reserved.   *)
(* Four descriptors share a byte, so the slot past the end lies in the     *)
(* zeroed bitmap unless the frames fill its last byte.                     *)

SlotIsZeroed == (LimitPfn - BasePfn) % 4 # 0

mm_pma_init ==
  /\ \E past \in States :
       /\ SlotIsZeroed => past = FREE
       /\ pma_bitmap = [f \in Slots |-> IF f = LimitPfn THEN past
                                       ELSE IF f <= ImageLimit THEN RESERVED
                                       ELSE FREE]
  /\ pma_available_frames = LimitPfn - ImageLimit - 1
  /\ pma_free_frames = LimitPfn - ImageLimit - 1
  /\ booting = TRUE
  /\ held = {}

(* The frames a call that names base_page .. limit_page visits: clamped at *)
(* both ends, the upper end inclusive.                                     *)
Clamped(base_page, limit_page) ==
  {f \in Slots : base_page <= f /\ f <= limit_page}

(* A slip to compare with: descriptors already reserved are not skipped.   *)
MarkWithoutSkip(base_page, limit_page) ==
  LET marked  == Clamped(base_page, limit_page)
      wasfree == {f \in marked : pma_bitmap[f] = FREE}
  IN  /\ pma_bitmap' = [f \in Slots |->
                          IF f \in marked THEN RESERVED ELSE pma_bitmap[f]]
      /\ pma_available_frames' = pma_available_frames - Cardinality(marked)
      /\ pma_free_frames' = pma_free_frames - Cardinality(wasfree)
      /\ UNCHANGED <<booting, held>>

mm_pma_mark_reserved(base_page, limit_page) ==
  LET marked  == Clamped(base_page, limit_page)
      newly   == {f \in marked : pma_bitmap[f] # RESERVED}
      wasfree == {f \in marked : pma_bitmap[f] = FREE}
  IN  /\ pma_bitmap' = [f \in Slots |->
                          IF f \in marked THEN RESERVED ELSE pma_bitmap[f]]
      /\ pma_available_frames' = pma_available_frames - Cardinality(newly)
      /\ pma_free_frames' = pma_free_frames - Cardinality(wasfree)
      /\ UNCHANGED <<booting, held>>

(* A run of count free frames starts at f.                                 *)
IsRun(f, count) ==
  /\ f + count <= LimitPfn
  /\ \A g \in f .. f + count - 1 : pma_bitmap[g] = FREE

(* The scan stops at the first run that is long enough.                    *)
IsFirstRun(f, count) ==
  /\ IsRun(f, count)
  /\ \A g \in Frames : IsRun(g, count) => f <= g

(* mm_pma_allocate_frame(count) returning STATUS_SUCCESS and pfn.          *)
mm_pma_allocate_frame(count, pfn) ==
  LET taken == pfn .. pfn + count - 1
  IN  /\ IsFirstRun(pfn, count)
      /\ pma_bitmap' = [f \in Slots |->
                          IF f \in taken THEN ALLOCATED ELSE pma_bitmap[f]]
      /\ pma_free_frames' = pma_free_frames - count
      /\ booting' = FALSE
      /\ held' = held \cup taken
      /\ UNCHANGED pma_available_frames

(* mm_pma_allocate_frame(count) returning STATUS_INSUFFICIENT_MEMORY.      *)
mm_pma_insufficient_memory(count) ==
  /\ \A f \in Frames : ~IsRun(f, count)
  /\ booting' = FALSE
  /\ UNCHANGED <<pma_bitmap, pma_available_frames, pma_free_frames, held>>

(* How many frames a call to free really walks: the code subtracts what    *)
(* lies below the limit, not what lies above it.                           *)
InclusiveSpan(pfn, count) == count + 1  \* a slip to compare with

FreeSpan(pfn, count) ==
  IF pfn + count > LimitPfn + 1 THEN count - (LimitPfn + 1 - pfn) ELSE count

(* A slip to compare with: whatever is not free is freed.                  *)
FreeWithoutSkip(pfn, count) ==
  LET span  == IF pfn \in Slots
               THEN {f \in Slots : pfn <= f /\ f < pfn + FreeSpan(pfn, count)}
               ELSE {}
      freed == {f \in span : pma_bitmap[f] # FREE}
  IN  /\ pma_bitmap' = [f \in Slots |->
                          IF f \in freed THEN FREE ELSE pma_bitmap[f]]
      /\ pma_free_frames' = pma_free_frames + Cardinality(freed)
      /\ held' = held \ (pfn .. pfn + count - 1)
      /\ UNCHANGED <<pma_available_frames, booting>>

mm_pma_free_frame(pfn, count) ==
  LET span  == IF pfn \in Slots
               THEN {f \in Slots : pfn <= f /\ f < pfn + FreeSpan(pfn, count)}
               ELSE {}
      freed == {f \in span : pma_bitmap[f] = ALLOCATED}
  IN  /\ pma_bitmap' = [f \in Slots |->
                          IF f \in freed THEN FREE ELSE pma_bitmap[f]]
      /\ pma_free_frames' = pma_free_frames + Cardinality(freed)
      /\ held' = held \ (pfn .. pfn + count - 1)
      /\ UNCHANGED <<pma_available_frames, booting>>

-----------------------------------------------------------------------------
(* The callers. The memory map is read once, before anything is allocated, *)
(* and names areas that end at or above BasePfn (init.c raises lower       *)
(* ones); whoever frees a range was given all of it; mm_free_pages also    *)
(* passes on the frame of any page it finds mapped, device memory and      *)
(* reserved frames included.                                               *)

MarkReserved ==
  /\ booting
  /\ \E base_page \in 0 .. MarkLimit, limit_page \in BasePfn .. MarkLimit :
       base_page <= limit_page /\ mm_pma_mark_reserved(base_page, limit_page)

AllocateFrame ==
  \E count \in 1 .. MaxRequest, pfn \in Frames : mm_pma_allocate_frame(count, pfn)

AllocateFails ==
  \E count \in 1 .. MaxRequest : mm_pma_insufficient_memory(count)

FreeHeld ==
  \E count \in 1 .. MaxRequest, pfn \in Frames :
    /\ pfn .. pfn + count - 1 \subseteq held
    /\ mm_pma_free_frame(pfn, count)

Foreign == {f \in 0 .. LimitPfn + 1 :
              f \in Frames => pma_bitmap[f] = RESERVED /\ f \notin held}

FreeForeign == \E pfn \in Foreign : mm_pma_free_frame(pfn, 1)

Next == MarkReserved \/ AllocateFrame \/ AllocateFails \/ FreeHeld \/ FreeForeign

Spec == mm_pma_init /\ [][Next]_vars

-----------------------------------------------------------------------------
(* The types of the allocator's variables (mm.c:33-37).                    *)
TypeOK ==
  /\ pma_bitmap \in [Slots -> States]
  /\ pma_available_frames \in Int
  /\ pma_free_frames \in Int
  /\ booting \in BOOLEAN
  /\ held \subseteq Frames

One(p) == IF p THEN 1 ELSE 0

(* The two counters that the mem command prints, and that are updated one  *)
(* descriptor at a time by four functions, agree with the bitmap: the      *)
(* available count with the frames not reserved, the free count with the   *)
(* frames mm_pma_allocate_frame can hand out. All that ever comes between  *)
(* is the descriptor behind the last frame, which was not counted at first *)
(* and is counted when mm_pma_mark_reserved or mm_pma_free_frame change    *)
(* it: from then on a counter is one too small or too large, never more.   *)
CountersAgree ==
  LET last == pma_bitmap[LimitPfn]
  IN  \E first \in States :
        /\ SlotIsZeroed => first = FREE
        /\ pma_free_frames = Cardinality(InState(FREE)) + One(last = FREE) - One(first = FREE)
        /\ pma_available_frames = Cardinality(Frames \ InState(RESERVED))
                                  + One(last # RESERVED) - One(first # RESERVED)

(* A frame is marked allocated exactly while a caller holds it: no call    *)
(* loses a frame, frees a neighbour's, or takes a reserved one.            *)
HeldIsAllocated == InState(ALLOCATED) = held

(* No call ever makes a reserved frame allocatable again, whoever frees    *)
(* it, and frames that change hands were free before: mm_pma_free_frame    *)
(* skips everything that is not allocated.                                 *)
ReservedStays ==
  [][/\ \A f \in Frames : pma_bitmap[f] = RESERVED => pma_bitmap'[f] = RESERVED
     /\ \A f \in held' \ held : pma_bitmap[f] = FREE]_vars

-----------------------------------------------------------------------------
(* Proofs, for every frame range, image size, memory map and request size. *)

(* Counting: removing a subset, adding a disjoint set.                      *)

LEMMA DropCount ==
  ASSUME NEW S, NEW T, IsFiniteSet(S), T \subseteq S
  PROVE  /\ IsFiniteSet(T) /\ Cardinality(T) \in Nat
         /\ Cardinality(S) \in Nat
         /\ Cardinality(S \ T) = Cardinality(S) - Cardinality(T)
<1>1. S \cap T = T
  OBVIOUS
<1>2. IsFiniteSet(T)
  BY FS_Subset
<1>3. QED
  BY <1>1, <1>2, FS_Difference, FS_CardinalityType

LEMMA GrowCount ==
  ASSUME NEW S, NEW T, IsFiniteSet(S), IsFiniteSet(T), S \cap T = {}
  PROVE  /\ Cardinality(S) \in Nat /\ Cardinality(T) \in Nat
         /\ Cardinality(S \cup T) = Cardinality(S) + Cardinality(T)
<1>1. Cardinality(S) \in Nat /\ Cardinality(T) \in Nat
  BY FS_CardinalityType
<1>2. Cardinality(S \cap T) = 0
  <2>1. Cardinality({}) = 0
    BY FS_EmptySet
  <2>2. QED
    BY <2>1, Zenon
<1>3. Cardinality(S \cup T) = Cardinality(S) + Cardinality(T) - Cardinality(S \cap T)
  BY FS_Union
<1>4. QED
  BY <1>1, <1>2, <1>3

LEMMA FramesAreFinite ==
  ASSUME NEW S, S \subseteq Slots
  PROVE  IsFiniteSet(S) /\ Cardinality(S) \in Nat
<1>1. IsFiniteSet(Slots)
  BY GeometryAssumption, FS_Interval DEF Slots
<1>2. QED
  BY <1>1, FS_Subset, FS_CardinalityType

LEMMA FramesAreSlots == Frames \subseteq Slots /\ LimitPfn \in Slots /\ LimitPfn \notin Frames
BY GeometryAssumption DEF Frames, Slots

-----------------------------------------------------------------------------
(* Types.                                                                   *)

LEMMA TypeInit == mm_pma_init => TypeOK
<1> SUFFICES ASSUME mm_pma_init PROVE TypeOK
  OBVIOUS
<1>1. pma_bitmap \in [Slots -> States]
  BY DEF mm_pma_init, States, FREE, RESERVED, ALLOCATED
<1>2. QED
  BY <1>1, GeometryAssumption DEF mm_pma_init, TypeOK

(* A successful allocation stays inside the frames.                         *)
LEMMA TakenFrames ==
  ASSUME NEW count \in 1 .. MaxRequest, NEW pfn \in Frames, IsRun(pfn, count)
  PROVE  /\ pfn .. pfn + count - 1 \subseteq InState(FREE)
         /\ pfn .. pfn + count - 1 \subseteq Frames
         /\ Cardinality(pfn .. pfn + count - 1) = count
<1>1. /\ pfn \in Nat /\ count \in Nat /\ count >= 1
      /\ BasePfn <= pfn /\ pfn + count <= LimitPfn
  BY GeometryAssumption DEF Frames, IsRun
<1>2. pfn .. pfn + count - 1 \subseteq Frames
  BY <1>1, GeometryAssumption DEF Frames
<1>3. \A g \in pfn .. pfn + count - 1 : pma_bitmap[g] = FREE
  BY DEF IsRun
<1>4. Cardinality(pfn .. pfn + count - 1) = count
  <2>1. /\ pfn \in Int /\ pfn + count - 1 \in Int
        /\ ~(pfn > pfn + count - 1)
        /\ pfn + count - 1 - pfn + 1 = count
    BY <1>1
  <2>2. QED
    BY <2>1, FS_Interval
<1>5. QED
  BY <1>2, <1>3, <1>4 DEF InState

(* What a free call walks: the range it was given, when that range lies     *)
(* within the slots.                                                        *)
LEMMA SpanOfRange ==
  ASSUME NEW pfn \in Slots, NEW count \in Nat, pfn + count <= LimitPfn + 1
  PROVE  {f \in Slots : pfn <= f /\ f < pfn + FreeSpan(pfn, count)}
            = pfn .. pfn + count - 1
<1>1. FreeSpan(pfn, count) = count
  BY GeometryAssumption DEF FreeSpan, Slots
<1>2. QED
  BY <1>1, GeometryAssumption DEF Slots

LEMMA TypeStep == TypeOK /\ [Next]_vars => TypeOK'
<1> SUFFICES ASSUME TypeOK, [Next]_vars PROVE TypeOK'
  OBVIOUS
<1>1. CASE MarkReserved
  <2>1. PICK base_page \in 0 .. MarkLimit, limit_page \in BasePfn .. MarkLimit :
          mm_pma_mark_reserved(base_page, limit_page)
    BY <1>1 DEF MarkReserved
  <2> DEFINE marked == Clamped(base_page, limit_page)
             newly == {f \in marked : pma_bitmap[f] # RESERVED}
             wasfree == {f \in marked : pma_bitmap[f] = FREE}
  <2>2. Cardinality(newly) \in Nat /\ Cardinality(wasfree) \in Nat
    BY FramesAreFinite DEF Clamped
  <2>3. pma_bitmap' \in [Slots -> States]
    BY <2>1 DEF mm_pma_mark_reserved, TypeOK, States
  <2>4. QED
    BY <2>1, <2>2, <2>3 DEF mm_pma_mark_reserved, TypeOK
<1>2. CASE AllocateFrame
  <2>1. PICK count \in 1 .. MaxRequest, pfn \in Frames :
          mm_pma_allocate_frame(count, pfn)
    BY <1>2 DEF AllocateFrame
  <2>2. pma_bitmap' \in [Slots -> States]
    BY <2>1 DEF mm_pma_allocate_frame, TypeOK, States
  <2>3. pfn .. pfn + count - 1 \subseteq Frames
    BY <2>1, TakenFrames DEF mm_pma_allocate_frame, IsFirstRun
  <2>4. count \in Int
    BY GeometryAssumption
  <2>5. booting' \in BOOLEAN
    BY <2>1, Zenon DEF mm_pma_allocate_frame
  <2>6. held' \subseteq Frames
    BY <2>1, <2>3 DEF mm_pma_allocate_frame, TypeOK
  <2>7. pma_free_frames' \in Int /\ pma_available_frames' \in Int
    BY <2>1, <2>4 DEF mm_pma_allocate_frame, TypeOK
  <2>8. QED
    BY <2>2, <2>5, <2>6, <2>7 DEF TypeOK
<1>3. CASE AllocateFails
  BY <1>3 DEF AllocateFails, mm_pma_insufficient_memory, TypeOK
<1>4. ASSUME NEW pfn, NEW count, mm_pma_free_frame(pfn, count) PROVE TypeOK'
  <2> DEFINE span == IF pfn \in Slots
                     THEN {f \in Slots : pfn <= f /\ f < pfn + FreeSpan(pfn, count)}
                     ELSE {}
             freed == {f \in span : pma_bitmap[f] = ALLOCATED}
  <2>1. Cardinality(freed) \in Nat
    BY FramesAreFinite
  <2>2. pma_bitmap' \in [Slots -> States]
    BY <1>4 DEF mm_pma_free_frame, TypeOK, States
  <2>3. QED
    BY <1>4, <2>1, <2>2 DEF mm_pma_free_frame, TypeOK
<1>5. CASE FreeHeld
  BY <1>4, <1>5 DEF FreeHeld
<1>6. CASE FreeForeign
  BY <1>4, <1>6 DEF FreeForeign
<1>7. CASE UNCHANGED vars
  BY <1>7 DEF vars, TypeOK
<1>8. QED
  BY <1>1, <1>2, <1>3, <1>5, <1>6, <1>7 DEF Next

(* The allocator's variables keep their types.                              *)
THEOREM TypeCorrect == Spec => []TypeOK
<1>1. QED
  BY TypeInit, TypeStep, PTL DEF Spec

-----------------------------------------------------------------------------
(* Allocated frames are the ones callers hold. Marking happens only while    *)
(* nothing has been allocated, and a free call walks exactly its range.      *)

HeldInv == HeldIsAllocated /\ (booting => held = {})

LEMMA HeldStep == TypeOK /\ HeldInv /\ [Next]_vars => HeldInv'
<1> SUFFICES ASSUME TypeOK, HeldInv, [Next]_vars PROVE HeldInv'
  OBVIOUS
<1> USE FramesAreSlots DEF HeldInv, HeldIsAllocated, InState, TypeOK
<1>1. CASE MarkReserved
  BY <1>1 DEF MarkReserved, mm_pma_mark_reserved, RESERVED, ALLOCATED
<1>2. CASE AllocateFrame
  <2>1. PICK count \in 1 .. MaxRequest, pfn \in Frames :
          mm_pma_allocate_frame(count, pfn)
    BY <1>2 DEF AllocateFrame
  <2>2. pfn .. pfn + count - 1 \subseteq Frames
    BY <2>1, TakenFrames DEF mm_pma_allocate_frame, IsFirstRun
  <2>3. QED
    BY <2>1, <2>2 DEF mm_pma_allocate_frame, ALLOCATED
<1>3. CASE AllocateFails
  BY <1>3 DEF AllocateFails, mm_pma_insufficient_memory
<1>4. CASE FreeHeld
  <2>1. PICK count \in 1 .. MaxRequest, pfn \in Frames :
          /\ pfn .. pfn + count - 1 \subseteq held
          /\ mm_pma_free_frame(pfn, count)
    BY <1>4 DEF FreeHeld
  <2> DEFINE range == pfn .. pfn + count - 1
  <2>2. pfn \in Slots /\ count \in Nat /\ pfn + count <= LimitPfn + 1
    <3>1. pfn \in Int /\ count \in Nat \ {0}
      BY GeometryAssumption DEF Frames
    <3>2. pfn + count - 1 \in Frames
      BY <2>1, <3>1
    <3>3. QED
      BY <3>1, <3>2, GeometryAssumption DEF Frames
  <2>3. pma_bitmap' = [f \in Slots |-> IF f \in {g \in range : pma_bitmap[g] = ALLOCATED}
                                       THEN FREE ELSE pma_bitmap[f]]
    BY <2>1, <2>2, SpanOfRange DEF mm_pma_free_frame
  <2>4. QED
    BY <2>1, <2>3 DEF mm_pma_free_frame, FREE, ALLOCATED
<1>5. CASE FreeForeign
  <2>1. PICK pfn \in Foreign : mm_pma_free_frame(pfn, 1)
    BY <1>5 DEF FreeForeign
  <2>2. pfn \notin held /\ pfn \in Int
    BY GeometryAssumption DEF Foreign, Frames
  <2>3. \A f \in Frames : pma_bitmap'[f] = pma_bitmap[f]
    <3>1. CASE pfn \in Slots
      <4>1. pma_bitmap' = [f \in Slots |-> IF f \in {g \in pfn .. pfn : pma_bitmap[g] = ALLOCATED}
                                           THEN FREE ELSE pma_bitmap[f]]
        <5>1. pfn + 1 <= LimitPfn + 1 /\ pfn + 1 - 1 = pfn
          BY <2>2, <3>1, GeometryAssumption DEF Slots
        <5>2. QED
          BY <2>1, <3>1, <5>1, SpanOfRange DEF mm_pma_free_frame
      <4>2. \A g \in pfn .. pfn : g = pfn
        BY <2>2
      <4>3. pfn \in Frames => pma_bitmap[pfn] # ALLOCATED
        BY <2>2
      <4>4. QED
        BY <4>1, <4>2, <4>3
    <3>2. CASE pfn \notin Slots
      BY <2>1, <3>2 DEF mm_pma_free_frame
    <3>3. QED
      BY <3>1, <3>2
  <2>4. held' = held /\ booting' = booting
    <3>1. pfn .. pfn + 1 - 1 = {pfn}
      BY <2>2
    <3>2. held' = held \ (pfn .. pfn + 1 - 1) /\ booting' = booting
      BY <2>1 DEF mm_pma_free_frame
    <3>3. QED
      BY <2>2, <3>1, <3>2
  <2>5. QED
    BY <2>3, <2>4
<1>6. CASE UNCHANGED vars
  BY <1>6 DEF vars
<1>7. QED
  BY <1>1, <1>2, <1>3, <1>4, <1>5, <1>6 DEF Next

(* mm_pma_allocate_frame and mm_pma_free_frame lose no frame and touch none *)
(* but the caller's, whatever the memory map was.                           *)
THEOREM HeldCorrect == Spec => []HeldIsAllocated
<1>1. mm_pma_init => HeldInv
  BY FramesAreSlots DEF mm_pma_init, HeldInv, HeldIsAllocated, InState, Frames, Slots,
     FREE, RESERVED, ALLOCATED
<1>2. HeldInv => HeldIsAllocated
  BY DEF HeldInv
<1>3. QED
  BY <1>1, <1>2, HeldStep, TypeCorrect, PTL DEF Spec

-----------------------------------------------------------------------------
(* The counters agree with the bitmap. The bitmap with the descriptor behind *)
(* its end is counted exactly, but for what that descriptor was at first.    *)

SlotsIn(s) == {f \in Slots : pma_bitmap[f] = s}
Counted(first) ==
  /\ SlotIsZeroed => first = FREE
  /\ pma_free_frames = Cardinality(SlotsIn(FREE)) - One(first = FREE)
  /\ pma_available_frames = Cardinality(Slots \ SlotsIn(RESERVED)) - One(first # RESERVED)
CountersInv == \E first \in States : Counted(first)

LEMMA SlotCount ==
  ASSUME NEW S, S \subseteq Slots
  PROVE  /\ Cardinality(S) \in Nat /\ Cardinality(S \cap Frames) \in Nat
         /\ Cardinality(S) = Cardinality(S \cap Frames) + One(LimitPfn \in S)
<1>1. IsFiniteSet(S) /\ IsFiniteSet(S \cap Frames)
  BY FramesAreFinite, FramesAreSlots
<1>2. Cardinality(S) \in Nat /\ Cardinality(S \cap Frames) \in Nat
  BY <1>1, FS_CardinalityType
<1>3. \A f \in S : f \in Frames \/ f = LimitPfn
  BY GeometryAssumption DEF Slots, Frames
<1>4. CASE LimitPfn \in S
  <2>1. S = (S \cap Frames) \cup {LimitPfn}
    BY <1>3, <1>4, Zenon
  <2>2. LimitPfn \notin S \cap Frames
    BY FramesAreSlots
  <2>3. Cardinality((S \cap Frames) \cup {LimitPfn}) = Cardinality(S \cap Frames) + 1
    BY <1>1, <2>2, FS_AddElement, Zenon
  <2>4. Cardinality(S) = Cardinality(S \cap Frames) + 1
    BY <2>1, <2>3, Zenon
  <2>5. QED
    BY <1>2, <1>4, <2>4 DEF One
<1>5. CASE LimitPfn \notin S
  <2>1. S = S \cap Frames
    BY <1>3, <1>5, Zenon
  <2>2. Cardinality(S) = Cardinality(S \cap Frames)
    BY <2>1, Zenon
  <2>3. QED
    BY <1>2, <1>5, <2>2 DEF One
<1>6. QED
  BY <1>4, <1>5

LEMMA CountersInit == mm_pma_init => CountersInv
<1> SUFFICES ASSUME mm_pma_init PROVE CountersInv
  OBVIOUS
<1>1. PICK first \in States :
        /\ SlotIsZeroed => first = FREE
        /\ pma_bitmap = [f \in Slots |-> IF f = LimitPfn THEN first
                                         ELSE IF f <= ImageLimit THEN RESERVED
                                         ELSE FREE]
  BY DEF mm_pma_init
<1>2. SlotsIn(FREE) \cap Frames = ImageLimit + 1 .. LimitPfn - 1
  BY <1>1, GeometryAssumption DEF SlotsIn, Frames, Slots, FREE, RESERVED
<1>3. (Slots \ SlotsIn(RESERVED)) \cap Frames = ImageLimit + 1 .. LimitPfn - 1
  BY <1>1, GeometryAssumption DEF SlotsIn, Frames, Slots, FREE, RESERVED
<1>4. Cardinality(ImageLimit + 1 .. LimitPfn - 1) = LimitPfn - ImageLimit - 1
  <2>1. /\ ImageLimit + 1 \in Int /\ LimitPfn - 1 \in Int
        /\ (ImageLimit + 1 > LimitPfn - 1) => LimitPfn - ImageLimit - 1 = 0
        /\ (LimitPfn - 1) - (ImageLimit + 1) + 1 = LimitPfn - ImageLimit - 1
    BY GeometryAssumption
  <2>2. QED
    BY <2>1, FS_Interval
<1>5. LimitPfn \in SlotsIn(FREE) <=> first = FREE
  BY <1>1, FramesAreSlots DEF SlotsIn
<1>6. LimitPfn \in Slots \ SlotsIn(RESERVED) <=> first # RESERVED
  BY <1>1, FramesAreSlots DEF SlotsIn
<1>7. Cardinality(SlotsIn(FREE)) = LimitPfn - ImageLimit - 1 + One(first = FREE)
  BY <1>2, <1>4, <1>5, SlotCount DEF SlotsIn, One
<1>8. Cardinality(Slots \ SlotsIn(RESERVED)) = LimitPfn - ImageLimit - 1 + One(first # RESERVED)
  BY <1>3, <1>4, <1>6, SlotCount DEF One
<1>9. Counted(first)
  BY <1>1, <1>7, <1>8, GeometryAssumption DEF mm_pma_init, Counted, One
<1>10. QED
  BY <1>1, <1>9 DEF CountersInv

LEMMA CountersFree ==
  ASSUME TypeOK, NEW first, Counted(first), NEW pfn, NEW count, mm_pma_free_frame(pfn, count)
  PROVE  Counted(first)'
<1> DEFINE span == IF pfn \in Slots
                   THEN {f \in Slots : pfn <= f /\ f < pfn + FreeSpan(pfn, count)}
                   ELSE {}
           freed == {f \in span : pma_bitmap[f] = ALLOCATED}
<1>1. pma_bitmap' = [f \in Slots |-> IF f \in freed THEN FREE ELSE pma_bitmap[f]]
  BY DEF mm_pma_free_frame
<1>2. freed \subseteq Slots
  OBVIOUS
<1>3. SlotsIn(FREE)' = SlotsIn(FREE) \cup freed
  BY <1>1, <1>2 DEF SlotsIn
<1>4. SlotsIn(FREE) \cap freed = {}
  BY DEF SlotsIn, FREE, ALLOCATED
<1>5. SlotsIn(RESERVED)' = SlotsIn(RESERVED)
  BY <1>1, <1>2 DEF SlotsIn, RESERVED, ALLOCATED, FREE
<1>6. IsFiniteSet(SlotsIn(FREE)) /\ IsFiniteSet(freed)
  BY FramesAreFinite, <1>2 DEF SlotsIn
<1>7. /\ Cardinality(SlotsIn(FREE)) \in Nat /\ Cardinality(freed) \in Nat
      /\ Cardinality(SlotsIn(FREE) \cup freed) = Cardinality(SlotsIn(FREE)) + Cardinality(freed)
  BY <1>4, <1>6, GrowCount, Zenon
<1>8. /\ pma_free_frames' = pma_free_frames + Cardinality(freed)
      /\ pma_available_frames' = pma_available_frames
  BY DEF mm_pma_free_frame
<1>9. QED
  BY <1>3, <1>5, <1>7, <1>8 DEF Counted, One

LEMMA CountersMark ==
  ASSUME TypeOK, NEW first, Counted(first), NEW base_page, NEW limit_page,
         mm_pma_mark_reserved(base_page, limit_page)
  PROVE  Counted(first)'
<1> DEFINE marked == Clamped(base_page, limit_page)
           newly == {f \in marked : pma_bitmap[f] # RESERVED}
           wasfree == {f \in marked : pma_bitmap[f] = FREE}
<1>1. pma_bitmap' = [f \in Slots |-> IF f \in marked THEN RESERVED ELSE pma_bitmap[f]]
  BY DEF mm_pma_mark_reserved
<1>2. marked \subseteq Slots
  BY DEF Clamped
<1>3. SlotsIn(FREE)' = SlotsIn(FREE) \ wasfree
  BY <1>1, <1>2 DEF SlotsIn, FREE, RESERVED
<1>4. (Slots \ SlotsIn(RESERVED))' = (Slots \ SlotsIn(RESERVED)) \ newly
  BY <1>1, <1>2 DEF SlotsIn
<1>5. wasfree \subseteq SlotsIn(FREE) /\ newly \subseteq Slots \ SlotsIn(RESERVED)
  BY <1>2 DEF SlotsIn
<1>6. IsFiniteSet(SlotsIn(FREE)) /\ IsFiniteSet(Slots \ SlotsIn(RESERVED))
  BY FramesAreFinite DEF SlotsIn
<1>7. /\ Cardinality(SlotsIn(FREE)) \in Nat /\ Cardinality(wasfree) \in Nat
      /\ Cardinality(SlotsIn(FREE) \ wasfree) = Cardinality(SlotsIn(FREE)) - Cardinality(wasfree)
  BY <1>5, <1>6, DropCount, Zenon
<1>8. /\ Cardinality(Slots \ SlotsIn(RESERVED)) \in Nat /\ Cardinality(newly) \in Nat
      /\ Cardinality((Slots \ SlotsIn(RESERVED)) \ newly)
           = Cardinality(Slots \ SlotsIn(RESERVED)) - Cardinality(newly)
  BY <1>5, <1>6, DropCount, Zenon
<1>9. /\ pma_free_frames' = pma_free_frames - Cardinality(wasfree)
      /\ pma_available_frames' = pma_available_frames - Cardinality(newly)
  BY DEF mm_pma_mark_reserved
<1>10. QED
  BY <1>3, <1>4, <1>7, <1>8, <1>9 DEF Counted, One

LEMMA CountersAllocate ==
  ASSUME TypeOK, NEW first, Counted(first), NEW count \in 1 .. MaxRequest, NEW pfn \in Frames,
         mm_pma_allocate_frame(count, pfn)
  PROVE  Counted(first)'
<1> DEFINE taken == pfn .. pfn + count - 1
<1> USE FramesAreSlots
<1>1. pma_bitmap' = [f \in Slots |-> IF f \in taken THEN ALLOCATED ELSE pma_bitmap[f]]
  BY DEF mm_pma_allocate_frame
<1>2. taken \subseteq InState(FREE) /\ taken \subseteq Frames /\ Cardinality(taken) = count
  BY TakenFrames DEF mm_pma_allocate_frame, IsFirstRun
<1>3. taken \subseteq SlotsIn(FREE)
  BY <1>2 DEF InState, SlotsIn
<1>4. SlotsIn(FREE)' = SlotsIn(FREE) \ taken
  BY <1>1, <1>3 DEF SlotsIn, FREE, ALLOCATED
<1>5. SlotsIn(RESERVED)' = SlotsIn(RESERVED)
  BY <1>1, <1>3 DEF SlotsIn, RESERVED, ALLOCATED, FREE
<1>6. IsFiniteSet(SlotsIn(FREE))
  BY FramesAreFinite DEF SlotsIn
<1>7. /\ Cardinality(SlotsIn(FREE)) \in Nat
      /\ Cardinality(SlotsIn(FREE) \ taken) = Cardinality(SlotsIn(FREE)) - Cardinality(taken)
  BY <1>3, <1>6, DropCount, Zenon
<1>8. /\ pma_free_frames' = pma_free_frames - count
      /\ pma_available_frames' = pma_available_frames
  BY DEF mm_pma_allocate_frame
<1>9. QED
  BY <1>2, <1>4, <1>5, <1>7, <1>8 DEF Counted, One

LEMMA CountersStep == TypeOK /\ CountersInv /\ [Next]_vars => CountersInv'
<1> SUFFICES ASSUME TypeOK, CountersInv, [Next]_vars PROVE CountersInv'
  OBVIOUS
<1> PICK first \in States : Counted(first)
  BY DEF CountersInv
<1> SUFFICES Counted(first)'
  BY DEF CountersInv
<1>1. CASE MarkReserved
  BY <1>1, CountersMark DEF MarkReserved
<1>2. CASE AllocateFrame
  BY <1>2, CountersAllocate DEF AllocateFrame
<1>3. CASE AllocateFails
  BY <1>3 DEF AllocateFails, mm_pma_insufficient_memory, Counted, SlotsIn
<1>4. CASE FreeHeld
  BY <1>4, CountersFree DEF FreeHeld
<1>5. CASE FreeForeign
  BY <1>5, CountersFree DEF FreeForeign
<1>6. CASE UNCHANGED vars
  BY <1>6 DEF vars, Counted, SlotsIn
<1>7. QED
  BY <1>1, <1>2, <1>3, <1>4, <1>5, <1>6 DEF Next

LEMMA CountersFollow == TypeOK /\ CountersInv => CountersAgree
<1> SUFFICES ASSUME TypeOK, NEW first \in States, Counted(first) PROVE CountersAgree
  BY DEF CountersInv
<1>1. InState(FREE) = SlotsIn(FREE) \cap Frames
  BY FramesAreSlots DEF InState, SlotsIn
<1>2. Frames \ InState(RESERVED) = (Slots \ SlotsIn(RESERVED)) \cap Frames
  BY FramesAreSlots DEF InState, SlotsIn
<1>3. LimitPfn \in SlotsIn(FREE) <=> pma_bitmap[LimitPfn] = FREE
  BY FramesAreSlots DEF SlotsIn
<1>4. LimitPfn \in Slots \ SlotsIn(RESERVED) <=> pma_bitmap[LimitPfn] # RESERVED
  BY FramesAreSlots DEF SlotsIn
<1>5. /\ Cardinality(InState(FREE)) \in Nat
      /\ Cardinality(SlotsIn(FREE)) = Cardinality(InState(FREE)) + One(pma_bitmap[LimitPfn] = FREE)
  BY <1>1, <1>3, SlotCount DEF SlotsIn, One
<1>6. /\ Cardinality(Frames \ InState(RESERVED)) \in Nat
      /\ Cardinality(Slots \ SlotsIn(RESERVED))
           = Cardinality(Frames \ InState(RESERVED)) + One(pma_bitmap[LimitPfn] # RESERVED)
  BY <1>2, <1>4, SlotCount DEF One
<1>7. pma_free_frames
        = Cardinality(InState(FREE)) + One(pma_bitmap[LimitPfn] = FREE) - One(first = FREE)
  BY <1>5 DEF Counted, One
<1>8. pma_available_frames
        = Cardinality(Frames \ InState(RESERVED))
            + One(pma_bitmap[LimitPfn] # RESERVED) - One(first # RESERVED)
  BY <1>6 DEF Counted, One
<1>9. QED
  BY <1>7, <1>8, Zenon DEF CountersAgree, Counted

(* The counters the mem command prints agree with the bitmap, whatever the   *)
(* memory map reserves, but for the one descriptor behind the last frame.    *)
THEOREM CountersCorrect == Spec => []CountersAgree
<1>1. mm_pma_init => CountersInv
  BY CountersInit
<1>2. TypeOK /\ CountersInv /\ [Next]_vars => CountersInv'
  BY CountersStep
<1>3. TypeOK /\ CountersInv => CountersAgree
  BY CountersFollow
<1>4. QED
  BY <1>1, <1>2, <1>3, TypeCorrect, PTL DEF Spec

-----------------------------------------------------------------------------
(* mm_pma_free_frame frees nothing that is reserved, and every frame handed *)
(* out was free, on every step of every behaviour.                          *)
THEOREM ReservedCorrect == Spec => ReservedStays
<1> DEFINE Stays ==
      /\ \A f \in Frames : pma_bitmap[f] = RESERVED => pma_bitmap'[f] = RESERVED
      /\ \A f \in held' \ held : pma_bitmap[f] = FREE
<1>1. TypeOK /\ [Next]_vars => [Stays]_vars
  <2> SUFFICES ASSUME TypeOK, Next PROVE Stays
    OBVIOUS
  <2> USE FramesAreSlots
  <2>1. CASE MarkReserved
    BY <2>1 DEF MarkReserved, mm_pma_mark_reserved
  <2>2. CASE AllocateFrame
    <3>1. PICK count \in 1 .. MaxRequest, pfn \in Frames :
            mm_pma_allocate_frame(count, pfn)
      BY <2>2 DEF AllocateFrame
    <3>2. pfn .. pfn + count - 1 \subseteq InState(FREE)
      BY <3>1, TakenFrames DEF mm_pma_allocate_frame, IsFirstRun
    <3>3. QED
      BY <3>1, <3>2 DEF mm_pma_allocate_frame, InState, FREE, RESERVED
  <2>3. CASE AllocateFails
    BY <2>3 DEF AllocateFails, mm_pma_insufficient_memory
  <2>4. ASSUME NEW pfn, NEW count, mm_pma_free_frame(pfn, count) PROVE Stays
    BY <2>4 DEF mm_pma_free_frame, RESERVED, ALLOCATED
  <2>5. CASE FreeHeld
    BY <2>4, <2>5 DEF FreeHeld
  <2>6. CASE FreeForeign
    BY <2>4, <2>6 DEF FreeForeign
  <2>7. QED
    BY <2>1, <2>2, <2>3, <2>5, <2>6 DEF Next
<1>2. QED
  BY <1>1, TypeCorrect, PTL DEF Spec, ReservedStays
=============================================================================
