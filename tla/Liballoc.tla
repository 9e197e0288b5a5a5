------------------------------ MODULE Liballoc ------------------------------
(***************************************************************************)
(* The heap of vellum/lib/liballoc/liballoc.c. Memory comes from the page  *)
(* allocator in majors (blocks of pages), kept in a list in the order they *)
(* were obtained; a major holds a list of minors, one per allocated block. *)
(*                                                                         *)
(* malloc visits one major per step, so the loop, its restart at the root  *)
(* and the growth of the list can be followed. majors is the list that     *)
(* starts at l_memRoot; minors are kept in the order of their list, and    *)
(* that this is the order of their addresses is something to check.        *)
(***************************************************************************)
EXTENDS Integers, Sequences, SequencesExt

CONSTANTS
  ALIGNMENT, ALIGN_INFO,
  MajorHeader, MinorHeader,  \* sizeof(struct liballoc_major), ..._minor
  PageSize, l_pageCount,
  Stride,                    \* pages between the starts of two majors
  Requests,                  \* sizes callers ask for
  MaxMajors                  \* bound: majors the page allocator can provide

ASSUME LiballocAssumption ==
  /\ ALIGNMENT \in Nat \ {0} /\ ALIGN_INFO \in Nat
  /\ MajorHeader \in Nat \ {0} /\ MinorHeader \in Nat \ {0}
  /\ PageSize \in Nat \ {0} /\ PageSize % ALIGNMENT = 0
  /\ l_pageCount \in Nat \ {0} /\ Stride \in Nat \ {0}
  /\ Requests \subseteq Nat \ {0} /\ MaxMajors \in Nat

NULL == 0
Ids  == 1 .. MaxMajors

VARIABLES
  majors,     \* the list of majors, by id, from l_memRoot on
  major,      \* id -> [size, usage, minors]
  l_bestBet,
  l_allocated, l_inuse,
  call,       \* the call in progress
  held        \* history: the blocks callers hold

vars == <<majors, major, l_bestBet, l_allocated, l_inuse, call, held>>

Idle == [kind |-> "idle"]

Root      == majors[1]
Position(m) == CHOOSE i \in DOMAIN majors : majors[i] = m
IsLast(m) == m = majors[Len(majors)]
After(m)  == majors[Position(m) + 1]

Room(m)    == major[m].size - major[m].usage
Size(req)  == req + ALIGNMENT + ALIGN_INFO
Needed(req) == Size(req) + MinorHeader

-----------------------------------------------------------------------------
(* Addresses. A major starts on a page; majors lie apart.                  *)

Base(m) == m * Stride * PageSize

(* ALIGN: the distance from the end of the minor's header to the pointer   *)
(* that is returned, kept in the byte ALIGN_INFO before it for UNALIGN.    *)
Unaligned(raw) == ALIGN_INFO  \* a slip to compare with

Diff(raw) == ALIGN_INFO + ((ALIGNMENT - ((raw + ALIGN_INFO) % ALIGNMENT)) % ALIGNMENT)

Minor(m, start, req) ==
  LET raw == Base(m) + start + MinorHeader
  IN  [start |-> start, size |-> Size(req), req |-> req, diff |-> Diff(raw)]

Ptr(m, min) == Base(m) + min.start + MinorHeader + min.diff

End(min) == min.start + MinorHeader + min.size

(* The minor a pointer belongs to: its major and its place in the list.    *)
MajorOf(ptr) ==
  CHOOSE m \in Ids : \E k \in DOMAIN major[m].minors : Ptr(m, major[m].minors[k]) = ptr
PlaceOf(ptr) ==
  LET m == MajorOf(ptr)
  IN  CHOOSE k \in DOMAIN major[m].minors : Ptr(m, major[m].minors[k]) = ptr

(* The gap after the k-th minor; gap 0 lies before the first.              *)
GapStart(m, k) == IF k = 0 THEN MajorHeader ELSE End(major[m].minors[k])
GapEnd(m, k) ==
  IF k = Len(major[m].minors) THEN major[m].size ELSE major[m].minors[k + 1].start

GapFits(m, k, req) == GapEnd(m, k) - GapStart(m, k) >= Needed(req)
HasGap(m, req) == \E k \in 0 .. Len(major[m].minors) : GapFits(m, k, req)

-----------------------------------------------------------------------------
Init ==
  /\ majors = <<>>
  /\ major = [m \in Ids |-> [size |-> 0, usage |-> 0, minors |-> <<>>]]
  /\ l_bestBet = NULL
  /\ l_allocated = 0 /\ l_inuse = 0
  /\ call = Idle
  /\ held = {}

(* allocate_new_page: a major for a block of req bytes, at least           *)
(* l_pageCount pages long, at the end of the list.                         *)
PagesFor(req) ==
  LET st    == Size(req) + MajorHeader + MinorHeader
      pages == (st + PageSize - 1) \div PageSize
  IN  IF pages < l_pageCount THEN l_pageCount ELSE pages

(* The page allocator gives no page to two majors.                         *)
ASSUME MajorsLieApart == \A req \in Requests : PagesFor(req) <= Stride

FreeIds == {m \in Ids : m \notin {majors[i] : i \in DOMAIN majors}}
NewId   == CHOOSE m \in FreeIds : \A n \in FreeIds : m <= n

NewMajor(req, minors, usage) ==
  /\ FreeIds # {}
  /\ majors' = Append(majors, NewId)
  /\ major' = [major EXCEPT ![NewId] =
                 [size |-> PagesFor(req) * PageSize, usage |-> usage, minors |-> minors]]
  /\ l_allocated' = l_allocated + PagesFor(req) * PageSize

-----------------------------------------------------------------------------
(* malloc. Where the call stands: the major it looks at, whether it        *)
(* started at the best bet, and the most room seen so far. old is the      *)
(* block realloc is growing, or NULL.                                      *)

StartsAtBet(req) == l_bestBet # NULL /\ Room(l_bestBet) > Needed(req)

StartCall(req, old, root) ==
  [kind |-> "malloc", req |-> req, old |-> old,
   maj |-> IF StartsAtBet(req) THEN l_bestBet ELSE root,
   startedBet |-> StartsAtBet(req),
   bestSize |-> IF l_bestBet # NULL THEN Room(l_bestBet) ELSE 0]

BeginCall(req, old) ==
  call' = IF majors = <<>> THEN [kind |-> "first", req |-> req, old |-> old]
                           ELSE StartCall(req, old, Root)

malloc(req) ==
  /\ call = Idle
  /\ BeginCall(req, NULL)
  /\ UNCHANGED <<majors, major, l_bestBet, l_allocated, l_inuse, held>>

(* realloc: a block that is large enough stays, with its new size noted;   *)
(* any other is no longer its caller's from here on.                       *)
realloc(b, req) ==
  /\ call = Idle
  /\ b \in held
  /\ IF b.size >= req
       THEN /\ major' = [major EXCEPT ![MajorOf(b.ptr)].minors[PlaceOf(b.ptr)].req = req]
            /\ held' = (held \ {b}) \cup {[b EXCEPT !.size = req]}
            /\ UNCHANGED call
       ELSE /\ BeginCall(req, b.ptr)
            /\ held' = held \ {b}
            /\ UNCHANGED major
  /\ UNCHANGED <<majors, l_bestBet, l_allocated, l_inuse>>

(* The call returns ptr; realloc then copies the old block and frees it,   *)
(* without looking at ptr.                                                 *)
ReleaseOld(ptr) == call' = [kind |-> "release", ptr |-> call.old, result |-> ptr]

Return(ptr) ==
  /\ held' = IF ptr = NULL THEN held ELSE held \cup {[ptr |-> ptr, size |-> call.req]}
  /\ IF call.old = NULL THEN call' = Idle ELSE ReleaseOld(ptr)

(* The heap is empty: the first major becomes the root.                    *)
FirstMajor ==
  /\ call.kind = "first"
  /\ NewMajor(call.req, <<>>, MajorHeader)
  /\ call' = StartCall(call.req, call.old, NewId)
  /\ UNCHANGED <<l_bestBet, l_inuse, held>>

FirstFails ==
  /\ call.kind = "first"
  /\ Return(NULL)
  /\ UNCHANGED <<majors, major, l_bestBet, l_allocated, l_inuse>>

(* What every visit does first: remember the major if it has more room     *)
(* than any seen before.                                                   *)
IsBetter == call.bestSize < Room(call.maj)
BestSize == IF IsBetter THEN Room(call.maj) ELSE call.bestSize
Remember == l_bestBet' = IF IsBetter THEN call.maj ELSE l_bestBet

Visiting == call.kind = "malloc"
Fits     == Room(call.maj) >= Needed(call.req)
IsEmpty  == major[call.maj].minors = <<>>
CanPlace == Fits /\ (IsEmpty \/ HasGap(call.maj, call.req))

FirstGap ==
  IF IsEmpty THEN 0
  ELSE CHOOSE k \in 0 .. Len(major[call.maj].minors) :
         /\ GapFits(call.maj, k, call.req)
         /\ \A j \in 0 .. k - 1 : ~GapFits(call.maj, j, call.req)

(* Cases 2 (first block), 3 (front), 4.2 (between) and 4.1 (end).          *)
Place ==
  /\ Visiting /\ CanPlace
  /\ LET m   == call.maj
         min == Minor(m, GapStart(m, FirstGap), call.req)
     IN  /\ major' = [major EXCEPT ![m].minors = InsertAt(@, FirstGap + 1, min),
                                   ![m].usage = @ + Needed(call.req)]
         /\ Return(Ptr(m, min))
  /\ l_inuse' = l_inuse + Size(call.req)
  /\ Remember
  /\ UNCHANGED <<majors, l_allocated>>

(* Cases 1 and 5: not enough room, or not in one piece.                    *)
NextMajor ==
  /\ Visiting /\ ~CanPlace
  /\ ~IsLast(call.maj)
  /\ call' = [call EXCEPT !.maj = After(call.maj), !.bestSize = BestSize]
  /\ Remember
  /\ UNCHANGED <<majors, major, l_allocated, l_inuse, held>>

(* Slips to compare with: the restart is forgotten, or never ends.         *)
NeverRestarts == FALSE
RestartsAgain == call' = [call EXCEPT !.maj = Root, !.bestSize = BestSize]

MayRestart == call.startedBet
Restarts   == call' = [call EXCEPT !.maj = Root, !.startedBet = FALSE, !.bestSize = BestSize]

RestartAtRoot ==
  /\ Visiting /\ ~CanPlace
  /\ IsLast(call.maj) /\ MayRestart
  /\ Restarts
  /\ Remember
  /\ UNCHANGED <<majors, major, l_allocated, l_inuse, held>>

AtTheEnd == Visiting /\ ~CanPlace /\ IsLast(call.maj) /\ ~MayRestart

(* Case 1 falls through: the block is placed in the new major at once.     *)
GrowAndPlace ==
  /\ AtTheEnd /\ ~Fits
  /\ LET min == Minor(NewId, MajorHeader, call.req)
     IN  /\ NewMajor(call.req, <<min>>, MajorHeader + Needed(call.req))
         /\ Return(Ptr(NewId, min))
  /\ l_inuse' = l_inuse + Size(call.req)
  /\ Remember

(* Case 5 loops: the new major is visited like any other.                  *)
GrowAndVisit ==
  /\ AtTheEnd /\ Fits
  /\ NewMajor(call.req, <<>>, MajorHeader)
  /\ call' = [call EXCEPT !.maj = NewId, !.bestSize = BestSize]
  /\ Remember
  /\ UNCHANGED <<l_inuse, held>>

GrowFails ==
  /\ AtTheEnd
  /\ Return(NULL)
  /\ Remember
  /\ UNCHANGED <<majors, major, l_allocated, l_inuse>>

-----------------------------------------------------------------------------
(* free                                                                    *)

KeepBet(m) == l_bestBet  \* a slip to compare with: the bet outlives its major

BetWithout(m) == IF l_bestBet = m THEN NULL ELSE l_bestBet

Freed(min) == min.size + MinorHeader

BetAfter(m, usage) ==
  IF l_bestBet \notin {NULL, m} /\ major[m].size - usage > Room(l_bestBet)
    THEN m ELSE l_bestBet

Release(ptr) ==
  LET m == MajorOf(ptr)
      k == PlaceOf(ptr)
      min   == major[m].minors[k]
      rest  == RemoveAt(major[m].minors, k)
      usage == major[m].usage - Freed(min)
  IN  /\ l_inuse' = l_inuse - min.size
      /\ IF rest = <<>>
           THEN /\ majors' = RemoveAt(majors, Position(m))
                /\ major' = [major EXCEPT ![m] = [size |-> 0, usage |-> 0, minors |-> <<>>]]
                /\ l_allocated' = l_allocated - major[m].size
                /\ l_bestBet' = BetWithout(m)
           ELSE /\ major' = [major EXCEPT ![m].minors = rest, ![m].usage = usage]
                /\ l_bestBet' = BetAfter(m, usage)
                /\ UNCHANGED <<majors, l_allocated>>
      /\ held' = {b \in held : b.ptr # ptr}

free(b) ==
  /\ call = Idle
  /\ b \in held
  /\ Release(b.ptr)
  /\ UNCHANGED call

DropOld == Release(call.ptr)

FreeOld ==
  /\ call.kind = "release"
  /\ DropOld
  /\ call' = Idle

-----------------------------------------------------------------------------
Steps == FirstMajor \/ FirstFails \/ Place \/ NextMajor \/ RestartAtRoot
           \/ GrowAndPlace \/ GrowAndVisit \/ GrowFails \/ FreeOld

Next ==
  \/ \E req \in Requests : malloc(req)
  \/ \E b \in held, req \in Requests : realloc(b, req)
  \/ \E b \in held : free(b)
  \/ Steps

Spec == Init /\ [][Next]_vars /\ WF_vars(Steps)

-----------------------------------------------------------------------------
TypeOK ==
  /\ \A i \in DOMAIN majors : majors[i] \in Ids
  /\ \A m \in Ids : major[m].usage \in 0 .. major[m].size
  /\ l_bestBet \in Ids \cup {NULL}
  /\ l_allocated \in Nat /\ l_inuse \in Nat
  /\ call.kind \in {"idle", "first", "malloc", "release"}

Live == {majors[i] : i \in DOMAIN majors}

(* The totals kept step by step agree with the lists they summarise.       *)
Total(v) ==
  LET sum[k \in 0 .. Len(v)] == IF k = 0 THEN 0 ELSE sum[k - 1] + v[k]
  IN  sum[Len(v)]

SizeOf(m) == Total([k \in DOMAIN major[m].minors |-> major[m].minors[k].size])
UsageOf(m) ==
  MajorHeader + Total([k \in DOMAIN major[m].minors |-> Freed(major[m].minors[k])])

Accounts ==
  /\ \A m \in Live : major[m].usage = UsageOf(m)
  /\ l_allocated = Total([i \in DOMAIN majors |-> major[majors[i]].size])
  /\ l_inuse = Total([i \in DOMAIN majors |-> SizeOf(majors[i])])

(* Minors lie inside their major, header and all, in the order of the      *)
(* list, and no major stays empty once a call is over.                     *)
MinorsInPlace ==
  \A m \in Live :
    /\ \A k \in 0 .. Len(major[m].minors) : GapStart(m, k) <= GapEnd(m, k)
    /\ call = Idle => major[m].minors # <<>>

(* l_bestBet never points into a major that has been given back.           *)
BestBetIsLive == l_bestBet \in Live \cup {NULL}

(* Between calls the blocks in the lists are those callers hold: nothing   *)
(* leaks, and free never takes another caller's block.                     *)
UserBlocks ==
  UNION {{[ptr |-> Ptr(m, major[m].minors[k]), size |-> major[m].minors[k].req] :
            k \in DOMAIN major[m].minors} : m \in Live}

HeldIsLive == call = Idle => UserBlocks = held

(* The lists and what is remembered about them stay sound in every call,   *)
(* and between calls they hold the callers' blocks and no others.          *)
ListsAreSound == Accounts /\ MinorsInPlace /\ BestBetIsLive /\ HeldIsLive

HeapAddresses == UNION {Base(m) .. Base(m + 1) - 1 : m \in Ids}

H == INSTANCE Heap WITH Addresses <- HeapAddresses, Sizes <- Requests,
                        Alignment <- ALIGNMENT, blocks <- UserBlocks

(* liballoc implements the heap its header promises.                       *)
HeapSpec == H!Spec

(* New pages are asked for, and a request refused, only when no major has  *)
(* a gap the block fits in, wherever the search started.                   *)
GrowsOnlyWhenFull ==
  [][(Visiting /\ call'.kind # "malloc" /\ l_inuse' = l_inuse) \/ Len(majors') > Len(majors)
       => \A m \in Live : ~HasGap(m, call.req)]_vars

(* Every call returns: the search restarts at the root at most once.       *)
CallsReturn == (call # Idle) ~> (call = Idle)

(* realloc that fails leaves the old block to its caller, as the standard  *)
(* function does.                                                          *)
FailedReallocKeepsBlock ==
  [][call.kind = "release" /\ call.result = NULL => \E b \in UserBlocks' : b.ptr = call.ptr]_vars
=============================================================================
