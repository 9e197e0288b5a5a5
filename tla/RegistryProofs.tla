--------------------------- MODULE RegistryProofs ---------------------------
(* Proofs about the two registries and what they lead to.  The registry of   *)
(* devices: for every machine, every number of drives and partitions, every  *)
(* choice of addresses by the heap and every way the probes can fail.  That  *)
(* of file systems: for all media, names and failures.  And the driver of    *)
(* ISO 9660 volumes: for all volumes, calls and failures.                    *)
EXTENDS Devices, Mounts, Iso9660, SequenceTheorems, FiniteSetTheorems, WellFoundedInduction, TLAPS

\* What has to be known of the list: it holds each address at most once, and
\* only allocated ones.
Distinct(l) == \A i, j \in 1..Len(l) : l[i] = l[j] => i = j

RegistryInv ==
    /\ list \in Seq(Addr)
    /\ Distinct(list)
    /\ heap \subseteq Addr
    /\ \A i \in 1..Len(list) : list[i] \in heap

-----------------------------------------------------------------------------
(* Sequences.                                                                *)

LEMMA Appended ==
  ASSUME NEW S, NEW l \in Seq(S), NEW H, NEW x \in S,
         Distinct(l), \A i \in 1..Len(l) : l[i] \in H, x \notin H
  PROVE  /\ Append(l, x) \in Seq(S)
         /\ Distinct(Append(l, x))
         /\ \A i \in 1..Len(Append(l, x)) : Append(l, x)[i] \in H \cup {x}
BY DEF Distinct

LEMMA TailKeeps ==
  ASSUME NEW S, NEW l \in Seq(S), NEW H, l # <<>>,
         Distinct(l), \A i \in 1..Len(l) : l[i] \in H
  PROVE  /\ Tail(l) \in Seq(S)
         /\ Distinct(Tail(l))
         /\ \A i \in 1..Len(Tail(l)) : Tail(l)[i] \in H
BY DEF Distinct

\* The elements of a sequence after one of them was taken out.
LEMMA RemovedElements ==
  ASSUME NEW S, NEW l \in Seq(S), NEW k \in 1..Len(l)
  PROVE  /\ RemoveAt(l, k) \in Seq(S)
         /\ Len(RemoveAt(l, k)) = Len(l) - 1
         /\ \A i \in 1..(Len(l) - 1) :
                RemoveAt(l, k)[i] = IF i < k THEN l[i] ELSE l[i + 1]
<1> DEFINE a == SubSeq(l, 1, k - 1)
           b == SubSeq(l, k + 1, Len(l))
<1>1. a \in Seq(S) /\ Len(a) = k - 1 /\ \A i \in 1..(k - 1) : a[i] = l[i]
  OBVIOUS
<1>2. b \in Seq(S) /\ Len(b) = Len(l) - k /\ \A i \in 1..(Len(l) - k) : b[i] = l[k + i]
  OBVIOUS
<1>3. RemoveAt(l, k) = a \o b
  BY DEF RemoveAt
<1> HIDE DEF a, b
<1>4. /\ a \o b \in Seq(S)
      /\ Len(a \o b) = Len(a) + Len(b)
      /\ \A i \in 1..(Len(a) + Len(b)) :
             (a \o b)[i] = IF i <= Len(a) THEN a[i] ELSE b[i - Len(a)]
  BY <1>1, <1>2, ConcatProperties
<1>5. Len(a) + Len(b) = Len(l) - 1
  BY <1>1, <1>2
<1>6. ASSUME NEW i \in 1..(Len(l) - 1)
      PROVE  (a \o b)[i] = IF i < k THEN l[i] ELSE l[i + 1]
  <2>1. CASE i < k
    BY <2>1, <1>1, <1>4, <1>5
  <2>2. CASE ~(i < k)
    <3>1. i - (k - 1) \in 1..(Len(l) - k) /\ k + (i - (k - 1)) = i + 1
      BY <2>2
    <3>2. (a \o b)[i] = b[i - (k - 1)]
      BY <2>2, <1>1, <1>4, <1>5
    <3>3. QED
      BY <2>2, <3>1, <3>2, <1>2
  <2>3. QED
    BY <2>1, <2>2
<1>7. QED
  BY <1>3, <1>4, <1>5, <1>6

LEMMA Removed ==
  ASSUME NEW S, NEW l \in Seq(S), NEW H, NEW k \in 1..Len(l),
         Distinct(l), \A i \in 1..Len(l) : l[i] \in H
  PROVE  /\ RemoveAt(l, k) \in Seq(S)
         /\ Distinct(RemoveAt(l, k))
         /\ \A i \in 1..Len(RemoveAt(l, k)) : RemoveAt(l, k)[i] \in H \ {l[k]}
<1> DEFINE r == RemoveAt(l, k)
           from(i) == IF i < k THEN i ELSE i + 1
<1>1. r \in Seq(S) /\ Len(r) = Len(l) - 1
  BY RemovedElements
<1>2. \A i \in 1..Len(r) : r[i] = l[from(i)] /\ from(i) \in 1..Len(l) /\ from(i) # k
  BY RemovedElements, <1>1
<1>3. \A i, j \in 1..Len(r) : from(i) = from(j) => i = j
  OBVIOUS
<1>4. Distinct(r)
  <2> HIDE DEF r, from
  <2> QED
    BY <1>2, <1>3 DEF Distinct
<1>5. \A i \in 1..Len(r) : r[i] \in H \ {l[k]}
  <2> HIDE DEF r, from
  <2> QED
    BY <1>2 DEF Distinct
<1>6. QED
  BY <1>1, <1>4, <1>5

-----------------------------------------------------------------------------
(* The operations.                                                           *)

\* What VlDev_Remove leaves is a list of distinct, allocated devices again.
LEMMA RemoveKeeps ==
  ASSUME RegistryInv, NEW m, NEW dev,
         list' = VlDev_Remove(m, dev).list, heap' = VlDev_Remove(m, dev).heap
  PROVE  RegistryInv'
<1> DEFINE prev == {i \in Scanned(m, dev) : list[i + 1] = dev}
           at == CHOOSE i \in prev : TRUE
<1>1. CASE prev = {}
  <2>1. heap' = heap
    BY <1>1 DEF VlDev_Remove
  <2>2. list' = IF list # <<>> /\ Head(list) = dev THEN Tail(list) ELSE list
    BY <1>1 DEF VlDev_Remove
  <2>3. CASE list # <<>> /\ list' = Tail(list)
    BY <2>1, <2>3, TailKeeps DEF RegistryInv
  <2>4. CASE list' = list
    BY <2>1, <2>4 DEF RegistryInv, Distinct
  <2>5. QED
    BY <2>2, <2>3, <2>4
<1>2. CASE prev # {}
  <2>1. at \in 1..(Len(list) - 1) /\ list[at + 1] = dev
    BY <1>2 DEF Scanned
  <2>2. heap' = heap \ {dev} /\ list' = RemoveAt(list, at + 1)
    BY <1>2 DEF VlDev_Remove
  <2>3. at + 1 \in 1..Len(list)
    BY <2>1 DEF RegistryInv
  <2>4. QED
    <3> HIDE DEF at
    <3> QED
      BY <2>1, <2>2, <2>3, Removed DEF RegistryInv
<1>3. QED
  BY <1>1, <1>2

LEMMA BeginKeeps ==
  ASSUME RegistryInv, NEW driver, NEW parent, Begin(driver, parent)
  PROVE  RegistryInv'
<1>1. PICK dev \in FreeAddr : heap' = heap \cup {dev} /\ list' = Append(list, dev)
  BY DEF Begin
<1>2. dev \in Addr /\ dev \notin heap
  BY DEF FreeAddr
<1>3. QED
  BY <1>1, <1>2, Appended DEF RegistryInv

LEMMA StepKeeps == RegistryInv /\ [Next]_vars => RegistryInv'
<1> SUFFICES ASSUME RegistryInv, [Next]_vars PROVE RegistryInv'
  OBVIOUS
<1>1. ASSUME UNCHANGED <<list, heap>> PROVE RegistryInv'
  BY <1>1 DEF RegistryInv, Distinct
<1>2. CASE ProbeRoot
  BY <1>2, BeginKeeps DEF ProbeRoot
<1>3. CASE ProbeChild
  BY <1>3, BeginKeeps DEF ProbeChild
<1>4. CASE RefuseChild
  BY <1>1, <1>4 DEF RefuseChild
<1>5. CASE Succeed
  BY <1>1, <1>5 DEF Succeed
<1>6. CASE Fail
  BY <1>1, <1>6 DEF Fail
<1>7. CASE Abandon
  BY <1>1, <1>7 DEF Abandon
<1>8. CASE RemoveChild
  <2> DEFINE m == [mem EXCEPT ![Top.kid].data = "freed"]
  <2>1. list' = VlDev_Remove(m, Top.kid).list /\ heap' = VlDev_Remove(m, Top.kid).heap
    BY <1>8 DEF RemoveChild
  <2>2. QED
    BY <2>1, RemoveKeeps
<1>9. CASE GiveUp
  <2> DEFINE m == [mem EXCEPT ![Top.dev].data = "freed"]
  <2>1. list' = VlDev_Remove(m, Top.dev).list /\ heap' = VlDev_Remove(m, Top.dev).heap
    BY <1>9 DEF GiveUp
  <2>2. QED
    BY <2>1, RemoveKeeps
<1>10. CASE UNCHANGED vars
  BY <1>1, <1>10 DEF vars
<1>11. QED
  BY <1>2, <1>3, <1>4, <1>5, <1>6, <1>7, <1>8, <1>9, <1>10 DEF Next

\* The device list never holds a structure that was given back to the heap,
\* nor a structure twice, however probes fail and addresses are reused
\* (VlDev_Create, VlDev_Remove).
THEOREM RegistryCorrect == Spec => []ListedIsAllocated
<1>1. Init => RegistryInv
  BY DEF Init, RegistryInv, Distinct
<1>2. RegistryInv => ListedIsAllocated
  BY DEF RegistryInv, ListedIsAllocated, ToSet
<1>3. QED
  BY <1>1, <1>2, StepKeeps, PTL DEF Spec

-----------------------------------------------------------------------------
(* What a step takes out of the list.                                        *)

\* Without one of its elements a list of distinct ones has the others, in
\* their order.
LEMMA RemovedKeepsOrder ==
  ASSUME NEW S, NEW l \in Seq(S), NEW k \in 1..Len(l), Distinct(l)
  PROVE  Gone(l, RemoveAt(l, k)) = {l[k]} /\ KeepsOrder(l, RemoveAt(l, k))
<1> DEFINE n == RemoveAt(l, k)
<1>1. /\ n \in Seq(S) /\ Len(n) = Len(l) - 1 /\ Len(l) \in Nat /\ k \in Nat
      /\ \A i \in 1..(Len(l) - 1) : n[i] = IF i < k THEN l[i] ELSE l[i + 1]
  <2>1. Len(l) \in Nat /\ k \in Nat
    OBVIOUS
  <2>2. n \in Seq(S) /\ Len(n) = Len(l) - 1 /\ \A i \in 1..(Len(l) - 1) : n[i] = IF i < k THEN l[i] ELSE l[i + 1]
    BY ZenonT(30), RemovedElements
  <2> QED BY <2>1, <2>2
<1> HIDE DEF n
<1>2. ToSet(l) = {l[i] : i \in 1..Len(l)} /\ ToSet(n) = {n[i] : i \in 1..Len(n)}
  BY <1>1 DEF ToSet
<1>3. \A i \in 1..Len(n) : n[i] # l[k]
  BY <1>1 DEF Distinct
<1>4. ASSUME NEW i \in 1..Len(l), i # k
      PROVE  \E j \in 1..Len(n) : n[j] = l[i]
  <2>1. CASE i < k
    BY <2>1, <1>1
  <2>2. CASE i > k
    <3>1. i - 1 \in 1..(Len(l) - 1) /\ ~(i - 1 < k) /\ (i - 1) + 1 = i
      BY <2>2, <1>1
    <3> QED
      BY <3>1, <1>1
  <2> QED
    BY <2>1, <2>2, <1>4, <1>1
<1>5. Gone(l, n) = {l[k]}
  BY <1>2, <1>3, <1>4 DEF Gone
<1>6. ASSUME NEW i \in 1..Len(l), l[i] \notin Gone(l, n)
      PROVE  LET before == {j \in 1..(i - 1) : l[j] \in Gone(l, n)}
                 place == i - Cardinality(before)
             IN  place \in 1..Len(n) /\ n[place] = l[i]
  <2> DEFINE before == {j \in 1..(i - 1) : l[j] \in Gone(l, n)}
  <2>1. i # k /\ i \in Nat
    BY <1>5, <1>6
  <2>2. CASE k < i
    <3>1. before = {k}
      BY <2>2, <1>1, <1>5 DEF Distinct
    <3>2. Cardinality(before) = 1
      BY <3>1, FS_Singleton
    <3>3. i - 1 \in 1..Len(n) /\ ~(i - 1 < k) /\ (i - 1) + 1 = i
      BY <2>2, <1>1
    <3>4. n[i - 1] = l[i]
      BY <3>3, <1>1
    <3> QED
      BY <3>2, <3>3, <3>4
  <2>3. CASE i < k
    <3>1. before = {}
      BY <2>3, <1>1, <1>5 DEF Distinct
    <3>2. Cardinality(before) = 0
      BY <3>1, FS_EmptySet
    <3>3. i \in 1..Len(n) /\ n[i] = l[i] /\ i - 0 = i
      BY <2>3, <1>1
    <3> QED
      BY <3>2, <3>3
  <2>4. k < i \/ i < k
    BY <2>1, <1>1
  <2> QED
    BY ONLY <2>2, <2>3, <2>4
<1> QED
  BY <1>5, <1>6 DEF KeepsOrder, n

\* A list that has got longer has lost nothing.
LEMMA ExtendedKeepsOrder ==
  ASSUME NEW S, NEW l \in Seq(S), NEW n \in Seq(S), Len(l) <= Len(n), \A i \in 1..Len(l) : n[i] = l[i]
  PROVE  Gone(l, n) = {} /\ KeepsOrder(l, n)
<1>1. ToSet(l) = {l[i] : i \in 1..Len(l)} /\ ToSet(n) = {n[i] : i \in 1..Len(n)}
  BY DEF ToSet
<1>2. Gone(l, n) = {}
  BY <1>1 DEF Gone
<1>3. ASSUME NEW i \in 1..Len(l)
      PROVE  LET before == {j \in 1..(i - 1) : l[j] \in Gone(l, n)}
                 place == i - Cardinality(before)
             IN  place \in 1..Len(n) /\ n[place] = l[i]
  <2>1. {j \in 1..(i - 1) : l[j] \in Gone(l, n)} = {}
    BY <1>2
  <2>2. Cardinality({j \in 1..(i - 1) : l[j] \in Gone(l, n)}) = 0
    BY <2>1, FS_EmptySet
  <2>3. i - 0 = i /\ i \in 1..Len(n)
    OBVIOUS
  <2> QED
    BY <2>2, <2>3
<1> QED
  BY <1>2, <1>3 DEF KeepsOrder

\* VlDev_Remove takes out nothing but its argument.
LEMMA RemoveTakesOne ==
  ASSUME RegistryInv, NEW m, NEW dev, list' = VlDev_Remove(m, dev).list
  PROVE  Gone(list, list') \subseteq {dev} /\ KeepsOrder(list, list')
<1> DEFINE prev == {i \in Scanned(m, dev) : list[i + 1] = dev}
           at == CHOOSE i \in prev : TRUE
<1>1. CASE prev = {}
  <2>1. list' = IF list # <<>> /\ Head(list) = dev THEN Tail(list) ELSE list
    BY <1>1 DEF VlDev_Remove
  <2>2. CASE list # <<>> /\ Head(list) = dev
    <3>1. 1 \in 1..Len(list) /\ list[1] = dev
      BY <2>2 DEF RegistryInv
    <3>2. list' = RemoveAt(list, 1)
      BY <2>1, <2>2 DEF RegistryInv, RemoveAt
    <3> QED
      BY <3>1, <3>2, RemovedKeepsOrder DEF RegistryInv
  <2>3. CASE ~(list # <<>> /\ Head(list) = dev)
    <3>1. list' = list
      BY <2>1, <2>3
    <3> QED
      BY <3>1, ExtendedKeepsOrder DEF RegistryInv
  <2> QED
    BY <2>2, <2>3
<1>2. CASE prev # {}
  <2>1. at \in 1..(Len(list) - 1) /\ list[at + 1] = dev
    BY <1>2 DEF Scanned
  <2>2. list' = RemoveAt(list, at + 1)
    BY <1>2 DEF VlDev_Remove
  <2>3. at + 1 \in 1..Len(list)
    BY <2>1 DEF RegistryInv
  <2> HIDE DEF at
  <2> QED
    BY <2>1, <2>2, <2>3, RemovedKeepsOrder DEF RegistryInv
<1> QED
  BY <1>1, <1>2

-----------------------------------------------------------------------------
(* Numbered names.                                                           *)

\* A finite set whose members carry numbers has a member with a largest one.
\* (The induction is over the subsets of S, taken as a set of sets.)
LEMMA LargestExists ==
  ASSUME NEW S, IsFiniteSet(S), S # {}, NEW num, \A a \in S : num[a] \in Nat
  PROVE  \E a \in S : \A b \in S : num[a] >= num[b]
<1> DEFINE Has(U) == \E a \in U : \A b \in U : num[a] >= num[b]
           T == {U \in SUBSET S : U # {} /\ ~Has(U)}
<1>1. IsWellFoundedOn(StrictSubsetOrdering(S), SUBSET S)
  BY FS_StrictSubsetOrderingWellFounded, FS_FiniteSubsetsOfFinite
<1>2. T = {}
  <2>1. SUFFICES ASSUME T # {} PROVE FALSE
    OBVIOUS
  <2>2. PICK U \in T : \A V \in T : <<V, U>> \notin StrictSubsetOrdering(S)
    BY <1>1, <2>1, WFMin
  <2>3. PICK x \in U : TRUE
    BY <2>2
  <2> DEFINE V == U \ {x}
  <2>4. V \in SUBSET S /\ V # U
    BY <2>2, <2>3
  <2>5. <<V, U>> \in StrictSubsetOrdering(S)
    BY <2>2, <2>4 DEF StrictSubsetOrdering
  <2>6. V = {} \/ Has(V)
    BY <2>2, <2>4, <2>5
  <2>7. CASE V = {}
    <3>1. U = {x} /\ num[x] \in Nat
      BY <2>2, <2>3, <2>7
    <3> QED BY <2>2, <3>1
  <2>8. CASE Has(V)
    <3>1. PICK a \in V : \A b \in V : num[a] >= num[b]
      BY <2>8
    <3>2. num[x] \in Nat /\ num[a] \in Nat /\ \A b \in U : num[b] \in Nat
      BY <2>2, <2>3, <3>1
    <3>3. CASE num[a] >= num[x]
      BY <2>2, <2>3, <3>1, <3>2, <3>3
    <3>4. CASE num[x] >= num[a]
      <4>1. \A b \in U : num[x] >= num[b]
        BY <2>2, <2>3, <3>1, <3>2, <3>4
      <4> QED BY <2>2, <2>3, <4>1
    <3> QED BY <3>2, <3>3, <3>4
  <2> QED BY <2>6, <2>7, <2>8
<1>3. Has(S)
  BY <1>2
<1> QED BY <1>3

-----------------------------------------------------------------------------
(* Names.                                                                    *)

\* A name is a base, of words and of the numbers of the parents, and a number.
Words == {"dbg", "ps2c", "mouse", "kbd", "rtc", "ser", "par", "fdc", "rd", "idec",
          "fd", "pt", "p", "video", "console", "tty"} \cup Nat

LEMMA NameParts ==
  ASSUME NEW base \in Seq(Words), NEW n \in Nat
  PROVE  /\ Append(base, n) \in Seq(Words) /\ Append(base, n) # <<>>
         /\ Front(Append(base, n)) = base /\ Last(Append(base, n)) = n
<1> DEFINE s == Append(base, n)
<1>1. n \in Words
  BY DEF Words
<1>2. /\ s \in Seq(Words) /\ s # <<>> /\ Len(s) = Len(base) + 1 /\ s[Len(s)] = n
      /\ Len(base) \in Nat /\ \A i \in 1 .. Len(base) : s[i] = base[i]
  BY <1>1
<1>3. SubSeq(s, 1, Len(s) - 1) = base
  <2> HIDE DEF s
  <2>1. /\ SubSeq(s, 1, Len(base)) \in Seq(Words) /\ Len(SubSeq(s, 1, Len(base))) = Len(base)
        /\ \A i \in 1 .. Len(base) : SubSeq(s, 1, Len(base))[i] = base[i]
    BY <1>2, SubSeqProperties
  <2>2. SubSeq(s, 1, Len(base)) = base
    BY <2>1, SeqEqual
  <2> QED BY <1>2, <2>2
<1> QED BY <1>2, <1>3 DEF Front, Last

Named(base) == {a \in ToSet(list) : mem[a].name # <<>> /\ Front(mem[a].name) = base}

Numbered == \A a \in ToSet(list) : Last(mem[a].name) \in Nat

\* The number VlDev_GenerateName chooses is larger than any behind this base.
LEMMA NewNumber ==
  ASSUME RegistryInv, Numbered, NEW base
  PROVE  \E n \in Nat :
           /\ VlDev_GenerateName(base) = Append(base, n)
           /\ \A a \in Named(base) : Last(mem[a].name) < n
<1> DEFINE N == {Last(mem[a].name) : a \in Named(base)}
           num == [a \in Named(base) |-> Last(mem[a].name)]
<1>1. VlDev_GenerateName(base) = Append(base, IF Named(base) = {} THEN 0 ELSE 1 + Max(N))
  BY DEF VlDev_GenerateName, Named
<1>2. CASE Named(base) = {}
  BY <1>1, <1>2
<1>3. CASE Named(base) # {}
  <2>1. ToSet(list) \subseteq Addr
    BY DEF RegistryInv, ToSet
  <2>2. IsFiniteSet(Named(base))
    BY <2>1, AddrAssumption, FS_Subset DEF Named
  <2>3. \A a \in Named(base) : num[a] \in Nat /\ num[a] = Last(mem[a].name)
    BY DEF Named, Numbered
  <2>4. PICK a \in Named(base) : \A b \in Named(base) : num[a] >= num[b]
    <3> HIDE DEF num
    <3> QED BY <1>3, <2>2, <2>3, LargestExists
  <2>5. \E x \in N : \A y \in N : x >= y
    <3>1. num[a] \in N
      BY <2>3, <2>4
    <3>2. \A y \in N : num[a] >= y
      BY <2>3, <2>4
    <3> QED BY <3>1, <3>2
  <2>6. Max(N) \in N /\ \A y \in N : Max(N) >= y
    BY <2>5 DEF Max
  <2>7. Max(N) \in Nat
    BY <2>3, <2>6
  <2>8. 1 + Max(N) \in Nat /\ \A b \in Named(base) : Last(mem[b].name) < 1 + Max(N)
    <3>1. ASSUME NEW b \in Named(base) PROVE Last(mem[b].name) < 1 + Max(N)
      <4>1. Last(mem[b].name) \in N /\ Last(mem[b].name) \in Nat
        BY <2>3
      <4>2. Max(N) >= Last(mem[b].name)
        BY <2>6, <4>1
      <4> QED BY <2>7, <4>1, <4>2
    <3> QED BY <2>7, <3>1
  <2> QED BY <1>1, <1>3, <2>8
<1> QED BY <1>2, <1>3

-----------------------------------------------------------------------------
(* The memory of the structures.                                             *)

Devs == Addr \cup {Null}

Data == {"none", "live", "freed"}

Structs == [parent : Devs, first_child : Devs, sibling : Devs,
            driver : Drivers \cup {"none"}, name : Seq(Words), data : Data]

Memories == [Addr -> Structs]

WithSibling(m, x, s) == [m EXCEPT ![x].sibling = s]

WithData(m, x, d) == [m EXCEPT ![x].data = d]

WithFirstChild(m, x, s) == [m EXCEPT ![x].first_child = s]

\* Two memories in which structure a differs at most in its links.
SameSelf(m, n, a) == n[a].name = m[a].name /\ n[a].data = m[a].data /\ n[a].parent = m[a].parent

LEMMA SetSibling ==
  ASSUME NEW m \in Memories, NEW x, NEW s \in Devs, NEW n, n = WithSibling(m, x, s)
  PROVE  /\ n \in Memories
         /\ \A a \in Addr : /\ SameSelf(m, n, a)
                            /\ n[a].first_child = m[a].first_child
                            /\ n[a].sibling \in {m[a].sibling, s}
<1>1. \A a \in Addr : m[a] \in Structs
  BY DEF Memories
<1>2. \A a \in Addr : [m[a] EXCEPT !.sibling = s] \in Structs
  BY <1>1 DEF Structs
<1>3. DOMAIN m = Addr /\ n = [a \in Addr |-> IF a = x THEN [m[a] EXCEPT !.sibling = s] ELSE m[a]]
  BY DEF Memories, WithSibling
<1>4. n \in Memories
  BY <1>1, <1>2, <1>3 DEF Memories
<1>5. ASSUME NEW a \in Addr
      PROVE  /\ SameSelf(m, n, a) /\ n[a].first_child = m[a].first_child
             /\ n[a].sibling \in {m[a].sibling, s}
  <2>1. n[a] = m[a] \/ n[a] = [m[a] EXCEPT !.sibling = s]
    BY <1>3
  <2>2. m[a] \in Structs
    BY <1>1
  <2>3. CASE n[a] = m[a]
    BY <2>3 DEF SameSelf
  <2>4. CASE n[a] = [m[a] EXCEPT !.sibling = s]
    BY <2>2, <2>4 DEF SameSelf, Structs
  <2> QED BY <2>1, <2>3, <2>4
<1> QED BY <1>4, <1>5

LEMMA SetFirstChild ==
  ASSUME NEW m \in Memories, NEW x \in Addr, NEW s \in Devs,
         NEW n, n = WithFirstChild(m, x, s)
  PROVE  /\ n \in Memories
         /\ \A a \in Addr : /\ SameSelf(m, n, a) /\ n[a].sibling = m[a].sibling
                            /\ a # x => n[a].first_child = m[a].first_child
                            /\ a = x => n[a].first_child = s
<1>1. \A a \in Addr : m[a] \in Structs
  BY DEF Memories
<1>2. \A a \in Addr : [m[a] EXCEPT !.first_child = s] \in Structs
  BY <1>1 DEF Structs
<1>3. DOMAIN m = Addr /\ n = [a \in Addr |-> IF a = x THEN [m[a] EXCEPT !.first_child = s] ELSE m[a]]
  BY DEF Memories, WithFirstChild
<1>4. n \in Memories
  BY <1>1, <1>2, <1>3 DEF Memories
<1>5. ASSUME NEW a \in Addr, a # x PROVE n[a] = m[a]
  BY <1>3, <1>5
<1>6. n[x] = [m[x] EXCEPT !.first_child = s]
  BY <1>3
<1>7. /\ SameSelf(m, n, x) /\ n[x].sibling = m[x].sibling /\ n[x].first_child = s
  <2> QED BY <1>1, <1>6 DEF SameSelf, Structs
<1>8. ASSUME NEW a \in Addr, a # x
      PROVE  SameSelf(m, n, a) /\ n[a].sibling = m[a].sibling /\ n[a].first_child = m[a].first_child
  <2> QED BY <1>5, <1>8 DEF SameSelf
<1> QED BY <1>4, <1>7, <1>8

LEMMA SetData ==
  ASSUME NEW m \in Memories, NEW x \in Addr, NEW d \in Data,
         NEW n, n = WithData(m, x, d)
  PROVE  /\ n \in Memories
         /\ \A a \in Addr : /\ n[a].name = m[a].name /\ n[a].sibling = m[a].sibling
                            /\ n[a].first_child = m[a].first_child /\ n[a].parent = m[a].parent
                            /\ a # x => n[a].data = m[a].data
<1>1. \A a \in Addr : m[a] \in Structs
  BY DEF Memories
<1>2. \A a \in Addr : [m[a] EXCEPT !.data = d] \in Structs
  BY <1>1 DEF Structs
<1>3. DOMAIN m = Addr /\ n = [a \in Addr |-> IF a = x THEN [m[a] EXCEPT !.data = d] ELSE m[a]]
  BY DEF Memories, WithData
<1>4. n \in Memories
  BY <1>1, <1>2, <1>3 DEF Memories
<1>5. ASSUME NEW a \in Addr, a # x PROVE n[a] = m[a]
  BY <1>3, <1>5
<1>6. n[x] = [m[x] EXCEPT !.data = d]
  BY <1>3
<1>7. /\ n[x].name = m[x].name /\ n[x].sibling = m[x].sibling /\ n[x].first_child = m[x].first_child
      /\ n[x].parent = m[x].parent
  <2> QED BY <1>1, <1>6 DEF Structs
<1> QED BY <1>4, <1>5, <1>7

\* From memory m to n, a device has been created at dev: what it holds, and
\* what became of the links of the others.
Adds(m, n, dev) ==
    /\ n \in Memories
    /\ n[dev].first_child = Null /\ n[dev].sibling \in {Null, dev}
    /\ \A a \in Addr \ {dev} :
         /\ SameSelf(m, n, a)
         /\ n[a].sibling \in {m[a].sibling, dev}
         /\ n[a].first_child \in {m[a].first_child, dev}

LEMMA AdoptAdds ==
  ASSUME NEW c \in Memories, NEW dev \in Addr, NEW parent \in Addr, parent # dev,
         c[dev].first_child = Null, c[dev].sibling = Null,
         NEW n, n = Adopt(c, dev, parent)
  PROVE  Adds(c, n, dev) /\ n[dev].parent = c[dev].parent
<1>1. dev \in Devs
  BY DEF Devs
<1>2. CASE c[parent].first_child = Null
  <2>1. n = WithFirstChild(c, parent, dev)
    BY <1>2, Zenon DEF Adopt, WithFirstChild
  <2>2. n \in Memories
    BY <1>1, <2>1, SetFirstChild
  <2>3. \A a \in Addr : SameSelf(c, n, a) /\ n[a].sibling = c[a].sibling
    BY <1>1, <2>1, SetFirstChild
  <2>4. \A a \in Addr : a # parent => n[a].first_child = c[a].first_child
    BY <1>1, <2>1, SetFirstChild
  <2>5. n[parent].first_child = dev
    BY <1>1, <2>1, SetFirstChild
  <2> QED BY <2>2, <2>3, <2>4, <2>5 DEF Adds, SameSelf
<1>3. CASE c[parent].first_child # Null
  <2>1. PICK x : x = LastSibling(c, c[parent].first_child)
    OBVIOUS
  <2>2. n = WithSibling(c, x, dev)
    BY <1>3, <2>1, Zenon DEF Adopt, WithSibling
  <2>3. n \in Memories
    BY <1>1, <2>2, SetSibling
  <2>4. \A a \in Addr : /\ SameSelf(c, n, a)
                       /\ n[a].first_child = c[a].first_child
                       /\ n[a].sibling \in {c[a].sibling, dev}
    BY <1>1, <2>2, SetSibling
  <2> QED BY <2>3, <2>4 DEF Adds, SameSelf
<1> QED BY <1>2, <1>3

LEMMA CreateAdds ==
  ASSUME mem \in Memories, NEW dev \in Addr, NEW driver \in Drivers, NEW parent \in Devs,
         parent # dev
  PROVE  /\ Adds(mem, VlDev_Create(dev, driver, parent), dev)
         /\ VlDev_Create(dev, driver, parent)[dev].parent = parent
<1>1. Null \in Devs /\ dev \in Devs
  BY DEF Devs
<1>2. <<>> \in Seq(Words)
  OBVIOUS
<1>3. Blank \in Structs /\ Blank.first_child = Null /\ Blank.sibling = Null
  <2>1. PICK none : none = <<>>
    OBVIOUS
  <2>2. Blank = [parent |-> Null, first_child |-> Null, sibling |-> Null,
                 driver |-> "none", name |-> none, data |-> "none"]
    BY <2>1, Zenon DEF Blank
  <2> QED BY <1>1, <1>2, <2>1, <2>2 DEF Structs, Data
<1> DEFINE c == Created(dev, driver, parent)
           blank == [Blank EXCEPT !.parent = parent, !.driver = driver]
<1>4. blank \in Structs /\ blank.first_child = Null /\ blank.sibling = Null /\ blank.parent = parent
  BY <1>3 DEF Structs
<1>5. c = [mem EXCEPT ![dev] = blank]
  BY DEF Created
<1>6. c \in Memories /\ c[dev] = blank /\ \A a \in Addr \ {dev} : c[a] = mem[a]
  <2> HIDE DEF blank, c
  <2> QED BY <1>4, <1>5 DEF Memories
<1> HIDE DEF c, blank
<1>7. PICK n : n = VlDev_Create(dev, driver, parent)
  OBVIOUS
<1>8. SUFFICES Adds(mem, n, dev) /\ n[dev].parent = parent
  BY <1>7
<1>9. CASE parent = Null
  <2>1. n = c
    BY <1>7, <1>9 DEF VlDev_Create, c
  <2> QED BY <1>4, <1>6, <2>1 DEF SameSelf, Adds
<1>10. CASE parent # Null
  <2>1. n = Adopt(c, dev, parent)
    BY <1>7, <1>10 DEF VlDev_Create, c
  <2>2. PICK p \in Addr : p = parent
    BY <1>10 DEF Devs
  <2>3. PICK m \in Memories : m = c
    BY <1>6
  <2>4. Adds(m, n, dev) /\ n[dev].parent = m[dev].parent
    BY <1>4, <1>6, <2>1, <2>2, <2>3, AdoptAdds
  <2> QED BY <1>4, <1>6, <2>3, <2>4 DEF SameSelf, Adds
<1> QED BY <1>9, <1>10

\* From memory m to n a device was taken out of the children of its parent:
\* some link was set to its sibling.
Drops(m, n, dev) ==
    /\ n \in Memories
    /\ \A a \in Addr : /\ SameSelf(m, n, a)
                       /\ n[a].first_child = m[a].first_child
                       /\ n[a].sibling \in {m[a].sibling, m[dev].sibling}

LEMMA RemoveDrops ==
  ASSUME NEW m \in Memories, NEW dev \in Addr
  PROVE  Drops(m, VlDev_Remove(m, dev).mem, dev)
<1> DEFINE elder == {i \in Scanned(m, dev) : m[list[i]].sibling = dev}
<1>1. m[dev].sibling \in Devs
  BY DEF Memories, Structs
<1>2. PICK x : x = list[Max(elder)]
  OBVIOUS
<1>3. PICK n : n = VlDev_Remove(m, dev).mem
  OBVIOUS
<1>4. n = m \/ n = WithSibling(m, x, m[dev].sibling)
  BY <1>2, <1>3, Zenon DEF VlDev_Remove, WithSibling
<1>5. CASE n = m
  BY <1>3, <1>5 DEF SameSelf, Drops
<1>6. CASE n = WithSibling(m, x, m[dev].sibling)
  BY <1>1, <1>3, <1>6, SetSibling DEF Drops
<1> QED BY <1>4, <1>5, <1>6

-----------------------------------------------------------------------------
(* The frames of the probes in progress.                                     *)

Frames == [dev : Addr, driver : Drivers, todo : Seq(Drivers), fresh : BOOLEAN,
           disk : {"mbr", "gpt", "none"}, going : BOOLEAN, kid : Devs]

\* The drivers that give up when a child fails, and so may find children to
\* remove; their children have none.
Fragile == {"fdc_isa", "mbr", "gpt"}
Leaves == {"floppy", "part"}

TodoFits(driver, todo) ==
    /\ driver \in Fragile => \A k \in 1 .. Len(todo) : todo[k] \in Leaves
    /\ driver \notin Fragile \cup IgnoresFailure => todo = <<>>

\* What becomes of a frame: the probe goes on, or it starts to clean up.
SameProbe(f, g) == g \in Frames /\ g.dev = f.dev /\ g.driver = f.driver

Resumes(f, g) ==
    /\ SameProbe(f, g)
    /\ g.going = f.going /\ g.fresh = FALSE /\ g.kid = f.kid /\ TodoFits(g.driver, g.todo)

Unwinds(f, g, m) ==
    /\ SameProbe(f, g)
    /\ g.going = FALSE /\ g.kid = m[f.dev].first_child /\ g.todo = f.todo

LEMMA UnwindingUnwinds ==
  ASSUME NEW f \in Frames, NEW m \in Memories
  PROVE  Unwinds(f, Unwinding(f, m), m)
<1>1. f.dev \in Addr
  BY DEF Frames
<1>2. m[f.dev].first_child \in Devs
  BY <1>1 DEF Memories, Structs
<1>3. PICK k \in Devs : k = m[f.dev].first_child
  BY <1>2
<1>4. Unwinding(f, m) = [f EXCEPT !.going = FALSE, !.kid = k]
  BY <1>3, Zenon DEF Unwinding
<1>5. PICK g : g = [f EXCEPT !.going = FALSE, !.kid = k]
  OBVIOUS
<1>6. g \in Frames
  BY <1>5 DEF Frames
<1>7. g.dev = f.dev /\ g.driver = f.driver /\ g.todo = f.todo /\ g.kid = k
  BY <1>5 DEF Frames
<1>8. g.going = FALSE
  BY <1>5 DEF Frames
<1> QED BY <1>3, <1>4, <1>5, <1>6, <1>7, <1>8, Zenon DEF Unwinds, SameProbe

LEMMA TailFits ==
  ASSUME NEW f \in Frames, f.todo # <<>>, TodoFits(f.driver, f.todo)
  PROVE  Tail(f.todo) \in Seq(Drivers) /\ TodoFits(f.driver, Tail(f.todo))
<1>1. PICK t \in Seq(Drivers) : t = f.todo
  BY DEF Frames
<1>2. /\ t # <<>> /\ Tail(t) \in Seq(Drivers) /\ Len(Tail(t)) = Len(t) - 1 /\ Len(t) \in Nat
      /\ \A k \in 1 .. Len(Tail(t)) : Tail(t)[k] = t[k + 1] /\ k + 1 \in 1 .. Len(t)
  BY <1>1
<1>3. f.driver \in Fragile \cup IgnoresFailure
  BY <1>1, <1>2 DEF TodoFits
<1>4. f.driver \in Fragile => \A k \in 1 .. Len(t) : t[k] \in Leaves
  BY <1>1 DEF TodoFits
<1>5. f.driver \in Fragile => \A k \in 1 .. Len(Tail(t)) : Tail(t)[k] \in Leaves
  BY <1>2, <1>4
<1> QED BY <1>1, <1>2, <1>3, <1>5 DEF TodoFits

LEMMA EmptyFits == ASSUME NEW d PROVE <<>> \in Seq(Drivers) /\ TodoFits(d, <<>>)
BY DEF TodoFits

LEMMA AfterOk ==
  ASSUME NEW f \in Frames, NEW m \in Memories, f.todo # <<>>, TodoFits(f.driver, f.todo)
  PROVE  Resumes(f, AfterChild(f, TRUE, m))
<1>1. PICK t \in Seq(Drivers) : t = IF f.driver = "ata" THEN <<>> ELSE Tail(f.todo)
  BY TailFits, EmptyFits
<1>2. TodoFits(f.driver, t)
  BY <1>1, TailFits, EmptyFits
<1>3. AfterChild(f, TRUE, m) = [f EXCEPT !.fresh = FALSE, !.todo = t]
  BY <1>1, Zenon DEF AfterChild
<1>4. PICK g : g = [f EXCEPT !.fresh = FALSE, !.todo = t]
  OBVIOUS
<1>5. g \in Frames
  BY <1>4 DEF Frames
<1>6. g.dev = f.dev /\ g.driver = f.driver /\ g.todo = t /\ g.kid = f.kid
  BY <1>4 DEF Frames
<1>7. g.fresh = FALSE
  BY <1>4 DEF Frames
<1>8. g.going = f.going
  BY <1>4 DEF Frames
<1> QED BY <1>2, <1>3, <1>4, <1>5, <1>6, <1>7, <1>8, Zenon DEF Resumes, SameProbe

LEMMA AfterFailure ==
  ASSUME NEW f \in Frames, NEW m \in Memories, f.todo # <<>>, TodoFits(f.driver, f.todo)
  PROVE  /\ f.driver \in IgnoresFailure => Resumes(f, AfterChild(f, FALSE, m))
         /\ f.driver \notin IgnoresFailure =>
              f.driver \in Fragile /\ Unwinds(f, AfterChild(f, FALSE, m), m)
<1>1. CASE f.driver \in IgnoresFailure
  <2>1. PICK t \in Seq(Drivers) : t = Tail(f.todo)
    BY TailFits
  <2>2. TodoFits(f.driver, t)
    BY <2>1, TailFits
  <2>3. AfterChild(f, FALSE, m) = [f EXCEPT !.fresh = FALSE, !.todo = t]
    BY <1>1, <2>1, Zenon DEF AfterChild
  <2>4. PICK g : g = [f EXCEPT !.fresh = FALSE, !.todo = t]
    OBVIOUS
  <2>5. g \in Frames
    BY <2>4 DEF Frames
  <2>6. g.dev = f.dev /\ g.driver = f.driver /\ g.todo = t /\ g.kid = f.kid
    BY <2>4 DEF Frames
  <2>7. g.fresh = FALSE
    BY <2>4 DEF Frames
  <2>8. g.going = f.going
    BY <2>4 DEF Frames
  <2> QED BY <1>1, <2>2, <2>3, <2>4, <2>5, <2>6, <2>7, <2>8, Zenon DEF Resumes, SameProbe
<1>2. CASE f.driver \notin IgnoresFailure
  <2>1. AfterChild(f, FALSE, m) = Unwinding(f, m)
    BY <1>2, Zenon DEF AfterChild
  <2>2. f.driver \in Fragile
    BY <1>2 DEF TodoFits
  <2> QED BY <1>2, <2>1, <2>2, UnwindingUnwinds
<1> QED BY <1>1, <1>2

-----------------------------------------------------------------------------
(* What the boot code has left to probe, and the probes in progress.         *)

Roots == {"debugout", "i8042", "rtc_isa", "uart_isa", "ieee1284_isa", "fdc_isa",
          "ide_isa", "vga", "vconsole", "ansiterm"}

Entries == [driver : Roots, parent : {<<>>, <<"video", 0>>, <<"console", 0>>}]

PlanInv ==
    /\ plan \in Seq(Entries)
    /\ stage = "boot" => plan # <<>>
    /\ stack # <<>> => stage = "boot"

\* The stack t is what is left of s when the probe on top goes on, cleans up
\* or returns: the frames below are the same.
Shrinks(s, t) ==
    /\ t \in Seq(Frames) /\ Len(t) <= Len(s)
    /\ \A i \in 1 .. Len(t) : SameProbe(s[i], t[i]) /\ (t[i].going = TRUE => s[i].going = TRUE)
    /\ \A i \in 1 .. (Len(t) - 1) : t[i] = s[i]

LEMMA GivenEntries ==
  ASSUME NEW n \in Nat, NEW d \in Roots
  PROVE  Given(n, d) \in Seq(Entries)
<1>1. RootAlone(d) \in Entries
  BY DEF RootAlone, Entries
<1> QED BY <1>1 DEF Given

LEMMA PlanEntries ==
  ASSUME NEW m \in Machines
  PROVE  Plan(m) \in Seq(Entries) /\ Plan(m) # <<>>
<1>1. m \in [debug : 0 .. 1, ps2 : 0 .. 1, rtc : 0 .. 1, legacy : 0 .. 1,
             serial : 0 .. 4, parallel : 0 .. 3]
  BY MachineAssumption
<1>2. /\ m.debug \in Nat /\ m.ps2 \in Nat /\ m.rtc \in Nat
      /\ m.serial \in Nat /\ m.parallel \in Nat
  BY <1>1
<1>3. PICK last \in Seq(Entries) :
        /\ last = <<RootAlone("vga"), RootUnder("vconsole", <<"video", 0>>),
                    RootUnder("ansiterm", <<"console", 0>>)>>
        /\ last # <<>>
  <2>1. PICK a \in Entries : a = RootAlone("vga")
    BY DEF RootAlone, Entries, Roots
  <2>2. PICK b \in Entries : b = RootUnder("vconsole", <<"video", 0>>)
    BY DEF RootUnder, Entries, Roots
  <2>3. PICK d \in Entries : d = RootUnder("ansiterm", <<"console", 0>>)
    BY DEF RootUnder, Entries, Roots
  <2>4. <<a, b, d>> \in Seq(Entries) /\ <<a, b, d>> # <<>>
    OBVIOUS
  <2> QED BY <2>1, <2>2, <2>3, <2>4, Zenon
<1>4. PICK legacy \in Seq(Entries) :
        legacy = IF m.legacy = 1
                 THEN Given(m.serial, "uart_isa") \o Given(m.parallel, "ieee1284_isa") \o
                      Given(1, "fdc_isa") \o Given(Channels, "ide_isa")
                 ELSE <<>>
  <2>1. PICK a \in Seq(Entries) : a = Given(m.serial, "uart_isa")
    BY <1>2, GivenEntries DEF Roots
  <2>2. PICK b \in Seq(Entries) : b = Given(m.parallel, "ieee1284_isa")
    BY <1>2, GivenEntries DEF Roots
  <2>3. PICK d \in Seq(Entries) : d = Given(1, "fdc_isa")
    BY GivenEntries DEF Roots
  <2>4. PICK e \in Seq(Entries) : e = Given(Channels, "ide_isa")
    BY GivenEntries, SizeAssumption DEF Roots
  <2>5. a \o b \o d \o e \in Seq(Entries) /\ <<>> \in Seq(Entries)
    OBVIOUS
  <2> QED BY <2>1, <2>2, <2>3, <2>4, <2>5, Zenon
<1>5. Plan(m) = Given(m.debug, "debugout") \o Given(m.ps2, "i8042") \o
                Given(m.rtc, "rtc_isa") \o legacy \o last
  BY <1>3, <1>4, Zenon DEF Plan
<1>6. PICK first \in Seq(Entries) :
        first = Given(m.debug, "debugout") \o Given(m.ps2, "i8042") \o
                Given(m.rtc, "rtc_isa") \o legacy
  <2>1. PICK a \in Seq(Entries) : a = Given(m.debug, "debugout")
    BY <1>2, GivenEntries DEF Roots
  <2>2. PICK b \in Seq(Entries) : b = Given(m.ps2, "i8042")
    BY <1>2, GivenEntries DEF Roots
  <2>3. PICK d \in Seq(Entries) : d = Given(m.rtc, "rtc_isa")
    BY <1>2, GivenEntries DEF Roots
  <2>4. a \o b \o d \o legacy \in Seq(Entries)
    OBVIOUS
  <2> QED BY <2>1, <2>2, <2>3, <2>4, Zenon
<1>7. first \o last \in Seq(Entries) /\ first \o last # <<>>
  BY <1>3
<1> QED BY <1>5, <1>6, <1>7

\* The probe on top returns to the one below, or a child was refused.
LEMMA ReturnOk ==
  ASSUME NEW c \in Seq(Frames), Return(c, TRUE), mem' \in Memories, PlanInv, stack # <<>>,
         c # <<>> => c[Len(c)].todo # <<>> /\ TodoFits(c[Len(c)].driver, c[Len(c)].todo)
  PROVE  /\ PlanInv' /\ stack' \in Seq(Frames) /\ Len(stack') = Len(c)
         /\ \A i \in 1 .. (Len(c) - 1) : stack'[i] = c[i]
         /\ c # <<>> => Resumes(c[Len(c)], stack'[Len(c)])
<1>1. CASE c = <<>>
  <2>1. stack' = <<>>
    BY <1>1 DEF Return
  <2>2. plan # <<>> /\ plan \in Seq(Entries)
    BY DEF PlanInv
  <2>3. plan' = Tail(plan) /\ stage' = IF plan' = <<>> THEN "running" ELSE "boot"
    BY <1>1, Zenon DEF Return
  <2>4. PlanInv'
    BY <2>1, <2>2, <2>3 DEF PlanInv
  <2> QED BY <1>1, <2>1, <2>4
<1>2. CASE c # <<>>
  <2>1. PICK n \in 1 .. Len(c) : n = Len(c)
    BY <1>2
  <2>2. PICK f \in Frames : f = c[n]
    BY <2>1
  <2>3. PICK m \in Memories : m = mem'
    OBVIOUS
  <2>4. PICK g : g = AfterChild(f, TRUE, m)
    OBVIOUS
  <2>5. Resumes(f, g)
    BY <1>2, <2>1, <2>2, <2>4, AfterOk
  <2>6. g \in Frames
    BY <2>5 DEF Resumes, SameProbe
  <2>7. stack' = [c EXCEPT ![n] = g]
    BY <1>2, <2>1, <2>2, <2>3, <2>4, Zenon DEF Return
  <2>8. plan' = plan /\ stage' = stage
    BY <1>2, Zenon DEF Return
  <2>9. /\ stack' \in Seq(Frames) /\ Len(stack') = Len(c)
        /\ \A i \in 1 .. (Len(c) - 1) : stack'[i] = c[i]
        /\ stack'[n] = g
    BY <2>1, <2>6, <2>7
  <2>10. PlanInv'
    BY <2>8, <2>9 DEF PlanInv
  <2> QED BY <2>1, <2>2, <2>5, <2>9, <2>10
<1> QED BY <1>1, <1>2

LEMMA ReturnFailed ==
  ASSUME NEW c \in Seq(Frames), Return(c, FALSE), mem' \in Memories, PlanInv, stack # <<>>,
         c # <<>> => c[Len(c)].todo # <<>> /\ TodoFits(c[Len(c)].driver, c[Len(c)].todo)
  PROVE  /\ PlanInv' /\ stack' \in Seq(Frames) /\ Len(stack') = Len(c)
         /\ \A i \in 1 .. (Len(c) - 1) : stack'[i] = c[i]
         /\ c # <<>> /\ c[Len(c)].driver \in IgnoresFailure => Resumes(c[Len(c)], stack'[Len(c)])
         /\ c # <<>> /\ c[Len(c)].driver \notin IgnoresFailure =>
              c[Len(c)].driver \in Fragile /\ Unwinds(c[Len(c)], stack'[Len(c)], mem')
<1>1. CASE c = <<>>
  <2>1. stack' = <<>>
    BY <1>1 DEF Return
  <2>2. plan # <<>> /\ plan \in Seq(Entries)
    BY DEF PlanInv
  <2>3. \/ plan' = Tail(plan) /\ stage' = IF plan' = <<>> THEN "running" ELSE "boot"
        \/ plan' = plan /\ stage' = "panic"
    BY <1>1, Zenon DEF Return
  <2>4. ASSUME plan' = Tail(plan) /\ stage' = IF plan' = <<>> THEN "running" ELSE "boot"
        PROVE  PlanInv'
    BY <2>1, <2>2, <2>4 DEF PlanInv
  <2>5. ASSUME plan' = plan /\ stage' = "panic" PROVE PlanInv'
    <3>1. stage' # "boot"
      BY <2>5
    <3> QED BY <2>1, <2>2, <2>5, <3>1 DEF PlanInv
  <2>6. PlanInv'
    BY <2>3, <2>4, <2>5
  <2> QED BY <1>1, <2>1, <2>6
<1>2. CASE c # <<>>
  <2>1. PICK n \in 1 .. Len(c) : n = Len(c)
    BY <1>2
  <2>2. PICK f \in Frames : f = c[n]
    BY <2>1
  <2>3. PICK m \in Memories : m = mem'
    OBVIOUS
  <2>4. PICK g : g = AfterChild(f, FALSE, m)
    OBVIOUS
  <2>5. /\ f.driver \in IgnoresFailure => Resumes(f, g)
        /\ f.driver \notin IgnoresFailure => f.driver \in Fragile /\ Unwinds(f, g, m)
    BY <1>2, <2>1, <2>2, <2>4, AfterFailure
  <2>6. g \in Frames
    BY <2>5 DEF Resumes, Unwinds, SameProbe
  <2>7. stack' = [c EXCEPT ![n] = g]
    BY <1>2, <2>1, <2>2, <2>3, <2>4, Zenon DEF Return
  <2>8. plan' = plan /\ stage' = stage
    BY <1>2, Zenon DEF Return
  <2>9. /\ stack' \in Seq(Frames) /\ Len(stack') = Len(c)
        /\ \A i \in 1 .. (Len(c) - 1) : stack'[i] = c[i]
        /\ stack'[n] = g
    BY <2>1, <2>6, <2>7
  <2>10. PlanInv'
    BY <2>8, <2>9 DEF PlanInv
  <2> QED BY <2>1, <2>2, <2>3, <2>5, <2>9, <2>10
<1> QED BY <1>1, <1>2

-----------------------------------------------------------------------------
(* The invariant.  In each part m stands for the memory, h for the heap, l   *)
(* for the devices in the list, s for the stack and d for those detected.    *)

\* A device is found under its name: names are numbered and differ.
Names(m, l) ==
    /\ \A a \in l : m[a].name # <<>> /\ Last(m[a].name) \in Nat
    /\ \A a, b \in l : m[a].name = m[b].name => a = b

\* The probes below the one on top wait for a child; those that are going to
\* remove their children are at most one below the top, under a leaf.
Shape(s) ==
    /\ \A i \in 1 .. Len(s) : TodoFits(s[i].driver, s[i].todo)
    /\ \A i \in 1 .. (Len(s) - 1) : s[i].going = TRUE /\ s[i].todo # <<>>
    /\ \A i \in 1 .. Len(s) : s[i].driver \in Fragile =>
          i >= Len(s) - 1 /\ (i < Len(s) => s[i + 1].driver \in Leaves)

\* What was detected is listed and live; so is what is being probed, until its
\* probe fails, and no device is probed twice.
Live(m, l, s, d) ==
    /\ d \subseteq l
    /\ \A a \in d : m[a].data = "live"
    /\ \A i \in 1 .. Len(s) : s[i].dev \notin d
    /\ \A i, j \in 1 .. Len(s) : s[i].dev = s[j].dev => i = j
    /\ \A i \in 1 .. Len(s) : s[i].going = TRUE => s[i].dev \in l /\ m[s[i].dev].data = "live"

\* A set K of structures that following the links from probe i never leaves:
\* children of its device, with none of those being probed up to there in it.
Family(K, m, h, s, i) ==
    /\ K \subseteq Addr
    /\ \A a \in K : m[a].sibling \in K \cup {Null} /\ m[a].parent = s[i].dev
    /\ m[s[i].dev].first_child \in K \cup {Null}
    /\ s[i].kid \in K \cup {Null}
    /\ i < Len(s) => s[i + 1].dev \in K
    /\ \A j \in 1 .. i : s[j].dev \notin K
    /\ s[i].going = TRUE => K \subseteq h

Families(m, h, s) ==
    \A i \in 1 .. Len(s) : s[i].driver \in Fragile => \E K : Family(K, m, h, s, i)

\* A fresh probe has no child yet, and only the fragile have any to remove.
TopKin(m, f) ==
    /\ f.going = TRUE /\ f.fresh = TRUE => m[f.dev].first_child = Null
    /\ f.going = FALSE /\ f.driver \notin Fragile => f.kid = Null

Kin(m, h, s) == Families(m, h, s) /\ (s # <<>> => TopKin(m, s[Len(s)]))

-----------------------------------------------------------------------------
(* When the stack shrinks.                                                   *)

LEMMA ShrinkShape ==
  ASSUME NEW s \in Seq(Frames), NEW t, Shrinks(s, t), Shape(s),
         t # <<>> => TodoFits(t[Len(t)].driver, t[Len(t)].todo)
  PROVE  Shape(t)
<1>1. /\ t \in Seq(Frames) /\ Len(t) <= Len(s) /\ Len(t) \in Nat /\ Len(s) \in Nat
      /\ \A i \in 1 .. (Len(t) - 1) : t[i] = s[i]
      /\ \A i \in 1 .. Len(t) : t[i].driver = s[i].driver /\ i \in 1 .. Len(s)
  BY DEF Shrinks, SameProbe
<1>2. ASSUME NEW i \in 1 .. Len(t) PROVE TodoFits(t[i].driver, t[i].todo)
  <2>1. CASE i = Len(t)
    BY <1>1, <2>1
  <2>2. CASE i # Len(t)
    <3>1. i \in 1 .. (Len(t) - 1) /\ i \in 1 .. Len(s)
      BY <1>1, <2>2
    <3> QED BY <1>1, <3>1 DEF Shape
  <2> QED BY <2>1, <2>2
<1>3. ASSUME NEW i \in 1 .. (Len(t) - 1) PROVE t[i].going = TRUE /\ t[i].todo # <<>>
  <2>1. i \in 1 .. (Len(s) - 1) /\ t[i] = s[i]
    BY <1>1
  <2> QED BY <2>1 DEF Shape
<1>4. ASSUME NEW i \in 1 .. Len(t), t[i].driver \in Fragile
      PROVE  i >= Len(t) - 1 /\ (i < Len(t) => t[i + 1].driver \in Leaves)
  <2>1. i >= Len(s) - 1 /\ (i < Len(s) => s[i + 1].driver \in Leaves)
    BY <1>1, <1>4 DEF Shape
  <2>2. i < Len(t) => i + 1 \in 1 .. Len(t)
    BY <1>1
  <2> QED BY <1>1, <2>1, <2>2
<1> QED BY <1>2, <1>3, <1>4 DEF Shape

SameData(m, n, A) == \A a \in A : n[a].data = m[a].data

GoingAvoid(t, X) == \A i \in 1 .. Len(t) : t[i].going = TRUE => t[i].dev \notin X

\* Some devices are taken out of the list, none of them of a probe that is
\* still going.
LEMMA ShrinkLive ==
  ASSUME NEW s \in Seq(Frames), NEW t, Shrinks(s, t), NEW m, NEW l, NEW d, Live(m, l, s, d),
         NEW X, NEW n, NEW k, NEW e, l \ X \subseteq k, e \subseteq d \ X,
         SameData(m, n, l \ X), GoingAvoid(t, X)
  PROVE  Live(n, k, t, e)
<1>1. /\ Len(t) \in Nat /\ Len(s) \in Nat
      /\ \A i \in 1 .. Len(t) : /\ i \in 1 .. Len(s) /\ t[i].dev = s[i].dev
                                /\ t[i].going = TRUE => s[i].going = TRUE
  BY DEF Shrinks, SameProbe
<1>2. e \subseteq k /\ \A a \in e : n[a].data = "live"
  <2>1. ASSUME NEW a \in e PROVE a \in k /\ n[a].data = "live"
    <3>1. a \in d /\ a \in l \ X /\ m[a].data = "live"
      BY DEF Live
    <3> QED BY <3>1 DEF SameData
  <2> QED BY <2>1
<1>3. \A i \in 1 .. Len(t) : t[i].dev \notin e
  BY <1>1 DEF Live
<1>4. \A i, j \in 1 .. Len(t) : t[i].dev = t[j].dev => i = j
  BY <1>1 DEF Live
<1>5. ASSUME NEW i \in 1 .. Len(t), t[i].going = TRUE
      PROVE  t[i].dev \in k /\ n[t[i].dev].data = "live"
  <2>1. t[i].dev \in l /\ m[t[i].dev].data = "live"
    BY <1>1, <1>5 DEF Live
  <2>2. t[i].dev \in l \ X
    BY <1>1, <1>5, <2>1 DEF GoingAvoid
  <2> QED BY <2>1, <2>2 DEF SameData
<1> QED BY <1>2, <1>3, <1>4, <1>5 DEF Live

LEMMA SameLive ==
  ASSUME NEW s \in Seq(Frames), NEW t, Shrinks(s, t), NEW m, NEW l, NEW d, Live(m, l, s, d)
  PROVE  Live(m, l, t, d)
<1>1. GoingAvoid(t, {}) /\ SameData(m, m, l \ {})
  BY DEF GoingAvoid, SameData
<1> QED BY <1>1, ShrinkLive

\* The probe on top has succeeded.
LEMMA DetectLive ==
  ASSUME NEW s \in Seq(Frames), NEW t, Shrinks(s, t), NEW m, NEW l, NEW d, Live(m, l, s, d),
         Len(t) = Len(s) - 1, s[Len(s)].going = TRUE
  PROVE  Live(m, l, t, d \cup {s[Len(s)].dev})
<1> DEFINE x == s[Len(s)].dev
<1>1. /\ Len(s) \in 1 .. Len(s) /\ Len(t) \in Nat
      /\ \A i \in 1 .. Len(t) : /\ i \in 1 .. Len(s) /\ i # Len(s) /\ t[i].dev = s[i].dev
                                /\ t[i].going = TRUE => s[i].going = TRUE
  BY DEF Shrinks, SameProbe
<1>2. x \in l /\ m[x].data = "live"
  BY <1>1 DEF Live
<1>3. \A i \in 1 .. Len(t) : t[i].dev \notin d /\ t[i].dev # x
  BY <1>1 DEF Live
<1>4. \A i, j \in 1 .. Len(t) : t[i].dev = t[j].dev => i = j
  BY <1>1 DEF Live
<1>5. ASSUME NEW i \in 1 .. Len(t), t[i].going = TRUE
      PROVE  t[i].dev \in l /\ m[t[i].dev].data = "live"
  <2>1. i \in 1 .. Len(s) /\ s[i].going = TRUE /\ t[i].dev = s[i].dev
    BY <1>1, <1>5
  <2> QED BY <2>1 DEF Live
<1> HIDE DEF x
<1>6. d \cup {x} \subseteq l /\ \A a \in d \cup {x} : m[a].data = "live"
  BY <1>2 DEF Live
<1>7. Live(m, l, t, d \cup {x})
  BY <1>3, <1>4, <1>5, <1>6 DEF Live
<1> QED BY <1>7 DEF x

LEMMA ShrinkNames ==
  ASSUME NEW m, NEW l, Names(m, l), NEW n, NEW k, k \subseteq l,
         \A a \in l : n[a].name = m[a].name
  PROVE  Names(n, k)
BY DEF Names

\* A family stays one when its links are changed for others of its own.
LEMMA ShrinkFamily ==
  ASSUME NEW s \in Seq(Frames), NEW t, Shrinks(s, t), NEW m, NEW n, NEW h, NEW g,
         NEW i \in 1 .. Len(t), NEW K, Family(K, m, h, s, i),
         \A a \in K : n[a].sibling \in K \cup {Null} /\ n[a].parent = m[a].parent,
         n[s[i].dev].first_child = m[s[i].dev].first_child,
         t[i].kid \in K \cup {Null},
         t[i].going = TRUE => h \subseteq g
  PROVE  Family(K, n, g, t, i)
<1>1. /\ Len(t) \in Nat /\ Len(s) \in Nat /\ Len(t) <= Len(s)
      /\ \A j \in 1 .. Len(t) : /\ t[j].dev = s[j].dev
                                /\ t[j].going = TRUE => s[j].going = TRUE
  BY DEF Shrinks, SameProbe
<1>2. n[t[i].dev].first_child \in K \cup {Null}
  BY <1>1 DEF Family
<1>3. i < Len(t) => t[i + 1].dev \in K
  <2>1. i < Len(t) => i + 1 \in 1 .. Len(t) /\ i < Len(s)
    BY <1>1
  <2> QED BY <1>1, <2>1 DEF Family
<1>4. \A j \in 1 .. i : t[j].dev \notin K
  <2>1. \A j \in 1 .. i : j \in 1 .. Len(t)
    BY <1>1
  <2> QED BY <1>1, <2>1 DEF Family
<1>5. t[i].going = TRUE => K \subseteq g
  BY <1>1 DEF Family
<1>6. \A a \in K : n[a].parent = t[i].dev
  BY <1>1 DEF Family
<1> QED BY <1>2, <1>3, <1>4, <1>5, <1>6 DEF Family

-----------------------------------------------------------------------------
(* When a probe begins.                                                      *)

LEMMA PushShape ==
  ASSUME NEW s \in Seq(Frames), NEW f \in Frames, Shape(s), TodoFits(f.driver, f.todo),
         s # <<>> => /\ s[Len(s)].going = TRUE /\ s[Len(s)].todo # <<>>
                     /\ f.driver = s[Len(s)].todo[1]
  PROVE  Shape(Append(s, f))
<1> DEFINE t == Append(s, f)
<1>1. /\ Len(s) \in Nat /\ Len(t) = Len(s) + 1 /\ t[Len(s) + 1] = f /\ t \in Seq(Frames)
      /\ \A i \in 1 .. Len(s) : t[i] = s[i]
  OBVIOUS
<1> HIDE DEF t
<1>2. s # <<>> => Len(s) \in 1 .. Len(s)
  BY <1>1
<1>3. \A i \in 1 .. Len(s) : s[i].going = TRUE /\ s[i].todo # <<>>
  <2>1. ASSUME NEW i \in 1 .. Len(s) PROVE s[i].going = TRUE /\ s[i].todo # <<>>
    <3>1. CASE i = Len(s)
      BY <1>1, <3>1
    <3>2. CASE i # Len(s)
      <4>1. i \in 1 .. (Len(s) - 1)
        BY <1>1, <3>2
      <4> QED BY <4>1 DEF Shape
    <3> QED BY <3>1, <3>2
  <2> QED BY <2>1
<1>4. \A i \in 1 .. Len(t) : TodoFits(t[i].driver, t[i].todo)
  <2>1. ASSUME NEW i \in 1 .. Len(t) PROVE TodoFits(t[i].driver, t[i].todo)
    <3>1. CASE i = Len(s) + 1
      BY <1>1, <3>1
    <3>2. CASE i # Len(s) + 1
      <4>1. i \in 1 .. Len(s)
        BY <1>1, <3>2
      <4> QED BY <1>1, <4>1 DEF Shape
    <3> QED BY <3>1, <3>2
  <2> QED BY <2>1
<1>5. \A i \in 1 .. (Len(t) - 1) : t[i].going = TRUE /\ t[i].todo # <<>>
  BY <1>1, <1>3
<1>6. ASSUME NEW i \in 1 .. Len(s), s[i].driver \in Fragile
      PROVE  i = Len(s) /\ f.driver \in Leaves
  <2>1. i >= Len(s) - 1 /\ (i < Len(s) => s[i + 1].driver \in Leaves)
    BY <1>6 DEF Shape
  <2>2. i = Len(s)
    <3>1. SUFFICES ASSUME i # Len(s) PROVE FALSE
      OBVIOUS
    <3>2. i + 1 \in 1 .. Len(s) /\ i < Len(s)
      BY <1>1, <2>1, <3>1
    <3>3. s[i + 1].driver \in Leaves /\ s[i + 1].todo # <<>>
      BY <1>3, <2>1, <3>2
    <3>4. TodoFits(s[i + 1].driver, s[i + 1].todo)
      BY <3>2 DEF Shape
    <3>5. s[i + 1].driver \notin Fragile \cup IgnoresFailure
      BY <3>3 DEF Leaves, Fragile, IgnoresFailure
    <3> QED BY <3>3, <3>4, <3>5, Zenon DEF TodoFits
  <2>3. PICK todo \in Seq(Drivers) : todo = s[i].todo
    <3>1. s[i] \in Frames
      OBVIOUS
    <3> QED BY <3>1 DEF Frames
  <2>4. todo # <<>> /\ todo[1] = f.driver
    BY <1>1, <1>3, <2>2, <2>3
  <2>5. 1 \in 1 .. Len(todo)
    BY <2>4
  <2>6. TodoFits(s[i].driver, todo)
    BY <2>3 DEF Shape
  <2> QED BY <1>6, <2>2, <2>4, <2>5, <2>6 DEF TodoFits
<1>7. ASSUME NEW i \in 1 .. Len(t), t[i].driver \in Fragile
      PROVE  i >= Len(t) - 1 /\ (i < Len(t) => t[i + 1].driver \in Leaves)
  <2>1. CASE i = Len(t)
    BY <1>1, <2>1
  <2>2. CASE i # Len(t)
    <3>1. i \in 1 .. Len(s) /\ t[i] = s[i]
      BY <1>1, <2>2
    <3>2. i = Len(s) /\ f.driver \in Leaves
      BY <1>6, <1>7, <3>1
    <3> QED BY <1>1, <3>2
  <2> QED BY <2>1, <2>2
<1>8. Shape(t)
  BY <1>4, <1>5, <1>7 DEF Shape
<1> QED BY <1>8 DEF t

\* The devices being probed are in the list as long as the top one is.
LEMMA AllListed ==
  ASSUME NEW s \in Seq(Frames), Shape(s), NEW m, NEW l, NEW d, Live(m, l, s, d),
         s # <<>> => s[Len(s)].going = TRUE
  PROVE  \A i \in 1 .. Len(s) : s[i].going = TRUE /\ s[i].dev \in l
<1>1. ASSUME NEW i \in 1 .. Len(s) PROVE s[i].going = TRUE /\ s[i].dev \in l
  <2>1. s[i].going = TRUE
    <3>1. CASE i = Len(s)
      BY <3>1
    <3>2. CASE i # Len(s)
      <4>1. i \in 1 .. (Len(s) - 1)
        BY <3>2
      <4> QED BY <4>1 DEF Shape
    <3> QED BY <3>1, <3>2
  <2> QED BY <2>1 DEF Live
<1> QED BY <1>1

LEMMA PushLive ==
  ASSUME NEW s \in Seq(Frames), NEW f \in Frames, Shape(s),
         NEW m, NEW l, NEW d, Live(m, l, s, d), NEW n, NEW k,
         s # <<>> => s[Len(s)].going = TRUE,
         f.dev \notin l, k = l \cup {f.dev}, n[f.dev].data = "live",
         \A a \in l : n[a].data = m[a].data
  PROVE  Live(n, k, Append(s, f), d)
<1> DEFINE t == Append(s, f)
<1>1. /\ Len(s) \in Nat /\ Len(t) = Len(s) + 1 /\ t[Len(s) + 1] = f
      /\ \A i \in 1 .. Len(s) : t[i] = s[i]
      /\ \A i \in 1 .. Len(t) : i \in 1 .. Len(s) \/ i = Len(s) + 1
  OBVIOUS
<1> HIDE DEF t
<1>2. \A i \in 1 .. Len(s) : s[i].dev \in l
  BY AllListed
<1>3. d \subseteq k /\ \A a \in d : n[a].data = "live"
  BY DEF Live
<1>4. \A i \in 1 .. Len(t) : t[i].dev \notin d
  BY <1>1 DEF Live
<1>5. ASSUME NEW i \in 1 .. Len(t), NEW j \in 1 .. Len(t), t[i].dev = t[j].dev PROVE i = j
  <2>1. CASE i \in 1 .. Len(s) /\ j \in 1 .. Len(s)
    BY <1>1, <1>5, <2>1 DEF Live
  <2>2. CASE i = Len(s) + 1 /\ j \in 1 .. Len(s)
    BY <1>1, <1>2, <1>5, <2>2
  <2>3. CASE j = Len(s) + 1 /\ i \in 1 .. Len(s)
    BY <1>1, <1>2, <1>5, <2>3
  <2>4. CASE j = Len(s) + 1 /\ i = Len(s) + 1
    BY <2>4
  <2> QED BY <1>1, <2>1, <2>2, <2>3, <2>4
<1>6. ASSUME NEW i \in 1 .. Len(t), t[i].going = TRUE
      PROVE  t[i].dev \in k /\ n[t[i].dev].data = "live"
  <2>1. CASE i \in 1 .. Len(s)
    <3>1. s[i].going = TRUE /\ t[i] = s[i]
      BY <1>1, <1>6, <2>1
    <3>2. s[i].dev \in l /\ m[s[i].dev].data = "live"
      BY <2>1, <3>1 DEF Live
    <3> QED BY <3>1, <3>2
  <2>2. CASE i = Len(s) + 1
    BY <1>1, <2>2
  <2> QED BY <1>1, <2>1, <2>2
<1>7. Live(n, k, t, d)
  BY <1>3, <1>4, <1>5, <1>6 DEF Live
<1> QED BY <1>7 DEF t

LEMMA PushNames ==
  ASSUME NEW m, NEW l, Names(m, l), NEW n, NEW dev, dev \notin l,
         \A a \in l : n[a].name = m[a].name,
         NEW base \in Seq(Words), NEW x \in Nat, n[dev].name = Append(base, x),
         \A a \in l : Front(m[a].name) = base => Last(m[a].name) < x
  PROVE  Names(n, l \cup {dev})
<1>1. /\ n[dev].name # <<>> /\ Front(n[dev].name) = base /\ Last(n[dev].name) = x
  BY NameParts
<1>2. \A a \in l : n[a].name # <<>> /\ Last(n[a].name) \in Nat
  BY DEF Names
<1>3. ASSUME NEW a \in l, n[a].name = n[dev].name PROVE FALSE
  <2>1. m[a].name = n[dev].name
    BY <1>3
  <2>2. Front(m[a].name) = base /\ Last(m[a].name) = x
    BY <1>1, <2>1
  <2> QED BY <2>2
<1>4. \A a \in l \cup {dev} : n[a].name # <<>> /\ Last(n[a].name) \in Nat
  BY <1>1, <1>2
<1>5. ASSUME NEW a \in l \cup {dev}, NEW b \in l \cup {dev}, n[a].name = n[b].name PROVE a = b
  <2>1. a \in l \/ a = dev
    OBVIOUS
  <2>2. b \in l \/ b = dev
    OBVIOUS
  <2>3. a \in l /\ b \in l => a = b
    BY <1>5 DEF Names
  <2> QED BY <1>3, <1>5, <2>1, <2>2, <2>3
<1> QED BY <1>4, <1>5 DEF Names

\* The new device joins the family of the probe it was created for; its own is
\* still empty.
LEMMA PushKin ==
  ASSUME NEW s \in Seq(Frames), NEW f \in Frames, Shape(s), Shape(Append(s, f)),
         NEW m, NEW l, NEW d, Live(m, l, s, d), NEW h, Kin(m, h, s),
         s # <<>> => s[Len(s)].going = TRUE,
         NEW n, Adds(m, n, f.dev), f.dev \notin l, f.dev \notin h, f.kid = Null, f.going = TRUE,
         s # <<>> => n[f.dev].parent = s[Len(s)].dev
  PROVE  Kin(n, h \cup {f.dev}, Append(s, f))
<1> DEFINE t == Append(s, f)
           g == h \cup {f.dev}
<1>1. /\ Len(s) \in Nat /\ Len(t) = Len(s) + 1 /\ t[Len(s) + 1] = f
      /\ \A i \in 1 .. Len(s) : t[i] = s[i]
      /\ \A i \in 1 .. Len(t) : i \in 1 .. Len(s) \/ i = Len(s) + 1
  OBVIOUS
<1> HIDE DEF t
<1>2. \A i \in 1 .. Len(s) : s[i].dev \in l /\ s[i].dev \in Addr /\ s[i].dev # f.dev
  <2>1. \A i \in 1 .. Len(s) : s[i].dev \in l
    BY AllListed
  <2>2. ASSUME NEW i \in 1 .. Len(s) PROVE s[i].dev \in Addr
    <3>1. s[i] \in Frames
      OBVIOUS
    <3> QED BY <3>1 DEF Frames
  <2> QED BY <2>1, <2>2
<1>3. f.dev \in Addr /\ n[f.dev].first_child = Null /\ n[f.dev].sibling \in {Null, f.dev}
  BY DEF Frames, Adds
<1>4. ASSUME NEW i \in 1 .. Len(t), t[i].driver \in Fragile PROVE \E K : Family(K, n, g, t, i)
  <2>1. CASE i = Len(s) + 1
    <3>1. t[i] = f /\ ~(i < Len(t))
      BY <1>1, <2>1
    <3>2. Family({}, n, g, t, i)
      BY <1>3, <3>1 DEF Family
    <3> QED BY <3>2
  <2>2. CASE i \in 1 .. Len(s)
    <3>1. i >= Len(t) - 1
      BY <1>1, <1>4, <2>2 DEF Shape, t
    <3>2. i = Len(s) /\ t[i] = s[i] /\ ~(i < Len(s)) /\ t[i + 1] = f /\ s[i].going = TRUE
      BY <1>1, <2>2, <3>1
    <3>3. PICK K : Family(K, m, h, s, i)
      BY <1>4, <2>2, <3>2 DEF Kin, Families
    <3> DEFINE J == K \cup {f.dev}
    <3>4. K \subseteq h /\ K \subseteq Addr /\ f.dev \notin K
      BY <3>2, <3>3 DEF Family
    <3>5. J \subseteq Addr /\ J \subseteq g
      BY <1>3, <3>4
    <3>6. \A a \in J : n[a].sibling \in J \cup {Null} /\ n[a].parent = s[i].dev
      <4>1. ASSUME NEW a \in K PROVE n[a].sibling \in J \cup {Null} /\ n[a].parent = s[i].dev
        <5>1. a \in Addr \ {f.dev} /\ m[a].sibling \in K \cup {Null} /\ m[a].parent = s[i].dev
          BY <3>3, <3>4 DEF Family
        <5>2. n[a].sibling \in {m[a].sibling, f.dev} /\ n[a].parent = m[a].parent
          BY <5>1 DEF Adds, SameSelf
        <5> QED BY <5>1, <5>2
      <4>2. n[f.dev].parent = s[i].dev
        BY <2>2, <3>2
      <4> QED BY <1>3, <4>1, <4>2
    <3>7. n[s[i].dev].first_child \in J \cup {Null}
      <4>1. PICK x : x = s[i].dev
        OBVIOUS
      <4>2. x \in Addr \ {f.dev}
        BY <1>2, <2>2, <4>1
      <4>3. n[x].first_child \in {m[x].first_child, f.dev}
        BY <4>2 DEF Adds
      <4>4. m[x].first_child \in K \cup {Null}
        BY <3>3, <4>1 DEF Family
      <4> QED BY <4>1, <4>3, <4>4
    <3>8. s[i].kid \in J \cup {Null}
      BY <3>3 DEF Family
    <3>9. \A j \in 1 .. i : t[j].dev \notin J
      <4>1. ASSUME NEW j \in 1 .. i PROVE t[j].dev \notin J
        <5>1. j \in 1 .. Len(s) /\ t[j] = s[j]
          BY <1>1, <3>2
        <5>2. s[j].dev \notin K
          BY <3>3 DEF Family
        <5> QED BY <1>2, <5>1, <5>2
      <4> QED BY <4>1
    <3> HIDE DEF J, g
    <3>10. f.dev \in J
      BY DEF J
    <3>11. Family(J, n, g, t, i)
      BY <3>2, <3>5, <3>6, <3>7, <3>8, <3>9, <3>10 DEF Family
    <3> QED BY <3>11
  <2> QED BY <1>1, <2>1, <2>2
<1>5. TopKin(n, t[Len(t)])
  BY <1>1, <1>3 DEF TopKin
<1>6. t # <<>>
  BY <1>1
<1>7. Kin(n, g, t)
  BY <1>4, <1>5 DEF Kin, Families
<1> QED BY <1>7 DEF t

\* What the probe on top leaves when it goes on, starts to clean up or returns.
Settled(s, t, m) ==
    /\ t \in Seq(Frames) /\ Len(t) <= Len(s)
    /\ \A i \in 1 .. (Len(t) - 1) : t[i] = s[i]
    /\ t # <<>> => \/ Resumes(s[Len(t)], t[Len(t)])
                   \/ Unwinds(s[Len(t)], t[Len(t)], m)

LEMMA SettledShrinks ==
  ASSUME NEW s \in Seq(Frames), NEW t, NEW m, Settled(s, t, m), Shape(s)
  PROVE  /\ Shrinks(s, t) /\ Shape(t)
         /\ \A i \in 1 .. Len(t) : t[i].kid \in {s[i].kid, m[s[i].dev].first_child}
<1>1. /\ t \in Seq(Frames) /\ Len(t) \in Nat /\ Len(s) \in Nat /\ Len(t) <= Len(s)
      /\ \A i \in 1 .. Len(t) : i \in 1 .. Len(s) /\ s[i] \in Frames /\ t[i] \in Frames
      /\ \A i \in 1 .. Len(t) : i \in 1 .. (Len(t) - 1) \/ i = Len(t)
      /\ t # <<>> <=> Len(t) # 0
  BY DEF Settled
<1>2. ASSUME NEW i \in 1 .. Len(t)
      PROVE  /\ SameProbe(s[i], t[i]) /\ (t[i].going = TRUE => s[i].going = TRUE)
             /\ t[i].kid \in {s[i].kid, m[s[i].dev].first_child}
             /\ TodoFits(t[i].driver, t[i].todo)
  <2>1. TodoFits(s[i].driver, s[i].todo)
    BY <1>1 DEF Shape
  <2>2. CASE i \in 1 .. (Len(t) - 1)
    <3>1. t[i] = s[i]
      BY <2>2 DEF Settled
    <3> QED BY <1>1, <2>1, <3>1 DEF SameProbe
  <2>3. CASE i = Len(t)
    <3>1. PICK f : f = s[i]
      OBVIOUS
    <3>2. PICK g : g = t[i]
      OBVIOUS
    <3>3. t # <<>>
      BY <1>1, <2>3
    <3>4. Resumes(f, g) \/ Unwinds(f, g, m)
      BY <2>3, <3>1, <3>2, <3>3 DEF Settled
    <3>5. SameProbe(f, g) /\ g.kid \in {f.kid, m[f.dev].first_child}
      BY <3>4 DEF Resumes, Unwinds
    <3>6. g.going = TRUE => f.going = TRUE
      BY <3>4 DEF Resumes, Unwinds
    <3>7. TodoFits(g.driver, g.todo)
      BY <2>1, <3>1, <3>4 DEF Resumes, Unwinds, SameProbe
    <3> QED BY <3>1, <3>2, <3>5, <3>6, <3>7
  <2> QED BY <1>1, <2>2, <2>3
<1>3. Shrinks(s, t)
  BY <1>1, <1>2 DEF Shrinks, Settled
<1>4. t # <<>> => TodoFits(t[Len(t)].driver, t[Len(t)].todo)
  <2>1. t # <<>> => Len(t) \in 1 .. Len(t)
    BY <1>1
  <2> QED BY <1>2, <2>1
<1>5. Shape(t)
  BY <1>3, <1>4, ShrinkShape
<1> QED BY <1>2, <1>3, <1>5

\* Between memories m and n the links of the families still needed stay in
\* them, and while their probe is going none is given back to the heap.
FamiliesKept(s, t, m, h, n, g) ==
    \A i \in 1 .. Len(t) : \A K : t[i].driver \in Fragile /\ Family(K, m, h, s, i) =>
        /\ \A a \in K : n[a].sibling \in K \cup {Null}
        /\ t[i].kid \in K \cup {Null}
        /\ t[i].going = TRUE => h \subseteq g

SameChildren(m, n) == \A a \in Addr : n[a].first_child = m[a].first_child /\ n[a].parent = m[a].parent

LEMMA ShrinkKin ==
  ASSUME NEW s \in Seq(Frames), NEW t, Shrinks(s, t), NEW m, NEW h, Kin(m, h, s), NEW n, NEW g,
         SameChildren(m, n), FamiliesKept(s, t, m, h, n, g),
         t # <<>> => TopKin(n, t[Len(t)])
  PROVE  Kin(n, g, t)
<1>1. ASSUME NEW i \in 1 .. Len(t), t[i].driver \in Fragile PROVE \E K : Family(K, n, g, t, i)
  <2>1. i \in 1 .. Len(s) /\ t[i].driver = s[i].driver /\ s[i] \in Frames
    BY DEF Shrinks, SameProbe
  <2>2. PICK K : Family(K, m, h, s, i)
    BY <1>1, <2>1 DEF Kin, Families
  <2>3. s[i].dev \in Addr
    BY <2>1 DEF Frames
  <2>4. n[s[i].dev].first_child = m[s[i].dev].first_child
    BY <2>3 DEF SameChildren
  <2>5. /\ \A a \in K : n[a].sibling \in K \cup {Null}
        /\ t[i].kid \in K \cup {Null}
        /\ t[i].going = TRUE => h \subseteq g
    BY <1>1, <2>2 DEF FamiliesKept
  <2>6. \A a \in K : n[a].parent = m[a].parent
    BY <2>2 DEF SameChildren, Family
  <2>7. Family(K, n, g, t, i)
    BY <2>2, <2>4, <2>5, <2>6, ShrinkFamily
  <2> QED BY <2>7
<1> QED BY <1>1 DEF Kin, Families

-----------------------------------------------------------------------------
(* Names and children of the drivers.                                        *)

LEMMA BaseIsName ==
  ASSUME mem \in Memories, NEW driver \in Drivers, NEW parent, driver \in Roots \/ parent \in Addr
  PROVE  BaseName(driver, parent) \in Seq(Words)
<1>1. \A w \in Words : <<w>> \in Seq(Words)
  OBVIOUS
<1>2. CASE parent \in Addr /\ driver \in {"mbr", "gpt", "part"}
  <2>1. PICK name \in Seq(Words) : name = mem[parent].name
    BY <1>2 DEF Memories, Structs
  <2>2. Append(name, "pt") \in Seq(Words) /\ Append(name, "p") \in Seq(Words)
    BY DEF Words
  <2>3. BaseName(driver, parent) \in {Append(name, "pt"), Append(name, "p")}
    BY <1>2, <2>1 DEF BaseName
  <2> QED BY <2>2, <2>3
<1>3. CASE driver \notin {"mbr", "gpt", "part"}
  <2>1. \E w \in Words : BaseName(driver, parent) = <<w>>
    BY <1>3 DEF BaseName, Drivers, Words
  <2> QED BY <1>1, <2>1
<1> QED BY <1>2, <1>3 DEF Roots

LEMMA ChildrenFit ==
  ASSUME NEW driver \in Drivers, NEW kids \in Children(driver)
  PROVE  kids \in Seq(Drivers) /\ TodoFits(driver, kids)
<1>1. CASE driver = "i8042"
  <2>1. kids = <<"ps2_mouse", "ps2_keyboard">>
    BY <1>1 DEF Children
  <2> QED BY <1>1, <2>1 DEF TodoFits, Drivers, Fragile, IgnoresFailure
<1>2. CASE driver = "fdc_isa"
  <2>1. kids = [i \in 1 .. Floppies |-> "floppy"] /\ Floppies \in Nat
    BY <1>2, SizeAssumption DEF Children
  <2> QED BY <1>2, <2>1 DEF TodoFits, Drivers, Fragile, IgnoresFailure, Leaves
<1>3. CASE driver = "ide_isa"
  <2>1. PICK n \in 0 .. Drives : kids \in [1 .. n -> {"ata", "atapi"}]
    BY <1>3 DEF Children
  <2>2. n \in Nat
    BY SizeAssumption
  <2> QED BY <1>3, <2>1, <2>2 DEF TodoFits, Drivers, Fragile, IgnoresFailure
<1>4. CASE driver = "ata"
  <2>1. kids = <<"mbr", "gpt">>
    BY <1>4 DEF Children
  <2> QED BY <1>4, <2>1 DEF TodoFits, Drivers, Fragile, IgnoresFailure
<1>5. CASE driver \in {"mbr", "gpt"}
  <2>1. PICK n \in 0 .. MaxParts : kids = [i \in 1 .. n |-> "part"]
    BY <1>5 DEF Children
  <2>2. n \in Nat
    BY SizeAssumption
  <2> QED BY <1>5, <2>1, <2>2 DEF TodoFits, Drivers, Fragile, IgnoresFailure, Leaves
<1>6. CASE driver \notin {"i8042", "fdc_isa", "ide_isa", "ata", "mbr", "gpt"}
  <2>1. kids = <<>>
    BY <1>6 DEF Children
  <2> QED BY <1>6, <2>1 DEF TodoFits, Fragile
<1> QED BY <1>1, <1>2, <1>3, <1>4, <1>5, <1>6

-----------------------------------------------------------------------------
(* The invariant of the specification, and the steps that keep it.           *)

ProbeInv ==
    /\ RegistryInv /\ PlanInv
    /\ mem \in Memories /\ stack \in Seq(Frames)
    /\ Names(mem, ToSet(list))
    /\ Shape(stack)
    /\ Live(mem, ToSet(list), stack, detected)
    /\ Kin(mem, heap, stack)

LEMMA ListAppended ==
  ASSUME NEW l \in Seq(Addr), NEW x \in Addr
  PROVE  ToSet(Append(l, x)) = ToSet(l) \cup {x}
<1>1. /\ Append(l, x) \in Seq(Addr) /\ Len(Append(l, x)) = Len(l) + 1 /\ Len(l) \in Nat
      /\ Append(l, x)[Len(l) + 1] = x /\ \A i \in 1 .. Len(l) : Append(l, x)[i] = l[i]
      /\ \A i \in 1 .. (Len(l) + 1) : i \in 1 .. Len(l) \/ i = Len(l) + 1
      /\ \A i \in 1 .. Len(l) : i \in 1 .. (Len(l) + 1)
      /\ Len(l) + 1 \in 1 .. (Len(l) + 1)
  OBVIOUS
<1>2. PICK k \in Seq(Addr) : k = Append(l, x)
  BY <1>1
<1>3. ToSet(l) = {l[i] : i \in 1 .. Len(l)} /\ ToSet(k) = {k[i] : i \in 1 .. Len(k)}
  BY DEF ToSet
<1>4. ToSet(k) = ToSet(l) \cup {x}
  BY <1>1, <1>2, <1>3
<1> QED BY <1>2, <1>4

\* The name and the private data are filled in.
Filled(n, dev, name) == [n EXCEPT ![dev].name = name, ![dev].data = "live"]

LEMMA NamedAdds ==
  ASSUME NEW m, NEW n, NEW dev \in Addr, Adds(m, n, dev), NEW name \in Seq(Words),
         NEW k, k = Filled(n, dev, name)
  PROVE  Adds(m, k, dev) /\ k[dev].name = name /\ k[dev].data = "live" /\ k[dev].parent = n[dev].parent
<1>1. n \in Memories /\ n[dev] \in Structs /\ "live" \in Data
  BY DEF Adds, Memories, Data
<1>2. PICK b : b = [n[dev] EXCEPT !.name = name, !.data = "live"]
  OBVIOUS
<1>3. /\ b \in Structs /\ b.name = name /\ b.data = "live"
      /\ b.first_child = n[dev].first_child /\ b.sibling = n[dev].sibling
      /\ b.parent = n[dev].parent
  BY <1>1, <1>2 DEF Structs
<1>4. k = [n EXCEPT ![dev] = b]
  BY <1>1, <1>2, Zenon DEF Memories, Filled
<1>5. k \in Memories /\ k[dev] = b /\ \A a \in Addr \ {dev} : k[a] = n[a]
  BY <1>1, <1>3, <1>4 DEF Memories
<1>6. \A a \in Addr \ {dev} : /\ SameSelf(m, k, a)
                             /\ k[a].sibling \in {m[a].sibling, dev}
                             /\ k[a].first_child \in {m[a].first_child, dev}
  BY <1>5 DEF Adds, SameSelf
<1>7. k[dev].first_child = Null /\ k[dev].sibling \in {Null, dev}
  BY <1>3, <1>5 DEF Adds
<1> QED BY <1>3, <1>5, <1>6, <1>7 DEF Adds

LEMMA BeginKeepsProbes ==
  ASSUME ProbeInv, stage = "boot", NEW driver \in Drivers, NEW parent \in Devs,
         Begin(driver, parent),
         parent \in ToSet(list) \cup {Null}, driver \in Roots \/ parent \in Addr,
         stack # <<>> => parent = stack[Len(stack)].dev,
         stack # <<>> => /\ stack[Len(stack)].going = TRUE /\ stack[Len(stack)].todo # <<>>
                         /\ driver = stack[Len(stack)].todo[1]
  PROVE  ProbeInv'
<1>1. PICK dev \in FreeAddr, kids \in Children(driver), disk \in Disks(driver) :
        /\ heap' = heap \cup {dev}
        /\ list' = Append(list, dev)
        /\ mem' = [VlDev_Create(dev, driver, parent) EXCEPT
                      ![dev].name = VlDev_GenerateName(BaseName(driver, parent)),
                      ![dev].data = "live"]
        /\ stack' = Append(stack, [dev |-> dev, driver |-> driver, todo |-> kids,
                                   fresh |-> TRUE, disk |-> disk,
                                   going |-> TRUE, kid |-> Null])
        /\ UNCHANGED <<plan, stage, detected>>
  BY Zenon DEF Begin
<1>2. PICK s \in Seq(Frames) : s = stack
  BY DEF ProbeInv
<1>3. PICK m \in Memories : m = mem
  BY DEF ProbeInv
<1>4. PICK l : l = ToSet(list)
  OBVIOUS
<1>5. dev \in Addr /\ dev \notin heap
  BY <1>1 DEF FreeAddr
<1>6. l \subseteq heap /\ dev \notin l /\ parent # dev
  <2>1. l \subseteq heap
    BY <1>4 DEF ProbeInv, RegistryInv, ToSet
  <2>2. dev # Null
    BY <1>5, AddrAssumption DEF Null
  <2> QED BY <1>4, <1>5, <2>1, <2>2
<1>7. PICK base \in Seq(Words) : base = BaseName(driver, parent)
  BY BaseIsName DEF ProbeInv
<1>8. PICK x \in Nat : /\ VlDev_GenerateName(base) = Append(base, x)
                       /\ \A a \in Named(base) : Last(mem[a].name) < x
  <2>1. Numbered
    BY DEF ProbeInv, Names, Numbered
  <2> QED BY <2>1, NewNumber DEF ProbeInv
<1>9. \A a \in l : Front(m[a].name) = base => Last(m[a].name) < x
  BY <1>3, <1>4, <1>8 DEF Named, ProbeInv, Names
<1>10. PICK name \in Seq(Words) : name = Append(base, x)
  BY NameParts
<1>11. PICK n : n = mem'
  OBVIOUS
<1>12. Adds(m, n, dev) /\ n[dev].name = name /\ n[dev].data = "live" /\ n[dev].parent = parent
  <2>1. PICK c : c = VlDev_Create(dev, driver, parent)
    OBVIOUS
  <2>2. Adds(m, c, dev) /\ c[dev].parent = parent
    BY <1>3, <1>5, <1>6, <2>1, CreateAdds DEF ProbeInv
  <2>3. n = Filled(c, dev, name)
    BY <1>1, <1>7, <1>8, <1>10, <1>11, <2>1, Zenon DEF Filled
  <2> QED BY <1>5, <2>2, <2>3, NamedAdds
<1>13. PICK f : f = [dev |-> dev, driver |-> driver, todo |-> kids, fresh |-> TRUE, disk |-> disk,
                     going |-> TRUE, kid |-> Null]
  OBVIOUS
<1>14. kids \in Seq(Drivers) /\ TodoFits(driver, kids)
  BY <1>1, ChildrenFit
<1>15. f \in Frames
  <2>1. disk \in {"mbr", "gpt", "none"} /\ Null \in Devs
    BY <1>1 DEF Disks, Devs
  <2> QED BY <1>5, <1>13, <1>14, <2>1 DEF Frames
<1>16. f.dev = dev /\ f.driver = driver /\ f.todo = kids /\ f.kid = Null
  BY <1>13
<1>17. f.going = TRUE
  BY <1>13
<1>18. /\ Shape(s) /\ Live(m, l, s, detected) /\ Kin(m, heap, s) /\ Names(m, l)
  BY <1>2, <1>3, <1>4 DEF ProbeInv
<1>19. s # <<>> => /\ s[Len(s)].going = TRUE /\ s[Len(s)].todo # <<>>
                   /\ f.driver = s[Len(s)].todo[1]
  BY <1>2, <1>16
<1>20. ToSet(list') = l \cup {dev}
  BY <1>1, <1>4, <1>5, ListAppended DEF ProbeInv, RegistryInv
<1>21. \A a \in l : n[a].name = m[a].name /\ n[a].data = m[a].data
  <2>1. l \subseteq Addr \ {dev}
    BY <1>4, <1>6 DEF ProbeInv, RegistryInv, ToSet
  <2> QED BY <1>12, <2>1 DEF Adds, SameSelf
<1>22. stack' = Append(s, f)
  BY <1>1, <1>2, <1>13, Zenon
<1>23. Shape(Append(s, f))
  BY <1>14, <1>15, <1>16, <1>18, <1>19, PushShape
<1>24. Live(n, l \cup {dev}, Append(s, f), detected)
  <2>1. s # <<>> => s[Len(s)].going = TRUE
    BY <1>19
  <2>2. /\ f \in Frames /\ f.dev \notin l /\ l \cup {dev} = l \cup {f.dev}
        /\ n[f.dev].data = "live" /\ \A a \in l : n[a].data = m[a].data
    BY <1>6, <1>12, <1>15, <1>16, <1>21
  <2>3. Shape(s) /\ Live(m, l, s, detected)
    BY <1>18
  <2>4. PICK k : k = l \cup {dev}
    OBVIOUS
  <2>5. PICK d : d = detected
    OBVIOUS
  <2>6. k = l \cup {f.dev}
    BY <2>2, <2>4
  <2>7. Live(m, l, s, d)
    BY <2>3, <2>5
  <2>8. f.dev \notin l
    BY <2>2
  <2>9. n[f.dev].data = "live"
    BY <2>2
  <2>10. \A a \in l : n[a].data = m[a].data
    BY <2>2
  <2>11. Live(n, k, Append(s, f), d)
    BY ONLY <2>1, <1>15, <2>3, <2>6, <2>7, <2>8, <2>9, <2>10, PushLive, s \in Seq(Frames), ZenonT(60)
  <2> QED BY <2>4, <2>5, <2>11, Zenon
<1>25. Names(n, l \cup {dev})
  <2>1. n[dev].name = Append(base, x) /\ \A a \in l : n[a].name = m[a].name
    BY <1>10, <1>12, <1>21
  <2>2. Names(m, l) /\ dev \notin l
    BY <1>6, <1>18
  <2>3. base \in Seq(Words) /\ x \in Nat
    BY <1>7, <1>8
  <2> QED BY <1>9, <2>1, <2>2, <2>3, PushNames, Zenon
<1>26. Kin(n, heap \cup {dev}, Append(s, f))
  <2>1. s # <<>> => n[f.dev].parent = s[Len(s)].dev
    BY <1>2, <1>12, <1>16
  <2> QED BY <1>5, <1>6, <1>12, <1>15, <1>16, <1>17, <1>18, <1>19, <1>23, <2>1, PushKin
<1>27. RegistryInv'
  BY BeginKeeps DEF ProbeInv
<1>28. PlanInv'
  BY <1>1 DEF ProbeInv, PlanInv
<1>29. n \in Memories /\ Append(s, f) \in Seq(Frames)
  BY <1>12, <1>15 DEF Adds
<1> QED BY <1>1, <1>11, <1>20, <1>22, <1>23, <1>24, <1>25, <1>26, <1>27, <1>28, <1>29 DEF ProbeInv

\* VlDev_Remove adds nothing to the list.
LEMMA RemoveListed ==
  ASSUME RegistryInv, NEW m, NEW dev, list' = VlDev_Remove(m, dev).list
  PROVE  ToSet(list') \subseteq ToSet(list) /\ ToSet(list) \ {dev} \subseteq ToSet(list')
<1> DEFINE prev == {i \in Scanned(m, dev) : list[i + 1] = dev}
           at == CHOOSE i \in prev : TRUE
           L == ToSet(list)
<1>1. ToSet(list) \ {dev} \subseteq ToSet(list')
  BY RemoveTakesOne DEF Gone
<1>2. list \in Seq(Addr) /\ Distinct(list) /\ \A i \in 1 .. Len(list) : list[i] \in L
  BY DEF RegistryInv, ToSet
<1> HIDE DEF L
<1>3. \/ list' = list
      \/ list # <<>> /\ list' = Tail(list)
      \/ \E k \in 1 .. Len(list) : list' = RemoveAt(list, k)
  <2>1. CASE prev = {}
    BY <2>1 DEF VlDev_Remove
  <2>2. CASE prev # {}
    <3>1. at \in 1 .. (Len(list) - 1)
      BY <2>2 DEF Scanned
    <3>2. list' = RemoveAt(list, at + 1)
      BY <2>2 DEF VlDev_Remove
    <3>3. at + 1 \in 1 .. Len(list)
      BY <1>2, <3>1
    <3> QED BY <3>2, <3>3
  <2> QED BY <2>1, <2>2
<1>4. list' \in Seq(Addr) /\ \A i \in 1 .. Len(list') : list'[i] \in L
  <2>1. CASE list' = list
    BY <1>2, <2>1
  <2>2. CASE list # <<>> /\ list' = Tail(list)
    BY <1>2, <2>2, TailKeeps
  <2>3. CASE \E k \in 1 .. Len(list) : list' = RemoveAt(list, k)
    <3>1. PICK k \in 1 .. Len(list) : list' = RemoveAt(list, k)
      BY <2>3
    <3>2. /\ RemoveAt(list, k) \in Seq(Addr)
          /\ \A i \in 1 .. Len(RemoveAt(list, k)) : RemoveAt(list, k)[i] \in L \ {list[k]}
      BY <1>2, Removed
    <3> QED BY <3>1, <3>2
  <2> QED BY <1>3, <2>1, <2>2, <2>3
<1>5. ToSet(list') \subseteq L
  BY <1>4 DEF ToSet
<1> QED BY <1>1, <1>5 DEF L

LEMMA FrontFrames ==
  ASSUME NEW s \in Seq(Frames), s # <<>>
  PROVE  /\ Front(s) \in Seq(Frames) /\ Len(Front(s)) = Len(s) - 1 /\ Len(s) \in Nat /\ Len(s) # 0
         /\ \A i \in 1 .. (Len(s) - 1) : Front(s)[i] = s[i]
         /\ Front(s) # <<>> <=> Len(Front(s)) # 0
<1>1. PICK e \in Nat : e = Len(s) - 1
  OBVIOUS
<1>2. \A i \in 1 .. e : s[i] \in Frames
  BY <1>1
<1>3. /\ SubSeq(s, 1, e) \in Seq(Frames)
      /\ Len(SubSeq(s, 1, e)) = IF 1 <= e THEN e - 1 + 1 ELSE 0
      /\ \A i \in 1 .. e - 1 + 1 : SubSeq(s, 1, e)[i] = s[1 + i - 1]
  BY <1>1, <1>2, SubSeqProperties
<1>4. e - 1 + 1 = e /\ \A i \in 1 .. e : 1 + i - 1 = i
  BY <1>1
<1>5. Len(SubSeq(s, 1, e)) = e
  BY <1>1, <1>3
<1>6. Front(s) = SubSeq(s, 1, e)
  BY <1>1 DEF Front
<1>7. PICK f \in Seq(Frames) : f = SubSeq(s, 1, e)
  BY <1>3
<1>8. Len(f) = e /\ \A i \in 1 .. e : f[i] = s[i]
  BY <1>3, <1>4, <1>5, <1>7
<1>9. f # <<>> <=> Len(f) # 0
  OBVIOUS
<1> QED BY <1>1, <1>6, <1>7, <1>8, <1>9

\* A probe returns, with or without success.
LEMMA ReturnSettles ==
  ASSUME ProbeInv, stack # <<>>, NEW c \in Seq(Frames), c = stack \/ c = Caller,
         c = stack => Top.going = TRUE /\ Top.todo # <<>>,
         Return(c, TRUE) \/ Return(c, FALSE), mem' \in Memories
  PROVE  /\ PlanInv' /\ Settled(stack, stack', mem') /\ Len(stack') = Len(c)
         /\ stack' # <<>> => TopKin(mem', stack'[Len(stack')])
         /\ stack' # <<>> /\ Return(c, FALSE) /\ c[Len(c)].driver \in Fragile =>
              stack'[Len(stack')].going = FALSE
<1>1. PICK s \in Seq(Frames) : s = stack
  BY DEF ProbeInv
<1>2. /\ Len(c) \in Nat /\ Len(s) \in Nat /\ Len(c) <= Len(s) /\ Len(s) # 0
      /\ \A i \in 1 .. Len(c) : c[i] = s[i] /\ i \in 1 .. Len(s)
      /\ Len(c) = Len(s) \/ Len(c) = Len(s) - 1
      /\ c # <<>> <=> Len(c) # 0
  <2>1. CASE c = stack
    BY <1>1, <2>1
  <2>2. CASE c = Caller
    <3>1. c = Front(s)
      BY <1>1, <2>2 DEF Caller
    <3>2. /\ Len(c) = Len(s) - 1 /\ Len(s) \in Nat /\ Len(s) # 0
          /\ \A i \in 1 .. (Len(s) - 1) : c[i] = s[i]
          /\ c # <<>> <=> Len(c) # 0
      BY <1>1, <3>1, FrontFrames
    <3> QED BY <3>2
  <2> QED BY <2>1, <2>2
<1>3. Shape(s) /\ PlanInv
  BY <1>1 DEF ProbeInv
<1>4. PICK n : n = Len(c)
  OBVIOUS
<1>5. ASSUME c # <<>>
      PROVE  c[n].going = TRUE /\ c[n].todo # <<>> /\ TodoFits(c[n].driver, c[n].todo)
  <2>1. n \in 1 .. Len(s) /\ c[n] = s[n]
    BY <1>2, <1>4, <1>5
  <2>2. TodoFits(c[n].driver, c[n].todo)
    BY <1>3, <2>1 DEF Shape
  <2>3. CASE c = stack
    BY <1>4, <2>2, <2>3 DEF Top
  <2>4. CASE c # stack
    <3>1. n \in 1 .. (Len(s) - 1)
      <4>1. Len(c) # Len(s)
        BY <1>1, <1>2, <2>4
      <4> QED BY <1>2, <1>4, <1>5, <4>1
    <3> QED BY <1>3, <2>1, <2>2, <3>1 DEF Shape
  <2> QED BY <2>3, <2>4
<1>6. /\ PlanInv' /\ stack' \in Seq(Frames) /\ Len(stack') = Len(c)
      /\ \A i \in 1 .. (Len(c) - 1) : stack'[i] = c[i]
      /\ c # <<>> => \/ Resumes(c[n], stack'[n])
                     \/ c[n].driver \in Fragile /\ Unwinds(c[n], stack'[n], mem')
      /\ c # <<>> /\ Return(c, FALSE) /\ c[n].driver \notin IgnoresFailure =>
           Unwinds(c[n], stack'[n], mem')
  <2>1. CASE Return(c, FALSE)
    BY <1>3, <1>4, <1>5, <2>1, ReturnFailed
  <2>2. CASE Return(c, TRUE) /\ ~Return(c, FALSE)
    BY <1>3, <1>4, <1>5, <2>2, ReturnOk
  <2> QED BY <2>1, <2>2
<1>7. PICK t \in Seq(Frames) : t = stack'
  BY <1>6
<1>8. PICK m : m = mem'
  OBVIOUS
<1>9. t # <<>> <=> c # <<>>
  BY <1>2, <1>6, <1>7
<1>10. c # <<>> => c[n] = s[n]
  BY <1>2, <1>4
<1>11. Settled(s, t, m)
  <2>1. \A i \in 1 .. (Len(t) - 1) : t[i] = s[i]
    BY <1>2, <1>6, <1>7
  <2>2. Len(t) <= Len(s) /\ Len(t) = n
    BY <1>2, <1>4, <1>6, <1>7
  <2>3. t # <<>> => \/ Resumes(s[n], t[n]) \/ Unwinds(s[n], t[n], m)
    BY <1>6, <1>7, <1>8, <1>9, <1>10
  <2> QED BY <2>1, <2>2, <2>3 DEF Settled
<1>12. ASSUME t # <<>> PROVE TopKin(m, t[n])
  <2>1. PICK f : f = c[n]
    OBVIOUS
  <2>2. PICK g : g = t[n]
    OBVIOUS
  <2>3. f.going = TRUE
    BY <1>5, <1>9, <1>12, <2>1
  <2>4. \/ Resumes(f, g)
        \/ f.driver \in Fragile /\ Unwinds(f, g, m)
    BY <1>6, <1>7, <1>8, <1>9, <1>12, <2>1, <2>2
  <2>5. TopKin(m, g)
    <3>1. CASE Resumes(f, g)
      <4>1. g.going = TRUE /\ g.fresh = FALSE
        BY <2>3, <3>1 DEF Resumes
      <4> QED BY <4>1 DEF TopKin
    <3>2. CASE f.driver \in Fragile /\ Unwinds(f, g, m)
      <4>1. g.going = FALSE /\ g.driver \in Fragile
        BY <3>2 DEF Unwinds, SameProbe
      <4> QED BY <4>1 DEF TopKin
    <3> QED BY <2>4, <3>1, <3>2
  <2> QED BY <2>2, <2>5
<1>13. ASSUME t # <<>>, Return(c, FALSE), c[n].driver \in Fragile PROVE t[n].going = FALSE
  <2>1. c[n].driver \notin IgnoresFailure
    BY <1>13 DEF Fragile, IgnoresFailure
  <2>2. Unwinds(c[n], t[n], m)
    BY <1>6, <1>7, <1>8, <1>9, <1>13, <2>1
  <2> QED BY <2>2 DEF Unwinds
<1> QED BY <1>1, <1>4, <1>6, <1>7, <1>8, <1>11, <1>12, <1>13

\* Nothing but the stack, the plan and what is detected changes.
LEMMA ReturnKeepsProbes ==
  ASSUME ProbeInv, stack # <<>>, NEW c \in Seq(Frames), c = stack \/ c = Caller,
         c = stack => Top.going = TRUE /\ Top.todo # <<>>,
         Return(c, TRUE) \/ Return(c, FALSE), UNCHANGED <<mem, heap, list>>,
         \/ detected' = detected
         \/ detected' = detected \cup {Top.dev} /\ c = Caller /\ Top.going = TRUE
  PROVE  ProbeInv'
<1>1. PICK s \in Seq(Frames) : s = stack
  BY DEF ProbeInv
<1>2. PICK m \in Memories : m = mem
  BY DEF ProbeInv
<1>3. PICK l : l = ToSet(list)
  OBVIOUS
<1>4. /\ Shape(s) /\ Live(m, l, s, detected) /\ Kin(m, heap, s) /\ Names(m, l)
  BY <1>1, <1>2, <1>3 DEF ProbeInv
<1>5. /\ PlanInv' /\ Settled(stack, stack', mem') /\ Len(stack') = Len(c)
      /\ stack' # <<>> => TopKin(mem', stack'[Len(stack')])
  BY <1>2, ReturnSettles
<1>6. PICK t : t = stack'
  OBVIOUS
<1>7. Settled(s, t, m) /\ Len(t) = Len(c) /\ (t # <<>> => TopKin(m, t[Len(t)]))
  BY <1>1, <1>2, <1>5, <1>6
<1>8. /\ t \in Seq(Frames) /\ Shrinks(s, t) /\ Shape(t)
      /\ \A i \in 1 .. Len(t) : t[i].kid \in {s[i].kid, m[s[i].dev].first_child}
  BY <1>4, <1>7, SettledShrinks DEF Settled
<1>9. Live(m, l, t, detected')
  <2>1. CASE detected' = detected
    <3>1. Live(m, l, t, detected)
      BY <1>4, <1>8, SameLive
    <3> QED BY <2>1, <3>1
  <2>2. CASE detected' = detected \cup {Top.dev} /\ c = Caller /\ Top.going = TRUE
    <3>1. Len(c) = Len(s) - 1
      BY <1>1, <2>2, FrontFrames DEF Caller
    <3>2. s[Len(s)].going = TRUE /\ Top = s[Len(s)]
      BY <1>1, <2>2 DEF Top
    <3> QED BY <1>4, <1>7, <1>8, <2>2, <3>1, <3>2, DetectLive
  <2> QED BY <2>1, <2>2
<1>10. Kin(m, heap, t)
  <2>1. ASSUME NEW i \in 1 .. Len(t), NEW K, t[i].driver \in Fragile, Family(K, m, heap, s, i)
        PROVE  /\ \A a \in K : m[a].sibling \in K \cup {Null}
               /\ t[i].kid \in K \cup {Null}
               /\ t[i].going = TRUE => heap \subseteq heap
    BY <1>8, <2>1 DEF Family
  <2>2. FamiliesKept(s, t, m, heap, m, heap) /\ SameChildren(m, m)
    BY <2>1 DEF FamiliesKept, SameChildren
  <2> QED BY <1>4, <1>7, <1>8, <2>2, ShrinkKin
<1>11. RegistryInv'
  BY DEF ProbeInv, RegistryInv, Distinct
<1> QED BY <1>2, <1>3, <1>4, <1>5, <1>6, <1>8, <1>9, <1>10, <1>11 DEF ProbeInv

\* A probe fails and turns to its children.
LEMMA FailKeepsProbes == ASSUME ProbeInv, Fail PROVE ProbeInv'
<1>1. PICK s \in Seq(Frames) : s = stack
  BY DEF ProbeInv
<1>2. PICK m \in Memories : m = mem
  BY DEF ProbeInv
<1>3. PICK l : l = ToSet(list)
  OBVIOUS
<1>4. /\ Shape(s) /\ Live(m, l, s, detected) /\ Kin(m, heap, s) /\ Names(m, l)
  BY <1>1, <1>2, <1>3 DEF ProbeInv
<1>5. PICK n \in 1 .. Len(s) : n = Len(s)
  BY <1>1 DEF Fail
<1>6. PICK f \in Frames : f = s[n]
  BY <1>5
<1>7. PICK g : g = Unwinding(f, m)
  OBVIOUS
<1>8. Unwinds(f, g, m)
  BY <1>7, UnwindingUnwinds
<1>9. PICK t : t = [s EXCEPT ![n] = g]
  OBVIOUS
<1>10. stack' = t
  BY <1>1, <1>2, <1>5, <1>6, <1>7, <1>9, Zenon DEF Fail
<1>11. /\ t \in Seq(Frames) /\ Len(t) = Len(s) /\ t[n] = g
       /\ \A i \in 1 .. (Len(t) - 1) : t[i] = s[i]
  BY <1>5, <1>8, <1>9 DEF Unwinds, SameProbe
<1>12. Settled(s, t, m)
  BY <1>5, <1>6, <1>8, <1>11 DEF Settled
<1>13. /\ Shrinks(s, t) /\ Shape(t)
       /\ \A i \in 1 .. Len(t) : t[i].kid \in {s[i].kid, m[s[i].dev].first_child}
  BY <1>4, <1>12, SettledShrinks
<1>14. TopKin(m, g)
  <2>1. g.going = FALSE /\ g.driver = f.driver /\ g.kid = m[f.dev].first_child
    BY <1>8 DEF Unwinds, SameProbe
  <2>2. TopKin(m, f) /\ Top = f
    BY <1>1, <1>4, <1>5, <1>6 DEF Kin, Top
  <2>3. f.going /\ (f.fresh \/ (f.driver \in {"mbr", "gpt"} /\ f.todo # <<>>))
    BY <2>2, Zenon DEF Fail
  <2>4. CASE f.driver \in Fragile
    BY <2>1, <2>4 DEF TopKin
  <2>5. CASE f.driver \notin Fragile
    <3>1. f.going /\ f.fresh
      BY <2>3, <2>5 DEF Fragile
    <3>2. f.going = TRUE /\ f.fresh = TRUE
      BY <3>1 DEF Frames
    <3>3. m[f.dev].first_child = Null
      BY <2>2, <3>2 DEF TopKin
    <3> QED BY <2>1, <3>3 DEF TopKin
  <2> QED BY <2>4, <2>5
<1>15. Live(m, l, t, detected)
  BY <1>4, <1>13, SameLive
<1>16. Kin(m, heap, t)
  <2>1. ASSUME NEW i \in 1 .. Len(t), NEW K, t[i].driver \in Fragile, Family(K, m, heap, s, i)
        PROVE  /\ \A a \in K : m[a].sibling \in K \cup {Null}
               /\ t[i].kid \in K \cup {Null}
               /\ t[i].going = TRUE => heap \subseteq heap
    BY <1>13, <2>1 DEF Family
  <2>2. t # <<>> => TopKin(m, t[Len(t)])
    BY <1>5, <1>11, <1>14
  <2>3. FamiliesKept(s, t, m, heap, m, heap) /\ SameChildren(m, m)
    BY <2>1 DEF FamiliesKept, SameChildren
  <2> QED BY <1>4, <1>13, <2>2, <2>3, ShrinkKin
<1>17. RegistryInv' /\ PlanInv'
  <2>1. stack' # <<>> => stack # <<>>
    BY <1>1, <1>5
  <2> QED BY <2>1 DEF ProbeInv, RegistryInv, Distinct, PlanInv, Fail
<1>18. mem' = m /\ heap' = heap /\ ToSet(list') = l /\ detected' = detected
  BY <1>2, <1>3 DEF Fail
<1> QED BY <1>4, <1>10, <1>11, <1>13, <1>15, <1>16, <1>17, <1>18 DEF ProbeInv

\* A structure is marked as freed and taken out of the list: what is left of
\* the memory and of the list.
LEMMA RemoveEffect ==
  ASSUME ProbeInv, NEW x \in Addr, NEW f, f = WithData(mem, x, "freed"),
         mem' = VlDev_Remove(f, x).mem, list' = VlDev_Remove(f, x).list
  PROVE  /\ mem' \in Memories
         /\ \A a \in Addr : /\ mem'[a].name = mem[a].name
                            /\ mem'[a].first_child = mem[a].first_child
                            /\ mem'[a].parent = mem[a].parent
                            /\ mem'[a].sibling \in {mem[a].sibling, mem[x].sibling}
                            /\ a # x => mem'[a].data = mem[a].data
         /\ ToSet(list') \subseteq ToSet(list) /\ ToSet(list) \ {x} \subseteq ToSet(list')
<1>1. PICK m \in Memories : m = mem
  BY DEF ProbeInv
<1>2. "freed" \in Data
  BY DEF Data
<1>3. f = WithData(m, x, "freed")
  BY <1>1
<1>4. /\ f \in Memories
      /\ \A a \in Addr : /\ f[a].name = m[a].name /\ f[a].sibling = m[a].sibling
                         /\ f[a].first_child = m[a].first_child /\ f[a].parent = m[a].parent
                         /\ a # x => f[a].data = m[a].data
  BY <1>2, <1>3, SetData
<1>5. PICK n : n = mem'
  OBVIOUS
<1>6. Drops(f, n, x)
  BY <1>4, <1>5, RemoveDrops
<1>7. \A a \in Addr : /\ n[a].name = m[a].name /\ n[a].first_child = m[a].first_child
                      /\ n[a].parent = m[a].parent
                      /\ n[a].sibling \in {m[a].sibling, m[x].sibling}
                      /\ a # x => n[a].data = m[a].data
  BY <1>4, <1>6 DEF Drops, SameSelf
<1>8. n \in Memories
  BY <1>6 DEF Drops
<1>9. ToSet(list') \subseteq ToSet(list) /\ ToSet(list) \ {x} \subseteq ToSet(list')
  BY RemoveListed DEF ProbeInv
<1> QED BY <1>1, <1>5, <1>7, <1>8, <1>9

LEMMA GiveUpKeepsProbes == ASSUME ProbeInv, GiveUp PROVE ProbeInv'
<1>1. PICK s \in Seq(Frames) : s = stack
  BY DEF ProbeInv
<1>2. PICK m \in Memories : m = mem
  BY DEF ProbeInv
<1>3. PICK l : l = ToSet(list)
  OBVIOUS
<1>4. /\ Shape(s) /\ Live(m, l, s, detected) /\ Kin(m, heap, s) /\ Names(m, l)
      /\ l \subseteq Addr
  BY <1>1, <1>2, <1>3 DEF ProbeInv, RegistryInv, ToSet
<1>5. /\ stack # <<>> /\ Return(Caller, FALSE) /\ detected' = detected
      /\ mem' = VlDev_Remove([mem EXCEPT ![Top.dev].data = "freed"], Top.dev).mem
      /\ list' = VlDev_Remove([mem EXCEPT ![Top.dev].data = "freed"], Top.dev).list
  BY Zenon DEF GiveUp
<1>6. PICK x : x = Top.dev
  OBVIOUS
<1>7. Len(s) \in Nat /\ Len(s) \in 1 .. Len(s) /\ x = s[Len(s)].dev /\ x \in Addr
  <2>1. Len(s) \in Nat /\ Len(s) \in 1 .. Len(s) /\ s[Len(s)] \in Frames
    BY <1>1, <1>5
  <2> QED BY <1>1, <1>6, <2>1 DEF Top, Frames
<1>8. PICK n : n = mem'
  OBVIOUS
<1>9. /\ n \in Memories
      /\ \A a \in Addr : /\ n[a].name = m[a].name
                         /\ n[a].first_child = m[a].first_child /\ n[a].parent = m[a].parent
                         /\ n[a].sibling \in {m[a].sibling, m[x].sibling}
                         /\ a # x => n[a].data = m[a].data
      /\ ToSet(list') \subseteq l /\ l \ {x} \subseteq ToSet(list')
  <2>1. PICK f : f = WithData(mem, x, "freed")
    OBVIOUS
  <2>2. mem' = VlDev_Remove(f, x).mem /\ list' = VlDev_Remove(f, x).list
    BY <1>5, <1>6, <2>1, Zenon DEF WithData
  <2> QED BY <1>2, <1>3, <1>7, <1>8, <2>1, <2>2, RemoveEffect
<1>10. PICK c \in Seq(Frames) : c = Caller /\ Len(c) = Len(s) - 1 /\ (c # <<>> <=> Len(c) # 0)
                                /\ \A i \in 1 .. Len(c) : c[i] = s[i]
  BY <1>1, <1>5, FrontFrames DEF Caller
<1>11. PICK t : t = stack'
  OBVIOUS
<1>12. /\ PlanInv' /\ Settled(s, t, n) /\ Len(t) = Len(c)
       /\ t # <<>> => TopKin(n, t[Len(t)])
       /\ t # <<>> /\ c[Len(c)].driver \in Fragile => t[Len(t)].going = FALSE
  <2>1. c # stack
    BY <1>1, <1>7, <1>10
  <2>2. /\ PlanInv' /\ Settled(stack, stack', mem') /\ Len(stack') = Len(c)
        /\ stack' # <<>> => TopKin(mem', stack'[Len(stack')])
        /\ stack' # <<>> /\ Return(c, FALSE) /\ c[Len(c)].driver \in Fragile =>
             stack'[Len(stack')].going = FALSE
    BY <1>5, <1>8, <1>9, <1>10, <2>1, ReturnSettles
  <2> QED BY <1>1, <1>5, <1>8, <1>10, <1>11, <2>2
<1>13. /\ t \in Seq(Frames) /\ Shrinks(s, t) /\ Shape(t)
       /\ \A i \in 1 .. Len(t) : t[i].kid \in {s[i].kid, n[s[i].dev].first_child}
  BY <1>4, <1>12, SettledShrinks DEF Settled
<1>14. \A i \in 1 .. Len(t) : /\ i \in 1 .. Len(s) /\ i < Len(s) /\ s[i].dev \in Addr
                              /\ t[i].driver = s[i].driver
  <2>1. ASSUME NEW i \in 1 .. Len(t) PROVE i \in 1 .. Len(s) /\ i < Len(s) /\ s[i] \in Frames
    BY <1>7, <1>10, <1>12
  <2>2. \A i \in 1 .. Len(t) : t[i].driver = s[i].driver
    BY <1>13 DEF Shrinks, SameProbe
  <2> QED BY <2>1, <2>2 DEF Frames
<1>15. Live(n, ToSet(list'), t, detected)
  <2>1. GoingAvoid(t, {x})
    <3>1. \A i \in 1 .. Len(t) : s[i].dev # x
      BY <1>4, <1>7, <1>14 DEF Live
    <3> QED BY <1>13, <3>1 DEF GoingAvoid, Shrinks, SameProbe
  <2>2. PICK d : d = detected
    OBVIOUS
  <2>3. Live(m, l, s, d) /\ d \subseteq d \ {x}
    BY <1>4, <1>7, <2>2 DEF Live
  <2>4. PICK k : k = ToSet(list')
    OBVIOUS
  <2>5. l \ {x} \subseteq k /\ SameData(m, n, l \ {x})
    BY <1>4, <1>9, <2>4 DEF SameData
  <2>6. Live(n, k, t, d)
    BY <1>13, <2>1, <2>3, <2>5, ShrinkLive
  <2> QED BY <2>2, <2>4, <2>6
<1>16. Names(n, ToSet(list'))
  <2>1. \A a \in l : n[a].name = m[a].name
    BY <1>4, <1>9
  <2> QED BY <1>4, <1>9, <2>1, ShrinkNames
<1>17. Kin(n, heap', t)
  <2>0. PICK g : g = heap'
    OBVIOUS
  <2>1. ASSUME NEW i \in 1 .. Len(t), NEW K, t[i].driver \in Fragile, Family(K, m, heap, s, i)
        PROVE  /\ \A a \in K : n[a].sibling \in K \cup {Null}
               /\ t[i].kid \in K \cup {Null}
               /\ t[i].going = TRUE => heap \subseteq g
    <3>1. i >= Len(s) - 1
      BY <1>4, <1>14, <2>1 DEF Shape
    <3>2. i + 1 = Len(s) /\ i = Len(t) /\ i = Len(c) /\ t # <<>>
      BY <1>7, <1>10, <1>12, <1>13, <1>14, <3>1
    <3>3. x \in K /\ K \subseteq Addr
      BY <1>7, <1>14, <2>1, <3>2 DEF Family
    <3>4. m[x].sibling \in K \cup {Null} /\ \A a \in K : m[a].sibling \in K \cup {Null}
      BY <2>1, <3>3 DEF Family
    <3>5. \A a \in K : n[a].sibling \in K \cup {Null}
      BY <1>9, <3>3, <3>4
    <3>6. n[s[i].dev].first_child = m[s[i].dev].first_child
      BY <1>9, <1>14
    <3>7. t[i].kid \in K \cup {Null}
      BY <1>13, <2>1, <3>6 DEF Family
    <3>8. c[i].driver \in Fragile
      BY <1>10, <1>14, <2>1, <3>2
    <3>9. t[i].going = FALSE
      BY <1>12, <3>2, <3>8
    <3> QED BY <3>5, <3>7, <3>9
  <2>2. SameChildren(m, n) /\ FamiliesKept(s, t, m, heap, n, g)
    BY <1>9, <2>1 DEF SameChildren, FamiliesKept
  <2>3. Kin(n, g, t)
    BY <1>4, <1>12, <1>13, <2>2, ShrinkKin
  <2> QED BY <2>0, <2>3
<1>18. RegistryInv'
  BY StepKeeps DEF ProbeInv, Next
<1> QED BY <1>5, <1>8, <1>9, <1>11, <1>12, <1>13, <1>15, <1>16, <1>17, <1>18 DEF ProbeInv

LEMMA RemoveChildKeepsProbes == ASSUME ProbeInv, RemoveChild PROVE ProbeInv'
<1>1. PICK s \in Seq(Frames) : s = stack
  BY DEF ProbeInv
<1>2. PICK m \in Memories : m = mem
  BY DEF ProbeInv
<1>3. PICK l : l = ToSet(list)
  OBVIOUS
<1>4. /\ Shape(s) /\ Live(m, l, s, detected) /\ Kin(m, heap, s) /\ Names(m, l)
      /\ l \subseteq Addr
  BY <1>1, <1>2, <1>3 DEF ProbeInv, RegistryInv, ToSet
<1>5. PICK n \in 1 .. Len(s) : n = Len(s)
  BY <1>1 DEF RemoveChild
<1>6. PICK f \in Frames : f = s[n] /\ f = Top
  BY <1>1, <1>5 DEF Top
<1>7. PICK x : x = f.kid
  OBVIOUS
<1>8. f.going = FALSE /\ x # Null
  <2>1. ~f.going /\ f.kid # Null
    BY <1>6, Zenon DEF RemoveChild
  <2> QED BY <1>7, <2>1 DEF Frames
<1>9. f.driver \in Fragile
  BY <1>4, <1>5, <1>6, <1>7, <1>8 DEF Kin, TopKin
<1>10. PICK K : Family(K, m, heap, s, n)
  BY <1>4, <1>5, <1>6, <1>9 DEF Kin, Families
<1>11. x \in K /\ K \subseteq Addr /\ x \in Addr
  BY <1>6, <1>7, <1>8, <1>10 DEF Family
<1>12. PICK after : after = mem'
  OBVIOUS
<1>13. /\ after \in Memories
       /\ \A a \in Addr : /\ after[a].name = m[a].name
                          /\ after[a].first_child = m[a].first_child /\ after[a].parent = m[a].parent
                          /\ after[a].sibling \in {m[a].sibling, m[x].sibling}
                          /\ a # x => after[a].data = m[a].data
       /\ ToSet(list') \subseteq l /\ l \ {x} \subseteq ToSet(list')
  <2>1. PICK w : w = WithData(mem, x, "freed")
    OBVIOUS
  <2>2. mem' = VlDev_Remove(w, x).mem /\ list' = VlDev_Remove(w, x).list
    BY <1>6, <1>7, <2>1, Zenon DEF WithData, RemoveChild
  <2> QED BY <1>2, <1>3, <1>11, <1>12, <2>1, <2>2, RemoveEffect
<1>14. PICK y \in K \cup {Null} : y = after[x].sibling
  <2>1. m[x].sibling \in K \cup {Null}
    BY <1>10, <1>11 DEF Family
  <2> QED BY <1>11, <1>13, <2>1
<1>15. PICK g : g = [f EXCEPT !.kid = y]
  OBVIOUS
<1>16. /\ g \in Frames /\ g.dev = f.dev /\ g.driver = f.driver /\ g.todo = f.todo /\ g.kid = y
  BY <1>11, <1>14, <1>15 DEF Frames, Devs
<1>17. g.going = FALSE
  BY <1>8, <1>15 DEF Frames
<1>18. PICK t : t = [s EXCEPT ![n] = g]
  OBVIOUS
<1>19. stack' = t
  BY <1>1, <1>5, <1>6, <1>7, <1>12, <1>14, <1>15, <1>18, Zenon DEF RemoveChild, NextKid
<1>20. /\ t \in Seq(Frames) /\ Len(t) = Len(s) /\ t[n] = g /\ t # <<>>
       /\ \A i \in 1 .. (Len(t) - 1) : t[i] = s[i]
       /\ \A i \in 1 .. Len(t) : i # n => t[i] = s[i]
  BY <1>5, <1>16, <1>18
<1>21. \A i \in 1 .. Len(t) : SameProbe(s[i], t[i]) /\ (t[i].going = TRUE => s[i].going = TRUE)
  <2>1. \A i \in 1 .. Len(s) : s[i] \in Frames
    OBVIOUS
  <2> QED BY <1>6, <1>16, <1>17, <1>20, <2>1 DEF SameProbe
<1>22. Shrinks(s, t)
  BY <1>20, <1>21 DEF Shrinks
<1>23. Shape(t)
  <2>1. TodoFits(f.driver, f.todo)
    BY <1>4, <1>5, <1>6 DEF Shape
  <2>2. TodoFits(t[Len(t)].driver, t[Len(t)].todo)
    BY <1>5, <1>16, <1>20, <2>1
  <2> QED BY <1>4, <1>22, <2>2, ShrinkShape
<1>24. Live(after, ToSet(list'), t, detected')
  <2>1. PICK d : d = detected
    OBVIOUS
  <2>2. PICK e : e = detected'
    OBVIOUS
  <2>3. PICK k : k = ToSet(list')
    OBVIOUS
  <2>4. e \subseteq d \ {x}
    BY <1>6, <1>7, <2>1, <2>2, Zenon DEF RemoveChild
  <2>5. GoingAvoid(t, {x})
    <3>1. \A i \in 1 .. n : s[i].dev \notin K
      BY <1>10 DEF Family
    <3>2. \A i \in 1 .. Len(t) : t[i].dev # x
      BY <1>5, <1>11, <1>20, <1>21, <3>1 DEF SameProbe
    <3> QED BY <3>2 DEF GoingAvoid
  <2>6. l \ {x} \subseteq k /\ SameData(m, after, l \ {x})
    BY <1>4, <1>13, <2>3 DEF SameData
  <2>7. Live(m, l, s, d)
    BY <1>4, <2>1
  <2>8. Live(after, k, t, e)
    BY <1>22, <2>4, <2>5, <2>6, <2>7, ShrinkLive
  <2> QED BY <2>2, <2>3, <2>8
<1>25. Names(after, ToSet(list'))
  <2>1. \A a \in l : after[a].name = m[a].name
    BY <1>4, <1>13
  <2> QED BY <1>4, <1>13, <2>1, ShrinkNames
<1>26. \A i \in 1 .. Len(s) : s[i].driver \in Fragile => i = n
  <2>1. ASSUME NEW i \in 1 .. Len(s), s[i].driver \in Fragile, i # n PROVE FALSE
    <3>1. i < Len(s) /\ i >= Len(s) - 1 /\ s[i + 1].driver \in Leaves
      BY <1>4, <1>5, <2>1 DEF Shape
    <3>2. i + 1 = n
      BY <1>5, <3>1
    <3> QED BY <1>6, <1>9, <3>1, <3>2 DEF Fragile, Leaves
  <2> QED BY <2>1
<1>27. Kin(after, heap', t)
  <2>0. PICK h : h = heap'
    OBVIOUS
  <2>1. ASSUME NEW i \in 1 .. Len(t), NEW J, t[i].driver \in Fragile, Family(J, m, heap, s, i)
        PROVE  /\ \A a \in J : after[a].sibling \in J \cup {Null}
               /\ t[i].kid \in J \cup {Null}
               /\ t[i].going = TRUE => heap \subseteq h
    <3>1. i \in 1 .. Len(s) /\ s[i].driver \in Fragile
      BY <1>20, <1>21, <2>1 DEF SameProbe
    <3>2. i = n
      BY <1>26, <3>1
    <3>3. x \in J /\ J \subseteq Addr
      BY <1>6, <1>7, <1>8, <2>1, <3>2 DEF Family
    <3>4. m[x].sibling \in J \cup {Null} /\ \A a \in J : m[a].sibling \in J \cup {Null}
      BY <2>1, <3>3 DEF Family
    <3>5. \A a \in J : after[a].sibling \in J \cup {Null}
      BY <1>13, <3>3, <3>4
    <3>6. t[i].kid \in J \cup {Null}
      BY <1>14, <1>16, <1>20, <3>2, <3>3, <3>5
    <3>7. t[i].going = FALSE
      BY <1>17, <1>20, <3>2
    <3> QED BY <3>5, <3>6, <3>7
  <2>2. SameChildren(m, after) /\ FamiliesKept(s, t, m, heap, after, h)
    BY <1>13, <2>1 DEF SameChildren, FamiliesKept
  <2>3. TopKin(after, t[Len(t)])
    <3>1. t[Len(t)] = g
      BY <1>5, <1>20
    <3>2. g.driver \in Fragile
      BY <1>9, <1>16
    <3> QED BY <1>17, <3>1, <3>2 DEF TopKin
  <2>4. Kin(after, h, t)
    BY <1>4, <1>22, <2>2, <2>3, ShrinkKin
  <2> QED BY <2>0, <2>4
<1>28. RegistryInv'
  BY StepKeeps DEF ProbeInv, Next
<1>29. PlanInv'
  <2>1. plan' = plan /\ stage' = stage /\ stack # <<>>
    BY Zenon DEF RemoveChild
  <2> QED BY <2>1 DEF ProbeInv, PlanInv
<1> QED BY <1>12, <1>13, <1>19, <1>20, <1>23, <1>24, <1>25, <1>27, <1>28, <1>29 DEF ProbeInv

\* The probe on top is going and waits for its first child.
LEMMA WaitsForChild ==
  ASSUME ProbeInv, AtChild
  PROVE  /\ stack # <<>> /\ stack \in Seq(Frames) /\ stack[Len(stack)] \in Frames
         /\ Top = stack[Len(stack)]
         /\ Top.going = TRUE /\ Top.todo # <<>>
         /\ Head(Top.todo) = stack[Len(stack)].todo[1] /\ Head(Top.todo) \in Drivers
         /\ Top.dev \in Addr /\ Top.dev \in ToSet(list)
<1>1. stack # <<>> /\ Top.going /\ Top.todo # <<>>
  BY Zenon DEF AtChild
<1>2. PICK s \in Seq(Frames) : s = stack
  BY DEF ProbeInv
<1>3. PICK n \in 1 .. Len(s) : n = Len(s)
  BY <1>1, <1>2
<1>4. PICK f \in Frames : f = s[n] /\ f = Top
  BY <1>2, <1>3 DEF Top
<1>5. f.going = TRUE
  BY <1>1, <1>4 DEF Frames
<1>6. PICK todo \in Seq(Drivers) : todo = f.todo /\ todo # <<>>
  BY <1>1, <1>4 DEF Frames
<1>7. Head(todo) = todo[1] /\ Head(todo) \in Drivers
  BY <1>6
<1>8. f.dev \in Addr /\ f.dev \in ToSet(list)
  <2>1. Live(mem, ToSet(list), s, detected)
    BY <1>2 DEF ProbeInv
  <2> QED BY <1>3, <1>4, <1>5, <2>1 DEF Live, Frames
<1> QED BY <1>1, <1>2, <1>3, <1>4, <1>5, <1>6, <1>7, <1>8

LEMMA ProbeChildKeepsProbes == ASSUME ProbeInv, ProbeChild PROVE ProbeInv'
<1>1. AtChild /\ Begin(Head(Top.todo), Top.dev)
  BY Zenon DEF ProbeChild
<1>2. PICK driver \in Drivers : driver = Head(Top.todo)
  BY <1>1, WaitsForChild
<1>3. PICK parent \in Addr : parent = Top.dev /\ parent \in ToSet(list)
  BY <1>1, WaitsForChild
<1>4. Begin(driver, parent) /\ parent \in Devs
  BY <1>1, <1>2, <1>3 DEF Devs
<1>5. /\ stack[Len(stack)].going = TRUE /\ stack[Len(stack)].todo # <<>>
      /\ driver = stack[Len(stack)].todo[1] /\ stack # <<>>
      /\ parent = stack[Len(stack)].dev
  BY <1>1, <1>2, <1>3, WaitsForChild
<1>6. stage = "boot"
  BY <1>5 DEF ProbeInv, PlanInv
<1> QED BY <1>3, <1>4, <1>5, <1>6, BeginKeepsProbes

\* A device in the list is the one found under its name.
LEMMA ListedIsFound ==
  ASSUME ProbeInv, NEW d \in ToSet(list)
  PROVE  VlDev_Find(mem[d].name) = d
<1> DEFINE found == {i \in 1 .. Len(list) : mem[list[i]].name = mem[d].name}
<1>1. PICK i \in 1 .. Len(list) : list[i] = d
  BY DEF ToSet
<1>2. \A j \in 1 .. Len(list) : list[j] \in ToSet(list)
  BY DEF ToSet
<1>3. \A j \in found : list[j] = d
  BY <1>2 DEF ProbeInv, Names
<1>4. found = {i}
  BY <1>1, <1>3 DEF ProbeInv, RegistryInv, Distinct
<1>5. Min(found) = i
  <2>1. i \in Int
    OBVIOUS
  <2> QED BY <1>4, <2>1 DEF Min
<1>6. VlDev_Find(mem[d].name) = list[Min(found)]
  BY <1>4, Zenon DEF VlDev_Find
<1> QED BY <1>1, <1>5, <1>6

LEMMA FindListed ==
  ASSUME ProbeInv, NEW name
  PROVE  VlDev_Find(name) \in ToSet(list) \cup {Null}
<1>1. CASE \E i \in 1 .. Len(list) : mem[list[i]].name = name
  <2>1. PICK d \in ToSet(list) : mem[d].name = name
    BY <1>1 DEF ToSet
  <2> QED BY <2>1, ListedIsFound
<1>2. CASE ~ \E i \in 1 .. Len(list) : mem[list[i]].name = name
  <2>1. {i \in 1 .. Len(list) : mem[list[i]].name = name} = {}
    BY <1>2
  <2> QED BY <2>1 DEF VlDev_Find
<1> QED BY <1>1, <1>2

LEMMA ProbeRootKeepsProbes == ASSUME ProbeInv, ProbeRoot PROVE ProbeInv'
<1>1. /\ stage = "boot" /\ stack = <<>>
      /\ Begin(Head(plan).driver, VlDev_Find(Head(plan).parent))
  BY Zenon DEF ProbeRoot, AtRoot
<1>2. Head(plan) \in Entries
  BY <1>1 DEF ProbeInv, PlanInv
<1>3. PICK driver \in Drivers : driver = Head(plan).driver /\ driver \in Roots
  BY <1>2 DEF Entries, Roots, Drivers
<1>4. PICK parent \in ToSet(list) \cup {Null} : parent = VlDev_Find(Head(plan).parent)
  BY FindListed
<1>5. parent \in Devs
  BY DEF ProbeInv, RegistryInv, ToSet, Devs
<1>6. Begin(driver, parent)
  BY <1>1, <1>3, <1>4
<1> QED BY <1>1, <1>3, <1>5, <1>6, BeginKeepsProbes

LEMMA RefuseKeepsProbes == ASSUME ProbeInv, RefuseChild PROVE ProbeInv'
<1>1. AtChild /\ UNCHANGED <<mem, heap, list, detected>> /\ Return(stack, FALSE)
  BY Zenon DEF RefuseChild
<1>2. PICK c \in Seq(Frames) : c = stack
  BY DEF ProbeInv
<1>3. stack # <<>> /\ Top.going = TRUE /\ Top.todo # <<>>
  BY <1>1, WaitsForChild
<1>4. Return(c, FALSE)
  BY <1>1, <1>2
<1> QED BY <1>1, <1>2, <1>3, <1>4, ReturnKeepsProbes

\* The probe on top returns while it is going.
LEMMA TopReturns ==
  ASSUME ProbeInv, stack # <<>>, Top.going, Return(Caller, TRUE) \/ Return(Caller, FALSE),
         UNCHANGED <<mem, heap, list>>,
         detected' = detected \/ detected' = detected \cup {Top.dev}
  PROVE  ProbeInv'
<1>1. PICK s \in Seq(Frames) : s = stack /\ s # <<>>
  BY DEF ProbeInv
<1>2. PICK c \in Seq(Frames) : c = Caller /\ Len(c) = Len(s) - 1
  BY <1>1, FrontFrames DEF Caller
<1>3. c # stack
  BY <1>1, <1>2
<1>4. Top.going = TRUE
  <2>1. Top \in Frames
    BY <1>1 DEF Top
  <2> QED BY <2>1 DEF Frames
<1>5. Return(c, TRUE) \/ Return(c, FALSE)
  BY <1>2
<1> QED BY <1>2, <1>3, <1>4, <1>5, ReturnKeepsProbes

LEMMA StepKeepsProbes == ASSUME ProbeInv, [Next]_vars PROVE ProbeInv'
<1>1. CASE ProbeRoot
  BY <1>1, ProbeRootKeepsProbes
<1>2. CASE ProbeChild
  BY <1>2, ProbeChildKeepsProbes
<1>3. CASE RefuseChild
  BY <1>3, RefuseKeepsProbes
<1>4. CASE Succeed
  <2>1. /\ stack # <<>> /\ Top.going /\ Return(Caller, TRUE) /\ UNCHANGED <<mem, heap, list>>
        /\ detected' = detected \cup {Top.dev}
    BY <1>4, Zenon DEF Succeed
  <2> QED BY <2>1, TopReturns
<1>5. CASE Fail
  BY <1>5, FailKeepsProbes
<1>6. CASE Abandon
  <2>1. /\ stack # <<>> /\ Top.going /\ Return(Caller, FALSE) /\ UNCHANGED <<mem, heap, list>>
        /\ detected' = detected
    BY <1>6, Zenon DEF Abandon
  <2> QED BY <2>1, TopReturns
<1>7. CASE RemoveChild
  BY <1>7, RemoveChildKeepsProbes
<1>8. CASE GiveUp
  BY <1>8, GiveUpKeepsProbes
<1>9. CASE UNCHANGED vars
  BY <1>9 DEF vars, ProbeInv, RegistryInv, Distinct, PlanInv
<1> QED BY <1>1, <1>2, <1>3, <1>4, <1>5, <1>6, <1>7, <1>8, <1>9 DEF Next

LEMMA InitProbes == ASSUME Init PROVE ProbeInv
<1>1. PICK m \in Machines : plan = Plan(m)
  BY DEF Init
<1>2. PlanInv
  <2>1. PICK p \in Seq(Entries) : p = Plan(m) /\ p # <<>>
    BY PlanEntries
  <2> QED BY <1>1, <2>1 DEF PlanInv, Init
<1>3. mem \in Memories
  <2>1. Blank \in Structs
    <3>1. <<>> \in Seq(Words)
      OBVIOUS
    <3> QED BY <3>1 DEF Blank, Structs, Devs, Data
  <2> QED BY <2>1 DEF Init, Memories
<1>4. RegistryInv /\ ToSet(list) = {} /\ stack = <<>> /\ Len(stack) = 0 /\ detected = {}
  BY DEF Init, RegistryInv, Distinct, ToSet
<1>5. stack \in Seq(Frames)
  BY <1>4
<1>6. /\ \A i \in 1 .. Len(stack) : FALSE
      /\ \A i \in 1 .. (Len(stack) - 1) : FALSE
  BY <1>4
<1>7. Names(mem, ToSet(list)) /\ Live(mem, ToSet(list), stack, detected)
  BY <1>4, <1>6 DEF Names, Live
<1>8. Shape(stack) /\ Kin(mem, heap, stack)
  BY <1>4, <1>6 DEF Shape, Kin, Families
<1> QED BY <1>2, <1>3, <1>4, <1>5, <1>7, <1>8 DEF ProbeInv

\* Every device that was detected is found under its name with its private
\* data in place, on every machine, whichever probes fail and however the heap
\* reuses the structures of the failed ones (VlDev_Find, VlDev_Remove).
THEOREM DetectedCorrect == Spec => []DetectedIsFound
<1>1. Init => ProbeInv
  BY InitProbes
<1>2. ProbeInv /\ [Next]_vars => ProbeInv'
  BY StepKeepsProbes
<1>3. ProbeInv => DetectedIsFound
  BY ListedIsFound DEF ProbeInv, Live, DetectedIsFound
<1> QED BY <1>1, <1>2, <1>3, PTL DEF Spec

\* What a clean-up loop is about to remove was created under the failed probe,
\* also when the loop got there through the link of a freed structure.
LEMMA KidIsChild == ASSUME ProbeInv, RemoveChild PROVE mem[Top.kid].parent = Top.dev
<1>1. PICK s \in Seq(Frames) : s = stack
  BY DEF ProbeInv
<1>2. PICK n \in 1 .. Len(s) : n = Len(s)
  BY <1>1 DEF RemoveChild
<1>3. PICK f \in Frames : f = s[n] /\ f = Top
  BY <1>1, <1>2 DEF Top
<1>4. f.going = FALSE /\ f.kid # Null
  <2>1. ~f.going /\ f.kid # Null
    BY <1>3, Zenon DEF RemoveChild
  <2> QED BY <2>1 DEF Frames
<1>5. Kin(mem, heap, s)
  BY <1>1 DEF ProbeInv
<1>6. f.driver \in Fragile
  BY <1>2, <1>3, <1>4, <1>5 DEF Kin, TopKin
<1>7. PICK K : Family(K, mem, heap, s, n)
  BY <1>2, <1>3, <1>5, <1>6 DEF Kin, Families
<1> QED BY <1>3, <1>4, <1>7 DEF Family

\* The property of a step that OnlyTheFailedLeave is about.
FailedLeave ==
    /\ \A d \in Gone(list, list') : ~Top.going /\ (d = Top.dev \/ mem[d].parent = Top.dev)
    /\ KeepsOrder(list, list')

LEMMA StepTakesFailed == ProbeInv /\ [Next]_vars => FailedLeave
<1> SUFFICES ASSUME ProbeInv, [Next]_vars PROVE FailedLeave
  OBVIOUS
<1>0. RegistryInv
  BY DEF ProbeInv
<1>1. ASSUME list' = list PROVE FailedLeave
  BY <1>0, <1>1, ExtendedKeepsOrder DEF RegistryInv, FailedLeave
<1>2. ASSUME NEW driver, NEW parent, Begin(driver, parent) PROVE FailedLeave
  <2>1. PICK dev \in FreeAddr : list' = Append(list, dev)
    BY <1>2 DEF Begin
  <2>2. dev \in Addr
    BY DEF FreeAddr
  <2>3. list' \in Seq(Addr) /\ Len(list) <= Len(list') /\ \A i \in 1..Len(list) : list'[i] = list[i]
    BY <1>0, <2>1, <2>2 DEF RegistryInv
  <2> QED
    BY <1>0, <2>3, ExtendedKeepsOrder DEF RegistryInv, FailedLeave
<1>3. CASE ProbeRoot
  BY <1>2, <1>3 DEF ProbeRoot
<1>4. CASE ProbeChild
  BY <1>2, <1>4 DEF ProbeChild
<1>5. CASE RefuseChild \/ Succeed \/ Fail \/ Abandon
  BY <1>1, <1>5 DEF RefuseChild, Succeed, Fail, Abandon
<1>6. CASE RemoveChild
  <2> DEFINE m == [mem EXCEPT ![Top.kid].data = "freed"]
  <2>1. list' = VlDev_Remove(m, Top.kid).list /\ ~Top.going
    BY <1>6 DEF RemoveChild
  <2>2. mem[Top.kid].parent = Top.dev
    BY <1>6, KidIsChild
  <2> QED
    BY <1>0, <2>1, <2>2, RemoveTakesOne DEF FailedLeave
<1>7. CASE GiveUp
  <2> DEFINE m == [mem EXCEPT ![Top.dev].data = "freed"]
  <2>1. list' = VlDev_Remove(m, Top.dev).list /\ ~Top.going
    BY <1>7 DEF GiveUp
  <2> QED
    BY <1>0, <2>1, RemoveTakesOne DEF FailedLeave
<1>8. CASE UNCHANGED vars
  BY <1>1, <1>8 DEF vars
<1> QED
  BY <1>3, <1>4, <1>5, <1>6, <1>7, <1>8 DEF Next

\* No step takes a device out of the list but the one whose probe, or whose
\* parent's probe, has failed, and the others stay in their order, although
\* VlDev_Remove looks for it with a loop that may end early and follows
\* pointers in freed memory.
THEOREM FailedLeaveCorrect == Spec => OnlyTheFailedLeave
<1>1. Init => ProbeInv
  BY InitProbes
<1>2. ProbeInv /\ [Next]_vars => [FailedLeave]_vars
  BY StepTakesFailed
<1>4. ProbeInv /\ [Next]_vars => ProbeInv'
  BY StepKeepsProbes
<1>3. [FailedLeave]_vars =>
        [/\ \A d \in Gone(list, list') : ~Top.going /\ (d = Top.dev \/ mem[d].parent = Top.dev)
         /\ KeepsOrder(list, list')]_vars
  BY DEF FailedLeave
<1> QED
  BY <1>1, <1>2, <1>3, <1>4, PTL DEF Spec, OnlyTheFailedLeave

-----------------------------------------------------------------------------
(* The mounted file systems (Mounts): the list, the memory it leads to and    *)
(* the mount in progress.                                                     *)

\* How far a mount has got; from "data" on it has a file system in the list.
Stages == {"probe", "create", "data", "volume", "fsinfo"}
Attempts == [at : Stages, medium : Media, name : MountNames, driver : 1 .. 2, id : FsIds \cup {0}]
Holding(a) == a.at \in {"data", "volume", "fsinfo"}

Mounted == [name : {Cut(n) : n \in MountNames} \cup {<<>>}, cut : BOOLEAN,
            driver : {"none", "fat", "iso9660"}, data : {"none", "live", "freed"},
            end : {"none", "mounted", "unread"}]
Pieces == FsIds \X {"fs", "data", "databuf"}

MountTypes ==
    /\ mounts \in Seq(FsIds) /\ Distinct(mounts)
    /\ fs \in [FsIds -> Mounted] /\ pieces \subseteq Pieces
    /\ attempt = NoAttempt \/ attempt \in Attempts

\* The memory in use is that of the file systems in the list, and of their data.
Reached(l, f, ps) ==
    \A p \in ps : \E k \in 1 .. Len(l) : l[k] = p[1] /\ (p[2] = "fs" \/ f[p[1]].data = "live")

\* All but the first are mounted and have their data, or are being mounted.
Endings == {"mounted", "unread"}
Whole(l, f, a) ==
    \A k \in 2 .. Len(l) :
        /\ f[l[k]].data = "live" \/ (a.at = "data" /\ l[k] = a.id)
        /\ f[l[k]].end \in Endings \/ (Holding(a) /\ l[k] = a.id)

\* Past its allocation the file system being mounted has its data.
Loaded(f, a) == a.at \in {"volume", "fsinfo"} => f[a.id].data = "live"

Unique(l, f) ==
    \A i, j \in 1 .. Len(l) : f[l[i]].name = f[l[j]].name => i = j \/ f[l[i]].cut = TRUE \/ f[l[j]].cut = TRUE

MountInv ==
    /\ MountTypes
    /\ Holding(attempt) => \E k \in 1 .. Len(mounts) : mounts[k] = attempt.id
    /\ Reached(mounts, fs, pieces) /\ Whole(mounts, fs, attempt) /\ Unique(mounts, fs)
    /\ Loaded(fs, attempt)

\* What VlFs_Find looks for.
Sought(name) == SubSeq(name, 1, IF Len(name) < NameMax THEN Len(name) ELSE NameMax)

\* A name that is not cut is looked for as it is.
LEMMA UncutIsSought ==
  ASSUME NEW Chars, NEW name \in Seq(Chars), NameMax \in Nat \ {0}, Cut(name) = name
  PROVE  Sought(name) = name
<1>1. CASE Len(name) < NameMax
  BY <1>1 DEF Cut, Sought
<1>2. CASE ~(Len(name) < NameMax)
  <2>1. Cut(name) = SubSeq(name, 1, NameMax - 1) /\ Len(name) \in Nat /\ NameMax - 1 \in 0 .. Len(name)
    BY <1>2 DEF Cut
  <2>2. Len(SubSeq(name, 1, NameMax - 1)) = NameMax - 1
    BY <2>1
  <2> QED BY <1>2, <2>1, <2>2
<1> QED BY <1>1, <1>2

\* The next driver is asked, or the attempt is over: neither has a file system.
LEMMA NextDriverAsked ==
  ASSUME attempt \in Attempts, NextDriver
  PROVE  (attempt' = NoAttempt \/ attempt' \in Attempts) /\ attempt'.at \in {"none", "probe"}
<1>1. CASE attempt.driver = Len(Registered)
  BY <1>1 DEF NextDriver, NoAttempt
<1>2. CASE attempt.driver # Len(Registered)
  <2>1. attempt.driver = 1 /\ attempt.driver + 1 \in 1 .. 2
    BY <1>2 DEF Attempts, Registered
  <2>2. attempt' = [attempt EXCEPT !.at = "probe", !.driver = attempt.driver + 1]
    BY <1>2 DEF NextDriver
  <2> QED BY <2>1, <2>2 DEF Attempts, Stages
<1> QED BY <1>1, <1>2

\* A step that leaves list, file systems and memory alone.
LEMMA OnlyTheAttempt ==
  ASSUME MountInv, UNCHANGED <<mounts, fs, pieces>>, ~Holding(attempt),
         attempt' = NoAttempt \/ attempt' \in Attempts, ~Holding(attempt')
  PROVE  MountInv'
<1>1. mounts' = mounts /\ fs' = fs /\ pieces' = pieces
  OBVIOUS
<1>2. MountTypes'
  BY <1>1 DEF MountInv, MountTypes, Distinct, NoAttempt
<1>4. Reached(mounts', fs', pieces') /\ Unique(mounts', fs')
  BY <1>1 DEF MountInv
<1>5. Whole(mounts', fs', attempt') /\ Loaded(fs', attempt')
  BY <1>1 DEF MountInv, Whole, Loaded, Holding
<1> QED BY <1>2, <1>4, <1>5 DEF MountInv

LEMMA MountCreates ==
  ASSUME NEW Chars, MountNames \subseteq Seq(Chars), NameMax \in Nat \ {0},
         MountInv, create
  PROVE  MountInv'
<1>1. PICK i \in FsIds :
        /\ ~Contains(mounts, i)
        /\ fs' = [fs EXCEPT ![i] = [name |-> Cut(attempt.name), cut |-> Cut(attempt.name) # attempt.name,
                                    driver |-> Asked, data |-> "none", end |-> "none"]]
        /\ mounts' = Append(mounts, i) /\ pieces' = pieces \cup {<<i, "fs">>}
        /\ attempt' = [attempt EXCEPT !.at = "data", !.id = i]
  BY ZenonT(30) DEF create, VlFs_Create
<1>2. attempt \in Attempts /\ attempt.at = "create" /\ attempt.name \in MountNames
  BY DEF create, MountInv, MountTypes, NoAttempt, Attempts
<1>3. \A k \in 1 .. Len(mounts) : mounts[k] # i
  BY <1>1 DEF Contains
<1>4. /\ mounts' \in Seq(FsIds) /\ Distinct(mounts') /\ Len(mounts') = Len(mounts) + 1
      /\ mounts'[Len(mounts) + 1] = i /\ \A k \in 1 .. Len(mounts) : mounts'[k] = mounts[k] /\ mounts[k] \in FsIds
  BY <1>1, <1>3 DEF MountInv, MountTypes, Distinct
<1>5. PICK r \in Mounted : /\ fs' = [fs EXCEPT ![i] = r] /\ r.name = Cut(attempt.name)
                           /\ r.cut = (Cut(attempt.name) # attempt.name)
  <2>1. Asked \in {"fat", "iso9660"}
    BY <1>2 DEF Asked, Registered, Attempts
  <2>2. PICK b \in BOOLEAN : b = (Cut(attempt.name) # attempt.name)
    OBVIOUS
  <2>3. PICK d \in {"none", "fat", "iso9660"} : d = Asked
    BY <2>1
  <2>4. PICK c \in {Cut(n) : n \in MountNames} \cup {<<>>} : c = Cut(attempt.name)
    BY <1>2
  <2>5. [name |-> c, cut |-> b, driver |-> d, data |-> "none", end |-> "none"] \in Mounted
    BY DEF Mounted
  <2> QED BY <1>1, <2>2, <2>3, <2>4, <2>5
<1>6. fs' \in [FsIds -> Mounted] /\ fs'[i] = r /\ \A k \in 1 .. Len(mounts) : fs'[mounts[k]] = fs[mounts[k]]
  BY <1>3, <1>4, <1>5 DEF MountInv, MountTypes
<1>7. attempt' \in Attempts /\ attempt'.at = "data" /\ attempt'.id = i
  BY <1>1, <1>2 DEF Attempts, Stages
<1>8. pieces' \subseteq Pieces
  BY <1>1 DEF Pieces, MountInv, MountTypes
<1>9. Reached(mounts', fs', pieces')
  <2>1. ASSUME NEW p \in pieces
        PROVE  \E k \in 1 .. Len(mounts') : mounts'[k] = p[1] /\ (p[2] = "fs" \/ fs'[p[1]].data = "live")
    <3>1. PICK k \in 1 .. Len(mounts) : mounts[k] = p[1] /\ (p[2] = "fs" \/ fs[p[1]].data = "live")
      BY DEF MountInv, Reached
    <3>2. fs'[p[1]] = fs[p[1]] /\ mounts'[k] = p[1] /\ k \in 1 .. Len(mounts')
      BY <1>4, <1>6, <3>1 DEF MountInv, MountTypes
    <3> QED BY <3>1, <3>2
  <2>2. Len(mounts) + 1 \in 1 .. Len(mounts')
    BY <1>4 DEF MountInv, MountTypes
  <2>3. \A p \in pieces' : p \in pieces \/ p = <<i, "fs">>
    BY <1>1
  <2> QED BY <1>4, <2>1, <2>2, <2>3 DEF Reached
<1>10. Whole(mounts', fs', attempt') /\ Loaded(fs', attempt')
  <2>1. Loaded(fs', attempt')
    BY <1>7 DEF Loaded
  <2>2. ASSUME NEW k \in 2 .. Len(mounts')
        PROVE  /\ fs'[mounts'[k]].data = "live" \/ (attempt'.at = "data" /\ mounts'[k] = attempt'.id)
               /\ fs'[mounts'[k]].end \in Endings \/ (Holding(attempt') /\ mounts'[k] = attempt'.id)
    <3>1. CASE k = Len(mounts) + 1
      BY <1>4, <1>7, <3>1 DEF Holding
    <3>2. CASE k # Len(mounts) + 1
      <4>1. k \in 2 .. Len(mounts) /\ ~Holding(attempt)
        BY <1>2, <1>4, <3>2 DEF MountInv, MountTypes, Holding
      <4>2. fs[mounts[k]].data = "live" /\ fs[mounts[k]].end \in Endings
        BY <4>1 DEF MountInv, Whole, Holding
      <4> QED BY <1>4, <1>6, <4>1, <4>2
    <3> QED BY <3>1, <3>2
  <2> QED BY <2>1, <2>2 DEF Whole
<1>11. r.cut = TRUE \/ \A k \in 1 .. Len(mounts) : fs[mounts[k]].name # r.name
  <2>1. SUFFICES ASSUME Cut(attempt.name) = attempt.name, NEW k \in 1 .. Len(mounts), fs[mounts[k]].name = r.name
                 PROVE  FALSE
    BY <1>5
  <2>2. Sought(attempt.name) = attempt.name
    BY <1>2, <2>1, UncutIsSought
  <2>3. Matches(mounts[k], attempt.name) /\ Contains(mounts, mounts[k]) /\ mounts[k] \in FsIds
    BY <1>4, <1>5, <2>1, <2>2 DEF Matches, Contains, Sought
  <2> QED BY <2>3 DEF create, VlFs_Create, VlFs_Find
<1>12. Unique(mounts', fs')
  <2>1. Len(mounts) \in Nat
    BY DEF MountInv, MountTypes
  <2> QED BY <1>4, <1>6, <1>11, <2>1 DEF Unique, MountInv
<1> QED BY <1>4, <1>6, <1>7, <1>8, <1>9, <1>10, <1>12 DEF MountInv, MountTypes, Holding

\* Only the data of one file system change.
LEMMA DataChange ==
  ASSUME MountInv, NEW i \in FsIds, NEW d \in {"none", "live", "freed"}, fs' = [fs EXCEPT ![i].data = d]
  PROVE  /\ fs' \in [FsIds -> Mounted]
         /\ \A j \in FsIds : fs'[j].name = fs[j].name /\ fs'[j].cut = fs[j].cut /\ (j # i => fs'[j] = fs[j])
         /\ fs'[i].data = d /\ fs'[i].end = fs[i].end
         /\ Unique(mounts, fs')
<1>1. fs \in [FsIds -> Mounted] /\ \A k \in 1 .. Len(mounts) : mounts[k] \in FsIds
  BY DEF MountInv, MountTypes
<1>2. PICK r \in Mounted : r = fs[i]
  BY <1>1
<1>3. PICK q \in Mounted : q = [r EXCEPT !.data = d] /\ q.name = r.name /\ q.cut = r.cut /\ q.data = d /\ q.end = r.end
  <2>1. [r EXCEPT !.data = d] \in Mounted
    BY DEF Mounted
  <2>2. [r EXCEPT !.data = d].name = r.name /\ [r EXCEPT !.data = d].cut = r.cut /\ [r EXCEPT !.data = d].data = d
        /\ [r EXCEPT !.data = d].end = r.end
    BY DEF Mounted
  <2> QED BY <2>1, <2>2
<1>4. fs' = [fs EXCEPT ![i] = q]
  BY <1>1, <1>2, <1>3
<1>5. /\ fs' \in [FsIds -> Mounted]
      /\ \A j \in FsIds : fs'[j].name = fs[j].name /\ fs'[j].cut = fs[j].cut /\ (j # i => fs'[j] = fs[j])
      /\ fs'[i].data = d /\ fs'[i].end = fs[i].end
  BY <1>1, <1>2, <1>3, <1>4
<1>6. Unique(mounts, fs')
  BY <1>1, <1>5 DEF Unique, MountInv
<1> QED BY <1>5, <1>6

\* Only the end of one mount is told.
LEMMA EndChange ==
  ASSUME MountInv, NEW i \in FsIds, NEW e \in Endings, fs' = [fs EXCEPT ![i].end = e]
  PROVE  /\ fs' \in [FsIds -> Mounted]
         /\ \A j \in FsIds : /\ fs'[j].name = fs[j].name /\ fs'[j].cut = fs[j].cut
                              /\ fs'[j].data = fs[j].data /\ (j # i => fs'[j] = fs[j])
         /\ fs'[i].end = e
         /\ Unique(mounts, fs')
<1>1. fs \in [FsIds -> Mounted] /\ \A k \in 1 .. Len(mounts) : mounts[k] \in FsIds
  BY DEF MountInv, MountTypes
<1>2. PICK r \in Mounted : r = fs[i]
  BY <1>1
<1>3. PICK q \in Mounted : q = [r EXCEPT !.end = e] /\ q.name = r.name /\ q.cut = r.cut /\ q.data = r.data /\ q.end = e
  <2>1. [r EXCEPT !.end = e] \in Mounted
    BY DEF Mounted, Endings
  <2>2. /\ [r EXCEPT !.end = e].name = r.name /\ [r EXCEPT !.end = e].cut = r.cut
        /\ [r EXCEPT !.end = e].data = r.data /\ [r EXCEPT !.end = e].end = e
    BY DEF Mounted
  <2> QED BY <2>1, <2>2
<1>4. fs' = [fs EXCEPT ![i] = q]
  BY <1>1, <1>2, <1>3
<1>5. /\ fs' \in [FsIds -> Mounted]
      /\ \A j \in FsIds : /\ fs'[j].name = fs[j].name /\ fs'[j].cut = fs[j].cut
                           /\ fs'[j].data = fs[j].data /\ (j # i => fs'[j] = fs[j])
      /\ fs'[i].end = e
  BY <1>1, <1>2, <1>3, <1>4
<1>6. Unique(mounts, fs')
  BY <1>1, <1>5 DEF Unique, MountInv
<1> QED BY <1>5, <1>6

\* A mount ends with its file system in the list.
LEMMA MountEnds ==
  ASSUME MountInv, attempt.at \in {"volume", "fsinfo"}, NEW e \in Endings, MountEnded(e), mounts' = mounts,
         pieces' = pieces \/ pieces' = pieces \cup {<<attempt.id, "databuf">>},
         attempt' = NoAttempt \/ attempt' \in Attempts, ~Holding(attempt')
  PROVE  MountInv'
<1>1. PICK n \in 1 .. Len(mounts) : mounts[n] = attempt.id
  BY DEF MountInv, Holding
<1>2. attempt.id \in FsIds /\ \A k \in 1 .. Len(mounts) : mounts[k] \in FsIds
  BY <1>1 DEF MountInv, MountTypes
<1>3. /\ fs' \in [FsIds -> Mounted]
      /\ \A j \in FsIds : /\ fs'[j].name = fs[j].name /\ fs'[j].cut = fs[j].cut
                           /\ fs'[j].data = fs[j].data /\ (j # attempt.id => fs'[j] = fs[j])
      /\ fs'[attempt.id].end = e
      /\ Unique(mounts, fs')
  BY <1>2, EndChange DEF MountEnded
<1>4. fs[attempt.id].data = "live"
  BY DEF MountInv, Loaded
<1>5. Reached(mounts', fs', pieces') /\ pieces' \subseteq Pieces
  BY <1>1, <1>2, <1>3, <1>4 DEF Reached, MountInv, MountTypes, Pieces
<1>6. Whole(mounts', fs', attempt')
  <2>1. ASSUME NEW k \in 2 .. Len(mounts) PROVE fs'[mounts[k]].data = "live" /\ fs'[mounts[k]].end \in Endings
    <3>1. mounts[k] \in FsIds /\ fs[mounts[k]].data = "live"
          /\ (fs[mounts[k]].end \in Endings \/ mounts[k] = attempt.id)
      BY <1>2 DEF MountInv, Whole
    <3> QED BY <1>3, <3>1
  <2> QED BY <2>1 DEF Whole
<1>7. Loaded(fs', attempt')
  BY DEF Loaded, Holding
<1>8. MountTypes'
  BY <1>3, <1>5 DEF MountTypes, MountInv, Distinct
<1> QED BY <1>3, <1>5, <1>6, <1>7, <1>8 DEF MountInv

LEMMA MountAllocates == ASSUME MountInv, allocate_data PROVE MountInv'
<1>1. /\ attempt.at = "data" /\ fs' = [fs EXCEPT ![attempt.id].data = "live"]
      /\ pieces' = pieces \cup {<<attempt.id, "data">>}
      /\ attempt' = [attempt EXCEPT !.at = "volume"] /\ mounts' = mounts
  BY DEF allocate_data
<1>2. attempt \in Attempts
  BY <1>1 DEF MountInv, MountTypes, NoAttempt
<1>3. PICK n \in 1 .. Len(mounts) : mounts[n] = attempt.id
  BY <1>1 DEF MountInv, Holding
<1>4. attempt.id \in FsIds /\ \A k \in 1 .. Len(mounts) : mounts[k] \in FsIds
  BY <1>3 DEF MountInv, MountTypes
<1>5. attempt' \in Attempts /\ attempt'.at = "volume" /\ attempt'.id = attempt.id
  BY <1>1, <1>2 DEF Attempts, Stages
<1>6. /\ fs' \in [FsIds -> Mounted]
      /\ \A j \in FsIds : fs'[j].name = fs[j].name /\ fs'[j].cut = fs[j].cut /\ (j # attempt.id => fs'[j] = fs[j])
      /\ fs'[attempt.id].data = "live" /\ fs'[attempt.id].end = fs[attempt.id].end
      /\ Unique(mounts, fs')
  BY <1>1, <1>4, DataChange
<1>7. Reached(mounts', fs', pieces') /\ pieces' \subseteq Pieces
  BY <1>1, <1>3, <1>4, <1>6 DEF Reached, MountInv, MountTypes, Pieces
<1>8. Whole(mounts', fs', attempt') /\ Loaded(fs', attempt')
  <2>1. ASSUME NEW k \in 2 .. Len(mounts)
        PROVE  /\ fs'[mounts[k]].data = "live"
               /\ fs'[mounts[k]].end \in Endings \/ (Holding(attempt') /\ mounts[k] = attempt'.id)
    <3>1. mounts[k] \in FsIds /\ (fs[mounts[k]].data = "live" \/ mounts[k] = attempt.id)
          /\ (fs[mounts[k]].end \in Endings \/ mounts[k] = attempt.id)
      BY <1>4 DEF MountInv, Whole
    <3> QED BY <1>5, <1>6, <3>1 DEF Holding
  <2> QED BY <1>1, <1>5, <1>6, <2>1 DEF Whole, Loaded
<1>9. MountTypes'
  BY <1>1, <1>5, <1>6, <1>7 DEF MountTypes, MountInv, Distinct
<1> QED BY <1>1, <1>3, <1>5, <1>6, <1>7, <1>8, <1>9 DEF MountInv

LEMMA MountGivesUp == ASSUME MountInv, Holding(attempt), has_error PROVE MountInv'
<1> DEFINE i == attempt.id
           left == pieces \ {<<i, "data">>, <<i, "databuf">>}
<1>1. attempt \in Attempts
  BY DEF MountInv, MountTypes, NoAttempt, Holding
<1>2. PICK n \in 1 .. Len(mounts) : mounts[n] = i
  BY DEF MountInv
<1>3. /\ mounts \in Seq(FsIds) /\ Distinct(mounts) /\ i \in FsIds /\ fs \in [FsIds -> Mounted]
      /\ \A k \in 1 .. Len(mounts) : mounts[k] \in FsIds /\ pieces \subseteq Pieces
  BY <1>2 DEF MountInv, MountTypes
<1>4. (attempt' = NoAttempt \/ attempt' \in Attempts) /\ attempt'.at \in {"none", "probe"} /\ ~Holding(attempt')
  BY <1>1, NextDriverAsked DEF has_error, Holding
<1>5. VlFs_Remove(i, left)
  BY DEF has_error
<1>6. CASE Contains(Tail(mounts), i)
  <2>1. PICK m \in 1 .. Len(Tail(mounts)) : Tail(mounts)[m] = i
    BY <1>6 DEF Contains
  <2>2. n = m + 1
    BY <1>2, <1>3, <2>1 DEF Distinct
  <2>3. (CHOOSE k \in 1 .. Len(mounts) : mounts[k] = i) = n
    BY <1>2, <1>3 DEF Distinct
  <2>4. /\ mounts' = RemoveAt(mounts, n) /\ pieces' = left \ {<<i, "fs">>}
        /\ fs' = [fs EXCEPT ![i] = NoFs]
    BY <1>5, <1>6, <2>3 DEF VlFs_Remove
  <2>6. /\ mounts' \in Seq(FsIds) /\ Distinct(mounts') /\ Len(mounts') = Len(mounts) - 1
        /\ \A k \in 1 .. Len(mounts) - 1 : mounts'[k] = IF k < n THEN mounts[k] ELSE mounts[k + 1]
    <3>1. mounts' = RemoveAt(mounts, n) /\ \A k \in 1 .. Len(mounts) : mounts[k] \in FsIds
      BY <1>3, <2>4
    <3>2. RemoveAt(mounts, n) \in Seq(FsIds) /\ Distinct(RemoveAt(mounts, n))
      BY <1>3, <3>1, Removed
    <3>3. /\ Len(RemoveAt(mounts, n)) = Len(mounts) - 1
          /\ \A k \in 1 .. Len(mounts) - 1 :
               RemoveAt(mounts, n)[k] = IF k < n THEN mounts[k] ELSE mounts[k + 1]
      BY <1>3, RemovedElements
    <3> QED BY <3>1, <3>2, <3>3
  <2>7. \A k \in 1 .. Len(mounts) - 1 : mounts'[k] # i /\ mounts'[k] \in FsIds
    BY <1>2, <1>3, <2>6 DEF Distinct
  <2>8. /\ fs' \in [FsIds -> Mounted] /\ \A k \in 1 .. Len(mounts) - 1 : fs'[mounts'[k]] = fs[mounts'[k]]
    <3>1. NoFs \in Mounted
      BY DEF NoFs, Mounted
    <3> QED BY <1>3, <2>4, <2>7, <3>1
  <2>9. \A p \in pieces' : p \in pieces /\ p[1] # i
    BY <1>3, <2>4 DEF Pieces
  <2>10. Reached(mounts', fs', pieces')
    <3>1. ASSUME NEW p \in pieces'
          PROVE  \E k \in 1 .. Len(mounts') : mounts'[k] = p[1] /\ (p[2] = "fs" \/ fs'[p[1]].data = "live")
      <4>1. PICK k \in 1 .. Len(mounts) : mounts[k] = p[1] /\ (p[2] = "fs" \/ fs[p[1]].data = "live")
        BY <2>9 DEF MountInv, Reached
      <4>2. k # n /\ fs'[p[1]] = fs[p[1]]
        BY <1>2, <1>3, <2>4, <2>9, <4>1
      <4>3. CASE k < n
        BY <1>3, <2>6, <4>1, <4>2, <4>3
      <4>4. CASE k > n
        <5>1. k - 1 \in 1 .. Len(mounts') /\ ~(k - 1 < n) /\ (k - 1) + 1 = k
          BY <1>3, <2>6, <4>4
        <5> QED BY <2>6, <4>1, <4>2, <5>1
      <4> QED BY <1>3, <4>2, <4>3, <4>4
    <3> QED BY <3>1 DEF Reached
  <2>11. Whole(mounts', fs', attempt') /\ Loaded(fs', attempt')
    <3>1. ASSUME NEW k \in 2 .. Len(mounts') PROVE fs'[mounts'[k]].data = "live" /\ fs'[mounts'[k]].end \in Endings
      <4>0. k \in 2 .. Len(mounts) - 1 /\ k \in 2 .. Len(mounts) /\ k + 1 \in 2 .. Len(mounts)
        BY <1>3, <2>6
      <4>1. PICK j \in 2 .. Len(mounts) : mounts'[k] = mounts[j]
        BY <2>6, <4>0
      <4>2. k \in 1 .. Len(mounts) - 1 /\ mounts[j] # i
        BY <2>6, <2>7, <3>1, <4>1
      <4>3. fs[mounts[j]].data = "live" /\ fs[mounts[j]].end \in Endings
        BY <4>2 DEF MountInv, Whole
      <4> QED BY <2>8, <4>1, <4>2, <4>3
    <3>2. Loaded(fs', attempt')
      BY <1>4 DEF Loaded, Holding
    <3> QED BY <3>1, <3>2 DEF Whole
  <2>12. Unique(mounts', fs')
    <3>1. ASSUME NEW j \in 1 .. Len(mounts'), NEW k \in 1 .. Len(mounts'), fs'[mounts'[j]].name = fs'[mounts'[k]].name
          PROVE  j = k \/ fs'[mounts'[j]].cut = TRUE \/ fs'[mounts'[k]].cut = TRUE
      <4> DEFINE from(x) == IF x < n THEN x ELSE x + 1
      <4>1. \A x \in 1 .. Len(mounts') : from(x) \in 1 .. Len(mounts) /\ mounts'[x] = mounts[from(x)]
        BY <1>3, <2>6
      <4>2. from(j) = from(k) => j = k
        OBVIOUS
      <4>3. j \in 1 .. Len(mounts) - 1 /\ k \in 1 .. Len(mounts) - 1
        BY <2>6
      <4> HIDE DEF from
      <4>4. fs'[mounts'[j]] = fs[mounts[from(j)]] /\ fs'[mounts'[k]] = fs[mounts[from(k)]]
        BY <2>8, <4>1, <4>3
      <4>5. from(j) \in 1 .. Len(mounts) /\ from(k) \in 1 .. Len(mounts)
        BY <4>1
      <4>6. from(j) = from(k) \/ fs[mounts[from(j)]].cut = TRUE \/ fs[mounts[from(k)]].cut = TRUE
        BY <3>1, <4>4, <4>5 DEF MountInv, Unique
      <4> QED BY <4>2, <4>4, <4>6
    <3> QED BY <3>1 DEF Unique
  <2> QED BY <1>3, <1>4, <2>6, <2>8, <2>9, <2>10, <2>11, <2>12 DEF MountInv, MountTypes
<1>7. CASE ~Contains(Tail(mounts), i)
  <2>1. n = 1
    <3>1. ASSUME n # 1 PROVE FALSE
      <4>1. n - 1 \in 1 .. Len(Tail(mounts)) /\ Tail(mounts)[n - 1] = i
        BY <1>2, <1>3, <3>1
      <4> QED BY <1>7, <4>1 DEF Contains
    <3> QED BY <3>1
  <2>2. mounts' = mounts /\ pieces' = left /\ fs' = [fs EXCEPT ![i].data = IF @ = "none" THEN @ ELSE "freed"]
    BY <1>5, <1>7 DEF VlFs_Remove
  <2>3. PICK d \in {"none", "live", "freed"} : fs' = [fs EXCEPT ![i].data = d]
    BY <1>3, <2>2 DEF Mounted
  <2>4. /\ fs' \in [FsIds -> Mounted]
        /\ \A j \in FsIds : j # i => fs'[j] = fs[j]
        /\ Unique(mounts, fs')
    BY <1>3, <2>3, DataChange
  <2>5. Reached(mounts', fs', pieces') /\ pieces' \subseteq Pieces
    <3>1. ASSUME NEW p \in pieces'
          PROVE  \E k \in 1 .. Len(mounts) : mounts[k] = p[1] /\ (p[2] = "fs" \/ fs'[p[1]].data = "live")
      <4>1. p \in pieces /\ p # <<i, "data">> /\ p # <<i, "databuf">> /\ p \in Pieces
        BY <1>3, <2>2
      <4>2. PICK k \in 1 .. Len(mounts) : mounts[k] = p[1] /\ (p[2] = "fs" \/ fs[p[1]].data = "live")
        BY <4>1 DEF MountInv, Reached
      <4>3. p[1] # i \/ p[2] = "fs"
        BY <4>1 DEF Pieces
      <4>4. p[1] # i => fs'[p[1]] = fs[p[1]]
        BY <1>3, <2>4, <4>2
      <4> QED BY <4>2, <4>3, <4>4
    <3> QED BY <1>3, <2>2, <3>1 DEF Reached
  <2>6. Whole(mounts', fs', attempt') /\ Loaded(fs', attempt')
    <3>1. ASSUME NEW k \in 2 .. Len(mounts) PROVE fs'[mounts[k]].data = "live" /\ fs'[mounts[k]].end \in Endings
      <4>1. mounts[k] # i /\ mounts[k] \in FsIds
        BY <1>2, <1>3, <2>1, <3>1 DEF Distinct
      <4> QED BY <2>4, <4>1 DEF Whole, MountInv
    <3>2. Loaded(fs', attempt')
      BY <1>4 DEF Loaded, Holding
    <3> QED BY <2>2, <3>1, <3>2 DEF Whole
  <2> QED BY <1>3, <1>4, <2>2, <2>4, <2>5, <2>6 DEF MountInv, MountTypes
<1> QED BY <1>6, <1>7

LEMMA MountStarts == MountInit => MountInv
<1> SUFFICES ASSUME MountInit PROVE MountInv
  OBVIOUS
<1>1. mounts = <<>> /\ pieces = {} /\ attempt = NoAttempt /\ fs = [i \in FsIds |-> NoFs] /\ Len(mounts) = 0
  BY DEF MountInit
<1>2. fs \in [FsIds -> Mounted]
  BY <1>1 DEF NoFs, Mounted
<1>3. mounts \in Seq(FsIds) /\ Distinct(mounts)
  BY <1>1 DEF Distinct
<1>4. ~Holding(attempt)
  BY <1>1 DEF Holding, NoAttempt
<1> QED BY <1>1, <1>2, <1>3, <1>4 DEF MountInv, MountTypes, Reached, Whole, Unique, Loaded, Holding

LEMMA MountStep ==
  ASSUME NEW Chars, MountNames \subseteq Seq(Chars), NameMax \in Nat \ {0}
  PROVE  MountInv /\ [MountNext]_mountVars => MountInv'
<1> SUFFICES ASSUME MountInv, [MountNext]_mountVars PROVE MountInv'
  OBVIOUS
<1>0. attempt = NoAttempt \/ attempt \in Attempts
  BY DEF MountInv, MountTypes
<1>1. CASE UNCHANGED mountVars
  BY <1>1 DEF mountVars, MountInv, MountTypes, Distinct, Holding, Reached, Whole, Unique, Loaded
<1>2. ASSUME NEW m \in Media, NEW n \in MountNames, VlFs_MountAuto(m, n) PROVE MountInv'
  <2>1. attempt = NoAttempt /\ attempt' = [at |-> "probe", medium |-> m, name |-> n, driver |-> 1, id |-> 0]
        /\ UNCHANGED <<mounts, fs, pieces>>
    BY <1>2 DEF VlFs_MountAuto
  <2>2. ~Holding(attempt)
    BY <2>1 DEF NoAttempt, Holding
  <2>3. attempt' \in Attempts /\ ~Holding(attempt')
    BY <2>1 DEF Attempts, Stages, Holding
  <2> QED BY <2>1, <2>2, <2>3, OnlyTheAttempt
<1>3. ASSUME NextDriver, attempt.at \in Stages
      PROVE  (attempt' = NoAttempt \/ attempt' \in Attempts) /\ ~Holding(attempt')
  <2>1. attempt \in Attempts
    BY <1>0, <1>3 DEF NoAttempt, Stages
  <2> QED BY <1>3, <2>1, NextDriverAsked DEF Holding
<1>6. CASE probe_fat \/ probe_iso9660
  <2>1. attempt' = [attempt EXCEPT !.at = "create"] /\ UNCHANGED <<mounts, fs, pieces>> /\ attempt.at = "probe"
    BY <1>6 DEF probe_fat, probe_iso9660, Accept
  <2>2. attempt \in Attempts
    BY <1>0, <2>1 DEF NoAttempt
  <2>3. attempt' \in Attempts /\ ~Holding(attempt') /\ ~Holding(attempt)
    BY <2>1, <2>2 DEF Attempts, Stages, Holding
  <2> QED BY <2>1, <2>3, OnlyTheAttempt
<1>7. CASE probe_fails \/ create_fails
  <2>1. NextDriver /\ attempt.at \in {"probe", "create"} /\ UNCHANGED <<mounts, fs, pieces>>
    BY <1>7 DEF probe_fails, create_fails
  <2>2. attempt.at \in Stages /\ ~Holding(attempt)
    BY <2>1 DEF Stages, Holding
  <2> QED BY <1>3, <2>1, <2>2, OnlyTheAttempt
<1>8. CASE create
  BY <1>8, MountCreates
<1>9. CASE allocate_data
  BY <1>9, MountAllocates
<1>10. CASE allocate_data_fails \/ read_volume_fails
  BY <1>10, MountGivesUp DEF allocate_data_fails, read_volume_fails, Holding
<1>11. CASE read_boot_sector
  <2>1. attempt.at = "volume" /\ pieces' = pieces \cup {<<attempt.id, "databuf">>} /\ mounts' = mounts
    BY <1>11 DEF read_boot_sector
  <2>2. attempt \in Attempts
    BY <1>0, <2>1 DEF NoAttempt
  <2>3. CASE attempt.medium = "fat32"
    <3>1. attempt' = [attempt EXCEPT !.at = "fsinfo"] /\ fs' = fs
      BY <1>11, <2>3 DEF read_boot_sector
    <3>2. attempt' \in Attempts /\ attempt'.id = attempt.id /\ attempt'.at = "fsinfo"
      BY <2>2, <3>1 DEF Attempts, Stages
    <3>3. PICK n \in 1 .. Len(mounts) : mounts[n] = attempt.id
      BY <2>1 DEF MountInv, Holding
    <3>4. attempt.id \in FsIds /\ fs[attempt.id].data = "live"
      BY <2>1, <3>3 DEF MountInv, MountTypes, Loaded
    <3>5. Reached(mounts', fs', pieces') /\ pieces' \subseteq Pieces
      BY <2>1, <3>1, <3>3, <3>4 DEF MountInv, MountTypes, Reached, Pieces
    <3>6. Whole(mounts', fs', attempt') /\ Loaded(fs', attempt')
      BY <2>1, <3>1, <3>2, <3>4 DEF MountInv, Whole, Loaded, Holding
    <3>7. MountTypes' /\ Unique(mounts', fs')
      BY <2>1, <3>1, <3>2, <3>5 DEF MountInv, MountTypes, Distinct
    <3> QED BY <2>1, <3>2, <3>3, <3>5, <3>6, <3>7 DEF MountInv
  <2>4. CASE attempt.medium # "fat32"
    <3>1. attempt' = NoAttempt /\ MountEnded("mounted") /\ ~Holding(attempt')
      BY <1>11, <2>4 DEF read_boot_sector, NoAttempt, Holding
    <3> QED BY <2>1, <3>1, MountEnds DEF Endings
  <2> QED BY <2>3, <2>4
<1>12. CASE read_descriptors \/ read_fsinfo
  <2>1. attempt.at \in {"volume", "fsinfo"} /\ attempt' = NoAttempt /\ MountEnded("mounted") /\ UNCHANGED <<mounts, pieces>>
    BY <1>12 DEF read_descriptors, read_fsinfo
  <2>2. ~Holding(attempt')
    BY <2>1 DEF NoAttempt, Holding
  <2> QED BY <2>1, <2>2, MountEnds DEF Endings
<1>13. CASE read_fsinfo_fails
  <2>1. attempt.at = "fsinfo" /\ NextDriver /\ MountEnded("unread") /\ UNCHANGED <<mounts, pieces>>
    BY <1>13 DEF read_fsinfo_fails
  <2>2. (attempt' = NoAttempt \/ attempt' \in Attempts) /\ ~Holding(attempt')
    BY <1>3, <2>1 DEF Stages
  <2> QED BY <2>1, <2>2, MountEnds DEF Endings
<1> QED BY <1>1, <1>2, <1>6, <1>7, <1>8, <1>9, <1>10, <1>11, <1>12, <1>13 DEF MountNext, Mount

(* Whatever is in the drives, whichever names are asked for and whatever      *)
(* fails, mounts that were not cut keep names of their own; what is allocated *)
(* is a file system of the list or the data of one that has its data; and     *)
(* between mounts the list holds, but for its first, file systems that were   *)
(* mounted with their data, or FAT32 ones whose FSInfo could not be read.     *)
THEOREM MountsCorrect ==
  ASSUME NEW Chars, MountNames \subseteq Seq(Chars), NameMax \in Nat \ {0}
  PROVE  MountSpec => []FailedMountsLeaveNothing
<1>1. MountInv => FailedMountsLeaveNothing
  <2> SUFFICES ASSUME MountInv PROVE FailedMountsLeaveNothing
    OBVIOUS
  <2>1. DOMAIN mounts = 1 .. Len(mounts) /\ \A k \in 1 .. Len(mounts) : mounts[k] \in FsIds
    BY DEF MountInv, MountTypes
  <2>2. NamesAreUnique
    BY <2>1 DEF MountInv, Unique, NamesAreUnique
  <2>3. NothingIsLost
    BY <2>1 DEF MountInv, Reached, NothingIsLost
  <2>4. attempt = NoAttempt => \A k \in DOMAIN mounts : k > 1 =>
          fs[mounts[k]].data = "live" /\ fs[mounts[k]].end \in {"mounted", "unread"}
    BY <2>1 DEF MountInv, Whole, NoAttempt, Holding, Endings
  <2> QED BY <2>2, <2>3, <2>4 DEF FailedMountsLeaveNothing
<1> QED BY <1>1, MountStarts, MountStep, PTL DEF MountSpec

-----------------------------------------------------------------------------
(* The ISO 9660 driver.  IsoInv says where the walk and the read in progress *)
(* are; what FileSystem sees of a state is FilesOf, WalkOf and AnswerOf.     *)
(* First the invariant, then a lemma for each step of FileSystem that says   *)
(* so in these terms, then one for each action of the driver.                *)

OpenFiles == [name : volume.files \cup {NoFile}, size : Nat, start : Nat, cursor : Nat, sure : {TRUE}]
OpenDirectories == [name : DOMAIN volume.listing, start : Nat, lba : Nat, index : Nat, pos : Nat, sure : BOOLEAN]
EntryNames == volume.names \cup volume.directories \cup {NoFile}
Contents == Nat \X Nat
Calls == [op : {"read", "list", "open", "opendir"}, h : Handles, at : {"read", "entry"}, name : EntryNames,
          doubt : BOOLEAN, from : Nat, len : Nat, got : Seq(Contents)]

\* The n-th byte of a file, counted from 0.
ByteAt(f, n) == <<f.start + n \div SectorSize, n % SectorSize>>

\* A handle is closed, or it is of a file on the volume.
FileInv ==
    /\ files \in [Handles -> OpenFiles]
    /\ \A h \in Handles :
         /\ files[h].cursor <= files[h].size
         /\ files[h] = ClosedFile
            \/ LET e == volume.entryOf[files[h].name]
               IN files[h].name \in volume.files /\ files[h].size = e.size /\ files[h].start = e.start

\* The walk is in the sector of its directory, as many entries on as it has
\* answered.
WalkInv ==
    /\ dir \in OpenDirectories
    /\ IsDirectory(volume, dir.start, dir.name)
    /\ dir.lba = dir.start /\ dir.index = dir.pos
    /\ dir.sure => dir.pos <= Len(volume.listing[dir.name])

\* What has been read so far.
ReadInv ==
    /\ IsOpen(call.h)
    /\ files[call.h].cursor = call.from + Len(call.got)
    /\ call.len > 0 /\ files[call.h].cursor + call.len <= files[call.h].size
    /\ ~(Torn \/ call.doubt) =>
           \A i \in 1 .. Len(call.got) : call.got[i] = ByteAt(files[call.h], call.from + i - 1)

\* A name that is looked for is not among the entries that have been passed.
SeekInv ==
    /\ call.at = "entry" => databuf.key = dir.lba
    /\ call.op = "open" => ~IsOpen(call.h)
    /\ call.op # "list" /\ ~call.doubt =>
           /\ dir.sure
           /\ \A i \in 1 .. dir.pos : volume.listing[dir.name][i] # call.name

IsoInv ==
    /\ id \in DOMAIN Volumes
    /\ databuf \in [key : Nat, holds : Nat]
    /\ failed \in Nat
    /\ FileInv /\ WalkInv
    /\ \/ call = NoCall
       \/ call \in Calls /\ call.op = "read" /\ ReadInv
       \/ call \in Calls /\ call.op # "read" /\ SeekInv

LEMMA VolumeFacts ==
  ASSUME id \in DOMAIN Volumes
  PROVE  /\ volume.pathtbl \in Nat /\ volume.seeks \subseteq Nat
         /\ IsDirectory(volume, volume.rootdir, Root)
         /\ NoFile \notin volume.files
         /\ \A f \in volume.files : volume.entryOf[f].size \in Nat /\ volume.entryOf[f].start \in Nat
         /\ \A d \in DOMAIN volume.listing : IsSequence(volume.listing[d])
         /\ \A s \in DOMAIN volume.slots : IsSector(volume, volume.slots[s])
BY VolumesAssumption DEF volume

LEMMA ListingLength ==
  ASSUME id \in DOMAIN Volumes, NEW d \in DOMAIN volume.listing
  PROVE  Len(volume.listing[d]) \in Nat /\ DOMAIN volume.listing[d] = 1 .. Len(volume.listing[d])
<1>1. IsSequence(volume.listing[d])
  BY VolumeFacts
<1>2. PICK S : volume.listing[d] \in Seq(S)
  BY <1>1 DEF IsSequence
<1> QED BY ONLY <1>2

\* The way a sector is read through the buffer.
LEMMA SectorRead ==
  ASSUME databuf \in [key : Nat, holds : Nat], NEW lba \in Nat, NEW r \in read_sector(lba)
  PROVE  /\ r.buf \in [key : Nat, holds : Nat]
         /\ r.ok => r.buf.key = lba /\ (r.buf = databuf \/ r.buf.holds = lba)
BY DEF read_sector

\* The entry that is looked at: the walk never comes to the end of a sector.
LEMMA EntryFacts ==
  ASSUME IsoInv
  PROVE  /\ Current.kind \in {"end", "file"}
         /\ Current.kind = "file" =>
               /\ IsEntry(volume, Current)
               /\ AtNext = [dir EXCEPT !.index = @ + 1, !.pos = @ + 1, !.sure = Sure]
<1> USE DEF IsoInv, WalkInv
<1>1. dir.index \in Nat
  BY DEF OpenDirectories
<1>2. CASE databuf.holds \in DOMAIN volume.slots
  <2>1. Slots = volume.slots[databuf.holds]
    BY <1>2 DEF Slots
  <2>2. IsSector(volume, Slots)
    BY <1>2, <2>1, VolumeFacts
  <2>3. PICK S : Slots \in Seq(S)
    BY <2>2 DEF IsSector, IsSequence
  <2>4. CASE dir.index < Len(Slots)
    <3>1. Current = Slots[dir.index + 1] /\ dir.index + 1 \in 1 .. Len(Slots)
      BY <1>1, <2>3, <2>4 DEF Current
    <3>2. Current.kind \in {"end", "file"} /\ IsEntry(volume, Current)
      BY <2>2, <3>1 DEF IsSector
    <3>3. Slots[Len(Slots)].kind = "end"
      BY <2>2 DEF IsSector
    <3>4. Current.kind = "file" => dir.index + 1 # Len(Slots)
      BY <3>1, <3>3
    <3>5. Current.kind = "file" => dir.index + 1 < Len(Slots)
      BY <1>1, <2>3, <2>4, <3>4
    <3> QED BY <3>2, <3>5 DEF AtNext
  <2>5. CASE ~(dir.index < Len(Slots))
    BY <2>5 DEF Current
  <2> QED BY <2>4, <2>5
<1>3. CASE databuf.holds \notin DOMAIN volume.slots
  <2>1. Slots = <<>>
    BY <1>3 DEF Slots
  <2>2. Current.kind = "end"
    BY <1>1, <2>1 DEF Current
  <2> QED BY <2>2
<1> QED BY <1>2, <1>3

\* Where the walk is sure of its place, that is the entry it has to answer.
LEMMA SureEntry ==
  ASSUME IsoInv, Walking, call.at = "entry", Sure
  PROVE  LET names == volume.listing[dir.name] IN
         /\ Current.kind = "end" => dir.pos = Len(names)
         /\ Current.kind = "file" =>
               /\ dir.pos < Len(names)
               /\ Current.name = names[dir.pos + 1]
               /\ Current.target = volume.leads[dir.name][names[dir.pos + 1]]
<1> DEFINE names == volume.listing[dir.name]
           n == Len(names)
<1>1. /\ dir.pos \in Nat /\ dir.index = dir.pos /\ dir.pos <= n /\ dir.lba = dir.start /\ dir.start \in Nat
      /\ dir.name \in DOMAIN volume.listing /\ id \in DOMAIN Volumes
  BY DEF IsoInv, WalkInv, OpenDirectories, Sure
<1>2. n \in Nat
  BY <1>1, ListingLength
<1>3. databuf.key = dir.lba
  BY DEF IsoInv, Walking, SeekInv, ReadInv, NoCall
<1>4. databuf.holds = dir.start
  BY <1>1, <1>3 DEF Sure, Torn, None
<1>5. IsDirectory(volume, dir.start, dir.name)
  BY DEF IsoInv, WalkInv
<1>6. /\ dir.start \in DOMAIN volume.slots
      /\ n < Len(volume.slots[dir.start])
      /\ volume.slots[dir.start][n + 1].kind = "end"
      /\ \A i \in 1 .. n :
            /\ volume.slots[dir.start][i].kind = "file"
            /\ volume.slots[dir.start][i].name = names[i]
            /\ volume.slots[dir.start][i].target = volume.leads[dir.name][names[i]]
  BY <1>5 DEF IsDirectory
<1>7. IsSector(volume, volume.slots[dir.start])
  BY <1>1, <1>6, VolumeFacts
<1>8. PICK S : volume.slots[dir.start] \in Seq(S)
  BY <1>7 DEF IsSector, IsSequence
<1>9. Current = volume.slots[dir.start][dir.pos + 1]
  <2>1. Slots = volume.slots[dir.start]
    BY <1>4, <1>6 DEF Slots
  <2>2. dir.index < Len(Slots)
    BY <1>1, <1>2, <1>6, <1>8, <2>1
  <2> QED BY <1>1, <2>1, <2>2 DEF Current
<1> HIDE DEF names, n
<1>10. dir.pos < n \/ dir.pos = n
  BY <1>1, <1>2
<1>11. CASE dir.pos < n
  <2>1. dir.pos + 1 \in 1 .. n
    BY <1>1, <1>2, <1>11
  <2> QED BY <1>6, <1>9, <1>11, <2>1 DEF names, n
<1>12. CASE dir.pos = n
  BY <1>6, <1>9, <1>12 DEF names, n
<1> QED BY <1>10, <1>11, <1>12

-----------------------------------------------------------------------------
(* The invariant. *)

LEMMA FilesStay == ASSUME IsoInv, id' = id, files' = files PROVE FileInv'
BY DEF IsoInv, FileInv, OpenFiles, volume

LEMMA WalkStays == ASSUME IsoInv, id' = id, dir' = dir PROVE WalkInv'
BY DEF IsoInv, WalkInv, OpenDirectories, volume

LEMMA Answered ==
  ASSUME IsoInv, id' = id, databuf' \in [key : Nat, holds : Nat], failed' \in Nat,
         FileInv', WalkInv', call' = NoCall
  PROVE  IsoInv'
BY DEF IsoInv

LEMMA IsoStarts == ASSUME IsoInit PROVE IsoInv
<1>1. id \in DOMAIN Volumes /\ failed \in Nat /\ call = NoCall
  BY DEF IsoInit
<1>2. databuf \in [key : Nat, holds : Nat]
  BY <1>1, VolumeFacts DEF IsoInit
<1>3. FileInv
  BY DEF IsoInit, FileInv, OpenFiles, ClosedFile
<1>4. WalkInv
  <2>1. IsDirectory(volume, volume.rootdir, Root)
    BY <1>1, VolumeFacts
  <2>2. Root \in DOMAIN volume.listing /\ volume.rootdir \in Nat
    BY <2>1 DEF IsDirectory
  <2>3. Len(volume.listing[Root]) \in Nat
    BY <1>1, <2>2, ListingLength
  <2>4. dir = [name |-> Root, start |-> volume.rootdir, lba |-> volume.rootdir, index |-> 0, pos |-> 0, sure |-> TRUE]
    BY DEF IsoInit, OpenedDirectory
  <2> QED BY <2>1, <2>2, <2>3, <2>4 DEF WalkInv, OpenDirectories
<1> QED BY <1>1, <1>2, <1>3, <1>4 DEF IsoInv

LEMMA DirectoryOpened ==
  ASSUME IsoInv, id' = id, NEW d, NEW s, IsDirectory(volume, s, d), dir' = OpenedDirectory(d, s)
  PROVE  WalkInv'
<1>1. volume' = volume
  BY DEF volume
<1>2. d \in DOMAIN volume.listing /\ s \in Nat
  BY DEF IsDirectory
<1>3. Len(volume.listing[d]) \in Nat
  BY <1>2, ListingLength DEF IsoInv
<1> QED BY <1>1, <1>2, <1>3 DEF WalkInv, OpenDirectories, OpenedDirectory

\* A new call.
LEMMA CallIsNew ==
  ASSUME NEW op \in {"read", "list", "open", "opendir"}, NEW h \in Handles, NEW n \in EntryNames
  PROVE  NewCall(op, h, n) \in Calls
BY EmptySeq DEF NewCall, Calls

LEMMA ReadStarts ==
  ASSUME IsoInv, NEW h \in Handles, NEW len \in Lengths, read(h, len)
  PROVE  IsoInv'
<1>1. FileInv' /\ WalkInv'
  BY FilesStay, WalkStays DEF read
<1>2. CASE Left(h) <= 0
  BY <1>1, <1>2, Answered DEF read, Answer, IsoInv
<1>3. CASE ~(Left(h) <= 0)
  <2> DEFINE n == Min2(len, Left(h))
             new == NewCall("read", h, NoFile)
  <2>1. files[h].cursor \in Nat /\ files[h].size \in Nat /\ len \in Nat \ {0}
    BY BoundsAssumption DEF IsoInv, FileInv, OpenFiles
  <2>2. n \in Nat /\ n > 0 /\ files[h].cursor + n <= files[h].size
    BY <1>3, <2>1 DEF Left, Min2
  <2>3. new \in Calls /\ new.op = "read" /\ new.h = h /\ new.got = <<>> /\ new.doubt = FALSE
    BY CallIsNew DEF NewCall, EntryNames
  <2> HIDE DEF n, new
  <2>4. call' = [[new EXCEPT !.len = n] EXCEPT !.from = files[h].cursor]
    BY <1>3 DEF read, Start, n, new
  <2>5. /\ call' \in Calls /\ call'.op = "read" /\ call'.h = h /\ call'.got = <<>>
        /\ call'.len = n /\ call'.from = files[h].cursor
    BY <2>1, <2>2, <2>3, <2>4 DEF Calls
  <2>6. Calls' = Calls
    BY DEF read, Calls, EntryNames, volume
  <2>7. files' = files /\ id' = id /\ databuf' = databuf /\ failed' = failed /\ IsOpen(h)
    BY DEF read
  <2>8. ReadInv'
    BY <2>1, <2>2, <2>5, <2>7 DEF ReadInv, IsOpen
  <2> QED BY <1>1, <2>5, <2>6, <2>7, <2>8 DEF IsoInv
<1> QED BY <1>2, <1>3

LEMMA HandleMoves ==
  ASSUME IsoInv, id' = id, NEW h \in Handles, IsOpen(h), NEW p \in 0 .. files[h].size,
         files' = [files EXCEPT ![h].cursor = p]
  PROVE  /\ FileInv'
         /\ files'[h] = [files[h] EXCEPT !.cursor = p]
<1>1. volume' = volume
  BY DEF volume
<1>2. files \in [Handles -> OpenFiles]
  BY DEF IsoInv, FileInv
<1>3. files' = [files EXCEPT ![h] = [files[h] EXCEPT !.cursor = p]]
  OBVIOUS
<1>4. /\ files[h] \in OpenFiles /\ files[h].name # NoFile
  BY <1>2 DEF IsOpen
<1>5. p \in Nat
  BY <1>4 DEF OpenFiles
<1> DEFINE f == [files[h] EXCEPT !.cursor = p]
<1>6. /\ f \in OpenFiles /\ f.cursor = p /\ f.name = files[h].name
      /\ f.size = files[h].size /\ f.start = files[h].start
  BY <1>4, <1>5 DEF OpenFiles
<1>7. LET e == volume.entryOf[f.name] IN f.name \in volume.files /\ f.size = e.size /\ f.start = e.start
  BY <1>4, <1>6 DEF IsoInv, FileInv, ClosedFile
<1>8. f.cursor <= f.size
  BY <1>4, <1>6 DEF OpenFiles
<1> HIDE DEF f
<1>9. files' = [files EXCEPT ![h] = f]
  BY <1>3 DEF f
<1>10. files'[h] = f /\ \A k \in Handles : k # h => files'[k] = files[k]
  BY <1>2, <1>9
<1>11. files' \in [Handles -> OpenFiles']
  BY <1>1, <1>2, <1>6, <1>9 DEF OpenFiles
<1>12. ASSUME NEW k \in Handles
       PROVE  /\ files'[k].cursor <= files'[k].size
              /\ files'[k] = ClosedFile
                 \/ LET e == volume.entryOf[files'[k].name]
                    IN files'[k].name \in volume.files /\ files'[k].size = e.size /\ files'[k].start = e.start
  BY <1>7, <1>8, <1>10 DEF IsoInv, FileInv
<1>13. files'[h] = [files[h] EXCEPT !.cursor = p]
  BY <1>10 DEF f
<1> QED BY <1>1, <1>11, <1>12, <1>13 DEF FileInv

LEMMA SeekKeeps ==
  ASSUME IsoInv, NEW h \in Handles, NEW p \in volume.seeks, seek(h, p)
  PROVE  IsoInv'
<1>1. p \in Nat
  BY VolumeFacts DEF IsoInv
<1>2. files[h].size \in Nat
  BY DEF IsoInv, FileInv, OpenFiles
<1>3. Min2(p, files[h].size) \in 0 .. files[h].size
  BY <1>1, <1>2 DEF Min2
<1>4. FileInv'
  BY <1>3, HandleMoves DEF seek
<1> QED BY <1>4, WalkStays, Answered DEF seek, Answer, IsoInv

LEMMA CloseKeeps ==
  ASSUME IsoInv, NEW h \in Handles, close(h)
  PROVE  IsoInv'
<1>1. volume' = volume
  BY DEF close, volume
<1>2. files \in [Handles -> OpenFiles] /\ files' = [files EXCEPT ![h] = ClosedFile]
  BY DEF close, IsoInv, FileInv
<1>3. ClosedFile \in OpenFiles /\ ClosedFile.cursor <= ClosedFile.size
  BY DEF ClosedFile, OpenFiles
<1>4. files' \in [Handles -> OpenFiles']
  BY <1>1, <1>2, <1>3 DEF OpenFiles
<1>5. \A k \in Handles : files'[k] = IF k = h THEN ClosedFile ELSE files[k]
  BY <1>2
<1>6. FileInv'
  BY <1>1, <1>3, <1>4, <1>5 DEF IsoInv, FileInv
<1> QED BY <1>6, WalkStays, Answered DEF close, Answer, IsoInv

\* Back to the first entry.
LEMMA Rewinds ==
  ASSUME IsoInv, id' = id, dir' = Rewound
  PROVE  WalkInv' /\ dir'.sure /\ dir'.pos = 0 /\ dir'.name = dir.name
<1>1. volume' = volume
  BY DEF volume
<1>2. dir \in OpenDirectories /\ IsDirectory(volume, dir.start, dir.name) /\ id \in DOMAIN Volumes
  BY DEF IsoInv, WalkInv
<1>3. Len(volume.listing[dir.name]) \in Nat
  BY <1>2, ListingLength DEF OpenDirectories
<1>4. /\ dir' \in OpenDirectories /\ dir'.name = dir.name /\ dir'.start = dir.start /\ dir'.lba = dir.start
      /\ dir'.index = 0 /\ dir'.pos = 0 /\ dir'.sure = TRUE
  BY <1>2 DEF Rewound, OpenDirectories
<1> QED BY <1>1, <1>2, <1>3, <1>4 DEF WalkInv, OpenDirectories

LEMMA RewindKeeps == ASSUME IsoInv, rewind_directory PROVE IsoInv'
BY Rewinds, FilesStay, Answered DEF rewind_directory, Answer, IsoInv

LEMMA ListStarts == ASSUME IsoInv, iter_directory PROVE IsoInv'
<1>1. (CHOOSE h \in Handles : TRUE) \in Handles
  BY BoundsAssumption
<1>2. call' = NewCall("list", CHOOSE h \in Handles : TRUE, NoFile) /\ call' \in Calls
  BY <1>1, CallIsNew DEF iter_directory, Start, EntryNames
<1>3. Calls' = Calls
  BY DEF iter_directory, Calls, EntryNames, volume
<1>4. call'.op = "list" /\ call'.at = "read"
  BY <1>2 DEF NewCall
<1>5. SeekInv'
  BY <1>4 DEF SeekInv
<1> QED BY <1>2, <1>3, <1>4, <1>5, FilesStay, WalkStays DEF iter_directory, IsoInv

LEMMA MatchStarts ==
  ASSUME IsoInv, NEW op \in {"open", "opendir"}, NEW h \in Handles, NEW n \in EntryNames,
         op = "open" => ~IsOpen(h), match_name(op, h, n)
  PROVE  IsoInv'
<1>1. call' = NewCall(op, h, n) /\ call' \in Calls
  BY CallIsNew DEF match_name, Start
<1>2. Calls' = Calls
  BY DEF match_name, Calls, EntryNames, volume
<1>3. call'.op = op /\ call'.h = h /\ call'.at = "read" /\ call'.doubt = FALSE
  BY <1>1 DEF NewCall
<1>4. WalkInv' /\ dir'.sure /\ dir'.pos = 0
  BY Rewinds DEF match_name
<1>5. SeekInv'
  BY <1>3, <1>4 DEF SeekInv, match_name, IsOpen
<1> QED BY <1>1, <1>2, <1>3, <1>4, <1>5, FilesStay DEF match_name, IsoInv

LEMMA OpenDirectoryStarts ==
  ASSUME IsoInv, NEW n \in volume.directories, open_directory(n)
  PROVE  IsoInv'
<1>1. CASE dir.start = volume.rootdir /\ n \in {<<".">>, <<"..">>}
  <2>1. /\ call' = NoCall /\ dir' = OpenedDirectory(Root, volume.rootdir)
        /\ UNCHANGED <<id, databuf, files, failed>>
    BY <1>1 DEF open_directory, Answer
  <2>2. IsDirectory(volume, volume.rootdir, Root)
    BY VolumeFacts DEF IsoInv
  <2>3. WalkInv'
    BY <2>1, <2>2, DirectoryOpened
  <2> QED BY <2>1, <2>3, FilesStay, Answered DEF IsoInv
<1>2. CASE ~(dir.start = volume.rootdir /\ n \in {<<".">>, <<"..">>})
  <2>1. match_name("opendir", CHOOSE h \in Handles : TRUE, n)
    BY <1>2 DEF open_directory
  <2>2. (CHOOSE h \in Handles : TRUE) \in Handles /\ n \in EntryNames
    BY BoundsAssumption DEF EntryNames
  <2> QED BY <2>1, <2>2, MatchStarts
<1> QED BY <1>1, <1>2

\* What comes of a piece.
Gathered(r) == call.got \o [i \in 1 .. Piece |-> <<r.buf.holds, Offset + i - 1>>]

LEMMA PieceFits ==
  ASSUME IsoInv, call.op = "read"
  PROVE  /\ call \in Calls /\ ReadInv
         /\ files[call.h].cursor \in Nat /\ files[call.h].start \in Nat /\ files[call.h].size \in Nat
         /\ Offset \in Nat /\ Piece \in 1 .. call.len /\ Offset + Piece <= SectorSize
         /\ PieceSector \in Nat
<1>1. call \in Calls /\ ReadInv
  BY DEF IsoInv, NoCall
<1>2. files[call.h].cursor \in Nat /\ files[call.h].start \in Nat /\ files[call.h].size \in Nat
  BY <1>1 DEF Calls, IsoInv, FileInv, OpenFiles
<1>3. call.len \in Nat /\ call.len > 0
  BY <1>1 DEF Calls, ReadInv
<1>4. SectorSize \in Nat /\ SectorSize > 0
  BY BoundsAssumption
<1>5. /\ Offset \in Nat /\ Offset < SectorSize
      /\ files[call.h].cursor \div SectorSize \in Nat
  <2> DEFINE n == files[call.h].cursor
  <2>1. n \in Nat
    BY <1>2
  <2> HIDE DEF n
  <2>2. n % SectorSize \in Nat /\ n % SectorSize < SectorSize /\ n \div SectorSize \in Nat
    BY ONLY <1>4, <2>1
  <2> QED BY <2>2 DEF n, Offset
<1>6. Piece \in 1 .. call.len /\ Offset + Piece <= SectorSize
  BY <1>3, <1>4, <1>5 DEF Piece, Min2
<1> QED BY <1>1, <1>2, <1>5, <1>6 DEF PieceSector

\* Bytes that lie together in a sector.
LEMMA SameSector ==
  ASSUME NEW n \in Nat, NEW m \in Nat \ {0}, NEW j \in Nat, (n % m) + j < m
  PROVE  (n + j) \div m = n \div m /\ (n + j) % m = (n % m) + j
<1>1. PICK q \in Nat, o \in Nat : n = m * q + o /\ q = n \div m /\ o = n % m
  <2>1. n % m \in Nat /\ n \div m \in Nat /\ n = m * (n \div m) + (n % m)
    OBVIOUS
  <2> QED BY <2>1
<1> DEFINE k == n + j
           p == k \div m
           l == k % m
<1>2. k \in Nat
  OBVIOUS
<1> HIDE DEF k
<1>3. p \in Nat /\ l \in Nat /\ l < m /\ k = m * p + l
  BY ONLY <1>2, m \in Nat \ {0}
<1> HIDE DEF p, l
<1>4. m * q + (o + j) = m * p + l /\ o + j \in Nat /\ o + j < m
  BY <1>1, <1>3 DEF k
<1>5. ~(p < q)
  <2> SUFFICES ASSUME p < q PROVE FALSE
    OBVIOUS
  <2>1. PICK d \in Nat : q = p + 1 + d
    <3>1. q - p - 1 \in Nat /\ q = p + 1 + (q - p - 1)
      BY <1>3
    <3> QED BY <3>1
  <2>2. m * q = m * p + m + m * d /\ m * d \in Nat /\ m * p \in Nat
    BY <2>1, <1>3
  <2> QED BY <1>3, <1>4, <2>2
<1>6. ~(q < p)
  <2> SUFFICES ASSUME q < p PROVE FALSE
    OBVIOUS
  <2>1. PICK d \in Nat : p = q + 1 + d
    <3>1. p - q - 1 \in Nat /\ p = q + 1 + (p - q - 1)
      BY <1>3
    <3> QED BY <3>1
  <2>2. m * p = m * q + m + m * d /\ m * d \in Nat /\ m * q \in Nat
    BY <2>1
  <2> QED BY <1>3, <1>4, <2>2
<1>7. p = q
  BY <1>3, <1>5, <1>6
<1>8. l = o + j
  <2>1. m * q \in Nat
    OBVIOUS
  <2> QED BY <1>3, <1>4, <1>7, <2>1
<1> QED BY <1>1, <1>7, <1>8 DEF k, p, l

\* A piece that is read through a whole buffer has the bytes of the file.
LEMMA PieceRead ==
  ASSUME IsoInv, call.op = "read", NEW r \in read_sector(PieceSector), r.ok
  PROVE  /\ Gathered(r) \in Seq(Contents)
         /\ Len(Gathered(r)) = Len(call.got) + Piece
         /\ ~(Torn \/ call.doubt) =>
                /\ r.buf.holds = r.buf.key
                /\ \A i \in 1 .. Len(Gathered(r)) :
                      Gathered(r)[i] = ByteAt(files[call.h], call.from + i - 1)
<1> DEFINE f == files[call.h]
           new == [i \in 1 .. Piece |-> <<r.buf.holds, Offset + i - 1>>]
<1>1. /\ call \in Calls /\ ReadInv /\ f.cursor \in Nat /\ f.start \in Nat
      /\ Offset \in Nat /\ Piece \in 1 .. call.len /\ Offset + Piece <= SectorSize /\ PieceSector \in Nat
      /\ SectorSize \in Nat \ {0}
  BY PieceFits, BoundsAssumption
<1>2. call.got \in Seq(Contents) /\ call.len \in Nat /\ call.from \in Nat
  BY <1>1 DEF Calls
<1>3. /\ r.buf \in [key : Nat, holds : Nat]
      /\ r.buf.key = PieceSector /\ (r.buf = databuf \/ r.buf.holds = PieceSector)
  BY <1>1, SectorRead DEF IsoInv
<1>4. new \in Seq(Contents) /\ Len(new) = Piece
  <2>1. \A i \in 1 .. Piece : <<r.buf.holds, Offset + i - 1>> \in Contents
    BY <1>1, <1>3 DEF Contents
  <2>2. Piece \in Nat
    BY <1>1, <1>2
  <2>3. new \in [1 .. Piece -> Contents]
    BY <2>1
  <2> HIDE DEF new
  <2> QED BY ONLY <2>2, <2>3
<1>5. \A i \in 1 .. Piece : new[i] = <<r.buf.holds, Offset + i - 1>>
  OBVIOUS
<1>6. Gathered(r) = call.got \o new
  BY DEF Gathered
<1> HIDE DEF new, f
<1>7. /\ Gathered(r) \in Seq(Contents)
      /\ Len(Gathered(r)) = Len(call.got) + Piece
      /\ \A i \in 1 .. Len(call.got) + Piece :
            Gathered(r)[i] = IF i <= Len(call.got) THEN call.got[i] ELSE new[i - Len(call.got)]
  <2> DEFINE got == call.got
  <2>1. got \in Seq(Contents)
    BY <1>2
  <2> HIDE DEF got
  <2>2. /\ got \o new \in Seq(Contents)
        /\ Len(got \o new) = Len(got) + Len(new)
        /\ \A i \in 1 .. Len(got) + Len(new) :
              (got \o new)[i] = IF i <= Len(got) THEN got[i] ELSE new[i - Len(got)]
    BY ONLY <1>4, <2>1, ConcatProperties
  <2> QED BY <1>4, <1>6, <2>2 DEF got
<1>8. ASSUME ~(Torn \/ call.doubt)
      PROVE  /\ r.buf.holds = r.buf.key
             /\ \A i \in 1 .. Len(Gathered(r)) : Gathered(r)[i] = ByteAt(f, call.from + i - 1)
  <2>1. r.buf.holds = PieceSector /\ r.buf.key = PieceSector
    BY <1>1, <1>3, <1>8 DEF Torn, None
  <2>2. f.cursor = call.from + Len(call.got)
    BY <1>1 DEF ReadInv, f
  <2>3. Offset = f.cursor % SectorSize /\ PieceSector = f.start + (f.cursor \div SectorSize)
    BY DEF Offset, PieceSector, f
  <2>4. ASSUME NEW i \in 1 .. Len(call.got) + Piece
        PROVE  Gathered(r)[i] = ByteAt(f, call.from + i - 1)
    <3>1. CASE i <= Len(call.got)
      <4>1. i \in 1 .. Len(call.got)
        BY <1>1, <1>2, <3>1
      <4> QED BY <1>1, <1>7, <1>8, <3>1, <4>1 DEF ReadInv, f
    <3>2. CASE ~(i <= Len(call.got))
      <4> DEFINE j == i - Len(call.got) - 1
      <4>1. j \in Nat /\ j + 1 \in 1 .. Piece /\ call.from + i - 1 = f.cursor + j /\ i - Len(call.got) = j + 1
        BY <1>1, <1>2, <2>2, <3>2
      <4> HIDE DEF j
      <4>2. Offset + j < SectorSize
        BY <1>1, <4>1
      <4>3. (f.cursor + j) \div SectorSize = f.cursor \div SectorSize /\ (f.cursor + j) % SectorSize = Offset + j
        BY <1>1, <2>3, <4>1, <4>2, SameSector
      <4>4. Gathered(r)[i] = new[j + 1]
        BY <1>7, <3>2, <4>1
      <4>5. new[j + 1] = <<PieceSector, Offset + (j + 1) - 1>> /\ Offset + (j + 1) - 1 = Offset + j
        BY <1>1, <1>5, <2>1, <4>1
      <4> QED BY <2>3, <4>1, <4>3, <4>4, <4>5 DEF ByteAt
    <3> QED BY <3>1, <3>2
  <2> QED BY <1>7, <2>1, <2>4
<1> QED BY <1>7, <1>8 DEF f

LEMMA ReadPieceKeeps == ASSUME IsoInv, ReadPiece PROVE IsoInv'
<1>1. PICK r \in read_sector(PieceSector) :
         /\ r.ok
         /\ databuf' = r.buf
         /\ files' = [files EXCEPT ![call.h].cursor = @ + Piece]
         /\ IF Piece = call.len
            THEN Answer(<<"bytes", Gathered(r)>>)
            ELSE GoOn([call EXCEPT !.len = @ - Piece, !.got = Gathered(r)])
  BY DEF ReadPiece, Gathered
<1> DEFINE f == files[call.h]
<1>2. /\ call \in Calls /\ ReadInv /\ call.op = "read" /\ f.cursor \in Nat /\ f.size \in Nat
      /\ Piece \in 1 .. call.len /\ PieceSector \in Nat /\ call.h \in Handles /\ call.len \in Nat
  BY PieceFits DEF Calls, ReadPiece
<1>3. /\ id' = id /\ dir' = dir /\ failed' = failed
  BY DEF ReadPiece
<1>4. databuf' \in [key : Nat, holds : Nat]
  BY <1>1, <1>2, SectorRead DEF IsoInv
<1>5. f.cursor + Piece \in 0 .. f.size /\ IsOpen(call.h)
  BY <1>2 DEF ReadInv
<1>6. files' = [files EXCEPT ![call.h].cursor = f.cursor + Piece]
  BY <1>1
<1>7. FileInv' /\ files'[call.h] = [f EXCEPT !.cursor = f.cursor + Piece]
  BY <1>2, <1>3, <1>5, <1>6, HandleMoves
<1>8. CASE Piece = call.len
  BY <1>1, <1>3, <1>4, <1>7, <1>8, WalkStays, Answered DEF Answer, IsoInv
<1>9. CASE Piece # call.len
  <2> DEFINE c == [[call EXCEPT !.len = call.len - Piece] EXCEPT !.got = Gathered(r)]
  <2>1. call' = [c EXCEPT !.doubt = c.doubt \/ Torn]
    BY <1>1, <1>9 DEF GoOn
  <2>2. Gathered(r) \in Seq(Contents) /\ Len(Gathered(r)) = Len(call.got) + Piece
    BY <1>1, <1>2, PieceRead
  <2>3. call.len - Piece \in Nat /\ call.len - Piece > 0
    BY <1>2, <1>9
  <2>4. /\ c \in Calls /\ c.op = "read" /\ c.h = call.h /\ c.from = call.from
        /\ c.doubt = call.doubt /\ c.got = Gathered(r) /\ c.len = call.len - Piece
    BY <1>2, <2>2, <2>3 DEF Calls
  <2> HIDE DEF c
  <2>5. (c.doubt \/ Torn) \in BOOLEAN
    OBVIOUS
  <2>6. /\ call' \in Calls /\ call'.op = "read" /\ call'.h = call.h /\ call'.from = call.from
        /\ call'.doubt = (call.doubt \/ Torn) /\ call'.got = Gathered(r) /\ call'.len = call.len - Piece
    BY <2>1, <2>4, <2>5 DEF Calls
  <2>7. Calls' = Calls
    BY <1>3 DEF Calls, EntryNames, volume
  <2> DEFINE g == files'[call.h]
  <2>8. g.cursor = f.cursor + Piece /\ g.name = f.name /\ g.size = f.size /\ g.start = f.start
    <3>1. f \in OpenFiles
      BY <1>2 DEF IsoInv, FileInv
    <3> QED BY <1>7, <3>1 DEF OpenFiles
  <2>9. ~call'.doubt => \A i \in 1 .. Len(Gathered(r)) : Gathered(r)[i] = ByteAt(f, call.from + i - 1)
    BY <1>1, <1>2, <2>6, PieceRead
  <2>10. ReadInv'
    <3>1. f.cursor = call.from + Len(call.got) /\ f.cursor + call.len <= f.size /\ f.name # NoFile
      BY <1>2 DEF ReadInv, IsOpen
    <3>2. call.from \in Nat /\ Len(call.got) \in Nat
      BY <1>2 DEF Calls
    <3> HIDE DEF f, g
    <3>3. /\ g.cursor = call'.from + Len(call'.got)
          /\ call'.len > 0 /\ g.cursor + call'.len <= g.size
      <4>1. Piece \in Nat /\ call.len \in Nat /\ f.cursor \in Nat /\ f.size \in Nat
        BY <1>2
      <4>2. Len(call'.got) = Len(call.got) + Piece
        BY <2>2, <2>6
      <4>3. g.cursor = call'.from + Len(call'.got)
        BY <2>6, <2>8, <3>1, <3>2, <4>1, <4>2
      <4>4. call'.len > 0 /\ g.cursor + call'.len <= g.size
        BY <2>3, <2>6, <2>8, <3>1, <4>1
      <4> QED BY <4>3, <4>4
    <3> USE DEF f, g
    <3>4. ~call'.doubt => \A i \in 1 .. Len(call'.got) : call'.got[i] = ByteAt(g, call'.from + i - 1)
      BY <2>6, <2>8, <2>9 DEF ByteAt
    <3> QED BY <2>6, <2>8, <3>1, <3>3, <3>4 DEF ReadInv, IsOpen, ByteAt
  <2> QED BY <1>3, <1>4, <1>7, <2>6, <2>7, <2>10, WalkStays DEF IsoInv
<1> QED BY <1>8, <1>9

LEMMA FailureCounted == ASSUME IsoInv, DeviceFails PROVE failed' \in Nat /\ failed' > failed
BY DEF IsoInv, DeviceFails

LEMMA ReadPieceFailsKeeps == ASSUME IsoInv, ReadPieceFails PROVE IsoInv'
<1>1. PICK r \in read_sector(PieceSector) : databuf' = r.buf
  BY DEF ReadPieceFails
<1>2. databuf' \in [key : Nat, holds : Nat]
  BY <1>1, PieceFits, SectorRead DEF IsoInv, ReadPieceFails
<1> QED BY <1>2, FailureCounted, FilesStay, WalkStays, Answered DEF ReadPieceFails, Answer

\* A walk in progress.
LEMMA Walks ==
  ASSUME IsoInv, Walking
  PROVE  call \in Calls /\ call.op # "read" /\ SeekInv /\ dir.lba \in Nat
BY DEF IsoInv, Walking, NoCall, WalkInv, OpenDirectories

LEMMA FetchKeeps == ASSUME IsoInv, FetchEntry PROVE IsoInv'
<1>1. PICK r \in read_sector(dir.lba) : r.ok /\ databuf' = r.buf
  BY DEF FetchEntry
<1>2. call \in Calls /\ call.op # "read" /\ SeekInv /\ dir.lba \in Nat
  BY Walks DEF FetchEntry
<1>3. databuf' \in [key : Nat, holds : Nat] /\ databuf'.key = dir.lba
  BY <1>1, <1>2, SectorRead DEF IsoInv
<1> DEFINE c == [call EXCEPT !.at = "entry"]
<1>4. call' = [c EXCEPT !.doubt = c.doubt \/ Torn]
  BY DEF FetchEntry, GoOn
<1>5. c \in Calls /\ c.op = call.op /\ c.h = call.h /\ c.name = call.name /\ c.doubt = call.doubt /\ c.at = "entry"
  BY <1>2 DEF Calls
<1> HIDE DEF c
<1>6. (c.doubt \/ Torn) \in BOOLEAN
  OBVIOUS
<1>7. /\ call' \in Calls /\ call'.op = call.op /\ call'.h = call.h /\ call'.name = call.name
      /\ call'.doubt = (call.doubt \/ Torn)
  BY <1>4, <1>5, <1>6 DEF Calls
<1>8. UNCHANGED <<id, files, dir, failed>>
  BY DEF FetchEntry
<1>9. Calls' = Calls /\ volume' = volume
  BY <1>8 DEF Calls, EntryNames, volume
<1>10. SeekInv'
  BY <1>2, <1>3, <1>7, <1>8, <1>9 DEF SeekInv, IsOpen
<1> QED BY <1>2, <1>3, <1>7, <1>8, <1>9, <1>10, FilesStay, WalkStays DEF IsoInv

LEMMA FetchFailsKeeps == ASSUME IsoInv, FetchEntryFails PROVE IsoInv'
<1>1. PICK r \in read_sector(dir.lba) : databuf' = r.buf
  BY DEF FetchEntryFails
<1>2. databuf' \in [key : Nat, holds : Nat]
  BY <1>1, Walks, SectorRead DEF IsoInv, FetchEntryFails
<1> QED BY <1>2, FailureCounted, FilesStay, WalkStays, Answered DEF FetchEntryFails, Answer

LEMMA SeekInvalidKeeps == ASSUME IsoInv, NEW h \in Handles, seek_invalid(h) PROVE IsoInv'
BY FilesStay, WalkStays, Answered DEF seek_invalid, Answer, IsoInv

\* The walk gets to the next entry.
LEMMA WalkMoves ==
  ASSUME IsoInv, AtEntry, id' = id, dir' = AtNext
  PROVE  /\ WalkInv'
         /\ dir'.pos = dir.pos + 1 /\ dir'.sure = Sure /\ dir'.name = dir.name
<1>1. /\ Walking /\ call.at = "entry" /\ Current.kind = "file"
  BY DEF AtEntry
<1> DEFINE a == [dir EXCEPT !.index = dir.index + 1]
           b == [a EXCEPT !.pos = dir.pos + 1]
<1>2. dir' = [b EXCEPT !.sure = Sure]
  <2>1. AtNext = [dir EXCEPT !.index = @ + 1, !.pos = @ + 1, !.sure = Sure]
    BY <1>1, EntryFacts
  <2>2. [dir EXCEPT !.index = @ + 1, !.pos = @ + 1, !.sure = Sure] = [b EXCEPT !.sure = Sure]
    BY DEF IsoInv, WalkInv, OpenDirectories
  <2> QED BY <2>1, <2>2
<1>3. /\ dir \in OpenDirectories /\ dir.index \in Nat /\ dir.pos \in Nat /\ dir.index = dir.pos
      /\ dir.name \in DOMAIN volume.listing /\ dir.lba = dir.start
      /\ IsDirectory(volume, dir.start, dir.name) /\ id \in DOMAIN Volumes
  BY DEF IsoInv, WalkInv, OpenDirectories
<1>4. a \in OpenDirectories
  BY <1>3 DEF OpenDirectories
<1>5. /\ b \in OpenDirectories /\ b.index = dir.index + 1 /\ b.pos = dir.pos + 1 /\ b.name = dir.name
      /\ b.start = dir.start /\ b.lba = dir.lba
  BY <1>3, <1>4 DEF OpenDirectories
<1> HIDE DEF a, b
<1>6. Sure \in BOOLEAN
  BY DEF Sure
<1>7. /\ dir' \in OpenDirectories /\ dir'.index = dir.index + 1 /\ dir'.pos = dir.pos + 1 /\ dir'.name = dir.name
      /\ dir'.start = dir.start /\ dir'.lba = dir.lba /\ dir'.sure = Sure
  BY <1>2, <1>5, <1>6 DEF OpenDirectories
<1>8. volume' = volume /\ OpenDirectories' = OpenDirectories
  BY DEF volume, OpenDirectories
<1>9. Len(volume.listing[dir.name]) \in Nat
  BY <1>3, ListingLength
<1>10. Sure => dir.pos + 1 <= Len(volume.listing[dir.name])
  BY <1>1, <1>3, <1>9, SureEntry
<1> QED BY <1>3, <1>7, <1>8, <1>10 DEF WalkInv

LEMMA EndKeeps == ASSUME IsoInv, EndOfEntries PROVE IsoInv'
<1>1. /\ dir' = [dir EXCEPT !.sure = Sure] /\ call' = NoCall /\ UNCHANGED <<id, databuf, files, failed>>
  BY DEF EndOfEntries, Answer
<1>2. dir \in OpenDirectories /\ Sure \in BOOLEAN
  BY DEF IsoInv, WalkInv, Sure
<1>3. /\ dir' \in OpenDirectories /\ dir'.index = dir.index /\ dir'.pos = dir.pos /\ dir'.name = dir.name
      /\ dir'.start = dir.start /\ dir'.lba = dir.lba /\ dir'.sure = Sure
  BY <1>1, <1>2 DEF OpenDirectories
<1>4. volume' = volume /\ OpenDirectories' = OpenDirectories
  BY <1>1 DEF volume, OpenDirectories
<1>5. WalkInv'
  BY <1>3, <1>4 DEF WalkInv, IsoInv, Sure
<1> QED BY <1>1, <1>5, FilesStay, Answered DEF IsoInv

LEMMA ListKeeps == ASSUME IsoInv, ListEntry PROVE IsoInv'
BY WalkMoves, FilesStay, Answered DEF ListEntry, Answer, IsoInv

LEMMA OpenFailsKeeps == ASSUME IsoInv, OpenFails PROVE IsoInv'
BY WalkMoves, FilesStay, Answered DEF OpenFails, Answer, IsoInv

LEMMA OtherKeeps == ASSUME IsoInv, OtherEntry PROVE IsoInv'
<1>1. /\ AtEntry /\ call.op # "list" /\ Current.name # call.name /\ dir' = AtNext
      /\ UNCHANGED <<id, databuf, files, failed>>
  BY DEF OtherEntry
<1>2. Walking /\ call.at = "entry" /\ Current.kind = "file"
  BY <1>1 DEF AtEntry
<1>3. call \in Calls /\ call.op # "read" /\ SeekInv
  BY <1>2, Walks
<1>4. WalkInv' /\ dir'.pos = dir.pos + 1 /\ dir'.sure = Sure /\ dir'.name = dir.name
  BY <1>1, WalkMoves
<1> DEFINE c == [call EXCEPT !.at = "read"]
<1>5. call' = [c EXCEPT !.doubt = c.doubt \/ Torn]
  BY DEF OtherEntry, GoOn
<1>6. c \in Calls /\ c.op = call.op /\ c.h = call.h /\ c.name = call.name /\ c.doubt = call.doubt /\ c.at = "read"
  BY <1>3 DEF Calls
<1> HIDE DEF c
<1>7. (c.doubt \/ Torn) \in BOOLEAN
  OBVIOUS
<1>8. /\ call' \in Calls /\ call'.op = call.op /\ call'.h = call.h /\ call'.name = call.name
      /\ call'.doubt = (call.doubt \/ Torn) /\ call'.at = "read"
  BY <1>5, <1>6, <1>7 DEF Calls
<1>9. Calls' = Calls /\ volume' = volume
  BY <1>1 DEF Calls, EntryNames, volume
<1>10. ASSUME ~call'.doubt
       PROVE  dir'.sure /\ \A i \in 1 .. dir'.pos : volume.listing[dir.name][i] # call.name
  <2>1. ~call.doubt /\ ~Torn
    BY <1>8, <1>10
  <2>2. dir.sure /\ \A i \in 1 .. dir.pos : volume.listing[dir.name][i] # call.name
    BY <1>1, <1>3, <2>1 DEF SeekInv
  <2>3. Sure
    BY <2>1, <2>2 DEF Sure
  <2>4. Current.name = volume.listing[dir.name][dir.pos + 1]
    BY <1>2, <2>3, SureEntry
  <2>5. dir.pos \in Nat
    BY DEF IsoInv, WalkInv, OpenDirectories
  <2>6. ASSUME NEW i \in 1 .. dir.pos + 1 PROVE i \in 1 .. dir.pos \/ i = dir.pos + 1
    BY <2>5
  <2> QED BY <1>1, <1>4, <2>2, <2>3, <2>4, <2>6
<1>11. SeekInv'
  BY <1>1, <1>3, <1>4, <1>8, <1>9, <1>10 DEF SeekInv, IsOpen
<1> QED BY <1>1, <1>3, <1>4, <1>8, <1>9, <1>11, FilesStay DEF IsoInv

\* What an opened file has of its entry.
LEMMA FileOpened ==
  ASSUME IsoInv, AtEntry, id' = id, ~Current.directory, call.h \in Handles,
         files' = [files EXCEPT ![call.h] =
                     [name |-> Current.target, size |-> Current.size, start |-> Current.start,
                      cursor |-> 0, sure |-> TRUE]]
  PROVE  FileInv' /\ Current.target \in volume.files
<1> DEFINE f == [name |-> Current.target, size |-> Current.size, start |-> Current.start,
                 cursor |-> 0, sure |-> TRUE]
<1>1. IsEntry(volume, Current) /\ Current.kind = "file"
  BY EntryFacts DEF AtEntry
<1>2. /\ Current.target \in volume.files
      /\ Current.size = volume.entryOf[Current.target].size
      /\ Current.start = volume.entryOf[Current.target].start
  BY <1>1 DEF IsEntry
<1>3. Current.size \in Nat /\ Current.start \in Nat
  BY <1>2, VolumeFacts DEF IsoInv
<1>4. volume' = volume
  BY DEF volume
<1>5. /\ f \in OpenFiles /\ f.cursor = 0 /\ f.name = Current.target
      /\ f.size = Current.size /\ f.start = Current.start
  BY <1>2, <1>3 DEF OpenFiles
<1> HIDE DEF f
<1>6. files \in [Handles -> OpenFiles] /\ files' = [files EXCEPT ![call.h] = f]
  BY DEF IsoInv, FileInv, f
<1>7. files' \in [Handles -> OpenFiles']
  BY <1>4, <1>5, <1>6 DEF OpenFiles
<1>8. \A k \in Handles : files'[k] = IF k = call.h THEN f ELSE files[k]
  BY <1>6
<1>9. ASSUME NEW k \in Handles
      PROVE  /\ files'[k].cursor <= files'[k].size
             /\ files'[k] = ClosedFile
                \/ LET e == volume.entryOf[files'[k].name]
                   IN files'[k].name \in volume.files /\ files'[k].size = e.size /\ files'[k].start = e.start
  <2>1. CASE k = call.h
    BY <1>2, <1>3, <1>5, <1>8, <2>1
  <2>2. CASE k # call.h
    BY <1>8, <2>2 DEF IsoInv, FileInv
  <2> QED BY <2>1, <2>2
<1> QED BY <1>2, <1>4, <1>7, <1>9 DEF FileInv

LEMMA OpenFileKeeps == ASSUME IsoInv, OpenFile PROVE IsoInv'
<1>1. AtEntry /\ call.op = "open" /\ dir' = AtNext /\ call' = NoCall /\ UNCHANGED <<id, databuf, failed>>
  BY DEF OpenFile, Answer
<1>2. WalkInv' /\ call.h \in Handles
  BY <1>1, WalkMoves, Walks DEF Calls, AtEntry
<1>3. FileInv'
  <2>1. CASE Current.directory
    BY <1>1, <2>1, FilesStay DEF OpenFile
  <2>2. CASE ~Current.directory
    BY <1>1, <1>2, <2>2, FileOpened DEF OpenFile
  <2> QED BY <2>1, <2>2
<1> QED BY <1>1, <1>2, <1>3, Answered DEF IsoInv

LEMMA OpenDirectoryKeeps == ASSUME IsoInv, OpenDirectory PROVE IsoInv'
<1>1. AtEntry /\ call.op = "opendir" /\ call' = NoCall /\ UNCHANGED <<id, databuf, files, failed>>
  BY DEF OpenDirectory, Answer
<1>2. WalkInv'
  <2>1. CASE Current.directory
    <3>1. IsDirectory(volume, Current.start, Current.target)
      BY <1>1, <2>1, EntryFacts DEF AtEntry, IsEntry
    <3>2. dir' = OpenedDirectory(Current.target, Current.start)
      BY <2>1 DEF OpenDirectory
    <3> QED BY <1>1, <3>1, <3>2, DirectoryOpened
  <2>2. CASE ~Current.directory
    BY <1>1, <2>2, WalkMoves DEF OpenDirectory
  <2> QED BY <2>1, <2>2
<1> QED BY <1>1, <1>2, FilesStay, Answered DEF IsoInv

LEMMA OpenStarts ==
  ASSUME IsoInv, NEW h \in Handles, NEW n \in volume.names, open(h, n)
  PROVE  IsoInv'
BY MatchStarts DEF open, EntryNames

LEMMA IsoStepKeeps == IsoInv /\ [IsoNext]_isoVars => IsoInv'
<1> SUFFICES ASSUME IsoInv, [IsoNext]_isoVars PROVE IsoInv'
  OBVIOUS
<1>1. CASE UNCHANGED isoVars
  <2>1. FileInv' /\ WalkInv'
    BY <1>1, FilesStay, WalkStays DEF isoVars
  <2>2. Calls' = Calls /\ volume' = volume
    BY <1>1 DEF isoVars, Calls, EntryNames, volume
  <2> QED BY <1>1, <2>1, <2>2 DEF isoVars, IsoInv, ReadInv, SeekInv, IsOpen, Torn
<1>2. CASE Client
  <2>1. CASE \E h \in Handles, n \in Lengths : read(h, n)
    BY <2>1, ReadStarts
  <2>2. CASE \E h \in Handles, p \in volume.seeks : seek(h, p)
    BY <2>2, SeekKeeps
  <2>3. CASE \E h \in Handles, n \in volume.names : open(h, n)
    BY <2>3, OpenStarts
  <2>4. CASE \E h \in Handles : seek_invalid(h) \/ close(h)
    BY <2>4, SeekInvalidKeeps, CloseKeeps
  <2>5. CASE rewind_directory \/ iter_directory
    BY <2>5, RewindKeeps, ListStarts
  <2>6. CASE \E n \in volume.directories : open_directory(n)
    BY <2>6, OpenDirectoryStarts
  <2> QED BY <1>2, <2>1, <2>2, <2>3, <2>4, <2>5, <2>6 DEF Client
<1>3. CASE Driver
  BY <1>3, ReadPieceKeeps, ReadPieceFailsKeeps, FetchKeeps, FetchFailsKeeps, EndKeeps, ListKeeps, OtherKeeps,
     OpenFileKeeps, OpenDirectoryKeeps, OpenFailsKeeps DEF Driver
<1> QED BY <1>1, <1>2, <1>3 DEF IsoNext

LEMMA IsoInvariant == IsoSpec => []IsoInv
BY IsoStarts, IsoStepKeeps, PTL DEF IsoSpec

-----------------------------------------------------------------------------
(* What the state of the driver says of the abstract file system.            *)

FilesOf == [h \in Handles |->
               [name |-> files[h].name, sure |-> files[h].sure,
                pos |-> IF call.op = "read" /\ call.h = h THEN call.from ELSE files[h].cursor]]
WalkOf == [dir |-> dir.name, sure |-> dir.sure,
           pos |-> IF call.op \in {"open", "opendir"} THEN 0 ELSE Min2(dir.pos, Len(volume.listing[dir.name]))]
AnswerOf == IF call.op \in {"open", "opendir"} THEN <<"asked", call.name>> ELSE answer

LEMMA StepDevice == ASSUME IsoInv, [IsoNext]_isoVars PROVE FS!Device
<1>1. IsoInv'
  BY IsoStepKeeps
<1>2. id' = id
  BY DEF IsoNext, Client, Driver, isoVars, read, seek, seek_invalid, close, rewind_directory, iter_directory,
         match_name, open, open_directory, ReadPiece, ReadPieceFails, FetchEntry, FetchEntryFails, EndOfEntries,
         ListEntry, OtherEntry, OpenFile, OpenDirectory, OpenFails
<1>3. failed' = failed \/ DeviceFails
  BY DEF IsoNext, Client, Driver, isoVars, read, seek, seek_invalid, close, rewind_directory, iter_directory,
         match_name, open, open_directory, ReadPiece, ReadPieceFails, FetchEntry, FetchEntryFails, EndOfEntries,
         ListEntry, OtherEntry, OpenFile, OpenDirectory, OpenFails
<1>4. volume' = volume
  BY <1>2 DEF volume
<1>5. failed \in Nat /\ failed' \in Nat
  BY <1>1 DEF IsoInv
<1>6. failed' >= failed
  BY <1>3, <1>5 DEF DeviceFails
<1> QED BY <1>4, <1>5, <1>6 DEF FS!Device, BytesOf

LEMMA HandleOpen ==
  ASSUME IsoInv, NEW h \in Handles, IsOpen(h)
  PROVE  /\ FS!IsOpen(h)
         /\ FS!Size(h) = files[h].size
         /\ FS!Bytes(files[h].name) = [i \in 1 .. files[h].size |-> ByteAt(files[h], i - 1)]
         /\ files[h].name \in volume.files /\ files[h].size \in Nat
         /\ files[h].cursor \in 0 .. files[h].size /\ files[h].sure = TRUE
<1>1. /\ files[h].name \in volume.files /\ files[h].size = volume.entryOf[files[h].name].size
      /\ files[h].start = volume.entryOf[files[h].name].start /\ files[h].size \in Nat
      /\ files[h].cursor \in 0 .. files[h].size /\ files[h].sure = TRUE
  <2>1. FileInv
    BY DEF IsoInv
  <2>2. files[h] # ClosedFile
    BY DEF IsOpen, ClosedFile
  <2>3. files[h] \in OpenFiles
    BY <2>1 DEF FileInv
  <2>4. files[h].size \in Nat /\ files[h].cursor \in Nat /\ files[h].sure = TRUE
    BY <2>3 DEF OpenFiles
  <2> QED BY <2>1, <2>2, <2>4 DEF FileInv
<1>2. FS!Bytes(files[h].name) = BytesOf(volume.entryOf[files[h].name])
  BY <1>1 DEF FS!Bytes
<1>3. BytesOf(volume.entryOf[files[h].name]) = [i \in 1 .. files[h].size |-> ByteAt(files[h], i - 1)]
  BY <1>1 DEF BytesOf, ByteAt
<1>4. FS!IsOpen(h)
  BY <1>1 DEF FS!IsOpen, FS!Files
<1>5. FilesOf[h].name = files[h].name
  BY DEF FilesOf
<1>6. FS!Size(h) = Len(FS!Bytes(files[h].name))
  BY <1>5 DEF FS!Size, FilesOf
<1> QED BY <1>1, <1>2, <1>3, <1>4, <1>6

\* The same between calls.
FilesAt == [h \in Handles |-> [name |-> files[h].name, sure |-> files[h].sure, pos |-> files[h].cursor]]
WalkAt == [dir |-> dir.name, sure |-> dir.sure, pos |-> Min2(dir.pos, Len(volume.listing[dir.name]))]

LEMMA ViewAtRest ==
  ASSUME call.op \in {"none", "list"} PROVE FilesOf = FilesAt /\ WalkOf = WalkAt /\ AnswerOf = answer
BY DEF FilesOf, FilesAt, WalkOf, WalkAt, AnswerOf

LEMMA ViewOfRead ==
  ASSUME call.op = "read"
  PROVE  /\ WalkOf = WalkAt /\ AnswerOf = answer
         /\ FilesOf = [h \in Handles |-> [name |-> files[h].name, sure |-> files[h].sure,
                                          pos |-> IF h = call.h THEN call.from ELSE files[h].cursor]]
BY DEF FilesOf, FilesAt, WalkOf, WalkAt, AnswerOf

LEMMA ViewOfSearch ==
  ASSUME call.op \in {"open", "opendir"}
  PROVE  /\ FilesOf = FilesAt /\ WalkOf = [dir |-> dir.name, sure |-> dir.sure, pos |-> 0]
         /\ AnswerOf = <<"asked", call.name>>
BY DEF FilesOf, FilesAt, WalkOf, WalkAt, AnswerOf

LEMMA FilesUnseen == ASSUME files' = files PROVE FilesAt' = FilesAt
BY DEF FilesAt

LEMMA WalkUnseen == ASSUME id' = id, dir' = dir PROVE WalkAt' = WalkAt
BY DEF WalkAt, volume

LEMMA ViewAtRestNext ==
  (call.op \in {"none", "list"} => FilesOf = FilesAt /\ WalkOf = WalkAt /\ AnswerOf = answer)'
BY ViewAtRest, PTL

LEMMA ViewOfReadNext ==
  (call.op = "read" =>
     /\ WalkOf = WalkAt /\ AnswerOf = answer
     /\ FilesOf = [h \in Handles |-> [name |-> files[h].name, sure |-> files[h].sure,
                                      pos |-> IF h = call.h THEN call.from ELSE files[h].cursor]])'
BY ViewOfRead, PTL

LEMMA ViewOfSearchNext ==
  (call.op \in {"open", "opendir"} =>
     /\ FilesOf = FilesAt /\ WalkOf = [dir |-> dir.name, sure |-> dir.sure, pos |-> 0]
     /\ AnswerOf = <<"asked", call.name>>)'
BY ViewOfSearch, PTL

\* The steps of the abstract file system, in these terms.
Unharmed == ~(Torn \/ call.doubt) /\ ~(Torn \/ call.doubt)'
WalksOf == [dir : {dir.name}, pos : 0 .. Len(volume.listing[dir.name]), sure : BOOLEAN]
Listed(n) == \E i \in DOMAIN volume.listing[dir.name] : volume.listing[dir.name][i] = n

LEMMA WholeSame == FS!Whole <=> Unharmed
BY DEF FS!Whole, Unharmed

LEMMA ListedSame == \A n : FS!IsListed(n) <=> Listed(n)
BY DEF FS!IsListed, FS!Entries, FS!Listing, Listed

LEMMA WalksSame == FS!Walks = WalksOf
BY DEF FS!Walks, FS!Entries, FS!Listing, WalksOf

LEMMA StepStays ==
  ASSUME FilesOf' = FilesOf, WalkOf' = WalkOf, AnswerOf' = AnswerOf PROVE FS!FsStep
BY DEF FS!FsStep, FilesOf, WalkOf, AnswerOf

LEMMA StepLoseTrack ==
  ASSUME ~Unharmed, FilesOf' = FilesOf, WalkOf' = [WalkOf EXCEPT !.sure = FALSE], AnswerOf' = AnswerOf
  PROVE  FS!FsStep
<1>1. FS!LoseTrack
  BY WholeSame DEF FS!LoseTrack, FilesOf, WalkOf, AnswerOf
<1> QED BY <1>1 DEF FS!FsStep

LEMMA StepAsk ==
  ASSUME FilesOf' = FilesOf, WalkOf' = WalkOf, AnswerOf' = <<"none">> PROVE FS!FsStep
<1>1. FS!Ask
  BY DEF FS!Ask, FilesOf, WalkOf, AnswerOf
<1> QED BY <1>1 DEF FS!FsStep

Restarted(W, v) == [W EXCEPT !.pos = 0, !.sure = v]

LEMMA StepLookUp ==
  ASSUME FilesOf' = FilesOf, WalkOf' = Restarted(WalkOf, TRUE), AnswerOf'[1] = "asked"
  PROVE  FS!FsStep
<1>1. FS!LookUp
  BY DEF FS!LookUp, Restarted, FilesOf, WalkOf, AnswerOf
<1> QED BY <1>1 DEF FS!FsStep

LEMMA StepRewind ==
  ASSUME FilesOf' = FilesOf, WalkOf' = Restarted(WalkOf, TRUE), AnswerOf' = <<"rewound">>
  PROVE  FS!FsStep
<1>1. FS!Rewind
  BY DEF FS!Rewind, Restarted, FilesOf, WalkOf, AnswerOf
<1> QED BY <1>1 DEF FS!FsStep

LEMMA StepEndOfFile ==
  ASSUME NEW h \in Handles, FS!IsOpen(h), FS!Size(h) = FilesOf[h].pos, FilesOf[h].pos \in Nat,
         FilesOf' = FilesOf, WalkOf' = WalkOf, AnswerOf' = <<"end of file">>
  PROVE  FS!FsStep
<1>1. FS!Left(h) = FS!Size(h) - FilesOf[h].pos
  BY DEF FS!Left, FilesOf
<1>2. FS!Left(h) = 0
  <2>1. PICK k \in Nat : FilesOf[h].pos = k
    OBVIOUS
  <2>2. FS!Left(h) = k - k
    BY <1>1, <2>1
  <2>3. k - k = 0
    BY ONLY k \in Nat
  <2> QED BY <2>2, <2>3
<1>3. FS!EndOfFile(h)
  BY <1>2 DEF FS!EndOfFile, FilesOf, WalkOf, AnswerOf
<1> QED BY <1>3 DEF FS!FsStep

LEMMA StepClose ==
  ASSUME NEW h \in Handles, FS!IsOpen(h), FilesOf' = [FilesOf EXCEPT ![h] = FS!Closed],
         WalkOf' = WalkOf, AnswerOf' = <<"closed">>
  PROVE  FS!FsStep
<1>1. FS!Close(h)
  BY DEF FS!Close, FilesOf, WalkOf, AnswerOf
<1> QED BY <1>1 DEF FS!FsStep

Placed(F, h, p, v) == [F EXCEPT ![h].pos = p, ![h].sure = v]

LEMMA StepSeek ==
  ASSUME NEW h \in Handles, FS!IsOpen(h), NEW to,
         FilesOf' = Placed(FilesOf, h, FS!Place(h, to), TRUE),
         WalkOf' = WalkOf, AnswerOf' = <<"moved", to>>
  PROVE  FS!FsStep
<1>1. AnswerOf'[1] = "moved" /\ AnswerOf'[2] = to
  OBVIOUS
<1>2. FilesOf' = Placed(FilesOf, h, FS!Place(h, AnswerOf'[2]), TRUE)
  BY <1>1
<1>3. FS!Seek(h)
  BY <1>1, <1>2 DEF FS!Seek, Placed, FilesOf, WalkOf, AnswerOf
<1> QED BY <1>3 DEF FS!FsStep

LEMMA StepSeekInvalid ==
  ASSUME NEW h \in Handles, FS!IsOpen(h), FilesOf' = FilesOf, WalkOf' = WalkOf, AnswerOf' = <<"invalid">>
  PROVE  FS!FsStep
<1>1. FS!SeekInvalid(h)
  BY DEF FS!SeekInvalid, FilesOf, WalkOf, AnswerOf
<1> QED BY <1>1 DEF FS!FsStep

LEMMA StepRead ==
  ASSUME NEW h \in Handles, FS!IsOpen(h), NEW n \in Nat, n <= FS!Size(h) - FilesOf[h].pos,
         FS!Size(h) \in Nat, FilesOf[h].pos \in Nat, FilesOf[h].sure,
         FilesOf' = Placed(FilesOf, h, FilesOf[h].pos + n, TRUE), WalkOf' = WalkOf,
         NEW got, AnswerOf' = <<"bytes", got>>, Len(got) = n,
         Unharmed => got = SubSeq(FS!Bytes(FilesOf[h].name), FilesOf[h].pos + 1, FilesOf[h].pos + n)
  PROVE  FS!FsStep
<1>1. FS!Left(h) = FS!Size(h) - FilesOf[h].pos
  BY DEF FS!Left, FilesOf
<1>2. n \in 0 .. FS!Left(h)
  BY <1>1
<1>3. FS!Keeps(h, TRUE)
  BY DEF FS!Keeps, FilesOf
<1>4. \/ AnswerOf' = <<"bytes", SubSeq(FS!Bytes(FilesOf[h].name), FilesOf[h].pos + 1, FilesOf[h].pos + n)>>
      \/ ~(FilesOf[h].sure /\ FS!Whole) /\ AnswerOf'[1] = "bytes" /\ Len(AnswerOf'[2]) = n
  BY WholeSame
<1>5. FS!Read(h)
  BY <1>2, <1>3, <1>4 DEF FS!Read, Placed, FilesOf, WalkOf, AnswerOf
<1> QED BY <1>5 DEF FS!FsStep

LEMMA StepReadFails ==
  ASSUME NEW h \in Handles, FS!IsOpen(h), NEW n \in Nat, n <= FS!Size(h) - FilesOf[h].pos,
         FS!Size(h) \in Nat, FilesOf[h].pos \in Nat, FilesOf[h].sure, failed' > failed,
         FilesOf' = Placed(FilesOf, h, FilesOf[h].pos + n, TRUE), WalkOf' = WalkOf,
         AnswerOf' = <<"error">>
  PROVE  FS!FsStep
<1>1. FS!Left(h) = FS!Size(h) - FilesOf[h].pos
  BY DEF FS!Left, FilesOf
<1>2. n \in 0 .. FS!Left(h)
  BY <1>1
<1>3. FS!Keeps(h, TRUE)
  BY DEF FS!Keeps, FilesOf
<1>4. FS!ReadFails(h)
  BY <1>2, <1>3 DEF FS!ReadFails, FS!ReadFailed, Placed, FilesOf, WalkOf, AnswerOf
<1> QED BY <1>4 DEF FS!FsStep

LEMMA AskedName == ASSUME NEW n, AnswerOf = <<"asked", n>> PROVE FS!Asks /\ FS!Asked = n
<1>1. AnswerOf[1] = "asked" /\ AnswerOf[2] = n
  OBVIOUS
<1>2. FS!Asks <=> AnswerOf[1] = "asked"
  BY DEF FS!Asks, AnswerOf
<1>3. FS!Asked = AnswerOf[2]
  BY DEF FS!Asked, AnswerOf
<1> QED BY <1>1, <1>2, <1>3

LEMMA StepOpen ==
  ASSUME NEW h \in Handles, ~FS!IsOpen(h), NEW f \in volume.files, NEW n, AnswerOf = <<"asked", n>>,
         (Listed(n) /\ volume.leads[dir.name][n] = f) \/ ~(WalkOf.sure /\ Unharmed),
         FilesOf' = [FilesOf EXCEPT ![h] = [name |-> f, pos |-> 0, sure |-> TRUE]],
         AnswerOf' = <<"opened", f>>, WalkOf' \in WalksOf
  PROVE  FS!FsStep
<1>1. f \in FS!Files
  BY DEF FS!Files
<1>2. FS!Asks /\ FS!Asked = n
  BY AskedName
<1>3. FS!LeadsTo(n, f) \/ ~(WalkOf.sure /\ FS!Whole)
  BY WholeSame, ListedSame DEF FS!LeadsTo
<1>4. FS!Open(h, f)
  BY <1>2, <1>3, WalksSame DEF FS!Open, FilesOf, WalkOf, AnswerOf
<1> QED BY <1>1, <1>4 DEF FS!FsStep

LEMMA StepOpenDirectory ==
  ASSUME NEW d \in DOMAIN volume.listing,
         \/ AnswerOf[1] # "asked" /\ d = Root
         \/ AnswerOf[1] = "asked"
            /\ \/ Listed(AnswerOf[2]) /\ volume.leads[dir.name][AnswerOf[2]] = d
               \/ ~(WalkOf.sure /\ Unharmed),
         FilesOf' = FilesOf, AnswerOf' = <<"opened", d>>, WalkOf' = [dir |-> d, pos |-> 0, sure |-> TRUE]
  PROVE  FS!FsStep
<1>1. d \in FS!Directories /\ FS!Root = Root
  BY DEF FS!Directories, FS!Root, Root
<1>2. FS!Asks <=> AnswerOf[1] = "asked"
  BY DEF FS!Asks, AnswerOf
<1>3. FS!Asked = AnswerOf[2]
  BY DEF FS!Asked, AnswerOf
<1>4. FS!LeadsTo(FS!Asked, d) <=> Listed(AnswerOf[2]) /\ volume.leads[dir.name][AnswerOf[2]] = d
  BY <1>3, ListedSame DEF FS!LeadsTo
<1>5. FS!OpenDirectory(d)
  BY <1>1, <1>2, <1>4, WholeSame DEF FS!OpenDirectory, FilesOf, WalkOf, AnswerOf
<1> QED BY <1>1, <1>5 DEF FS!FsStep

LEMMA StepRefuse ==
  ASSUME NEW n, AnswerOf = <<"asked", n>>, Listed(n) \/ ~(WalkOf.sure /\ Unharmed),
         FilesOf' = FilesOf, AnswerOf' = <<"refused">>, WalkOf' \in WalksOf
  PROVE  FS!FsStep
<1>1. FS!Asks /\ FS!Asked = n
  BY AskedName
<1>2. FS!Refuse
  BY <1>1, WholeSame, ListedSame, WalksSame DEF FS!Refuse, FilesOf, WalkOf, AnswerOf
<1> QED BY <1>2 DEF FS!FsStep

LEMMA StepNotFound ==
  ASSUME NEW n, AnswerOf = <<"asked", n>>, ~Listed(n) \/ failed' > failed \/ ~Unharmed,
         FilesOf' = FilesOf, AnswerOf' = <<"not found">>, WalkOf' \in WalksOf
  PROVE  FS!FsStep
<1>1. FS!Asks /\ FS!Asked = n
  BY AskedName
<1>2. FS!NotFound
  BY <1>1, WholeSame, ListedSame, WalksSame DEF FS!NotFound, FS!ReadFailed, FilesOf, WalkOf, AnswerOf
<1> QED BY <1>2 DEF FS!FsStep

LEMMA StepWalkFails ==
  ASSUME failed' > failed, FilesOf' = FilesOf, AnswerOf' = <<"error">>, WalkOf' \in WalksOf
  PROVE  FS!FsStep
<1>1. FS!WalkFails
  BY WalksSame DEF FS!WalkFails, FS!ReadFailed, FilesOf, WalkOf, AnswerOf
<1> QED BY <1>1 DEF FS!FsStep

LEMMA StepEndOfList ==
  ASSUME \/ WalkOf.pos = Len(volume.listing[dir.name]) /\ WalkOf' = WalkOf
         \/ ~(WalkOf.sure /\ Unharmed) /\ WalkOf' \in WalksOf /\ ~WalkOf'.sure,
         FilesOf' = FilesOf, AnswerOf' = <<"end of list">>
  PROVE  FS!FsStep
<1>1. FS!Entries = volume.listing[dir.name]
  BY DEF FS!Entries, FS!Listing
<1>2. FS!EndOfList
  BY <1>1, WholeSame, WalksSame DEF FS!EndOfList, FilesOf, WalkOf, AnswerOf
<1> QED BY <1>2 DEF FS!FsStep

LEMMA StepNextEntry ==
  ASSUME NEW n, AnswerOf' = <<"entry", n>>, FilesOf' = FilesOf, WalkOf' \in WalksOf,
         \/ /\ WalkOf.pos < Len(volume.listing[dir.name])
            /\ WalkOf'.pos = WalkOf.pos + 1
            /\ n = volume.listing[dir.name][WalkOf.pos + 1]
            /\ WalkOf'.sure
         \/ ~WalkOf'.sure /\ (~WalkOf.sure \/ ~Unharmed)
  PROVE  FS!FsStep
<1>1. FS!Entries = volume.listing[dir.name]
  BY DEF FS!Entries, FS!Listing
<1>2. AnswerOf'[1] = "entry"
  OBVIOUS
<1>3. FS!NextEntry
  BY <1>1, <1>2, WholeSame, WalksSame DEF FS!NextEntry, FilesOf, WalkOf, AnswerOf
<1> QED BY <1>3 DEF FS!FsStep

-----------------------------------------------------------------------------
(* Every step of the driver is one of these. *)

\* No answer looks like a question.
LEMMA DriverAnswers == ASSUME Driver PROVE answer' = answer \/ answer'[1] # "asked"
<1>1. CASE ReadPiece
  BY <1>1 DEF ReadPiece, Answer, GoOn
<1>2. CASE ReadPieceFails
  BY <1>2 DEF ReadPieceFails, Answer
<1>3. CASE FetchEntryFails
  <2>1. answer' = NoRead
    BY <1>3 DEF FetchEntryFails, Answer
  <2>2. NoRead[1] # "asked"
    BY ONLY DEF NoRead
  <2> QED BY <2>1, <2>2
<1>4. CASE EndOfEntries
  <2>1. answer' = NoMore
    BY <1>4 DEF EndOfEntries, Answer
  <2>2. NoMore[1] # "asked"
    BY ONLY DEF NoMore
  <2> QED BY <2>1, <2>2
<1>5. CASE FetchEntry \/ OtherEntry
  BY <1>5 DEF FetchEntry, OtherEntry, GoOn
<1>6. CASE ListEntry \/ OpenFile \/ OpenDirectory \/ OpenFails
  BY <1>6 DEF ListEntry, OpenFile, OpenDirectory, OpenFails, Answer
<1> QED BY <1>1, <1>2, <1>3, <1>4, <1>5, <1>6 DEF Driver

LEMMA ClientAnswers == ASSUME Client PROVE answer'[1] # "asked"
<1>1. ASSUME NEW h \in Handles, NEW n \in Lengths, read(h, n) PROVE answer'[1] # "asked"
  <2>1. answer' = <<"end of file">> \/ answer' = <<"none">>
    BY <1>1 DEF read, Answer, Start
  <2>2. CASE answer' = <<"none">>
    BY <2>2
  <2>3. CASE answer' = <<"end of file">>
    BY ONLY <2>3
  <2> QED BY ONLY <2>1, <2>2, <2>3
<1>2. ASSUME NEW h \in Handles, NEW p, seek(h, p) PROVE answer'[1] # "asked"
  BY <1>2 DEF seek, Answer
<1>3. ASSUME NEW h \in Handles, NEW n, NEW op, match_name(op, h, n) PROVE answer'[1] # "asked"
  BY <1>3 DEF match_name, Start
<1>4. ASSUME NEW h \in Handles, seek_invalid(h) \/ close(h) PROVE answer'[1] # "asked"
  BY <1>4 DEF seek_invalid, close, Answer
<1>5. ASSUME rewind_directory \/ iter_directory PROVE answer'[1] # "asked"
  BY <1>5 DEF rewind_directory, iter_directory, Answer, Start
<1>6. ASSUME NEW n \in volume.directories, open_directory(n) PROVE answer'[1] # "asked"
  <2>1. (CHOOSE h \in Handles : TRUE) \in Handles
    BY BoundsAssumption
  <2>2. CASE dir.start = volume.rootdir /\ n \in {<<".">>, <<"..">>}
    BY <1>6, <2>2 DEF open_directory, Answer
  <2>3. CASE ~(dir.start = volume.rootdir /\ n \in {<<".">>, <<"..">>})
    BY <1>3, <1>6, <2>1, <2>3 DEF open_directory
  <2> QED BY <2>2, <2>3
<1>7. ASSUME NEW h \in Handles, NEW n, open(h, n) PROVE answer'[1] # "asked"
  BY <1>3, <1>7 DEF open
<1> QED BY <1>1, <1>2, <1>4, <1>5, <1>6, <1>7 DEF Client

LEMMA NeverAsked == answer[1] # "asked" /\ [IsoNext]_isoVars => answer'[1] # "asked"
BY DriverAnswers, ClientAnswers DEF IsoNext, isoVars

LEMMA NoCallOp == NoCall.op = "none" /\ NoCall.doubt = FALSE
BY DEF NoCall

LEMMA RestToRest ==
  ASSUME call.op \in {"none", "list"}, call' = NoCall
  PROVE  /\ FilesOf = FilesAt /\ WalkOf = WalkAt /\ AnswerOf = answer
         /\ FilesOf' = FilesAt' /\ WalkOf' = WalkAt' /\ AnswerOf' = answer'
BY ViewAtRest, ViewAtRestNext, NoCallOp

LEMMA HandleView ==
  ASSUME IsoInv, NEW h \in Handles, call.op \in {"none", "list"}
  PROVE  /\ FilesOf[h] = [name |-> files[h].name, sure |-> files[h].sure, pos |-> files[h].cursor]
         /\ FilesOf[h].pos = files[h].cursor
<1>1. FilesOf[h] = [name |-> files[h].name, sure |-> files[h].sure, pos |-> files[h].cursor]
  BY ViewAtRest DEF FilesAt
<1> QED BY <1>1

\* How a handle that has been moved is seen.
LEMMA HandleShows ==
  ASSUME IsoInv, id' = id, NEW h \in Handles, IsOpen(h), NEW p \in 0 .. files[h].size,
         files' = [files EXCEPT ![h].cursor = p]
  PROVE  FilesAt' = [FilesAt EXCEPT ![h] = [name |-> files[h].name, sure |-> TRUE, pos |-> p]]
<1>1. files'[h] = [files[h] EXCEPT !.cursor = p]
  BY HandleMoves
<1>2. files \in [Handles -> OpenFiles] /\ files[h] \in OpenFiles
  BY DEF IsoInv, FileInv
<1>3. files'[h].name = files[h].name /\ files'[h].sure = TRUE /\ files'[h].cursor = p
  BY <1>1, <1>2 DEF OpenFiles
<1>4. \A k \in Handles : k # h => files'[k] = files[k]
  BY <1>2
<1> QED BY <1>3, <1>4 DEF FilesAt

LEMMA HandlePlaced ==
  ASSUME NEW F, NEW h \in Handles, NEW n, NEW p, NEW q, NEW d, NEW v, F = [k \in Handles |-> F[k]],
         F[h] = [name |-> n, sure |-> d, pos |-> q]
  PROVE  [F EXCEPT ![h] = [name |-> n, sure |-> v, pos |-> p]] = Placed(F, h, p, v)
<1> DEFINE G == [F EXCEPT ![h] = [F[h] EXCEPT !.pos = p]]
<1>1. [F[h] EXCEPT !.pos = p] = [name |-> n, sure |-> d, pos |-> p]
  OBVIOUS
<1>2. G[h] = [name |-> n, sure |-> d, pos |-> p]
  BY <1>1
<1>3. Placed(F, h, p, v) = [G EXCEPT ![h] = [G[h] EXCEPT !.sure = v]]
  BY DEF Placed
<1>4. [G[h] EXCEPT !.sure = v] = [name |-> n, sure |-> v, pos |-> p]
  <2>1. [[name |-> n, sure |-> d, pos |-> p] EXCEPT !.sure = v] = [name |-> n, sure |-> v, pos |-> p]
    OBVIOUS
  <2> HIDE DEF G
  <2> QED BY ONLY <1>2, <2>1, Zenon
<1>5. [G EXCEPT ![h] = [G[h] EXCEPT !.sure = v]] = [F EXCEPT ![h] = [name |-> n, sure |-> v, pos |-> p]]
  BY <1>4
<1> QED BY <1>3, <1>5

\* How the walk is seen that has gone back.
LEMMA RewoundSeen ==
  ASSUME IsoInv, dir' = Rewound
  PROVE  [dir |-> dir'.name, sure |-> dir'.sure, pos |-> 0] = Restarted(WalkAt, TRUE)
<1>1. dir \in OpenDirectories
  BY DEF IsoInv, WalkInv
<1>2. dir'.name = dir.name /\ dir'.sure = TRUE
  BY <1>1 DEF Rewound, OpenDirectories
<1>3. Restarted(WalkAt, TRUE) = [dir |-> dir.name, sure |-> TRUE, pos |-> 0]
  <2> DEFINE yes == TRUE
  <2> HIDE DEF yes
  <2>1. [WalkAt EXCEPT !.pos = 0] = [dir |-> dir.name, sure |-> dir.sure, pos |-> 0]
    BY DEF WalkAt
  <2>2. [[dir |-> dir.name, sure |-> dir.sure, pos |-> 0] EXCEPT !.sure = yes]
          = [dir |-> dir.name, sure |-> yes, pos |-> 0]
    OBVIOUS
  <2>3. [[WalkAt EXCEPT !.pos = 0] EXCEPT !.sure = yes] = [dir |-> dir.name, sure |-> yes, pos |-> 0]
    BY <2>1, <2>2
  <2>4. Restarted(WalkAt, yes) = [dir |-> dir.name, sure |-> yes, pos |-> 0]
    BY <2>3 DEF Restarted
  <2> QED BY <2>4 DEF yes
<1> QED BY <1>2, <1>3

LEMMA RewoundView ==
  ASSUME IsoInv, id' = id, dir' = Rewound
  PROVE  WalkAt' = Restarted(WalkAt, TRUE)
<1>1. dir \in OpenDirectories /\ id \in DOMAIN Volumes /\ volume' = volume
  BY DEF IsoInv, WalkInv, volume
<1>2. dir'.name = dir.name /\ dir'.pos = 0 /\ dir.name \in DOMAIN volume.listing
  BY <1>1 DEF Rewound, OpenDirectories
<1>3. Len(volume.listing[dir.name]) \in Nat
  BY <1>1, <1>2, ListingLength
<1>4. Min2(dir'.pos, Len(volume'.listing[dir'.name])) = 0
  BY <1>1, <1>2, <1>3 DEF Min2
<1>5. WalkAt' = [dir |-> dir'.name, sure |-> dir'.sure, pos |-> 0]
  BY <1>4 DEF WalkAt
<1> QED BY <1>5, RewoundSeen

\* How a directory is seen that has been opened.
LEMMA OpenedView ==
  ASSUME id \in DOMAIN Volumes, id' = id, NEW d \in DOMAIN volume.listing, NEW s, dir' = OpenedDirectory(d, s)
  PROVE  WalkAt' = [dir |-> d, pos |-> 0, sure |-> TRUE]
<1>1. volume' = volume /\ Len(volume.listing[d]) \in Nat
  BY ListingLength DEF volume
<1>2. dir'.name = d /\ dir'.pos = 0 /\ dir'.sure = TRUE
  BY DEF OpenedDirectory
<1>3. Min2(dir'.pos, Len(volume'.listing[dir'.name])) = 0
  BY <1>1, <1>2 DEF Min2
<1>4. WalkAt' = [dir |-> dir'.name, sure |-> dir'.sure, pos |-> 0]
  BY <1>3 DEF WalkAt
<1> QED BY <1>2, <1>4

LEMMA ReadRefines ==
  ASSUME IsoInv, NEW h \in Handles, NEW len \in Lengths, read(h, len)
  PROVE  FS!FsStep
<1>1. call = NoCall /\ call.op = "none" /\ IsOpen(h) /\ UNCHANGED <<id, databuf, files, dir, failed>>
  BY NoCallOp DEF read
<1>2. FilesAt' = FilesAt /\ WalkAt' = WalkAt
  BY <1>1, FilesUnseen, WalkUnseen
<1>3. /\ FS!IsOpen(h) /\ FS!Size(h) = files[h].size /\ files[h].size \in Nat
      /\ files[h].cursor \in 0 .. files[h].size
  BY <1>1, HandleOpen
<1>4. FilesOf[h].pos = files[h].cursor
  BY <1>1, HandleView
<1>5. CASE Left(h) <= 0
  <2>1. call' = NoCall /\ answer' = <<"end of file">>
    BY <1>5 DEF read, Answer
  <2>2. files[h].cursor = files[h].size
    <3>1. PICK c \in Nat, n \in Nat : c = files[h].cursor /\ n = files[h].size /\ c <= n
      BY <1>3
    <3>2. n - c <= 0
      BY <1>5, <3>1 DEF Left
    <3>3. n = c
      BY ONLY <3>1, <3>2
    <3> QED BY <3>1, <3>3
  <2>3. FilesOf' = FilesOf /\ WalkOf' = WalkOf /\ AnswerOf' = answer'
    BY <1>1, <1>2, <2>1, RestToRest
  <2>4. FS!Size(h) = FilesOf[h].pos /\ FilesOf[h].pos \in Nat
    BY <1>3, <1>4, <2>2
  <2>5. AnswerOf' = <<"end of file">>
    BY <2>1, <2>3
  <2> QED BY ONLY h \in Handles, <1>3, <2>3, <2>4, <2>5, StepEndOfFile
<1>6. CASE ~(Left(h) <= 0)
  <2> DEFINE new == [NewCall("read", h, NoFile) EXCEPT !.len = Min2(len, Left(h))]
  <2>1. call' = [new EXCEPT !.from = files[h].cursor] /\ answer' = <<"none">>
    BY <1>6 DEF read, Start
  <2>2. new.op = "read" /\ new.h = h /\ DOMAIN new = {"op", "h", "at", "name", "doubt", "from", "len", "got"}
    BY DEF NewCall
  <2> HIDE DEF new
  <2>3. call'.op = "read" /\ call'.h = h /\ call'.from = files[h].cursor
    BY <2>1, <2>2
  <2>4. FilesOf' = [k \in Handles |-> [name |-> files[k].name, sure |-> files[k].sure, pos |-> files[k].cursor]]
    BY <1>1, <2>3, ViewOfReadNext
  <2>5. FilesOf' = FilesOf
    BY <1>1, <2>4, ViewAtRest DEF FilesAt
  <2>6. WalkOf' = WalkOf /\ AnswerOf' = <<"none">>
    BY <1>1, <1>2, <2>1, <2>3, ViewOfReadNext, ViewAtRest
  <2> QED BY <2>5, <2>6, StepAsk
<1> QED BY <1>5, <1>6

LEMMA SeekRefines ==
  ASSUME IsoInv, NEW h \in Handles, NEW to \in volume.seeks, seek(h, to)
  PROVE  FS!FsStep
<1>1. call = NoCall /\ call.op = "none" /\ IsOpen(h) /\ UNCHANGED <<id, databuf, dir, failed>>
      /\ call' = NoCall /\ answer' = <<"moved", to>>
  BY NoCallOp DEF seek, Answer
<1> DEFINE p == Min2(to, files[h].size)
<1>2. /\ FS!IsOpen(h) /\ FS!Size(h) = files[h].size /\ files[h].size \in Nat
  BY <1>1, HandleOpen
<1>3. p \in 0 .. files[h].size
  <2>1. to \in Nat
    BY VolumeFacts DEF IsoInv
  <2> QED BY <1>2, <2>1 DEF Min2
<1> HIDE DEF p
<1>4. files' = [files EXCEPT ![h].cursor = p]
  BY DEF seek, p
<1>5. FilesOf' = FilesAt' /\ WalkOf' = WalkOf /\ AnswerOf' = <<"moved", to>> /\ FilesOf = FilesAt
  BY <1>1, RestToRest, WalkUnseen
<1>6. FilesAt' = [FilesAt EXCEPT ![h] = [name |-> files[h].name, sure |-> TRUE, pos |-> p]]
  BY <1>1, <1>3, <1>4, HandleShows
<1>7. FilesOf[h] = [name |-> files[h].name, sure |-> files[h].sure, pos |-> files[h].cursor]
  BY <1>1, HandleView
<1>8. FilesOf = [k \in Handles |-> FilesOf[k]]
  BY DEF FilesOf
<1>9. [FilesOf EXCEPT ![h] = [name |-> files[h].name, sure |-> TRUE, pos |-> p]]
        = Placed(FilesOf, h, p, TRUE)
  <2> DEFINE yes == TRUE
             n == files[h].name
             d == files[h].sure
             q == files[h].cursor
  <2>1. FilesOf[h] = [name |-> n, sure |-> d, pos |-> q]
    BY <1>7
  <2> HIDE DEF yes, n, d, q
  <2>2. [FilesOf EXCEPT ![h] = [name |-> n, sure |-> yes, pos |-> p]] = Placed(FilesOf, h, p, yes)
    BY ONLY h \in Handles, <2>1, <1>8, HandlePlaced
  <2> QED BY ONLY <2>2 DEF yes, n
<1>10. FilesOf' = Placed(FilesOf, h, p, TRUE)
  BY <1>5, <1>6, <1>9
<1>11. p = FS!Place(h, to)
  <2>1. to \in Nat
    BY VolumeFacts DEF IsoInv
  <2>2. PICK n \in Nat : n = files[h].size /\ FS!Size(h) = n
    BY <1>2
  <2> QED BY <2>1, <2>2 DEF FS!Place, Min2, p
<1> QED BY <1>2, <1>5, <1>10, <1>11, StepSeek

LEMMA CloseRefines ==
  ASSUME IsoInv, NEW h \in Handles, close(h)
  PROVE  FS!FsStep
<1>1. call = NoCall /\ call.op = "none" /\ IsOpen(h) /\ UNCHANGED <<id, databuf, dir, failed>>
      /\ call' = NoCall /\ answer' = <<"closed">>
  BY NoCallOp DEF close, Answer
<1>2. FS!IsOpen(h)
  BY <1>1, HandleOpen
<1>3. FilesOf' = FilesAt' /\ WalkOf' = WalkOf /\ AnswerOf' = <<"closed">> /\ FilesOf = FilesAt
  BY <1>1, RestToRest, WalkUnseen
<1>4. FS!Closed = [name |-> NoFile, pos |-> 0, sure |-> TRUE]
  BY DEF FS!Closed, NoFile
<1>5. files \in [Handles -> OpenFiles] /\ files' = [files EXCEPT ![h] = ClosedFile]
  BY DEF IsoInv, FileInv, close
<1>6. \A k \in Handles : files'[k] = IF k = h THEN ClosedFile ELSE files[k]
  BY <1>5
<1>7. FilesAt' = [FilesAt EXCEPT ![h] = FS!Closed]
  <2>1. FilesAt' = [k \in Handles |-> [name |-> files'[k].name, sure |-> files'[k].sure, pos |-> files'[k].cursor]]
    BY DEF FilesAt
  <2>2. ASSUME NEW k \in Handles
        PROVE  [name |-> files'[k].name, sure |-> files'[k].sure, pos |-> files'[k].cursor]
                 = IF k = h THEN FS!Closed ELSE FilesAt[k]
    <3>1. CASE k = h
      <4>1. files'[k].name = NoFile /\ files'[k].sure = TRUE /\ files'[k].cursor = 0
        BY <1>6, <3>1 DEF ClosedFile
      <4> QED BY <1>4, <3>1, <4>1
    <3>2. CASE k # h
      BY <1>6, <3>2 DEF FilesAt
    <3> QED BY <3>1, <3>2
  <2>3. FilesAt = [k \in Handles |-> FilesAt[k]]
    BY DEF FilesAt
  <2> QED BY <2>1, <2>2, <2>3
<1>8. FilesOf' = [FilesOf EXCEPT ![h] = FS!Closed]
  BY <1>3, <1>7
<1> QED BY <1>2, <1>3, <1>8, StepClose

LEMMA SeekInvalidRefines ==
  ASSUME IsoInv, NEW h \in Handles, seek_invalid(h)
  PROVE  FS!FsStep
<1>1. call = NoCall /\ call.op = "none" /\ IsOpen(h) /\ UNCHANGED <<id, databuf, files, dir, failed>>
      /\ call' = NoCall /\ answer' = <<"invalid">>
  BY NoCallOp DEF seek_invalid, Answer
<1>2. FS!IsOpen(h)
  BY <1>1, HandleOpen
<1>3. FilesOf' = FilesOf /\ WalkOf' = WalkOf /\ AnswerOf' = <<"invalid">>
  BY <1>1, RestToRest, WalkUnseen, FilesUnseen
<1> QED BY <1>2, <1>3, StepSeekInvalid

LEMMA RewindRefines == ASSUME IsoInv, rewind_directory PROVE FS!FsStep
<1>1. call.op = "none" /\ call' = NoCall /\ answer' = <<"rewound">> /\ dir' = Rewound
      /\ UNCHANGED <<id, databuf, files, failed>>
  BY NoCallOp DEF rewind_directory, Answer
<1>2. FilesOf' = FilesOf /\ WalkOf = WalkAt /\ WalkOf' = WalkAt' /\ AnswerOf' = <<"rewound">>
  BY <1>1, RestToRest, FilesUnseen
<1>3. WalkAt' = Restarted(WalkAt, TRUE)
  BY <1>1, RewoundView
<1> QED BY <1>2, <1>3, StepRewind

LEMMA ListRefines == ASSUME IsoInv, iter_directory PROVE FS!FsStep
<1>1. /\ call.op = "none" /\ call'.op = "list" /\ answer' = <<"none">>
      /\ UNCHANGED <<id, databuf, files, dir, failed>>
  BY NoCallOp DEF iter_directory, Start, NewCall
<1>2. FilesOf' = FilesOf /\ WalkOf' = WalkOf /\ AnswerOf' = <<"none">>
  BY <1>1, ViewAtRest, ViewAtRestNext, FilesUnseen, WalkUnseen
<1> QED BY <1>2, StepAsk

LEMMA MatchRefines ==
  ASSUME IsoInv, NEW op \in {"open", "opendir"}, NEW h \in Handles, NEW n, match_name(op, h, n)
  PROVE  FS!FsStep
<1>1. /\ call.op = "none" /\ call'.op = op /\ call'.name = n /\ dir' = Rewound
      /\ UNCHANGED <<id, databuf, files, failed>>
  BY NoCallOp DEF match_name, Start, NewCall
<1>2. FilesOf' = FilesOf /\ WalkOf = WalkAt /\ WalkOf' = [dir |-> dir'.name, sure |-> dir'.sure, pos |-> 0]
      /\ AnswerOf' = <<"asked", n>>
  BY <1>1, ViewAtRest, ViewOfSearchNext, FilesUnseen
<1>3. WalkOf' = Restarted(WalkAt, TRUE)
  BY <1>1, <1>2, RewoundSeen
<1>4. AnswerOf'[1] = "asked"
  BY <1>2
<1> QED BY <1>2, <1>3, <1>4, StepLookUp

LEMMA OpenStartRefines ==
  ASSUME IsoInv, NEW h \in Handles, NEW n \in volume.names, open(h, n)
  PROVE  FS!FsStep
BY MatchRefines DEF open

LEMMA OpenDirectoryStartRefines ==
  ASSUME IsoInv, answer[1] # "asked", NEW n \in volume.directories, open_directory(n)
  PROVE  FS!FsStep
<1>1. CASE dir.start = volume.rootdir /\ n \in {<<".">>, <<"..">>}
  <2>1. /\ call = NoCall /\ call' = NoCall /\ answer' = <<"opened", Root>>
        /\ dir' = OpenedDirectory(Root, volume.rootdir)
        /\ UNCHANGED <<id, databuf, files, failed>>
    BY <1>1 DEF open_directory, Answer
  <2>2. IsDirectory(volume, volume.rootdir, Root) /\ id \in DOMAIN Volumes
    BY VolumeFacts DEF IsoInv
  <2>3. Root \in DOMAIN volume.listing
    BY <2>2 DEF IsDirectory
  <2>4. FilesOf' = FilesOf /\ AnswerOf = answer /\ AnswerOf' = <<"opened", Root>> /\ WalkOf' = WalkAt'
    BY <2>1, NoCallOp, RestToRest, FilesUnseen
  <2>5. WalkAt' = [dir |-> Root, pos |-> 0, sure |-> TRUE]
    BY <2>1, <2>2, <2>3, OpenedView
  <2> QED BY <2>3, <2>4, <2>5, StepOpenDirectory
<1>2. CASE ~(dir.start = volume.rootdir /\ n \in {<<".">>, <<"..">>})
  <2>1. match_name("opendir", CHOOSE h \in Handles : TRUE, n)
    BY <1>2 DEF open_directory
  <2>2. (CHOOSE h \in Handles : TRUE) \in Handles
    BY BoundsAssumption
  <2> QED BY <2>1, <2>2, MatchRefines
<1> QED BY <1>1, <1>2

\* The walk that is shown is one of the directory's.
LEMMA WalkWithin == IsoInv => WalkAt \in WalksOf
<1> SUFFICES ASSUME IsoInv PROVE WalkAt \in WalksOf
  OBVIOUS
<1> DEFINE n == Len(volume.listing[dir.name])
           p == dir.pos
<1>1. n \in Nat /\ p \in Nat /\ dir.sure \in BOOLEAN
  BY ListingLength DEF IsoInv, WalkInv, OpenDirectories
<1>2. WalkAt = [dir |-> dir.name, sure |-> dir.sure, pos |-> Min2(p, n)]
  BY DEF WalkAt
<1> HIDE DEF n, p
<1>3. Min2(p, n) \in 0 .. n
  BY <1>1 DEF Min2
<1> QED BY <1>1, <1>2, <1>3 DEF WalksOf, n

LEMMA WalkWithinNext == (IsoInv => WalkAt \in WalksOf)'
BY WalkWithin, PTL

LEMMA WalkShown ==
  ASSUME IsoInv', id' = id, dir'.name = dir.name PROVE WalkAt' \in WalksOf
<1>1. WalksOf' = WalksOf
  BY DEF WalksOf, volume
<1> QED BY <1>1, WalkWithinNext

\* A read in progress.
LEMMA ReadView ==
  ASSUME IsoInv, call.op = "read"
  PROVE  /\ call.h \in Handles /\ IsOpen(call.h) /\ call.from \in Nat
         /\ FilesOf[call.h] = [name |-> files[call.h].name, sure |-> files[call.h].sure, pos |-> call.from]
         /\ FilesOf[call.h].pos = call.from /\ FilesOf[call.h].name = files[call.h].name
         /\ FilesOf[call.h].sure = TRUE
         /\ \A k \in Handles : k # call.h => FilesOf[k] = FilesAt[k]
<1>1. call.h \in Handles /\ IsOpen(call.h) /\ call.from \in Nat
  BY PieceFits DEF Calls, ReadInv
<1>2. files[call.h].sure = TRUE
  BY <1>1, HandleOpen
<1>3. FilesOf[call.h] = [name |-> files[call.h].name, sure |-> files[call.h].sure, pos |-> call.from]
  BY <1>1, ViewOfRead
<1>4. \A k \in Handles : k # call.h => FilesOf[k] = FilesAt[k]
  BY ViewOfRead DEF FilesAt
<1> QED BY <1>1, <1>2, <1>3, <1>4

LEMMA ReadEnds ==
  ASSUME IsoInv, call.op = "read", call' = NoCall, NEW p,
         FilesAt' = [FilesAt EXCEPT ![call.h] = [name |-> files[call.h].name, sure |-> TRUE, pos |-> p]]
  PROVE  FilesOf' = Placed(FilesOf, call.h, p, TRUE)
<1>1. FilesOf' = FilesAt'
  BY NoCallOp, ViewAtRestNext
<1> DEFINE h == call.h
           n == files[call.h].name
           d == files[call.h].sure
           q == call.from
           yes == TRUE
<1>2. h \in Handles /\ FilesOf[h] = [name |-> n, sure |-> d, pos |-> q] /\ FilesOf = [k \in Handles |-> FilesOf[k]]
  BY ReadView DEF FilesOf
<1>3. [FilesAt EXCEPT ![h] = [name |-> n, sure |-> yes, pos |-> p]]
        = [FilesOf EXCEPT ![h] = [name |-> n, sure |-> yes, pos |-> p]]
  <2>1. FilesAt = [k \in Handles |-> FilesAt[k]]
    BY DEF FilesAt
  <2>2. \A k \in Handles : k # h => FilesOf[k] = FilesAt[k]
    BY ReadView
  <2> HIDE DEF h, n, d, q, yes
  <2> QED BY ONLY <1>2, <2>1, <2>2
<1>4. FilesAt' = [FilesAt EXCEPT ![h] = [name |-> n, sure |-> yes, pos |-> p]]
  OBVIOUS
<1> HIDE DEF h, n, d, q, yes
<1>5. [FilesOf EXCEPT ![h] = [name |-> n, sure |-> yes, pos |-> p]] = Placed(FilesOf, h, p, yes)
  BY ONLY <1>2, HandlePlaced
<1>6. FilesOf' = Placed(FilesOf, h, p, yes)
  BY ONLY <1>1, <1>3, <1>4, <1>5
<1> QED BY ONLY <1>6 DEF h, yes

\* The bytes that are answered are those of the file.
LEMMA BytesGathered ==
  ASSUME NEW f, NEW n \in Nat, NEW q \in Nat, NEW got \in Seq(Contents), f.start \in Nat,
         q + Len(got) <= n,
         \A i \in 1 .. Len(got) : got[i] = ByteAt(f, q + i - 1)
  PROVE  got = SubSeq([i \in 1 .. n |-> ByteAt(f, i - 1)], q + 1, q + Len(got))
<1> DEFINE B == [i \in 1 .. n |-> ByteAt(f, i - 1)]
           l == Len(got)
<1>1. l \in Nat /\ got = [i \in 1 .. l |-> got[i]]
  OBVIOUS
<1>2. B \in Seq(Contents) /\ Len(B) = n
  <2>1. ASSUME NEW i \in 1 .. n PROVE ByteAt(f, i - 1) \in Contents
    <3>1. PICK j \in Nat : j = i - 1
      OBVIOUS
    <3>2. j \div SectorSize \in Nat /\ j % SectorSize \in Nat
      BY BoundsAssumption
    <3> QED BY <3>1, <3>2 DEF ByteAt, Contents
  <2>2. B \in [1 .. n -> Contents]
    BY <2>1
  <2> HIDE DEF B
  <2> QED BY ONLY <2>2, n \in Nat
<1>3. \A i \in 1 .. n : B[i] = ByteAt(f, i - 1)
  OBVIOUS
<1> HIDE DEF B, l
<1>4. SubSeq(B, q + 1, q + l) = [i \in 1 .. l |-> B[q + i]]
  <2> DEFINE S == SubSeq(B, q + 1, q + l)
  <2>1. q + 1 \in 1 .. Len(B) + 1 /\ q + l \in q .. Len(B)
    BY <1>1, <1>2 DEF l
  <2>2. /\ S \in Seq(Contents)
        /\ Len(S) = IF q + 1 <= q + l THEN (q + l) - (q + 1) + 1 ELSE 0
        /\ \A i \in 1 .. (q + l) - (q + 1) + 1 : S[i] = B[q + 1 + i - 1]
    BY <1>2, <2>1, SubSeqProperties
  <2> HIDE DEF S
  <2>3. (q + l) - (q + 1) + 1 = l /\ (q + 1 <= q + l \/ l = 0)
    BY <1>1
  <2>4. Len(S) = l
    BY <2>2, <2>3
  <2>5. \A i \in 1 .. l : S[i] = B[q + i]
    BY <1>1, <2>2, <2>3
  <2>6. S = [i \in 1 .. l |-> S[i]]
    BY <2>2, <2>4
  <2>7. S = [i \in 1 .. l |-> B[q + i]]
    BY <2>5, <2>6
  <2> QED BY <2>7 DEF S
<1>5. ASSUME NEW i \in 1 .. l PROVE got[i] = B[q + i]
  <2>1. q + i \in 1 .. n
    BY <1>1 DEF l
  <2> QED BY <1>3, <2>1 DEF l
<1>6. got = SubSeq(B, q + 1, q + l)
  BY <1>1, <1>4, <1>5
<1> QED BY <1>6 DEF B, l

LEMMA ReadPieceRefines == ASSUME IsoInv, ReadPiece PROVE FS!FsStep
<1>1. PICK r \in read_sector(PieceSector) :
         /\ r.ok
         /\ databuf' = r.buf
         /\ files' = [files EXCEPT ![call.h].cursor = @ + Piece]
         /\ IF Piece = call.len
            THEN Answer(<<"bytes", Gathered(r)>>)
            ELSE GoOn([call EXCEPT !.len = @ - Piece, !.got = Gathered(r)])
  BY DEF ReadPiece, Gathered
<1>2. call.op = "read" /\ UNCHANGED <<id, dir, failed>>
  BY DEF ReadPiece
<1> DEFINE h == call.h
           f == files[h]
           n == Len(Gathered(r))
           p == f.cursor + Piece
<1>3. /\ call \in Calls /\ ReadInv /\ f.cursor \in Nat /\ f.size \in Nat /\ f.start \in Nat
      /\ Piece \in 1 .. call.len /\ call.len \in Nat
  BY <1>2, PieceFits DEF Calls
<1>4. h \in Handles /\ IsOpen(h) /\ call.from \in Nat
  BY <1>2, ReadView
<1>5. p \in 0 .. f.size
  BY <1>3 DEF ReadInv
<1>6. files' = [files EXCEPT ![h].cursor = p]
  BY <1>1
<1>7. FilesAt' = [FilesAt EXCEPT ![h] = [name |-> f.name, sure |-> TRUE, pos |-> p]]
  BY <1>2, <1>4, <1>5, <1>6, HandleShows
<1>8. WalkAt' = WalkAt
  BY <1>2, WalkUnseen
<1>9. CASE Piece = call.len
  <2>1. call' = NoCall /\ answer' = <<"bytes", Gathered(r)>>
    BY <1>1, <1>9 DEF Answer
  <2>2. FilesOf' = Placed(FilesOf, h, p, TRUE)
    BY <1>2, <1>7, <2>1, ReadEnds
  <2>3. WalkOf' = WalkOf /\ AnswerOf' = <<"bytes", Gathered(r)>>
    BY <1>2, <1>8, <2>1, NoCallOp, ViewOfRead, ViewAtRestNext
  <2>4. /\ Gathered(r) \in Seq(Contents) /\ n = Len(call.got) + Piece
        /\ ~(Torn \/ call.doubt) => \A i \in 1 .. n : Gathered(r)[i] = ByteAt(f, call.from + i - 1)
    BY <1>1, <1>2, PieceRead
  <2>5. /\ FilesOf[h].pos = call.from /\ FilesOf[h].name = f.name /\ FilesOf[h].sure = TRUE
    BY <1>2, ReadView
  <2>6. /\ FS!IsOpen(h) /\ FS!Size(h) = f.size
        /\ FS!Bytes(f.name) = [i \in 1 .. f.size |-> ByteAt(f, i - 1)]
    BY <1>4, HandleOpen
  <2>7. n \in Nat /\ p = call.from + n /\ call.from + n <= f.size
    <3>1. f.cursor = call.from + Len(call.got)
      BY <1>3 DEF ReadInv
    <3>2. Len(call.got) \in Nat
      BY <1>3 DEF Calls
    <3>3. Piece \in Nat
      BY <1>3
    <3> HIDE DEF f, h, n
    <3> QED BY <1>3, <1>4, <1>5, <2>4, <3>1, <3>2, <3>3
  <2> HIDE DEF f, h, p
  <2>8. Unharmed => Gathered(r) = SubSeq(FS!Bytes(FilesOf[h].name), FilesOf[h].pos + 1, FilesOf[h].pos + n)
    <3> SUFFICES ASSUME Unharmed PROVE Gathered(r) = SubSeq(FS!Bytes(f.name), call.from + 1, call.from + n)
      BY <2>5
    <3>1. \A i \in 1 .. n : Gathered(r)[i] = ByteAt(f, call.from + i - 1)
      BY <2>4 DEF Unharmed
    <3>2. Gathered(r) = SubSeq([i \in 1 .. f.size |-> ByteAt(f, i - 1)], call.from + 1, call.from + n)
      BY <1>3, <1>4, <2>4, <2>7, <3>1, BytesGathered
    <3> QED BY <2>6, <3>2
  <2>9. n <= FS!Size(h) - FilesOf[h].pos /\ FS!Size(h) \in Nat /\ FilesOf[h].pos \in Nat
    <3>1. n <= f.size - call.from
      <4> HIDE DEF n
      <4> QED BY ONLY <2>7, <1>3, <1>4
    <3> QED BY <1>3, <1>4, <2>5, <2>6, <3>1
  <2>10. FilesOf' = Placed(FilesOf, h, FilesOf[h].pos + n, TRUE)
    BY <2>2, <2>5, <2>7
  <2> QED BY <1>4, <2>3, <2>5, <2>6, <2>7, <2>8, <2>9, <2>10, StepRead
<1>10. CASE Piece # call.len
  <2> DEFINE c == [[call EXCEPT !.len = call.len - Piece] EXCEPT !.got = Gathered(r)]
  <2>1. call' = [c EXCEPT !.doubt = c.doubt \/ Torn] /\ answer' = answer
    BY <1>1, <1>10 DEF GoOn
  <2>2. c.op = "read" /\ c.h = h /\ c.from = call.from
    BY <1>2, <1>3 DEF Calls
  <2>3. DOMAIN c = {"op", "h", "at", "name", "doubt", "from", "len", "got"}
    BY <1>3 DEF Calls
  <2> HIDE DEF c
  <2>4. call'.op = "read" /\ call'.h = h /\ call'.from = call.from
    BY <2>1, <2>2
  <2>5. FilesOf' = FilesOf
    <3>1. FilesOf' = [k \in Handles |-> [name |-> files'[k].name, sure |-> files'[k].sure,
                                         pos |-> IF k = h THEN call.from ELSE files'[k].cursor]]
      BY <2>4, ViewOfReadNext
    <3>2. FilesOf = [k \in Handles |-> [name |-> files[k].name, sure |-> files[k].sure,
                                         pos |-> IF k = h THEN call.from ELSE files[k].cursor]]
      BY <1>2, ViewOfRead
    <3>3. files'[h] = [f EXCEPT !.cursor = p] /\ f \in OpenFiles
      BY <1>2, <1>4, <1>5, <1>6, HandleMoves DEF IsoInv, FileInv
    <3>4. files'[h].name = f.name /\ files'[h].sure = f.sure
      BY <3>3 DEF OpenFiles
    <3>5. \A k \in Handles : k # h => files'[k] = files[k]
      BY <1>4, <1>6 DEF IsoInv, FileInv
    <3> HIDE DEF h, p
    <3> QED BY ONLY <3>1, <3>2, <3>4, <3>5
  <2>6. WalkOf' = WalkOf /\ AnswerOf' = AnswerOf
    BY <1>2, <1>8, <2>1, <2>4, ViewOfRead, ViewOfReadNext
  <2> QED BY <2>5, <2>6, StepStays
<1> QED BY <1>9, <1>10

LEMMA ReadPieceFailsRefines == ASSUME IsoInv, ReadPieceFails PROVE FS!FsStep
<1>1. /\ call.op = "read" /\ call' = NoCall /\ answer' = <<"error">> /\ UNCHANGED <<id, files, dir>>
      /\ failed' \in Nat /\ failed' > failed
  BY FailureCounted DEF ReadPieceFails, Answer
<1> DEFINE h == call.h
           f == files[h]
           n == Len(call.got)
<1>2. /\ h \in Handles /\ IsOpen(h) /\ call.from \in Nat
      /\ FilesOf[h].pos = call.from /\ FilesOf[h].sure = TRUE
  BY <1>1, ReadView
<1>3. /\ FS!IsOpen(h) /\ FS!Size(h) = f.size /\ f.size \in Nat /\ f.cursor \in 0 .. f.size /\ f.sure = TRUE
  BY <1>2, HandleOpen
<1>4. n \in Nat /\ f.cursor = call.from + n
  BY <1>1, PieceFits DEF Calls, ReadInv
<1>5. FilesAt' = [FilesAt EXCEPT ![h] = [name |-> f.name, sure |-> TRUE, pos |-> f.cursor]]
  <2>1. FilesAt' = FilesAt
    BY <1>1, FilesUnseen
  <2>2. FilesAt = [k \in Handles |-> FilesAt[k]]
    BY DEF FilesAt
  <2>3. FilesAt[h] = [name |-> f.name, sure |-> TRUE, pos |-> f.cursor]
    BY <1>2, <1>3 DEF FilesAt
  <2> HIDE DEF h, f
  <2> QED BY ONLY <1>2, <2>1, <2>2, <2>3
<1>6. FilesOf' = Placed(FilesOf, h, f.cursor, TRUE)
  BY <1>1, <1>5, ReadEnds
<1>7. WalkOf' = WalkOf /\ AnswerOf' = <<"error">>
  BY <1>1, NoCallOp, WalkUnseen, ViewOfRead, ViewAtRestNext
<1> HIDE DEF h, f, n
<1>8. n <= FS!Size(h) - FilesOf[h].pos /\ FS!Size(h) \in Nat /\ FilesOf[h].pos \in Nat
  <2>1. n <= f.size - call.from
    BY <1>2, <1>3, <1>4
  <2> QED BY <1>2, <1>3, <2>1
<1>9. FilesOf' = Placed(FilesOf, h, FilesOf[h].pos + n, TRUE)
  BY <1>2, <1>4, <1>6
<1> QED BY <1>1, <1>2, <1>3, <1>4, <1>7, <1>8, <1>9, StepReadFails


\* A walk in progress, as it is seen.
LEMMA WalkView ==
  ASSUME IsoInv, Walking
  PROVE  /\ FilesOf = FilesAt
         /\ call.op = "list" => WalkOf = WalkAt
         /\ call.op # "list" => AnswerOf = <<"asked", call.name>>
         /\ WalkOf.sure = dir.sure
<1>1. call.op \in {"list", "open", "opendir"}
  BY DEF Walking
<1>2. WalkOf.sure = dir.sure
  BY DEF WalkOf
<1> QED BY <1>1, <1>2, ViewAtRest, ViewOfSearch

LEMMA FetchRefines == ASSUME IsoInv, FetchEntry PROVE FS!FsStep
<1>1. /\ Walking /\ answer' = answer /\ UNCHANGED <<id, files, dir>>
      /\ call' = [[call EXCEPT !.at = "entry"] EXCEPT !.doubt = @ \/ Torn]
  BY DEF FetchEntry, GoOn
<1>2. call \in Calls
  BY <1>1, Walks
<1> DEFINE c == [call EXCEPT !.at = "entry"]
<1>3. c \in Calls /\ c.op = call.op /\ c.name = call.name
  BY <1>2 DEF Calls
<1> HIDE DEF c
<1>4. call' = [c EXCEPT !.doubt = @ \/ Torn]
  BY <1>1 DEF c
<1>5. call'.op = call.op /\ call'.name = call.name
  BY <1>3, <1>4 DEF Calls
<1>6. FilesAt' = FilesAt /\ WalkAt' = WalkAt
  BY <1>1, FilesUnseen, WalkUnseen
<1>7. CASE call.op = "list"
  BY <1>1, <1>5, <1>6, <1>7, ViewAtRest, ViewAtRestNext, StepStays
<1>8. CASE call.op \in {"open", "opendir"}
  <2>1. FilesOf' = FilesOf /\ AnswerOf' = AnswerOf
    BY <1>5, <1>6, <1>8, ViewOfSearch, ViewOfSearchNext
  <2>2. WalkOf' = WalkOf
    BY <1>1, <1>5, <1>8, ViewOfSearch, ViewOfSearchNext
  <2> QED BY <2>1, <2>2, StepStays
<1> QED BY <1>1, <1>7, <1>8 DEF Walking

\* The call returns and leaves the files alone.
LEMMA WalkReturns ==
  ASSUME IsoInv, IsoInv', Walking, call' = NoCall, id' = id, files' = files, dir'.name = dir.name
  PROVE  /\ FilesOf' = FilesOf /\ WalkOf' = WalkAt' /\ WalkOf' \in WalksOf
         /\ AnswerOf' = answer' /\ WalkOf'.sure = dir'.sure
<1>1. FilesOf' = FilesAt' /\ WalkOf' = WalkAt' /\ AnswerOf' = answer'
  BY NoCallOp, ViewAtRestNext
<1>2. WalkAt' \in WalksOf
  BY WalkShown
<1>3. FilesOf' = FilesOf
  BY <1>1, WalkView, FilesUnseen
<1>4. WalkOf'.sure = dir'.sure
  BY DEF WalkOf
<1> QED BY <1>1, <1>2, <1>3, <1>4

LEMMA FetchFailsRefines == ASSUME IsoInv, FetchEntryFails PROVE FS!FsStep
<1>1. /\ Walking /\ call' = NoCall /\ answer' = NoRead /\ UNCHANGED <<id, files, dir>> /\ failed' > failed /\ IsoInv'
  BY FailureCounted, FetchFailsKeeps DEF FetchEntryFails, Answer
<1>2. FilesOf' = FilesOf /\ WalkOf' \in WalksOf /\ AnswerOf' = NoRead
  BY <1>1, WalkReturns
<1>3. CASE call.op = "list"
  <2>1. AnswerOf' = <<"error">>
    BY <1>2, <1>3 DEF NoRead
  <2> QED BY <1>1, <1>2, <2>1, StepWalkFails
<1>4. CASE call.op # "list"
  <2>1. AnswerOf' = <<"not found">>
    BY <1>2, <1>4 DEF NoRead
  <2>2. AnswerOf = <<"asked", call.name>>
    BY <1>1, <1>4, WalkView
  <2> QED BY <1>1, <1>2, <2>1, <2>2, StepNotFound
<1> QED BY <1>3, <1>4

\* When the walk is sure, and the device gives no reason to doubt it.
LEMMA DoubtShows ==
  ASSUME IsoInv, Walking
  PROVE  /\ WalkOf.sure /\ Unharmed => Sure
         /\ dir.sure /\ ~Sure => ~Unharmed
         /\ Sure => dir.sure
BY WalkView DEF Sure, Unharmed

LEMMA EndRefines == ASSUME IsoInv, EndOfEntries PROVE FS!FsStep
<1>1. /\ Walking /\ call.at = "entry" /\ Current.kind = "end" /\ call' = NoCall /\ answer' = NoMore
      /\ dir' = [dir EXCEPT !.sure = Sure] /\ UNCHANGED <<id, databuf, files, failed>> /\ IsoInv'
  BY EndKeeps DEF EndOfEntries, Answer
<1>2. /\ dir'.name = dir.name /\ dir'.pos = dir.pos /\ dir'.sure = Sure
      /\ dir.pos \in Nat /\ dir.sure \in BOOLEAN /\ dir.name \in DOMAIN volume.listing /\ id \in DOMAIN Volumes
  BY <1>1 DEF IsoInv, WalkInv, OpenDirectories
<1>3. FilesOf' = FilesOf /\ WalkOf' = WalkAt' /\ WalkOf' \in WalksOf /\ AnswerOf' = NoMore /\ WalkOf'.sure = Sure
  BY <1>1, <1>2, WalkReturns
<1>4. Sure => dir.pos = Len(volume.listing[dir.name])
  BY <1>1, SureEntry
<1>5. CASE call.op = "list"
  <2>1. AnswerOf' = <<"end of list">>
    BY <1>3, <1>5 DEF NoMore
  <2>2. CASE Sure
    <3>1. dir' = dir
      <4>1. dir.sure = TRUE
        BY <2>2, <1>1, DoubtShows, <1>2
      <4>2. Sure = TRUE
        BY <2>2 DEF Sure
      <4>3. dir \in OpenDirectories
        BY DEF IsoInv, WalkInv
      <4>4. dir = [dir EXCEPT !.sure = dir.sure]
        BY <4>3 DEF OpenDirectories
      <4> QED BY ONLY <1>1, <4>1, <4>2, <4>4
    <3>2. WalkOf' = WalkOf
      BY <1>1, <1>3, <1>5, <3>1, WalkView, WalkUnseen
    <3>3. WalkOf.pos = Len(volume.listing[dir.name])
      <4>1. WalkOf.pos = Min2(dir.pos, Len(volume.listing[dir.name]))
        BY <1>1, <1>5, WalkView DEF WalkAt
      <4> QED BY <1>2, <1>4, <2>2, <4>1 DEF Min2
    <3> QED BY <1>3, <2>1, <3>2, <3>3, StepEndOfList
  <2>3. CASE ~Sure
    <3>1. ~(WalkOf.sure /\ Unharmed)
      BY <1>1, <2>3, DoubtShows
    <3> QED BY <1>3, <2>1, <2>3, <3>1, StepEndOfList
  <2> QED BY <2>2, <2>3
<1>6. CASE call.op # "list"
  <2>1. AnswerOf' = <<"not found">>
    BY <1>3, <1>6 DEF NoMore
  <2>2. AnswerOf = <<"asked", call.name>>
    BY <1>1, <1>6, WalkView
  <2>3. ASSUME Unharmed PROVE ~Listed(call.name)
    <3>1. ~call.doubt /\ ~Torn
      BY <2>3 DEF Unharmed
    <3>2. dir.sure /\ \A i \in 1 .. dir.pos : volume.listing[dir.name][i] # call.name
      BY <1>1, <1>6, <3>1, Walks DEF SeekInv
    <3>3. Sure
      BY <3>1, <3>2 DEF Sure
    <3> QED BY <1>2, <1>4, <3>2, <3>3, ListingLength DEF Listed
  <2> QED BY <1>3, <2>1, <2>2, <2>3, StepNotFound
<1> QED BY <1>5, <1>6

\* The walk has moved past an entry.
LEMMA MovedView ==
  ASSUME IsoInv, AtEntry, id' = id, dir' = AtNext, Sure
  PROVE  /\ dir.pos < Len(volume.listing[dir.name])
         /\ WalkAt.pos = dir.pos /\ WalkAt'.pos = dir.pos + 1
<1> DEFINE n == Len(volume.listing[dir.name])
           p == dir.pos
<1>1. n \in Nat /\ p \in Nat
  BY ListingLength DEF IsoInv, WalkInv, OpenDirectories
<1>2. p < n
  BY SureEntry DEF AtEntry
<1>3. dir'.pos = p + 1 /\ dir'.name = dir.name /\ volume' = volume
  BY WalkMoves DEF volume
<1>4. WalkAt.pos = Min2(p, n) /\ WalkAt'.pos = Min2(p + 1, n)
  BY <1>3 DEF WalkAt
<1> HIDE DEF n, p
<1>5. Min2(p, n) = p /\ Min2(p + 1, n) = p + 1
  BY <1>1, <1>2 DEF Min2
<1> QED BY <1>2, <1>4, <1>5 DEF n, p

LEMMA ListEntryRefines == ASSUME IsoInv, ListEntry PROVE FS!FsStep
<1>1. /\ AtEntry /\ call.op = "list" /\ dir' = AtNext /\ call' = NoCall /\ answer' = <<"entry", Current.name>>
      /\ UNCHANGED <<id, databuf, files, failed>> /\ IsoInv'
  BY ListKeeps DEF ListEntry, Answer
<1>2. Walking /\ call.at = "entry" /\ Current.kind = "file"
  BY <1>1 DEF AtEntry
<1>3. dir'.name = dir.name /\ dir'.sure = Sure
  BY <1>1, WalkMoves
<1>4. FilesOf' = FilesOf /\ WalkOf' = WalkAt' /\ WalkOf' \in WalksOf /\ AnswerOf' = <<"entry", Current.name>>
      /\ WalkOf'.sure = Sure /\ WalkOf = WalkAt
  BY <1>1, <1>2, <1>3, WalkReturns, WalkView
<1>5. CASE Sure
  <2>1. WalkOf.pos < Len(volume.listing[dir.name]) /\ WalkOf'.pos = WalkOf.pos + 1 /\ WalkOf.pos = dir.pos
    BY <1>1, <1>4, <1>5, MovedView
  <2>2. Current.name = volume.listing[dir.name][WalkOf.pos + 1]
    BY <1>2, <1>5, <2>1, SureEntry
  <2> QED BY <1>4, <1>5, <2>1, <2>2, StepNextEntry
<1>6. CASE ~Sure
  <2>1. ~WalkOf.sure \/ ~Unharmed
    BY <1>2, <1>6, DoubtShows
  <2> QED BY <1>4, <1>6, <2>1, StepNextEntry
<1> QED BY <1>5, <1>6

LEMMA OtherEntryRefines == ASSUME IsoInv, OtherEntry PROVE FS!FsStep
<1>1. /\ AtEntry /\ call.op # "list" /\ dir' = AtNext /\ answer' = answer
      /\ UNCHANGED <<id, databuf, files, failed>>
      /\ call' = [[call EXCEPT !.at = "read"] EXCEPT !.doubt = @ \/ Torn]
  BY DEF OtherEntry, GoOn
<1>2. Walking /\ call.op \in {"open", "opendir"}
  BY <1>1 DEF AtEntry, Walking
<1>3. call \in Calls
  BY <1>2, Walks
<1> DEFINE c == [call EXCEPT !.at = "read"]
<1>4. c \in Calls /\ c.op = call.op /\ c.name = call.name
  BY <1>3 DEF Calls
<1> HIDE DEF c
<1>5. call' = [c EXCEPT !.doubt = @ \/ Torn]
  BY <1>1 DEF c
<1>6. call'.op = call.op /\ call'.name = call.name
  BY <1>4, <1>5 DEF Calls
<1>7. dir'.name = dir.name /\ dir'.sure = Sure
  BY <1>1, WalkMoves
<1>8. FilesOf' = FilesOf /\ AnswerOf' = AnswerOf
  BY <1>1, <1>2, <1>6, FilesUnseen, ViewOfSearch, ViewOfSearchNext
<1>9. /\ WalkOf = [dir |-> dir.name, sure |-> dir.sure, pos |-> 0]
      /\ WalkOf' = [dir |-> dir.name, sure |-> Sure, pos |-> 0]
  BY <1>2, <1>6, <1>7, ViewOfSearch, ViewOfSearchNext
<1>10. CASE Sure
  <2>1. dir.sure = TRUE
    BY <1>2, <1>10, DoubtShows DEF IsoInv, WalkInv, OpenDirectories
  <2>2. Sure = TRUE
    BY <1>10 DEF Sure
  <2>3. WalkOf' = WalkOf
    BY <1>9, <2>1, <2>2
  <2> QED BY <1>8, <2>3, StepStays
<1>11. CASE ~Sure
  <2>1. Sure = FALSE /\ dir.sure \in BOOLEAN
    BY <1>11 DEF Sure, IsoInv, WalkInv, OpenDirectories
  <2>2. CASE dir.sure = FALSE
    <3>1. WalkOf' = WalkOf
      BY <1>9, <2>1, <2>2
    <3> QED BY <1>8, <3>1, StepStays
  <2>3. CASE dir.sure = TRUE
    <3>1. ~Unharmed
      BY <1>2, <1>11, <2>3, DoubtShows
    <3>2. WalkOf' = [WalkOf EXCEPT !.sure = FALSE]
      <4> DEFINE no == FALSE
                 n == dir.name
                 d == dir.sure
      <4>1. WalkOf = [dir |-> n, sure |-> d, pos |-> 0] /\ WalkOf' = [dir |-> n, sure |-> no, pos |-> 0]
        BY <1>9, <2>1
      <4> HIDE DEF no, n, d
      <4>2. WalkOf' = [WalkOf EXCEPT !.sure = no]
        BY ONLY <4>1
      <4> QED BY ONLY <4>2 DEF no
    <3> QED BY <1>8, <3>1, <3>2, StepLoseTrack
  <2> QED BY <2>1, <2>2, <2>3
<1> QED BY <1>10, <1>11

\* What has been found is what was looked for.
LEMMA Found ==
  ASSUME IsoInv, AtEntry, Current.name = call.name
  PROVE  \/ Listed(call.name) /\ volume.leads[dir.name][call.name] = Current.target
         \/ ~(WalkOf.sure /\ Unharmed)
<1>1. Walking /\ call.at = "entry" /\ Current.kind = "file"
  BY DEF AtEntry
<1>2. CASE Sure
  <2>1. /\ dir.pos < Len(volume.listing[dir.name])
        /\ Current.name = volume.listing[dir.name][dir.pos + 1]
        /\ Current.target = volume.leads[dir.name][volume.listing[dir.name][dir.pos + 1]]
    BY <1>1, <1>2, SureEntry
  <2>2. dir.pos \in Nat /\ dir.name \in DOMAIN volume.listing /\ id \in DOMAIN Volumes
    BY DEF IsoInv, WalkInv, OpenDirectories
  <2>3. dir.pos + 1 \in DOMAIN volume.listing[dir.name]
    BY <2>1, <2>2, ListingLength
  <2> QED BY <2>1, <2>3 DEF Listed
<1>3. CASE ~Sure
  BY <1>1, <1>3, DoubtShows
<1> QED BY <1>2, <1>3

LEMMA Refuses ==
  ASSUME IsoInv, IsoInv', AtEntry, call.op # "list", Current.name = call.name, dir' = AtNext,
         call' = NoCall, answer' = <<"refused">>, id' = id, files' = files
  PROVE  FS!FsStep
<1>1. Walking
  BY DEF AtEntry
<1>2. dir'.name = dir.name
  BY WalkMoves
<1>3. FilesOf' = FilesOf /\ WalkOf' \in WalksOf /\ AnswerOf' = <<"refused">>
  BY <1>1, <1>2, WalkReturns
<1>4. AnswerOf = <<"asked", call.name>>
  BY <1>1, WalkView
<1>5. Listed(call.name) \/ ~(WalkOf.sure /\ Unharmed)
  BY Found
<1> QED BY <1>3, <1>4, <1>5, StepRefuse

LEMMA OpenFailsRefines == ASSUME IsoInv, OpenFails PROVE FS!FsStep
<1>1. IsoInv'
  BY OpenFailsKeeps
<1> QED BY <1>1, Refuses DEF OpenFails, Answer

LEMMA OpenFileRefines == ASSUME IsoInv, OpenFile PROVE FS!FsStep
<1>1. /\ AtEntry /\ call.op = "open" /\ Current.name = call.name /\ dir' = AtNext /\ call' = NoCall
      /\ UNCHANGED <<id, databuf, failed>> /\ IsoInv'
  BY OpenFileKeeps DEF OpenFile, Answer
<1>2. CASE Current.directory
  BY <1>1, <1>2, Refuses DEF OpenFile, Answer
<1>3. CASE ~Current.directory
  <2> DEFINE h == call.h
             t == Current.target
             new == [name |-> t, size |-> Current.size, start |-> Current.start, cursor |-> 0, sure |-> TRUE]
  <2>1. files' = [files EXCEPT ![h] = new] /\ answer' = <<"opened", t>>
    BY <1>3 DEF OpenFile, Answer
  <2>2. Walking
    BY <1>1 DEF AtEntry
  <2>3. h \in Handles /\ ~IsOpen(h)
    BY <1>1, <2>2, Walks DEF Calls, SeekInv
  <2>4. t \in volume.files
    BY <1>1, <1>3, <2>1, <2>3, FileOpened
  <2>5. FilesOf' = FilesAt' /\ WalkOf' = WalkAt' /\ AnswerOf' = <<"opened", t>> /\ FilesOf = FilesAt
        /\ AnswerOf = <<"asked", call.name>>
    BY <1>1, <2>1, <2>2, NoCallOp, ViewAtRestNext, WalkView
  <2>6. WalkOf' \in WalksOf
    BY <1>1, <2>5, WalkMoves, WalkShown
  <2>7. ~FS!IsOpen(h)
    <3>1. FilesOf[h].name = NoFile
      BY <2>3 DEF FilesOf, IsOpen
    <3>2. FS!IsOpen(h) <=> FilesOf[h].name \in volume.files
      BY DEF FS!IsOpen, FS!Files, FilesOf
    <3> QED BY <3>1, <3>2, VolumeFacts DEF IsoInv
  <2>8. FilesAt' = [FilesAt EXCEPT ![h] = [name |-> t, pos |-> 0, sure |-> TRUE]]
    <3>1. new.name = t /\ new.sure = TRUE /\ new.cursor = 0
      OBVIOUS
    <3>2. files \in [Handles -> OpenFiles]
      BY DEF IsoInv, FileInv
    <3> HIDE DEF new, t, h
    <3>3. \A k \in Handles : files'[k] = IF k = h THEN new ELSE files[k]
      BY <2>1, <3>2
    <3>4. FilesAt' = [k \in Handles |-> [name |-> files'[k].name, sure |-> files'[k].sure, pos |-> files'[k].cursor]]
      BY DEF FilesAt
    <3>5. FilesAt = [k \in Handles |-> FilesAt[k]]
      BY DEF FilesAt
    <3>6. ASSUME NEW k \in Handles
          PROVE  [name |-> files'[k].name, sure |-> files'[k].sure, pos |-> files'[k].cursor]
                   = IF k = h THEN [name |-> t, pos |-> 0, sure |-> TRUE] ELSE FilesAt[k]
      <4>1. CASE k = h
        BY <3>1, <3>3, <4>1
      <4>2. CASE k # h
        BY <3>3, <4>2 DEF FilesAt
      <4> QED BY <4>1, <4>2
    <3> QED BY <3>4, <3>5, <3>6
  <2>9. FilesOf' = [FilesOf EXCEPT ![h] = [name |-> t, pos |-> 0, sure |-> TRUE]]
    BY <2>5, <2>8
  <2>10. (Listed(call.name) /\ volume.leads[dir.name][call.name] = t) \/ ~(WalkOf.sure /\ Unharmed)
    BY <1>1, Found
  <2> HIDE DEF h, t, new
  <2> QED BY <2>3, <2>4, <2>5, <2>6, <2>7, <2>9, <2>10, StepOpen
<1> QED BY <1>2, <1>3

LEMMA OpenDirectoryRefines == ASSUME IsoInv, OpenDirectory PROVE FS!FsStep
<1>1. /\ AtEntry /\ call.op = "opendir" /\ Current.name = call.name /\ call' = NoCall
      /\ UNCHANGED <<id, databuf, files, failed>> /\ IsoInv'
  BY OpenDirectoryKeeps DEF OpenDirectory, Answer
<1>2. CASE ~Current.directory
  BY <1>1, <1>2, Refuses DEF OpenDirectory, Answer
<1>3. CASE Current.directory
  <2> DEFINE t == Current.target
  <2>1. dir' = OpenedDirectory(t, Current.start) /\ answer' = <<"opened", t>>
    BY <1>3 DEF OpenDirectory, Answer
  <2>2. IsDirectory(volume, Current.start, t)
    BY <1>1, <1>3, EntryFacts DEF AtEntry, IsEntry
  <2>3. t \in DOMAIN volume.listing /\ id \in DOMAIN Volumes
    BY <2>2 DEF IsDirectory, IsoInv
  <2>4. WalkAt' = [dir |-> t, pos |-> 0, sure |-> TRUE]
    BY <1>1, <2>1, <2>3, OpenedView
  <2>5. Walking
    BY <1>1 DEF AtEntry
  <2>6. FilesOf' = FilesOf /\ WalkOf' = WalkAt' /\ AnswerOf' = <<"opened", t>> /\ AnswerOf = <<"asked", call.name>>
    BY <1>1, <2>1, <2>5, NoCallOp, FilesUnseen, ViewAtRestNext, WalkView
  <2>7. (Listed(call.name) /\ volume.leads[dir.name][call.name] = t) \/ ~(WalkOf.sure /\ Unharmed)
    BY <1>1, Found
  <2>8. AnswerOf[1] = "asked" /\ AnswerOf[2] = call.name
    BY <2>6
  <2> HIDE DEF t
  <2> QED BY <2>3, <2>4, <2>6, <2>7, <2>8, StepOpenDirectory
<1> QED BY <1>2, <1>3

LEMMA StartsAsPromised == IsoInit => FS!Init
<1> SUFFICES ASSUME IsoInit PROVE FS!Init
  OBVIOUS
<1>1. /\ id \in DOMAIN Volumes /\ files = [h \in Handles |-> ClosedFile] /\ call = NoCall /\ failed = 0
      /\ dir = OpenedDirectory(Root, volume.rootdir) /\ answer = <<"none">>
      /\ databuf = [key |-> volume.pathtbl, holds |-> volume.pathtbl]
  BY DEF IsoInit
<1>2. FilesOf = FilesAt /\ WalkOf = WalkAt /\ AnswerOf = answer
  BY <1>1, NoCallOp, ViewAtRest
<1>3. FilesAt = [h \in Handles |-> FS!Closed]
  BY <1>1 DEF FilesAt, ClosedFile, FS!Closed, NoFile
<1>4. WalkAt = [dir |-> FS!Root, pos |-> 0, sure |-> TRUE]
  <2>1. IsDirectory(volume, volume.rootdir, Root)
    BY <1>1, VolumeFacts
  <2>2. Len(volume.listing[Root]) \in Nat
    BY <1>1, <2>1, ListingLength DEF IsDirectory
  <2>3. Min2(0, Len(volume.listing[Root])) = 0
    BY <2>2 DEF Min2
  <2>4. dir.name = Root /\ dir.pos = 0 /\ dir.sure = TRUE
    BY <1>1 DEF OpenedDirectory
  <2>5. WalkAt = [dir |-> Root, sure |-> TRUE, pos |-> 0]
    BY <2>3, <2>4 DEF WalkAt
  <2>6. FS!Root = Root
    BY DEF FS!Root, Root
  <2> QED BY <2>5, <2>6
<1>6. (Torn \/ call.doubt) \in BOOLEAN
  OBVIOUS
<1> QED BY <1>1, <1>2, <1>3, <1>4, <1>6 DEF FS!Init, FilesOf, WalkOf, AnswerOf

\* Nothing of what is promised changes when nothing changes.
LEMMA NothingHappens == ASSUME UNCHANGED isoVars PROVE FS!FsStep
<1>1. FilesOf' = FilesOf /\ WalkOf' = WalkOf /\ AnswerOf' = AnswerOf
  BY DEF isoVars, FilesOf, WalkOf, AnswerOf, volume
<1> QED BY <1>1, StepStays

LEMMA StepsAsPromised == IsoInv /\ answer[1] # "asked" /\ [IsoNext]_isoVars => [FS!FsNext]_(FS!fsVars)
<1> SUFFICES ASSUME IsoInv, answer[1] # "asked", [IsoNext]_isoVars PROVE FS!FsNext
  OBVIOUS
<1>1. FS!Device
  BY StepDevice
<1>2. FS!FsStep
  <2>1. CASE Client
    <3>1. CASE \E h \in Handles, n \in Lengths : read(h, n)
      BY <3>1, ReadRefines
    <3>2. CASE \E h \in Handles, p \in volume.seeks : seek(h, p)
      BY <3>2, SeekRefines
    <3>3. CASE \E h \in Handles, n \in volume.names : open(h, n)
      BY <3>3, OpenStartRefines
    <3>4. CASE \E h \in Handles : seek_invalid(h) \/ close(h)
      BY <3>4, SeekInvalidRefines, CloseRefines
    <3>5. CASE rewind_directory \/ iter_directory
      BY <3>5, RewindRefines, ListRefines
    <3>6. CASE \E n \in volume.directories : open_directory(n)
      BY <3>6, OpenDirectoryStartRefines
    <3> QED BY <2>1, <3>1, <3>2, <3>3, <3>4, <3>5, <3>6 DEF Client
  <2>2. CASE Driver
    BY <2>2, ReadPieceRefines, ReadPieceFailsRefines, FetchRefines, FetchFailsRefines, EndRefines,
       ListEntryRefines, OtherEntryRefines, OpenFileRefines, OpenDirectoryRefines, OpenFailsRefines DEF Driver
  <2>3. CASE UNCHANGED isoVars
    BY <2>3, NothingHappens
  <2> QED BY <2>1, <2>2, <2>3 DEF IsoNext
<1> QED BY <1>1, <1>2 DEF FS!FsNext

NotAsking == answer[1] # "asked"

(* The driver keeps the promise of FileSystem: on every volume, for all calls *)
(* and device reads that fail in any order, a read answers the bytes of the   *)
(* file at its position, a name that is found leads to what the volume says,  *)
(* and the walk answers each entry once and in order.                         *)
THEOREM IsoKeepsItsPromise == IsoSpec => FS!FsSpec
<1>1. IsoInit => NotAsking
  BY DEF IsoInit, NotAsking
<1>2. NotAsking /\ [IsoNext]_isoVars => NotAsking'
  BY NeverAsked DEF NotAsking
<1>3. IsoInv /\ NotAsking /\ [IsoNext]_isoVars => [FS!FsNext]_(FS!fsVars)
  BY StepsAsPromised DEF NotAsking
<1>4. IsoSpec => []IsoInv
  BY IsoInvariant
<1>5. IsoSpec => []NotAsking
  BY <1>1, <1>2, PTL DEF IsoSpec
<1>6. IsoSpec => [][FS!FsNext]_(FS!fsVars)
  BY <1>3, <1>4, <1>5, PTL DEF IsoSpec
<1>7. IsoSpec => FS!Init
  BY StartsAsPromised, PTL DEF IsoSpec
<1> QED BY <1>6, <1>7, PTL DEF FS!FsSpec

=============================================================================
