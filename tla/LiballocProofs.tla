--------------------------- MODULE LiballocProofs ---------------------------
(***************************************************************************)
(* Proofs about the heap: sums over lists first (what the accounts of the  *)
(* source come to when a number joins, leaves or changes), then one major  *)
(* and the minors in it, the list of majors, the invariant HeapInv and     *)
(* what it says, one lemma per action, and the theorems. A step lemma says *)
(* of its action that it keeps HeapInv and what it does to the blocks in   *)
(* use.                                                                    *)
(***************************************************************************)
EXTENDS Liballoc, SequenceTheorems, NaturalsInduction, WellFoundedInduction, TLAPS

-----------------------------------------------------------------------------
(* Sums of lists.                                                            *)

\* Any set of natural numbers has a least one.
LEMMA LeastNatural ==
  ASSUME NEW T \in SUBSET Nat, T # {}
  PROVE  \E t \in T : \A u \in T : t <= u
<1>1. PICK t \in T : \A u \in T : <<u, t>> \notin OpToRel(<, Nat)
  BY NatLessThanWellFounded, WFMin
<1>2. \A u \in T : ~(u < t)
  BY <1>1 DEF OpToRel
<1> QED BY <1>2

\* The partial sums of v.
SumsOf(v, s) == s = [k \in 0 .. Len(v) |-> IF k = 0 THEN 0 ELSE s[k - 1] + v[k]]

\* The partial sums are determined: two functions with their equation agree.
LEMMA SumsAgree ==
  ASSUME NEW v, Len(v) \in Nat, NEW s, NEW t, SumsOf(v, s), SumsOf(v, t)
  PROVE  s = t
<1> DEFINE T == {k \in 0 .. Len(v) : s[k] # t[k]}
<1>1. CASE T = {}
  <2>1. \A k \in 0 .. Len(v) : s[k] = t[k]
    BY <1>1
  <2>2. s = [k \in 0 .. Len(v) |-> s[k]]
    BY Zenon DEF SumsOf
  <2>3. t = [k \in 0 .. Len(v) |-> t[k]]
    BY Zenon DEF SumsOf
  <2> QED BY <2>1, <2>2, <2>3
<1>2. CASE T # {}
  <2>1. T \in SUBSET Nat
    OBVIOUS
  <2>2. PICK k \in T : \A u \in T : k <= u
    BY <1>2, <2>1, LeastNatural
  <2>3. k # 0
    BY <2>2 DEF SumsOf
  <2>4. k \in 1 .. Len(v) /\ k - 1 \in 0 .. Len(v) /\ k - 1 \notin T
    BY <2>2, <2>3
  <2> QED BY <2>2, <2>4 DEF SumsOf
<1> QED BY <1>1, <1>2

\* Whatever fulfils the equation of the sums gives the total.
LEMMA TotalIs ==
  ASSUME NEW v, Len(v) \in Nat, NEW s, SumsOf(v, s)
  PROVE  Total(v) = s[Len(v)]
<1> DEFINE sum == CHOOSE f : SumsOf(v, f)
<1>1. SumsOf(v, sum)
  OBVIOUS
<1>2. Total(v) = sum[Len(v)]
  BY Zenon DEF Total, SumsOf
<1> HIDE DEF sum
<1>3. sum = s
  BY <1>1, SumsAgree
<1> QED BY <1>2, <1>3

\* They exist: a longest prefix that has them can be prolonged.
LEMMA SumsExist ==
  ASSUME NEW v \in Seq(Int)
  PROVE  \E s \in [0 .. Len(v) -> Int] : SumsOf(v, s)
<1> DEFINE Sums(n, s) == s = [k \in 0 .. n |-> IF k = 0 THEN 0 ELSE s[k - 1] + v[k]]
           T == {n \in 0 .. Len(v) : ~ \E s \in [0 .. n -> Int] : Sums(n, s)}
<1>1. CASE T = {}
  <2>1. Len(v) \in 0 .. Len(v)
    OBVIOUS
  <2>2. \E s \in [0 .. Len(v) -> Int] : Sums(Len(v), s)
    BY <1>1, <2>1
  <2> QED BY <2>2 DEF SumsOf
<1>2. CASE T # {}
  <2>1. T \in SUBSET Nat
    OBVIOUS
  <2>2. PICK n \in T : \A u \in T : n <= u
    BY <1>2, <2>1, LeastNatural
  <2>3. CASE n = 0
    <3>1. PICK s : s = [k \in 0 .. 0 |-> 0]
      OBVIOUS
    <3>2. s \in [0 .. 0 -> Int] /\ Sums(0, s)
      BY <3>1
    <3> QED BY <2>2, <2>3, <3>2
  <2>4. CASE n # 0
    <3>1. n - 1 \in 0 .. Len(v) /\ n \in 1 .. Len(v) /\ n \in Nat /\ ~(n <= n - 1)
      BY <2>2, <2>4
    <3>0. n - 1 \notin T
      BY <2>2, <3>1
    <3>2. PICK s \in [0 .. (n - 1) -> Int] : Sums(n - 1, s)
      BY <3>0, <3>1
    <3>3. PICK t : t = [k \in 0 .. n |-> IF k = n THEN s[n - 1] + v[n] ELSE s[k]]
      OBVIOUS
    <3>4. t \in [0 .. n -> Int] /\ t[n] = s[n - 1] + v[n] /\ \A k \in 0 .. (n - 1) : t[k] = s[k]
      BY <3>1, <3>2, <3>3
    <3>5. \A k \in 0 .. (n - 1) : s[k] = IF k = 0 THEN 0 ELSE s[k - 1] + v[k]
      BY <3>2
    <3>6. ASSUME NEW k \in 0 .. n PROVE t[k] = IF k = 0 THEN 0 ELSE t[k - 1] + v[k]
      <4>1. CASE k = n
        <5>1. n - 1 \in 0 .. (n - 1) /\ n # 0
          BY <3>1
        <5> QED BY <3>4, <4>1, <5>1
      <4>2. CASE k # n
        <5>1. k \in 0 .. (n - 1) /\ (k # 0 => k - 1 \in 0 .. (n - 1))
          BY <3>1, <4>2
        <5> QED BY <3>4, <3>5, <5>1
      <4> QED BY <4>1, <4>2
    <3>7. t = [k \in 0 .. n |-> t[k]]
      BY <3>4
    <3>8. Sums(n, t)
      BY <3>6, <3>7
    <3> QED BY <2>2, <3>4, <3>8
  <2> QED BY <2>3, <2>4
<1> QED BY <1>1, <1>2

\* The partial sums s of v, said by its elements.
LEMMA SumsElements ==
  ASSUME NEW v, Len(v) \in Nat, NEW s \in [0 .. Len(v) -> Int]
  PROVE  SumsOf(v, s) <=> s[0] = 0 /\ \A k \in 1 .. Len(v) : s[k] = s[k - 1] + v[k]
<1>1. SumsOf(v, s) => s[0] = 0 /\ \A k \in 1 .. Len(v) : s[k] = s[k - 1] + v[k]
  <2>1. SUFFICES ASSUME SumsOf(v, s)
                 PROVE  \A k \in 0 .. Len(v) : s[k] = IF k = 0 THEN 0 ELSE s[k - 1] + v[k]
    OBVIOUS
  <2> QED BY <2>1 DEF SumsOf
<1>2. ASSUME s[0] = 0, \A k \in 1 .. Len(v) : s[k] = s[k - 1] + v[k] PROVE SumsOf(v, s)
  <2>1. \A k \in 0 .. Len(v) : s[k] = IF k = 0 THEN 0 ELSE s[k - 1] + v[k]
    BY <1>2
  <2>2. s = [k \in 0 .. Len(v) |-> s[k]]
    OBVIOUS
  <2> QED BY <2>1, <2>2 DEF SumsOf
<1> QED BY <1>1, <1>2

\* What a list of integers adds up to is an integer,
LEMMA TotalInt == ASSUME NEW v \in Seq(Int) PROVE Total(v) \in Int
<1>1. PICK s \in [0 .. Len(v) -> Int] : SumsOf(v, s)
  BY SumsExist
<1>2. Len(v) \in Nat
  OBVIOUS
<1> QED BY <1>1, <1>2, TotalIs

\* and that of an empty list is 0.
LEMMA TotalEmpty == ASSUME NEW v \in Seq(Int), Len(v) = 0 PROVE Total(v) = 0
<1>1. PICK s \in [0 .. Len(v) -> Int] : SumsOf(v, s)
  BY SumsExist
<1>2. s[0] = 0
  BY <1>1, SumsElements
<1> QED BY <1>1, <1>2, TotalIs

\* w is v with one more number, at place i.
Widens(v, w, i) ==
  /\ Len(w) = Len(v) + 1 /\ i \in 1 .. Len(w)
  /\ \A k \in 1 .. Len(w) : w[k] = IF k < i THEN v[k] ELSE IF k = i THEN w[i] ELSE v[k - 1]

\* One number more, anywhere in the list, is added to the total.
LEMMA TotalWidens ==
  ASSUME NEW v \in Seq(Int), NEW w \in Seq(Int), NEW i, Widens(v, w, i)
  PROVE  Total(w) = Total(v) + w[i]
<1>1. PICK s \in [0 .. Len(v) -> Int] : SumsOf(v, s)
  BY SumsExist
<1>2. /\ Len(v) \in Nat /\ Len(w) \in Nat /\ Len(w) = Len(v) + 1 /\ i \in 1 .. Len(w) /\ w[i] \in Int
      /\ \A k \in 1 .. Len(w) : w[k] = IF k < i THEN v[k] ELSE IF k = i THEN w[i] ELSE v[k - 1]
  BY DEF Widens
<1>3. s[0] = 0 /\ \A k \in 1 .. Len(v) : s[k] = s[k - 1] + v[k]
  BY <1>1, <1>2, SumsElements
<1>4. PICK t : t = [k \in 0 .. Len(w) |-> IF k < i THEN s[k] ELSE s[k - 1] + w[i]]
  OBVIOUS
<1>5. t \in [0 .. Len(w) -> Int] /\ \A k \in 0 .. Len(w) : t[k] = IF k < i THEN s[k] ELSE s[k - 1] + w[i]
  <2>1. ASSUME NEW k \in 0 .. Len(w) PROVE (IF k < i THEN s[k] ELSE s[k - 1] + w[i]) \in Int
    <3>1. (k < i => k \in 0 .. Len(v)) /\ (~(k < i) => k - 1 \in 0 .. Len(v))
      BY <1>2
    <3>2. (k < i => s[k] \in Int) /\ (~(k < i) => s[k - 1] \in Int)
      BY <1>1, <3>1
    <3> QED BY <1>2, <3>2
  <2> QED BY <1>4, <2>1
<1>6. t[0] = 0
  BY <1>2, <1>3, <1>5
<1>7. ASSUME NEW k \in 1 .. Len(w) PROVE t[k] = t[k - 1] + w[k]
  <2>1. k \in 0 .. Len(w) /\ k - 1 \in 0 .. Len(w)
    OBVIOUS
  <2>2. CASE k < i
    <3>1. k \in 1 .. Len(v) /\ k - 1 < i
      BY <1>2, <2>2
    <3> QED BY <1>2, <1>3, <1>5, <2>1, <2>2, <3>1
  <2>3. CASE k = i
    <3>1. k - 1 < i /\ ~(k < i)
      BY <1>2, <2>3
    <3> QED BY <1>5, <2>1, <2>3, <3>1
  <2>4. CASE k > i
    <3>1. k - 1 \in 1 .. Len(v) /\ ~(k - 1 < i) /\ ~(k < i) /\ k # i /\ k - 2 \in 0 .. Len(v)
      BY <1>2, <2>4
    <3>2. w[k] = v[k - 1] /\ v[k - 1] \in Int
      BY <1>2, <3>1, SMTT(20)
    <3>3. s[k - 1] = s[k - 2] + v[k - 1]
      <4>1. (k - 1) - 1 = k - 2
        BY <3>1
      <4> QED BY <1>3, <3>1, <4>1
    <3>4. t[k] = s[k - 1] + w[i] /\ t[k - 1] = s[k - 2] + w[i]
      <4>1. (k - 1) - 1 = k - 2
        BY <3>1
      <4> QED BY <1>5, <2>1, <3>1, <4>1
    <3>5. s[k - 2] \in Int
      BY <1>1, <3>1
    <3> QED BY <1>2, <3>2, <3>3, <3>4, <3>5, SMTT(20)
  <2> QED BY <1>2, <2>2, <2>3, <2>4
<1>8. SumsOf(w, t)
  BY <1>2, <1>5, <1>6, <1>7, SumsElements
<1>9. Total(v) = s[Len(v)] /\ Total(w) = t[Len(w)]
  BY <1>1, <1>2, <1>8, TotalIs
<1>10. Len(w) \in 0 .. Len(w) /\ ~(Len(w) < i) /\ Len(w) - 1 = Len(v)
  BY <1>2
<1> QED BY <1>5, <1>9, <1>10

\* w differs from v at place i only.
Differs(v, w, i) ==
  Len(w) = Len(v) /\ i \in 1 .. Len(v) /\ \A k \in 1 .. Len(v) : k # i => w[k] = v[k]

\* One number that is replaced changes the total by the difference.
LEMMA TotalDiffers ==
  ASSUME NEW v \in Seq(Int), NEW w \in Seq(Int), NEW i, Differs(v, w, i)
  PROVE  Total(w) = Total(v) - v[i] + w[i]
<1>1. PICK s \in [0 .. Len(v) -> Int] : SumsOf(v, s)
  BY SumsExist
<1>2. /\ Len(v) \in Nat /\ Len(w) = Len(v) /\ i \in 1 .. Len(v) /\ w[i] \in Int /\ v[i] \in Int
      /\ \A k \in 1 .. Len(v) : k # i => w[k] = v[k]
  BY DEF Differs
<1>3. s[0] = 0 /\ \A k \in 1 .. Len(v) : s[k] = s[k - 1] + v[k]
  BY <1>1, <1>2, SumsElements
<1>4. PICK t : t = [k \in 0 .. Len(v) |-> IF k < i THEN s[k] ELSE s[k] - v[i] + w[i]]
  OBVIOUS
<1>5. /\ t \in [0 .. Len(v) -> Int]
      /\ \A k \in 0 .. Len(v) : t[k] = IF k < i THEN s[k] ELSE s[k] - v[i] + w[i]
  BY <1>1, <1>2, <1>4
<1>6. t[0] = 0
  BY <1>2, <1>3, <1>5
<1>7. ASSUME NEW k \in 1 .. Len(v) PROVE t[k] = t[k - 1] + w[k]
  <2>0. k \in 0 .. Len(v) /\ k - 1 \in 0 .. Len(v) /\ k \in Int
    BY <1>2
  <2>1. k \in 0 .. Len(v) /\ k - 1 \in 0 .. Len(v) /\ s[k] \in Int /\ s[k - 1] \in Int
    BY <1>1, <2>0
  <2>2. s[k] = s[k - 1] + v[k] /\ v[k] \in Int
    BY <1>3
  <2>3. CASE k < i
    <3>1. k - 1 < i /\ k # i
      BY <1>2, <2>3
    <3> QED BY <1>2, <1>5, <2>1, <2>2, <2>3, <3>1
  <2>4. CASE k = i
    <3>1. k - 1 < i /\ ~(k < i)
      BY <1>2, <2>4
    <3>2. t[k - 1] = s[k - 1] /\ t[k] = s[k] - v[i] + w[i]
      BY <1>5, <2>1, <3>1
    <3>3. s[k] = s[k - 1] + v[i] /\ w[k] = w[i]
      BY <2>2, <2>4
    <3> QED BY <1>2, <2>1, <3>2, <3>3, SMTT(20)
  <2>5. CASE k > i
    <3>1. ~(k - 1 < i) /\ ~(k < i) /\ k # i
      BY <1>2, <2>5
    <3>2. t[k - 1] = s[k - 1] - v[i] + w[i] /\ t[k] = s[k] - v[i] + w[i]
      BY <1>5, <2>1, <3>1
    <3>3. w[k] = v[k]
      BY <1>2, <3>1
    <3> QED BY <1>2, <2>1, <2>2, <3>2, <3>3, SMTT(20)
  <2> QED BY <1>2, <2>3, <2>4, <2>5
<1>8. SumsOf(w, t)
  BY <1>2, <1>5, <1>6, <1>7, SumsElements
<1>9. Total(v) = s[Len(v)] /\ Total(w) = t[Len(w)]
  BY <1>1, <1>2, <1>8, TotalIs
<1>10. Len(v) \in 0 .. Len(v) /\ ~(Len(v) < i)
  BY <1>2
<1> QED BY <1>2, <1>5, <1>9, <1>10

-----------------------------------------------------------------------------
(* Sequences.                                                                *)

\* Where the elements are after one is removed,
LEMMA RemovedElements ==
  ASSUME NEW S, NEW l \in Seq(S), NEW k \in 1..Len(l)
  PROVE  /\ RemoveAt(l, k) \in Seq(S)
         /\ Len(RemoveAt(l, k)) = Len(l) - 1
         /\ \A i \in 1..(Len(l) - 1) :
                RemoveAt(l, k)[i] = IF i < k THEN l[i] ELSE l[i + 1]
<1> DEFINE a == SubSeq(l, 1, k - 1)
           b == SubSeq(l, k + 1, Len(l))
<1>1. a \in Seq(S) /\ Len(a) = k - 1 /\ \A i \in 1..(k - 1) : a[i] = l[i]
  OBVIOUS
<1>2. b \in Seq(S) /\ Len(b) = Len(l) - k /\ \A i \in 1..(Len(l) - k) : b[i] = l[k + i]
  OBVIOUS
<1>3. RemoveAt(l, k) = a \o b
  BY DEF RemoveAt
<1> HIDE DEF a, b
<1>4. /\ a \o b \in Seq(S) /\ Len(a \o b) = Len(a) + Len(b)
      /\ \A i \in 1..(Len(a) + Len(b)) :
             (a \o b)[i] = IF i <= Len(a) THEN a[i] ELSE b[i - Len(a)]
  BY <1>1, <1>2, ConcatProperties
<1>5. Len(a) + Len(b) = Len(l) - 1
  BY <1>1, <1>2
<1>6. ASSUME NEW i \in 1..(Len(l) - 1)
      PROVE  (a \o b)[i] = IF i < k THEN l[i] ELSE l[i + 1]
  <2>1. CASE i < k
    BY <2>1, <1>1, <1>4, <1>5
  <2>2. CASE ~(i < k)
    <3>1. i - (k - 1) \in 1..(Len(l) - k) /\ k + (i - (k - 1)) = i + 1
      BY <2>2
    <3>2. (a \o b)[i] = b[i - (k - 1)]
      BY <2>2, <1>1, <1>4, <1>5
    <3> QED BY <2>2, <3>1, <3>2, <1>2
  <2> QED BY <2>1, <2>2
<1> QED BY <1>3, <1>4, <1>5, <1>6

\* and after one is inserted.
LEMMA InsertedElements ==
  ASSUME NEW S, NEW l \in Seq(S), NEW k \in 1..(Len(l) + 1), NEW x \in S
  PROVE  /\ InsertAt(l, k, x) \in Seq(S)
         /\ Len(InsertAt(l, k, x)) = Len(l) + 1
         /\ \A i \in 1..(Len(l) + 1) :
                InsertAt(l, k, x)[i] = IF i < k THEN l[i] ELSE IF i = k THEN x ELSE l[i - 1]
<1> DEFINE a == SubSeq(l, 1, k - 1)
           b == SubSeq(l, k, Len(l))
           c == a \o <<x>>
<1>1. a \in Seq(S) /\ Len(a) = k - 1 /\ \A i \in 1..(k - 1) : a[i] = l[i]
  OBVIOUS
<1>2. /\ b \in Seq(S) /\ Len(b) = Len(l) - k + 1
      /\ \A i \in 1..(Len(l) - k + 1) : b[i] = l[k + i - 1]
  OBVIOUS
<1>3. InsertAt(l, k, x) = c \o b
  BY DEF InsertAt
<1> HIDE DEF a, b
<1>4. c = Append(a, x)
  BY <1>1, AppendIsConcat
<1>5. c \in Seq(S) /\ Len(c) = k /\ \A i \in 1..k : c[i] = IF i < k THEN l[i] ELSE x
  <2>1. /\ Append(a, x) \in Seq(S) /\ Len(Append(a, x)) = k
        /\ \A i \in 1..k : Append(a, x)[i] = IF i < k THEN a[i] ELSE x
    BY <1>1
  <2> QED BY <1>1, <1>4, <2>1
<1> HIDE DEF c
<1>6. /\ c \o b \in Seq(S) /\ Len(c \o b) = Len(c) + Len(b)
      /\ \A i \in 1..(Len(c) + Len(b)) :
             (c \o b)[i] = IF i <= Len(c) THEN c[i] ELSE b[i - Len(c)]
  BY <1>2, <1>5, ConcatProperties
<1>7. Len(c) + Len(b) = Len(l) + 1
  BY <1>2, <1>5
<1>8. ASSUME NEW i \in 1..(Len(l) + 1)
      PROVE  (c \o b)[i] = IF i < k THEN l[i] ELSE IF i = k THEN x ELSE l[i - 1]
  <2>1. CASE i <= k
    <3>1. (c \o b)[i] = c[i] /\ i \in 1 .. k
      BY <1>5, <1>6, <1>7, <2>1
    <3> QED BY <1>5, <2>1, <3>1
  <2>2. CASE ~(i <= k)
    <3>1. i - k \in 1..(Len(l) - k + 1) /\ k + (i - k) - 1 = i - 1
      BY <2>2
    <3>2. (c \o b)[i] = b[i - k]
      BY <2>2, <1>5, <1>6, <1>7
    <3> QED BY <2>2, <3>1, <3>2, <1>2
  <2> QED BY <2>1, <2>2
<1> QED BY <1>3, <1>6, <1>7, <1>8

-----------------------------------------------------------------------------
(* Addresses.                                                                *)

\* Division with remainder.
LEMMA Divided ==
  ASSUME NEW y \in Nat, NEW a \in Nat \ {0}
  PROVE  /\ y = a * (y \div a) + (y % a) /\ y % a \in 0 .. a - 1 /\ y \div a \in Nat
OBVIOUS

\* A multiple leaves no remainder.
LEMMA Multiple == ASSUME NEW q \in Nat, NEW a \in Nat \ {0} PROVE (a * q) % a = 0
<1>1. (a * q) % a \in 0 .. a - 1 /\ a * q = a * ((a * q) \div a) + ((a * q) % a) /\ (a * q) \div a \in Int
  OBVIOUS
<1>2. PICK d \in Int : d = q - ((a * q) \div a)
  BY <1>1
<1>3. a * d = (a * q) % a
  BY <1>1, <1>2
<1>4. d = 0
  <2>1. d >= 1 => a * d >= a
    OBVIOUS
  <2>2. d <= -1 => a * d <= -a
    OBVIOUS
  <2> QED BY <1>1, <1>3, <2>1, <2>2
<1> QED BY <1>3, <1>4

\* How far an address is from the next multiple.
LEMMA RoundedUp ==
  ASSUME NEW y \in Nat, NEW a \in Nat \ {0}
  PROVE  LET up == (a - (y % a)) % a IN up \in 0 .. a - 1 /\ (y + up) % a = 0
<1> DEFINE r == y % a
           q == y \div a
<1>1. y = a * q + r /\ r \in 0 .. a - 1 /\ q \in Nat
  BY Divided
<1> HIDE DEF r, q
<1>2. CASE r = 0
  <2>1. (a - r) % a = 0
    <3>1. a - r = a * 1
      BY <1>2
    <3>2. (a * 1) % a = 0
      BY Multiple
    <3> QED BY <3>1, <3>2
  <2>2. (y + 0) % a = 0
    BY <1>1, <1>2, Multiple
  <2> QED BY <1>1, <2>1, <2>2 DEF r
<1>3. CASE r # 0
  <2>1. a - r \in 1 .. a - 1
    BY <1>1, <1>3
  <2>2. (a - r) % a = a - r
    BY <2>1
  <2>3. y + (a - r) = a * (q + 1) /\ q + 1 \in Nat
    BY <1>1
  <2>4. (y + (a - r)) % a = 0
    BY <2>3, Multiple
  <2> QED BY <1>1, <2>1, <2>2, <2>4 DEF r
<1> QED BY <1>2, <1>3

\* Multiplication keeps the order.
LEMMA Products ==
  ASSUME NEW i \in Nat, NEW j \in Nat, NEW w \in Nat, i <= j
  PROVE  i * w <= j * w /\ i * w \in Nat /\ j * w \in Nat
<1>1. PICK d \in Nat : j = i + d
  <2>1. j - i \in Nat /\ j = i + (j - i)
    OBVIOUS
  <2> QED BY <2>1
<1>2. d * w \in Nat /\ i * w \in Nat /\ j * w = i * w + d * w
  BY <1>1
<1> QED BY <1>2

\* Majors do not share pages.
LEMMA BasesApart ==
  ASSUME NEW m \in Ids, NEW n \in Ids
  PROVE  /\ Base(m) \in Nat /\ Base(m + 1) = Base(m) + Stride * PageSize /\ Base(m) > 0
         /\ m < n => Base(m) + Stride * PageSize <= Base(n)
<1>1. PICK w \in Nat : w = Stride * PageSize /\ w > 0
  <2>1. Stride \in Nat \ {0} /\ PageSize \in Nat \ {0}
    BY LiballocAssumption
  <2>2. Stride * PageSize \in Nat /\ Stride * PageSize > 0
    BY <2>1
  <2> QED BY <2>2
<1>2. m \in Nat /\ n \in Nat /\ m >= 1 /\ n >= 1 /\ Stride \in Nat /\ PageSize \in Nat
  BY LiballocAssumption DEF Ids
<1>3. Base(m) = m * w /\ Base(n) = n * w /\ Base(m + 1) = (m + 1) * w
  <2>1. \A i \in Nat : i * Stride * PageSize = i * (Stride * PageSize)
    BY <1>2
  <2> QED BY <1>1, <1>2, <2>1 DEF Base
<1>4. (m + 1) * w = m * w + w /\ m * w \in Nat
  BY <1>1, <1>2
<1>5. m < n => (m + 1) * w <= n * w
  <2>1. m < n => m + 1 <= n /\ m + 1 \in Nat
    BY <1>2
  <2> QED BY <1>1, <1>2, <2>1, Products
<1>6. 1 * w <= m * w
  BY <1>1, <1>2, Products
<1> QED BY <1>1, <1>2, <1>3, <1>4, <1>5, <1>6

-----------------------------------------------------------------------------
(* The blocks of a major.  In each definition m is the major, s the list of  *)
(* its minors and z its size.                                                *)

Minors == [start : Nat, size : Nat, req : Nat \ {0}, diff : Nat]

\* The block of a minor is aligned, and the minor is long enough for it.
WellMade(m, b) ==
  /\ b \in Minors /\ b.req \in Requests
  /\ b.diff + b.req <= b.size
  /\ Ptr(m, b) % ALIGNMENT = 0

\* Minors lie between the header and the end, in the order of their addresses.
Placed(m, s, z) ==
  /\ s \in Seq(Minors)
  /\ \A k \in 1 .. Len(s) : WellMade(m, s[k]) /\ MajorHeader <= s[k].start /\ End(s[k]) <= z
  /\ \A j, k \in 1 .. Len(s) : j < k => End(s[j]) <= s[k].start

From(s, k) == IF k = 0 THEN MajorHeader ELSE End(s[k])
To(s, z, k) == IF k = Len(s) THEN z ELSE s[k + 1].start

Block(m, b) == [ptr |-> Ptr(m, b), size |-> b.req]

BlocksIn(m, s) == {Block(m, s[k]) : k \in 1 .. Len(s)}

BlockBytes(b) == b.ptr .. b.ptr + b.size - 1

\* The block of x shares no byte with those of s.
ApartFrom(m, s, x) == \A b \in BlocksIn(m, s) : BlockBytes(b) \cap BlockBytes(Block(m, x)) = {}

\* What is assumed of the constants.
LEMMA Headers == /\ MajorHeader \in Nat \ {0} /\ MinorHeader \in Nat \ {0}
                 /\ ALIGNMENT \in Nat \ {0} /\ ALIGN_INFO \in Nat
                 /\ PageSize \in Nat \ {0} /\ l_pageCount \in Nat \ {0} /\ Stride \in Nat \ {0}
                 /\ Requests \subseteq Nat \ {0}
BY LiballocAssumption

\* ALIGN and the size of a minor leave room for the block.
LEMMA MinorWellMade ==
  ASSUME NEW m \in Ids, NEW start \in Nat, NEW req \in Requests, NEW x, x = Minor(m, start, req)
  PROVE  /\ WellMade(m, x) /\ x.start = start /\ x.size = Size(req) /\ x.req = req
         /\ End(x) = start + Needed(req)
<1>1. PICK raw \in Nat : raw = Base(m) + start + MinorHeader
  BY BasesApart, Headers
<1>2. PICK y \in Nat : y = raw + ALIGN_INFO
  BY <1>1, Headers
<1>3. PICK up \in 0 .. ALIGNMENT - 1 : /\ up = (ALIGNMENT - (y % ALIGNMENT)) % ALIGNMENT
                                       /\ (y + up) % ALIGNMENT = 0
  BY Headers, RoundedUp
<1>4. Diff(raw) = ALIGN_INFO + up
  BY <1>2, <1>3 DEF Diff
<1>5. x = [start |-> start, size |-> Size(req), req |-> req, diff |-> Diff(raw)]
  BY <1>1, Zenon DEF Minor
<1>6. Size(req) \in Nat /\ Size(req) = req + ALIGNMENT + ALIGN_INFO /\ req \in Nat \ {0}
  BY Headers DEF Size
<1>7. Diff(raw) \in Nat /\ Diff(raw) + req <= Size(req)
  BY <1>3, <1>4, <1>6, Headers
<1>8. x \in Minors /\ x.start = start /\ x.size = Size(req) /\ x.req = req /\ x.diff = Diff(raw)
  BY <1>5, <1>6, <1>7 DEF Minors
<1>9. Ptr(m, x) = y + up
  <2>1. Ptr(m, x) = raw + Diff(raw)
    BY <1>1, <1>8 DEF Ptr
  <2> QED BY <1>1, <1>2, <1>3, <1>4, <2>1, Headers
<1>10. End(x) = start + Needed(req)
  BY <1>6, <1>8, Headers DEF End, Needed
<1> QED BY <1>3, <1>7, <1>8, <1>9, <1>10 DEF WellMade

\* The types of a minor that is well made.
LEMMA MinorTypes ==
  ASSUME NEW m \in Ids, NEW b, WellMade(m, b)
  PROVE  /\ Base(m) \in Nat /\ MinorHeader \in Nat \ {0} /\ b.start \in Nat /\ b.size \in Nat
         /\ b.req \in Nat \ {0} /\ b.diff \in Nat /\ End(b) \in Nat
         /\ End(b) = b.start + MinorHeader + b.size
BY BasesApart, Headers DEF WellMade, Minors, End

\* Where a block lies.
LEMMA BlockLies ==
  ASSUME NEW m \in Ids, NEW b, WellMade(m, b), NEW a \in BlockBytes(Block(m, b))
  PROVE  a \in Int /\ Base(m) + b.start + MinorHeader <= a /\ a < Base(m) + End(b)
<1>1. /\ Base(m) \in Nat /\ MinorHeader \in Nat /\ b.start \in Nat /\ b.size \in Nat
      /\ b.req \in Nat /\ b.diff \in Nat /\ b.diff + b.req <= b.size
  BY BasesApart, Headers DEF WellMade, Minors
<1>2. Block(m, b).ptr = Base(m) + b.start + MinorHeader + b.diff /\ Block(m, b).size = b.req
  BY DEF Block, Ptr
<1> QED BY <1>1, <1>2 DEF BlockBytes, End

\* A block has an address.
LEMMA BlockHasPtr ==
  ASSUME NEW m \in Ids, NEW b, WellMade(m, b)
  PROVE  /\ Ptr(m, b) \in Nat /\ Ptr(m, b) # NULL /\ Ptr(m, b) \in BlockBytes(Block(m, b))
         /\ Block(m, b).ptr = Ptr(m, b) /\ Block(m, b).size = b.req
<1>1. /\ Base(m) \in Nat /\ Base(m) > 0 /\ MinorHeader \in Nat /\ b.start \in Nat
      /\ b.req \in Nat \ {0} /\ b.diff \in Nat
  BY BasesApart, Headers DEF WellMade, Minors
<1>2. Block(m, b).ptr = Ptr(m, b) /\ Block(m, b).size = b.req
  BY DEF Block
<1>3. Ptr(m, b) \in Nat /\ Ptr(m, b) # NULL
  BY <1>1 DEF Ptr, NULL
<1> QED BY <1>1, <1>2, <1>3 DEF BlockBytes

\* Two blocks of one major have no byte in common.
LEMMA BlocksApart ==
  ASSUME NEW m \in Ids, NEW s, NEW z, Placed(m, s, z),
         NEW j \in 1 .. Len(s), NEW k \in 1 .. Len(s), j # k
  PROVE  BlockBytes(Block(m, s[j])) \cap BlockBytes(Block(m, s[k])) = {}
<1>1. /\ WellMade(m, s[j]) /\ WellMade(m, s[k])
      /\ End(s[j]) <= s[k].start \/ End(s[k]) <= s[j].start
  BY DEF Placed
<1>2. PICK b : b = s[j] /\ WellMade(m, b)
  BY <1>1
<1>3. PICK c : c = s[k] /\ WellMade(m, c)
  BY <1>1
<1>4. /\ Base(m) \in Nat /\ MinorHeader \in Nat /\ b.start \in Nat /\ c.start \in Nat
      /\ End(b) \in Nat /\ End(c) \in Nat
  BY <1>2, <1>3, MinorTypes
<1>5. End(b) <= c.start \/ End(c) <= b.start
  BY <1>1, <1>2, <1>3
<1>6. ASSUME NEW a \in BlockBytes(Block(m, b)), a \in BlockBytes(Block(m, c)) PROVE FALSE
  <2>1. a \in Int /\ Base(m) + b.start + MinorHeader <= a /\ a < Base(m) + End(b)
    BY <1>2, BlockLies
  <2>2. Base(m) + c.start + MinorHeader <= a /\ a < Base(m) + End(c)
    BY <1>3, <1>6, BlockLies
  <2>3. CASE End(b) <= c.start
    <3>1. a < a
      BY <1>4, <2>1, <2>2, <2>3
    <3> QED BY <2>1, <3>1
  <2>4. CASE End(c) <= b.start
    <3>1. a < a
      BY <1>4, <2>1, <2>2, <2>4
    <3> QED BY <2>1, <3>1
  <2> QED BY <1>5, <2>3, <2>4
<1> QED BY <1>2, <1>3, <1>6

\* Two minors of a major do not have the same pointer.
LEMMA PtrsDiffer ==
  ASSUME NEW m \in Ids, NEW s, NEW z, Placed(m, s, z),
         NEW j \in 1 .. Len(s), NEW k \in 1 .. Len(s), Ptr(m, s[j]) = Ptr(m, s[k])
  PROVE  j = k
<1>1. WellMade(m, s[j]) /\ WellMade(m, s[k])
  BY DEF Placed
<1>2. Ptr(m, s[j]) \in BlockBytes(Block(m, s[j])) /\ Ptr(m, s[k]) \in BlockBytes(Block(m, s[k]))
  BY <1>1, BlockHasPtr
<1> QED BY <1>2, BlocksApart

\* Blocks of two majors have no byte in common either.
LEMMA MajorsApart ==
  ASSUME NEW m \in Ids, NEW n \in Ids, m # n,
         NEW b, WellMade(m, b), End(b) <= Stride * PageSize,
         NEW c, WellMade(n, c), End(c) <= Stride * PageSize
  PROVE  BlockBytes(Block(m, b)) \cap BlockBytes(Block(n, c)) = {}
<1>1. PICK w \in Nat : w = Stride * PageSize
  BY Headers
<1>2. m \in Int /\ n \in Int
  BY DEF Ids
<1>3. /\ Base(m) \in Nat /\ Base(n) \in Nat
      /\ m < n => Base(m) + w <= Base(n)
      /\ n < m => Base(n) + w <= Base(m)
  BY <1>1, BasesApart
<1>4. /\ b.start \in Nat /\ c.start \in Nat /\ End(b) \in Nat /\ End(c) \in Nat
      /\ MinorHeader \in Nat
  BY Headers DEF WellMade, Minors, End
<1>5. ASSUME NEW a \in BlockBytes(Block(m, b)), a \in BlockBytes(Block(n, c)) PROVE FALSE
  <2>1. a \in Int /\ Base(m) + b.start + MinorHeader <= a /\ a < Base(m) + End(b)
    BY BlockLies
  <2>2. Base(n) + c.start + MinorHeader <= a /\ a < Base(n) + End(c)
    BY <1>5, BlockLies
  <2> QED BY <1>1, <1>2, <1>3, <1>4, <2>1, <2>2
<1> QED BY <1>5

\* Minors that are placed in a major, in the order of their addresses.
LEMMA PlacedTypes ==
  ASSUME NEW m \in Ids, NEW s, NEW z, Placed(m, s, z)
  PROVE  /\ s \in Seq(Minors) /\ Len(s) \in Nat
         /\ \A k \in 1 .. Len(s) : /\ s[k].start \in Nat /\ End(s[k]) \in Nat
                                   /\ s[k].start < End(s[k])
                                   /\ MajorHeader <= s[k].start /\ End(s[k]) <= z
         /\ \A j, k \in 1 .. Len(s) : j < k => End(s[j]) <= s[k].start
<1>1. s \in Seq(Minors) /\ Len(s) \in Nat
  BY DEF Placed
<1>2. ASSUME NEW k \in 1 .. Len(s)
      PROVE  /\ s[k].start \in Nat /\ End(s[k]) \in Nat /\ s[k].start < End(s[k])
             /\ MajorHeader <= s[k].start /\ End(s[k]) <= z
  <2>1. PICK b : b = s[k] /\ WellMade(m, b)
    BY DEF Placed
  <2>2. /\ MinorHeader \in Nat \ {0} /\ b.start \in Nat /\ b.size \in Nat /\ End(b) \in Nat
        /\ End(b) = b.start + MinorHeader + b.size
    BY <2>1, MinorTypes
  <2>3. b.start < End(b)
    BY <2>2
  <2>4. MajorHeader <= b.start /\ End(b) <= z
    BY <2>1 DEF Placed
  <2> QED BY <2>1, <2>2, <2>3, <2>4
<1>3. \A j, k \in 1 .. Len(s) : j < k => End(s[j]) <= s[k].start
  BY DEF Placed
<1> QED BY <1>1, <1>2, <1>3

\* A new minor fits into a gap.
LEMMA InsertPlaced ==
  ASSUME NEW m \in Ids, NEW s, NEW z \in Nat, Placed(m, s, z), NEW k \in 0 .. Len(s),
         NEW x, WellMade(m, x), x.start = From(s, k), End(x) <= To(s, z, k), End(x) <= z
  PROVE  /\ Placed(m, InsertAt(s, k + 1, x), z)
         /\ BlocksIn(m, InsertAt(s, k + 1, x)) = BlocksIn(m, s) \cup {Block(m, x)}
         /\ Len(InsertAt(s, k + 1, x)) = Len(s) + 1
         /\ ApartFrom(m, s, x)
<1>1. /\ s \in Seq(Minors) /\ Len(s) \in Nat
      /\ \A j \in 1 .. Len(s) : /\ s[j].start \in Nat /\ End(s[j]) \in Nat
                                /\ s[j].start < End(s[j])
                                /\ MajorHeader <= s[j].start /\ End(s[j]) <= z
      /\ \A i, j \in 1 .. Len(s) : i < j => End(s[i]) <= s[j].start
  BY PlacedTypes
<1>2. PICK t : t = InsertAt(s, k + 1, x)
  OBVIOUS
<1>3. x \in Minors /\ x.start \in Nat /\ End(x) \in Nat /\ MajorHeader \in Nat
  BY MinorTypes, Headers DEF WellMade
<1>4. /\ t \in Seq(Minors) /\ Len(t) = Len(s) + 1
      /\ \A j \in 1 .. (Len(s) + 1) :
             t[j] = IF j < k + 1 THEN s[j] ELSE IF j = k + 1 THEN x ELSE s[j - 1]
  <2>1. k + 1 \in 1 .. (Len(s) + 1)
    BY <1>1
  <2> QED BY <1>1, <1>2, <1>3, <2>1, InsertedElements, SMTT(20)
<1>5. MajorHeader <= x.start
  <2>1. CASE k = 0
    BY <1>3, <2>1 DEF From
  <2>2. CASE k # 0
    <3>1. k \in 1 .. Len(s)
      BY <1>1, <2>2
    <3>2. x.start = End(s[k])
      BY <2>2 DEF From
    <3> QED BY <1>1, <1>3, <3>1, <3>2
  <2> QED BY <2>1, <2>2
<1>6. ASSUME NEW j \in 1 .. k PROVE End(s[j]) <= x.start
  <2>1. k \in 1 .. Len(s) /\ j \in 1 .. Len(s) /\ k # 0
    BY <1>1
  <2>2. x.start = End(s[k])
    BY <2>1 DEF From
  <2>3. CASE j = k
    BY <1>3, <2>2, <2>3
  <2>4. CASE j < k
    BY <1>1, <1>3, <2>1, <2>2, <2>4
  <2> QED BY <2>3, <2>4
<1>7. ASSUME NEW j \in 1 .. Len(s), j > k PROVE End(x) <= s[j].start
  <2>1. k + 1 \in 1 .. Len(s) /\ k # Len(s)
    BY <1>1, <1>7
  <2>2. End(x) <= s[k + 1].start
    BY <2>1 DEF To
  <2>3. CASE j = k + 1
    BY <2>2, <2>3
  <2>4. CASE j > k + 1
    <3>1. End(s[k + 1]) <= s[j].start
      BY <1>1, <2>1, <2>4
    <3> QED BY <1>1, <1>3, <2>1, <2>2, <3>1
  <2> QED BY <1>1, <1>7, <2>3, <2>4
<1>8. ASSUME NEW j \in 1 .. Len(t)
      PROVE  WellMade(m, t[j]) /\ MajorHeader <= t[j].start /\ End(t[j]) <= z
  <2>1. CASE j < k + 1
    <3>1. j \in 1 .. Len(s) /\ t[j] = s[j]
      BY <1>1, <1>4, <2>1
    <3> QED BY <3>1 DEF Placed
  <2>2. CASE j = k + 1
    BY <1>4, <1>5, <2>2
  <2>3. CASE j > k + 1
    <3>1. j - 1 \in 1 .. Len(s) /\ t[j] = s[j - 1]
      BY <1>1, <1>4, <2>3
    <3> QED BY <3>1 DEF Placed
  <2> QED BY <1>1, <1>4, <2>1, <2>2, <2>3
<1>9. ASSUME NEW i \in 1 .. Len(t), NEW j \in 1 .. Len(t), i < j PROVE End(t[i]) <= t[j].start
  <2>1. i \in 1 .. (Len(s) + 1) /\ j \in 1 .. (Len(s) + 1)
    BY <1>4
  <2>2. CASE j < k + 1
    <3>1. /\ i \in 1 .. Len(s) /\ j \in 1 .. Len(s) /\ t[i] = s[i] /\ t[j] = s[j]
      BY <1>1, <1>4, <1>9, <2>1, <2>2
    <3> QED BY <1>1, <1>9, <3>1
  <2>3. CASE j = k + 1
    <3>1. i \in 1 .. k /\ t[i] = s[i] /\ t[j] = x
      BY <1>1, <1>4, <1>9, <2>1, <2>3
    <3> QED BY <1>6, <3>1
  <2>4. CASE j > k + 1
    <3>1. j - 1 \in 1 .. Len(s) /\ j - 1 > k /\ t[j] = s[j - 1]
      BY <1>1, <1>4, <2>1, <2>4
    <3>2. CASE i < k + 1
      <4>1. i \in 1 .. Len(s) /\ i < j - 1 /\ t[i] = s[i]
        BY <1>1, <1>4, <2>1, <2>4, <3>2
      <4> QED BY <1>1, <3>1, <4>1
    <3>3. CASE i = k + 1
      <4>1. t[i] = x
        BY <1>1, <1>4, <2>1, <3>3
      <4> QED BY <1>7, <3>1, <4>1
    <3>4. CASE i > k + 1
      <4>1. i - 1 \in 1 .. Len(s) /\ i - 1 < j - 1 /\ t[i] = s[i - 1]
        BY <1>1, <1>4, <1>9, <2>1, <3>4
      <4> QED BY <1>1, <3>1, <4>1
    <3> QED BY <1>1, <3>2, <3>3, <3>4
  <2> QED BY <1>1, <2>1, <2>2, <2>3, <2>4
<1>11. Placed(m, t, z)
  BY <1>4, <1>8, <1>9 DEF Placed
<1>12. ASSUME NEW i \in 1 .. Len(s) PROVE \E j \in 1 .. Len(t) : j # k + 1 /\ t[j] = s[i]
  <2>1. CASE i < k + 1
    <3>1. i \in 1 .. Len(t) /\ i \in 1 .. (Len(s) + 1) /\ i # k + 1
      BY <1>1, <1>4, <2>1
    <3>2. t[i] = s[i]
      BY <1>4, <2>1, <3>1
    <3> QED BY <3>1, <3>2
  <2>2. CASE i >= k + 1
    <3>1. i + 1 \in 1 .. Len(t) /\ ~(i + 1 < k + 1) /\ i + 1 # k + 1 /\ (i + 1) - 1 = i
      BY <1>1, <1>4, <2>2
    <3> QED BY <1>4, <3>1
  <2> QED BY <1>1, <2>1, <2>2
<1>13. ASSUME NEW b \in BlocksIn(m, s)
       PROVE  BlockBytes(b) \cap BlockBytes(Block(m, x)) = {}
  <2>1. PICK i \in 1 .. Len(s) : b = Block(m, s[i])
    BY DEF BlocksIn
  <2>2. PICK j \in 1 .. Len(t) : j # k + 1 /\ t[j] = s[i]
    BY <1>12, <2>1
  <2>3. k + 1 \in 1 .. Len(t) /\ t[k + 1] = x
    BY <1>1, <1>4
  <2>4. PICK q \in 1 .. Len(t) : q = k + 1 /\ t[q] = x
    BY <2>3
  <2>5. BlockBytes(Block(m, t[j])) \cap BlockBytes(Block(m, t[q])) = {}
    BY <1>11, <2>2, <2>4, BlocksApart
  <2> QED BY <2>1, <2>2, <2>4, <2>5
<1>10. BlocksIn(m, t) = BlocksIn(m, s) \cup {Block(m, x)}
  <2>1. ASSUME NEW j \in 1 .. Len(t) PROVE Block(m, t[j]) \in BlocksIn(m, s) \cup {Block(m, x)}
    <3>1. t[j] = x \/ \E i \in 1 .. Len(s) : t[j] = s[i]
      <4>1. j < k + 1 => j \in 1 .. Len(s) /\ t[j] = s[j]
        BY <1>1, <1>4
      <4>2. j > k + 1 => j - 1 \in 1 .. Len(s) /\ t[j] = s[j - 1]
        BY <1>1, <1>4
      <4>3. j = k + 1 => t[j] = x
        BY <1>1, <1>4
      <4>4. j < k + 1 \/ j = k + 1 \/ j > k + 1
        BY <1>1
      <4> QED BY <4>1, <4>2, <4>3, <4>4
    <3> QED BY <3>1 DEF BlocksIn
  <2>2. ASSUME NEW i \in 1 .. Len(s) PROVE \E j \in 1 .. Len(t) : t[j] = s[i]
    <3>1. CASE i < k + 1
      BY <1>1, <1>4, <3>1, SMTT(20)
    <3>2. CASE i >= k + 1
      <4>1. i + 1 \in 1 .. Len(t) /\ ~(i + 1 < k + 1) /\ i + 1 # k + 1 /\ (i + 1) - 1 = i
        BY <1>1, <1>4, <3>2
      <4> QED BY <1>4, <4>1
    <3> QED BY <1>1, <3>1, <3>2
  <2>3. k + 1 \in 1 .. Len(t) /\ t[k + 1] = x
    BY <1>1, <1>4
  <2> QED BY <2>1, <2>2, <2>3 DEF BlocksIn
<1> QED BY <1>2, <1>4, <1>10, <1>11, <1>13 DEF ApartFrom

\* A minor is taken out.
LEMMA RemovePlaced ==
  ASSUME NEW m \in Ids, NEW s, NEW z, Placed(m, s, z), NEW k \in 1 .. Len(s)
  PROVE  /\ Placed(m, RemoveAt(s, k), z)
         /\ BlocksIn(m, RemoveAt(s, k)) = BlocksIn(m, s) \ {Block(m, s[k])}
         /\ Len(RemoveAt(s, k)) = Len(s) - 1
<1>1. /\ s \in Seq(Minors) /\ Len(s) \in Nat
      /\ \A i, j \in 1 .. Len(s) : i < j => End(s[i]) <= s[j].start
  BY PlacedTypes
<1>2. PICK t : t = RemoveAt(s, k)
  OBVIOUS
<1>3. /\ t \in Seq(Minors) /\ Len(t) = Len(s) - 1
      /\ \A j \in 1 .. (Len(s) - 1) : t[j] = IF j < k THEN s[j] ELSE s[j + 1]
  BY <1>1, <1>2, RemovedElements
<1>4. ASSUME NEW j \in 1 .. Len(t)
      PROVE  \E i \in 1 .. Len(s) : i # k /\ t[j] = s[i] /\ i = IF j < k THEN j ELSE j + 1
  BY <1>1, <1>3
<1>5. ASSUME NEW j \in 1 .. Len(t)
      PROVE  WellMade(m, t[j]) /\ MajorHeader <= t[j].start /\ End(t[j]) <= z
  BY <1>4 DEF Placed
<1>6. ASSUME NEW i \in 1 .. Len(t), NEW j \in 1 .. Len(t), i < j PROVE End(t[i]) <= t[j].start
  <2>1. PICK a \in 1 .. Len(s) : t[i] = s[a] /\ a = IF i < k THEN i ELSE i + 1
    BY <1>4
  <2>2. PICK b \in 1 .. Len(s) : t[j] = s[b] /\ b = IF j < k THEN j ELSE j + 1
    BY <1>4
  <2>3. a < b
    BY <1>1, <1>3, <1>6, <2>1, <2>2
  <2> QED BY <1>1, <2>1, <2>2, <2>3
<1>7. BlocksIn(m, t) = BlocksIn(m, s) \ {Block(m, s[k])}
  <2>1. ASSUME NEW j \in 1 .. Len(t) PROVE Block(m, t[j]) \in BlocksIn(m, s) \ {Block(m, s[k])}
    <3>1. PICK i \in 1 .. Len(s) : i # k /\ t[j] = s[i]
      BY <1>4
    <3>2. Block(m, s[i]) # Block(m, s[k])
      <4>1. Ptr(m, s[i]) # Ptr(m, s[k])
        BY <3>1, PtrsDiffer
      <4> QED BY <4>1 DEF Block
    <3> QED BY <3>1, <3>2 DEF BlocksIn
  <2>2. ASSUME NEW i \in 1 .. Len(s), i # k PROVE \E j \in 1 .. Len(t) : t[j] = s[i]
    <3>1. CASE i < k
      BY <1>1, <1>3, <3>1
    <3>2. CASE i > k
      <4>1. i - 1 \in 1 .. Len(t) /\ ~(i - 1 < k) /\ (i - 1) + 1 = i
        BY <1>1, <1>3, <3>2
      <4> QED BY <1>3, <4>1
    <3> QED BY <1>1, <2>2, <3>1, <3>2
  <2> QED BY <2>1, <2>2 DEF BlocksIn
<1>8. Placed(m, t, z)
  BY <1>3, <1>5, <1>6 DEF Placed
<1> QED BY <1>2, <1>3, <1>7, <1>8

\* realloc notes a smaller size.
Resized(b, req) == [b EXCEPT !.req = req]
Noted(s, k, req) == [s EXCEPT ![k] = Resized(s[k], req)]

\* A smaller request noted in a minor moves nothing.
LEMMA ResizePlaced ==
  ASSUME NEW m \in Ids, NEW s, NEW z, Placed(m, s, z), NEW k \in 1 .. Len(s),
         NEW req \in Requests, req <= s[k].req, NEW t, t = Noted(s, k, req)
  PROVE  /\ Placed(m, t, z) /\ Len(t) = Len(s)
         /\ BlocksIn(m, t) = (BlocksIn(m, s) \ {Block(m, s[k])})
                                \cup {[ptr |-> Ptr(m, s[k]), size |-> req]}
         /\ \A j \in 1 .. Len(s) : t[j].size = s[j].size
<1>1. /\ s \in Seq(Minors) /\ Len(s) \in Nat
      /\ \A i, j \in 1 .. Len(s) : i < j => End(s[i]) <= s[j].start
      /\ \A j \in 1 .. Len(s) : WellMade(m, s[j]) /\ MajorHeader <= s[j].start /\ End(s[j]) <= z
  BY DEF Placed
<1>2. PICK b \in Minors : b = s[k] /\ WellMade(m, b)
  BY <1>1
<1>3. PICK c : c = Resized(b, req)
  OBVIOUS
<1>4. req \in Nat \ {0} /\ req <= b.req
  BY <1>2, Headers
<1>5. c \in Minors /\ c.start = b.start /\ c.size = b.size /\ c.req = req /\ c.diff = b.diff
  BY <1>3, <1>4 DEF Resized, Minors
<1>6. Ptr(m, c) = Ptr(m, b) /\ End(c) = End(b)
  BY <1>5 DEF Ptr, End
<1>7. WellMade(m, c)
  <2>1. b.diff + b.req <= b.size /\ Ptr(m, b) % ALIGNMENT = 0
    BY <1>2 DEF WellMade
  <2>2. c.diff + c.req <= c.size
    BY <1>4, <1>5, <2>1 DEF Minors
  <2> QED BY <1>5, <1>6, <2>1, <2>2 DEF WellMade
<1>8. /\ t \in Seq(Minors) /\ Len(t) = Len(s) /\ t[k] = c
      /\ \A j \in 1 .. Len(s) : j # k => t[j] = s[j]
  <2>1. t = [s EXCEPT ![k] = c]
    BY <1>2, <1>3 DEF Noted
  <2> QED BY <1>1, <1>5, <2>1
<1>9. \A j \in 1 .. Len(t) : /\ WellMade(m, t[j]) /\ t[j].start = s[j].start
                             /\ End(t[j]) = End(s[j]) /\ t[j].size = s[j].size
  BY <1>1, <1>2, <1>5, <1>6, <1>7, <1>8
<1>10. Placed(m, t, z)
  BY <1>1, <1>8, <1>9 DEF Placed
<1>11. Block(m, c) = [ptr |-> Ptr(m, s[k]), size |-> req]
  BY <1>2, <1>5, <1>6 DEF Block
<1>12. \A j \in 1 .. Len(s) : j # k => Block(m, s[j]) # Block(m, s[k])
  <2>1. ASSUME NEW j \in 1 .. Len(s), j # k PROVE Block(m, s[j]) # Block(m, s[k])
    <3>1. Ptr(m, s[j]) # Ptr(m, s[k])
      BY <2>1, PtrsDiffer
    <3> QED BY <3>1 DEF Block
  <2> QED BY <2>1
<1>13. BlocksIn(m, t) = (BlocksIn(m, s) \ {Block(m, s[k])}) \cup {Block(m, c)}
  BY <1>8, <1>12 DEF BlocksIn
<1> QED BY <1>8, <1>9, <1>10, <1>11, <1>13

-----------------------------------------------------------------------------
(* Sums over the list of majors and over lists of minors.                    *)

Distinct(l) == l \in Seq(Ids) /\ \A i, j \in 1 .. Len(l) : l[i] = l[j] => i = j

Among(l) == {l[i] : i \in 1 .. Len(l)}

Summed(l, f) == [i \in 1 .. Len(l) |-> f[l[i]]]

Agree(f, g, n) == \A k \in Ids : k # n => g[k] = f[k]

\* The numbers that are added up over the list of majors.
LEMMA SummedTypes ==
  ASSUME NEW l \in Seq(Ids), NEW f \in [Ids -> Int]
  PROVE  /\ Summed(l, f) \in Seq(Int) /\ Len(Summed(l, f)) = Len(l)
         /\ \A i \in 1 .. Len(l) : l[i] \in Ids /\ Summed(l, f)[i] = f[l[i]]
<1>1. Len(l) \in Nat /\ \A i \in 1 .. Len(l) : l[i] \in Ids
  OBVIOUS
<1>2. \A i \in 1 .. Len(l) : f[l[i]] \in Int
  BY <1>1
<1> QED BY <1>1, <1>2 DEF Summed

\* A major at the end of the list adds its own number,
LEMMA SumAppends ==
  ASSUME NEW l, Distinct(l), NEW n \in Ids, n \notin Among(l),
         NEW f \in [Ids -> Int], NEW g \in [Ids -> Int], Agree(f, g, n)
  PROVE  /\ Distinct(Append(l, n)) /\ Among(Append(l, n)) = Among(l) \cup {n}
         /\ Len(Append(l, n)) = Len(l) + 1
         /\ Total(Summed(Append(l, n), g)) = Total(Summed(l, f)) + g[n]
<1>1. PICK t : t = Append(l, n)
  OBVIOUS
<1>2. l \in Seq(Ids) /\ Len(l) \in Nat /\ \A i, j \in 1 .. Len(l) : l[i] = l[j] => i = j
  BY DEF Distinct
<1>3. /\ t \in Seq(Ids) /\ Len(t) = Len(l) + 1 /\ t[Len(t)] = n
      /\ \A i \in 1 .. Len(l) : t[i] = l[i] /\ l[i] # n /\ l[i] \in Ids
  BY <1>1, <1>2 DEF Among
<1>4. Distinct(t)
  <2>1. ASSUME NEW i \in 1 .. Len(t), NEW j \in 1 .. Len(t), t[i] = t[j] PROVE i = j
    <3>1. i \in 1 .. Len(l) \/ i = Len(t)
      BY <1>2, <1>3
    <3>2. j \in 1 .. Len(l) \/ j = Len(t)
      BY <1>2, <1>3
    <3> QED BY <1>2, <1>3, <2>1, <3>1, <3>2
  <2> QED BY <1>3, <2>1 DEF Distinct
<1>5. Among(t) = Among(l) \cup {n}
  <2>1. \A i \in 1 .. Len(t) : i \in 1 .. Len(l) \/ i = Len(t)
    BY <1>2, <1>3
  <2>2. 1 .. Len(l) \subseteq 1 .. Len(t) /\ Len(t) \in 1 .. Len(t)
    BY <1>2, <1>3
  <2> QED BY <1>3, <2>1, <2>2 DEF Among
<1>6. PICK v \in Seq(Int) : v = Summed(l, f) /\ Len(v) = Len(l)
  BY <1>2, SummedTypes
<1>7. PICK w \in Seq(Int) : w = Summed(t, g) /\ Len(w) = Len(t)
  BY <1>3, SummedTypes
<1>8. \A i \in 1 .. Len(l) : v[i] = f[l[i]]
  BY <1>2, <1>6, SummedTypes, ZenonT(40)
<1>9. \A i \in 1 .. Len(t) : w[i] = g[t[i]]
  BY <1>3, <1>7, SummedTypes, ZenonT(40)
<1>10. \A i \in 1 .. Len(l) : w[i] = v[i]
  <2>1. ASSUME NEW i \in 1 .. Len(l) PROVE w[i] = v[i]
    <3>1. i \in 1 .. Len(t)
      BY <1>2, <1>3
    <3>2. g[l[i]] = f[l[i]]
      BY <1>3 DEF Agree
    <3> QED BY <1>3, <1>8, <1>9, <3>1, <3>2
  <2> QED BY <2>1
<1>11. Widens(v, w, Len(w))
  <2>1. Len(v) \in Nat /\ Len(w) = Len(v) + 1 /\ Len(w) \in 1 .. Len(w)
    BY <1>2, <1>3, <1>6, <1>7
  <2>2. \A k \in 1 .. Len(v) : w[k] = v[k]
    BY <1>6, <1>10
  <2>3. ASSUME NEW k \in 1 .. Len(w)
        PROVE  w[k] = IF k < Len(w) THEN v[k] ELSE IF k = Len(w) THEN w[Len(w)] ELSE v[k - 1]
    <3>1. CASE k < Len(w)
      <4>1. k \in 1 .. Len(v)
        BY <2>1, <3>1
      <4> QED BY <2>2, <3>1, <4>1
    <3>2. CASE ~(k < Len(w))
      <4>1. k = Len(w)
        BY <2>1, <3>2
      <4> QED BY <3>2, <4>1
    <3> QED BY <3>1, <3>2
  <2> QED BY <2>1, <2>3 DEF Widens
<1>12. Total(w) = Total(v) + w[Len(w)]
  BY <1>11, TotalWidens
<1>13. w[Len(w)] = g[n]
  <2>1. Len(t) \in 1 .. Len(t)
    BY <1>2, <1>3
  <2> QED BY <1>3, <1>7, <1>9, <2>1
<1> QED BY <1>1, <1>3, <1>4, <1>5, <1>6, <1>7, <1>12, <1>13

\* one that changes adds the difference,
LEMMA SumChanges ==
  ASSUME NEW l, Distinct(l), NEW i \in 1 .. Len(l),
         NEW f \in [Ids -> Int], NEW g \in [Ids -> Int], Agree(f, g, l[i])
  PROVE  Total(Summed(l, g)) = Total(Summed(l, f)) - f[l[i]] + g[l[i]]
<1>1. l \in Seq(Ids) /\ Len(l) \in Nat /\ \A j \in 1 .. Len(l) : l[i] = l[j] => i = j
  BY DEF Distinct
<1>2. PICK v \in Seq(Int) : v = Summed(l, f) /\ Len(v) = Len(l)
  BY <1>1, SummedTypes
<1>3. PICK w \in Seq(Int) : w = Summed(l, g) /\ Len(w) = Len(l)
  BY <1>1, SummedTypes
<1>4. \A j \in 1 .. Len(l) : l[j] \in Ids /\ v[j] = f[l[j]]
  BY <1>1, <1>2, SummedTypes
<1>5. \A j \in 1 .. Len(l) : w[j] = g[l[j]]
  BY <1>1, <1>3, SummedTypes
<1>6. \A j \in 1 .. Len(l) : j # i => w[j] = v[j]
  <2>1. ASSUME NEW j \in 1 .. Len(l), j # i PROVE w[j] = v[j]
    <3>1. l[j] \in Ids /\ l[j] # l[i]
      BY <1>1, <1>4, <2>1
    <3>2. g[l[j]] = f[l[j]]
      BY <3>1 DEF Agree
    <3> QED BY <1>4, <1>5, <2>1, <3>2
  <2> QED BY <2>1
<1>7. Differs(v, w, i)
  BY <1>1, <1>2, <1>3, <1>6 DEF Differs
<1>8. Total(w) = Total(v) - v[i] + w[i]
  BY <1>7, TotalDiffers
<1> QED BY <1>2, <1>3, <1>4, <1>5, <1>8

\* and one that is removed takes its number away.
LEMMA SumRemoves ==
  ASSUME NEW l, Distinct(l), NEW i \in 1 .. Len(l),
         NEW f \in [Ids -> Int], NEW g \in [Ids -> Int], Agree(f, g, l[i])
  PROVE  /\ Distinct(RemoveAt(l, i)) /\ Among(RemoveAt(l, i)) = Among(l) \ {l[i]}
         /\ Total(Summed(RemoveAt(l, i), g)) = Total(Summed(l, f)) - f[l[i]]
<1>1. l \in Seq(Ids) /\ Len(l) \in Nat
  BY DEF Distinct
<1>0. \A j, k \in 1 .. Len(l) : l[j] = l[k] => j = k
  BY DEF Distinct
<1>2. PICK t : t = RemoveAt(l, i)
  OBVIOUS
<1>3. t \in Seq(Ids) /\ Len(t) = Len(l) - 1
  BY <1>1, <1>2, RemovedElements
<1>33. \A j \in 1 .. (Len(l) - 1) : t[j] = IF j < i THEN l[j] ELSE l[j + 1]
  BY <1>1, <1>2, RemovedElements
<1>4. ASSUME NEW j \in 1 .. Len(t)
      PROVE  \E k \in 1 .. Len(l) : k # i /\ t[j] = l[k] /\ k = IF j < i THEN j ELSE j + 1
  <2>0. PICK n \in Nat : n = Len(l)
    BY <1>1
  <2>00. i \in 1 .. n /\ j \in 1 .. (n - 1) /\ j \in 1 .. (Len(l) - 1)
    BY <1>3, <2>0
  <2>1. /\ j \in 1 .. Len(l) /\ j + 1 \in 1 .. Len(l) /\ j \in 1 .. (Len(l) - 1)
        /\ j < i => j # i
        /\ ~(j < i) => j + 1 # i
    BY <2>0, <2>00
  <2>2. t[j] = IF j < i THEN l[j] ELSE l[j + 1]
    BY <1>33, <2>1
  <2> QED BY <2>1, <2>2
<1>5. Distinct(t)
  <2>1. ASSUME NEW j \in 1 .. Len(t), NEW k \in 1 .. Len(t), t[j] = t[k] PROVE j = k
    <3>1. PICK a \in 1 .. Len(l) : t[j] = l[a] /\ a = IF j < i THEN j ELSE j + 1
      BY <1>4
    <3>2. PICK b \in 1 .. Len(l) : t[k] = l[b] /\ b = IF k < i THEN k ELSE k + 1
      BY <1>4
    <3>3. a = b
      <4>1. l[a] = l[b]
        BY <2>1, <3>1, <3>2
      <4> QED BY <1>0, <4>1
    <3>4. j \in Int /\ k \in Int
      OBVIOUS
    <3> QED BY <3>1, <3>2, <3>3, <3>4
  <2> QED BY <1>3, <2>1 DEF Distinct
<1>6. ASSUME NEW k \in 1 .. Len(l), k # i PROVE \E j \in 1 .. Len(t) : t[j] = l[k]
  <2>1. CASE k < i
    <3>1. k \in 1 .. Len(t) /\ k \in 1 .. (Len(l) - 1)
      BY <1>1, <1>3, <2>1
    <3>2. t[k] = l[k]
      BY <1>33, <2>1, <3>1
    <3> QED BY <3>1, <3>2
  <2>2. CASE k > i
    <3>1. k - 1 \in 1 .. Len(t) /\ k - 1 \in 1 .. (Len(l) - 1) /\ ~(k - 1 < i) /\ (k - 1) + 1 = k
      BY <1>1, <1>3, <2>2
    <3> QED BY <1>33, <3>1
  <2> QED BY <1>1, <1>6, <2>1, <2>2
<1>7. Among(t) = Among(l) \ {l[i]}
  <2>1. ASSUME NEW j \in 1 .. Len(t) PROVE t[j] \in Among(l) \ {l[i]}
    <3>1. PICK k \in 1 .. Len(l) : k # i /\ t[j] = l[k]
      BY <1>4
    <3>2. l[k] # l[i]
      BY <1>0, <3>1
    <3> QED BY <3>1, <3>2 DEF Among
  <2> QED BY <1>6, <2>1 DEF Among
<1>8. PICK v \in Seq(Int) : v = Summed(l, f) /\ Len(v) = Len(l)
  BY <1>1, SummedTypes
<1>9. PICK w \in Seq(Int) : w = Summed(t, g) /\ Len(w) = Len(t)
  BY <1>3, SummedTypes
<1>10. \A j \in 1 .. Len(l) : l[j] \in Ids /\ v[j] = f[l[j]]
  BY <1>1, <1>8, SummedTypes
<1>11. \A j \in 1 .. Len(t) : w[j] = g[t[j]]
  BY <1>3, <1>9, SummedTypes
<1>12. \A k \in 1 .. Len(v) : v[k] = IF k < i THEN w[k] ELSE IF k = i THEN v[i] ELSE w[k - 1]
  <2>1. ASSUME NEW k \in 1 .. Len(l), k < i PROVE v[k] = w[k]
    <3>1. k \in 1 .. Len(t) /\ k \in 1 .. (Len(l) - 1) /\ k # i
      BY <1>1, <1>3, <2>1
    <3>2. t[k] = l[k]
      BY <1>33, <2>1, <3>1
    <3>3. l[k] # l[i] /\ l[k] \in Ids
      BY <1>0, <1>10, <3>1
    <3>4. g[l[k]] = f[l[k]]
      BY <3>3 DEF Agree
    <3> QED BY <1>10, <1>11, <3>1, <3>2, <3>4
  <2>2. ASSUME NEW k \in 1 .. Len(l), k > i PROVE v[k] = w[k - 1]
    <3>1. k - 1 \in 1 .. Len(t) /\ k - 1 \in 1 .. (Len(l) - 1) /\ ~(k - 1 < i) /\ (k - 1) + 1 = k
      BY <1>1, <1>3, <2>2
    <3>2. t[k - 1] = l[k]
      BY <1>33, <3>1
    <3>3. l[k] # l[i] /\ l[k] \in Ids
      <4>1. k # i
        BY <1>1, <2>2
      <4> QED BY <1>0, <1>10, <4>1
    <3>4. g[l[k]] = f[l[k]]
      BY <3>3 DEF Agree
    <3> QED BY <1>10, <1>11, <3>1, <3>2, <3>4
  <2>3. \A k \in 1 .. Len(l) : k < i \/ k = i \/ k > i
    BY <1>1
  <2>4. \A k \in 1 .. Len(l) : ~(k > i /\ k < i) /\ ~(k > i /\ k = i)
    BY <1>1
  <2> QED BY <1>8, <2>1, <2>2, <2>3, <2>4
<1>13. Widens(w, v, i)
  BY <1>1, <1>3, <1>8, <1>9, <1>12 DEF Widens
<1>14. Total(v) = Total(w) + v[i]
  BY <1>13, TotalWidens
<1>15. Total(w) \in Int /\ Total(v) \in Int /\ v[i] \in Int
  BY <1>8, <1>9, <1>1, TotalInt
<1> QED BY <1>2, <1>5, <1>7, <1>8, <1>9, <1>10, <1>14, <1>15

\* The same for lists of minors: their numbers,
LEMMA SummedOf ==
  ASSUME NEW S, NEW l \in Seq(S), NEW f \in [S -> Int]
  PROVE  /\ Summed(l, f) \in Seq(Int) /\ Len(Summed(l, f)) = Len(l) /\ Len(l) \in Nat
         /\ \A i \in 1 .. Len(l) : l[i] \in S /\ Summed(l, f)[i] = f[l[i]]
<1>1. Len(l) \in Nat /\ \A i \in 1 .. Len(l) : l[i] \in S
  OBVIOUS
<1>2. \A i \in 1 .. Len(l) : f[l[i]] \in Int
  BY <1>1
<1> QED BY <1>1, <1>2 DEF Summed

\* one minor more,
LEMMA SumInserts ==
  ASSUME NEW S, NEW l \in Seq(S), NEW f \in [S -> Int], NEW k \in 1 .. (Len(l) + 1), NEW x \in S
  PROVE  Total(Summed(InsertAt(l, k, x), f)) = Total(Summed(l, f)) + f[x]
<1>1. PICK t : t = InsertAt(l, k, x)
  OBVIOUS
<1>2. t \in Seq(S) /\ Len(t) = Len(l) + 1
  BY <1>1, InsertedElements
<1>3. \A i \in 1 .. (Len(l) + 1) : t[i] = IF i < k THEN l[i] ELSE IF i = k THEN x ELSE l[i - 1]
  <2>1. \A i \in 1 .. (Len(l) + 1) :
           InsertAt(l, k, x)[i] = IF i < k THEN l[i] ELSE IF i = k THEN x ELSE l[i - 1]
    BY InsertedElements
  <2> QED BY <1>1, <2>1, Zenon
<1>4. PICK n \in Nat : n = Len(l)
  OBVIOUS
<1>5. PICK v \in Seq(Int) : v = Summed(l, f) /\ Len(v) = n
  BY <1>4, SummedOf
<1>6. PICK w \in Seq(Int) : w = Summed(t, f) /\ Len(w) = n + 1
  BY <1>2, <1>4, SummedOf
<1>7. \A i \in 1 .. n : v[i] = f[l[i]]
  <2>1. \A i \in 1 .. Len(l) : Summed(l, f)[i] = f[l[i]]
    BY SummedOf, SMTT(20)
  <2> QED BY <1>4, <1>5, <2>1, Zenon
<1>8. \A i \in 1 .. (n + 1) : w[i] = f[t[i]]
  <2>1. \A i \in 1 .. Len(t) : Summed(t, f)[i] = f[t[i]]
    <3>1. t \in Seq(S)
      BY <1>2
    <3>2. f \in [S -> Int]
      OBVIOUS
    <3>3. Summed(t, f) \in Seq(Int) /\ \A i \in 1 .. Len(t) : t[i] \in S /\ Summed(t, f)[i] = f[t[i]]
      BY <3>1, <3>2, SummedOf
    <3> QED BY <3>3
  <2> QED BY <1>2, <1>4, <1>6, <2>1, Zenon
<1>9. ASSUME NEW i \in 1 .. (n + 1)
      PROVE  w[i] = IF i < k THEN v[i] ELSE IF i = k THEN w[k] ELSE v[i - 1]
  <2>0. k \in 1 .. (n + 1)
    BY <1>4
  <2>1. CASE i < k
    <3>1. i \in 1 .. n
      BY <2>0, <2>1
    <3> QED BY <1>3, <1>4, <1>7, <1>8, <2>1, <3>1, ZenonT(40)
  <2>2. CASE i = k
    BY <2>0, <2>2
  <2>3. CASE i > k
    <3>1. i - 1 \in 1 .. n /\ ~(i < k) /\ i # k
      BY <2>0, <2>3
    <3>2. t[i] = l[i - 1]
      BY <1>3, <1>4, <3>1
    <3> QED BY <1>7, <1>8, <3>1, <3>2
  <2>4. i < k \/ i = k \/ i > k
    BY <2>0
  <2> QED BY <2>1, <2>2, <2>3, <2>4
<1>10. Widens(v, w, k)
  BY <1>4, <1>5, <1>6, <1>9 DEF Widens
<1>11. Total(w) = Total(v) + w[k]
  BY <1>10, TotalWidens
<1>12. w[k] = f[x]
  <2>1. k \in 1 .. (n + 1) /\ ~(k < k)
    BY <1>4
  <2> QED BY <1>3, <1>4, <1>8, <2>1
<1> QED BY <1>1, <1>5, <1>6, <1>11, <1>12

\* and one minor less.
LEMMA SumTakes ==
  ASSUME NEW S, NEW l \in Seq(S), NEW f \in [S -> Int], NEW k \in 1 .. Len(l)
  PROVE  /\ Total(Summed(RemoveAt(l, k), f)) = Total(Summed(l, f)) - f[l[k]]
         /\ Total(Summed(l, f)) \in Int /\ f[l[k]] \in Int
<1>1. PICK t : t = RemoveAt(l, k)
  OBVIOUS
<1>2. t \in Seq(S) /\ Len(t) = Len(l) - 1
  BY <1>1, RemovedElements
<1>3. \A i \in 1 .. (Len(l) - 1) : t[i] = IF i < k THEN l[i] ELSE l[i + 1]
  BY <1>1, RemovedElements
<1>4. PICK n \in Nat : n = Len(l)
  OBVIOUS
<1>5. PICK v \in Seq(Int) : v = Summed(l, f) /\ Len(v) = n
  BY <1>4, SummedOf
<1>6. PICK w \in Seq(Int) : w = Summed(t, f) /\ Len(w) = n - 1
  BY <1>2, <1>4, SummedOf
<1>7. \A i \in 1 .. n : v[i] = f[l[i]] /\ l[i] \in S
  <2>1. \A i \in 1 .. Len(l) : l[i] \in S /\ Summed(l, f)[i] = f[l[i]]
    BY SummedOf
  <2> QED BY <1>4, <1>5, <2>1, Zenon
<1>8. \A i \in 1 .. (n - 1) : w[i] = f[t[i]]
  <2>1. \A i \in 1 .. Len(t) : Summed(t, f)[i] = f[t[i]]
    <3>1. t \in Seq(S)
      BY <1>2
    <3>2. f \in [S -> Int]
      OBVIOUS
    <3>3. Summed(t, f) \in Seq(Int) /\ \A i \in 1 .. Len(t) : t[i] \in S /\ Summed(t, f)[i] = f[t[i]]
      BY <3>1, <3>2, SummedOf
    <3> QED BY <3>3
  <2> QED BY <1>2, <1>4, <1>6, <2>1, Zenon
<1>9. k \in 1 .. n
  BY <1>4
<1>10. ASSUME NEW i \in 1 .. n
       PROVE  v[i] = IF i < k THEN w[i] ELSE IF i = k THEN v[k] ELSE w[i - 1]
  <2>1. CASE i < k
    <3>1. i \in 1 .. (n - 1)
      BY <1>9, <2>1
    <3>2. t[i] = l[i]
      BY <1>3, <1>4, <2>1, <3>1
    <3> QED BY <1>7, <1>8, <2>1, <3>1, <3>2
  <2>2. CASE i = k
    BY <1>9, <2>2
  <2>3. CASE i > k
    <3>1. i - 1 \in 1 .. (n - 1) /\ ~(i < k) /\ i # k /\ ~(i - 1 < k) /\ (i - 1) + 1 = i
      BY <1>9, <2>3
    <3>2. t[i - 1] = l[i]
      BY <1>3, <1>4, <3>1
    <3> QED BY <1>7, <1>8, <3>1, <3>2
  <2>4. i < k \/ i = k \/ i > k
    BY <1>9
  <2> QED BY <2>1, <2>2, <2>3, <2>4
<1>11. Widens(w, v, k)
  <2>1. Len(v) = Len(w) + 1 /\ k \in 1 .. Len(v)
    BY <1>5, <1>6, <1>9
  <2> QED BY <1>5, <1>10, <2>1 DEF Widens
<1>12. Total(v) = Total(w) + v[k]
  BY <1>11, TotalWidens
<1>13. v[k] = f[l[k]] /\ f[l[k]] \in Int
  BY <1>7, <1>9
<1>14. Total(v) \in Int /\ Total(w) \in Int
  BY TotalInt
<1> QED BY <1>1, <1>5, <1>6, <1>12, <1>13, <1>14

-----------------------------------------------------------------------------
(* What the minors of a major come to.                                       *)

SizeFn == [b \in Minors |-> b.size]
FootFn == [b \in Minors |-> Freed(b)]

Bytes(s) == Total(Summed(s, SizeFn))
Feet(s)  == Total(Summed(s, FootFn))

\* The sizes of minors, with and without their headers, are numbers.
LEMMA FnTypes ==
  /\ SizeFn \in [Minors -> Int] /\ FootFn \in [Minors -> Int]
  /\ \A b \in Minors : SizeFn[b] = b.size /\ FootFn[b] = Freed(b)
BY Headers DEF SizeFn, FootFn, Freed, Minors

\* What a list of minors comes to, as the accounts of the source add it up.
LEMMA BytesOf ==
  ASSUME NEW s \in Seq(Minors)
  PROVE  /\ Bytes(s) = Total([k \in 1 .. Len(s) |-> s[k].size])
         /\ Feet(s) = Total([k \in 1 .. Len(s) |-> Freed(s[k])])
         /\ Bytes(s) \in Int /\ Feet(s) \in Int
<1>1. \A k \in 1 .. Len(s) : s[k] \in Minors
  OBVIOUS
<1>2. Summed(s, SizeFn) = [k \in 1 .. Len(s) |-> s[k].size]
  BY <1>1, FnTypes DEF Summed
<1>3. Summed(s, FootFn) = [k \in 1 .. Len(s) |-> Freed(s[k])]
  BY <1>1, FnTypes DEF Summed
<1>4. Summed(s, SizeFn) \in Seq(Int) /\ Summed(s, FootFn) \in Seq(Int)
  BY FnTypes, SummedOf
<1> QED BY <1>2, <1>3, <1>4, TotalInt DEF Bytes, Feet

\* No minors come to nothing.
LEMMA NoBytes ==
  ASSUME NEW s \in Seq(Minors), Len(s) = 0
  PROVE  Bytes(s) = 0 /\ Feet(s) = 0
<1>1. /\ Summed(s, SizeFn) \in Seq(Int) /\ Len(Summed(s, SizeFn)) = 0
      /\ Summed(s, FootFn) \in Seq(Int) /\ Len(Summed(s, FootFn)) = 0
  BY FnTypes, SummedOf
<1> QED BY <1>1, TotalEmpty DEF Bytes, Feet

\* A minor that is inserted adds its size,
LEMMA BytesInsert ==
  ASSUME NEW s \in Seq(Minors), NEW k \in 0 .. Len(s), NEW x \in Minors
  PROVE  /\ Bytes(InsertAt(s, k + 1, x)) = Bytes(s) + x.size
         /\ Feet(InsertAt(s, k + 1, x)) = Feet(s) + Freed(x)
<1>1. k + 1 \in 1 .. (Len(s) + 1)
  OBVIOUS
<1>2. SizeFn \in [Minors -> Int] /\ FootFn \in [Minors -> Int]
  BY FnTypes
<1>3. Bytes(InsertAt(s, k + 1, x)) = Bytes(s) + SizeFn[x]
  BY <1>1, <1>2, SumInserts, Zenon DEF Bytes
<1>4. Feet(InsertAt(s, k + 1, x)) = Feet(s) + FootFn[x]
  BY <1>1, <1>2, SumInserts, Zenon DEF Feet
<1> QED BY <1>3, <1>4, FnTypes

\* and one that is removed takes it away.
LEMMA BytesRemove ==
  ASSUME NEW s \in Seq(Minors), NEW k \in 1 .. Len(s)
  PROVE  /\ Bytes(RemoveAt(s, k)) = Bytes(s) - s[k].size
         /\ Feet(RemoveAt(s, k)) = Feet(s) - Freed(s[k])
<1>1. s[k] \in Minors
  OBVIOUS
<1> QED BY <1>1, FnTypes, SumTakes DEF Bytes, Feet

\* The minors of a major and its header fit in it, up to any gap.
LEMMA FeetFit ==
  ASSUME NEW m \in Ids, NEW s, NEW z \in Nat, Placed(m, s, z), MajorHeader <= z
  PROVE  MajorHeader + Feet(s) <= z /\ Feet(s) \in Nat
<1>1. /\ s \in Seq(Minors) /\ Len(s) \in Nat
      /\ \A k \in 1 .. Len(s) : /\ s[k].start \in Nat /\ End(s[k]) \in Nat
                                /\ MajorHeader <= s[k].start /\ End(s[k]) <= z
      /\ \A j, k \in 1 .. Len(s) : j < k => End(s[j]) <= s[k].start
  BY PlacedTypes
<1>2. PICK v \in Seq(Int) : v = Summed(s, FootFn) /\ Len(v) = Len(s)
  BY <1>1, FnTypes, SummedOf
<1>3. ASSUME NEW k \in 1 .. Len(s)
      PROVE  v[k] \in Nat /\ End(s[k]) = s[k].start + v[k]
  <2>1. PICK b \in Minors : b = s[k] /\ WellMade(m, b)
    BY <1>1 DEF Placed
  <2>2. /\ MinorHeader \in Nat \ {0} /\ b.start \in Nat /\ b.size \in Nat
        /\ End(b) = b.start + MinorHeader + b.size
    BY <2>1, MinorTypes
  <2>3. v[k] = FootFn[b]
    <3>1. FootFn \in [Minors -> Int] /\ s \in Seq(Minors)
      BY <1>1, FnTypes
    <3>2. k \in 1 .. Len(s)
      OBVIOUS
    <3>3. Summed(s, FootFn)[k] = FootFn[s[k]]
      BY ONLY <3>1, <3>2, SummedOf, ZenonT(40)
    <3> QED BY <1>2, <2>1, <3>3
  <2>4. v[k] = b.size + MinorHeader
    <3>1. FootFn[b] = Freed(b)
      BY <2>1, FnTypes
    <3> QED BY <2>3, <3>1 DEF Freed
  <2>5. End(b) = b.start + v[k] /\ v[k] \in Nat
    BY <2>2, <2>4
  <2> QED BY <2>1, <2>5
<1>4. PICK sum \in [0 .. Len(v) -> Int] : SumsOf(v, sum)
  BY SumsExist
<1>5. sum[0] = 0 /\ \A k \in 1 .. Len(v) : sum[k] = sum[k - 1] + v[k]
  <2>1. Len(v) \in Nat
    BY <1>1, <1>2
  <2> QED BY <1>4, <2>1, SumsElements
<1>6. Feet(s) = sum[Len(s)]
  BY <1>1, <1>2, <1>4, TotalIs DEF Feet
<1> DEFINE T == {k \in 0 .. Len(s) : ~(sum[k] >= 0 /\ MajorHeader + sum[k] <= From(s, k))}
<1>7. CASE T = {}
  <2>1. sum[Len(s)] >= 0 /\ MajorHeader + sum[Len(s)] <= From(s, Len(s)) /\ sum[Len(s)] \in Int
    BY <1>1, <1>2, <1>7
  <2>2. From(s, Len(s)) <= z
    <3>1. CASE Len(s) = 0
      BY <3>1 DEF From
    <3>2. CASE Len(s) # 0
      <4>1. Len(s) \in 1 .. Len(s)
        BY <1>1, <3>2
      <4> QED BY <1>1, <3>2, <4>1 DEF From
    <3> QED BY <3>1, <3>2
  <2>3. From(s, Len(s)) \in Nat
    <3>1. CASE Len(s) = 0
      BY <3>1, Headers DEF From
    <3>2. CASE Len(s) # 0
      <4>1. Len(s) \in 1 .. Len(s)
        BY <1>1, <3>2
      <4> QED BY <1>1, <3>2, <4>1 DEF From
    <3> QED BY <3>1, <3>2
  <2> QED BY <1>6, <2>1, <2>2, <2>3, Headers
<1>8. CASE T # {}
  <2>1. T \subseteq Nat
    BY <1>1
  <2>2. PICK k \in T : \A u \in T : k <= u
    BY <1>8, <2>1, LeastNatural
  <2>3. k \in 0 .. Len(s) /\ ~(sum[k] >= 0 /\ MajorHeader + sum[k] <= From(s, k))
    OBVIOUS
  <2> HIDE DEF T
  <2>4. k # 0
    <3>1. ASSUME k = 0 PROVE FALSE
      <4>1. sum[k] = 0 /\ From(s, k) = MajorHeader
        BY <1>5, <3>1 DEF From
      <4> QED BY <2>3, <4>1, Headers
    <3> QED BY <3>1
  <2>5. PICK j \in Nat : j = k - 1 /\ j \in 0 .. Len(s) /\ k \in 1 .. Len(s) /\ j < k
    BY <1>1, <2>3, <2>4
  <2>6. sum[j] >= 0 /\ MajorHeader + sum[j] <= From(s, j)
    <3>1. j \notin T
      BY <2>2, <2>3, <2>5
    <3> QED BY <2>5, <3>1 DEF T
  <2>7. sum[k] = sum[j] + v[k] /\ sum[j] \in Int
    BY <1>2, <1>5, <2>5
  <2>8. From(s, j) <= s[k].start /\ From(s, j) \in Nat
    <3>1. CASE j = 0
      BY <1>1, <2>5, <3>1, Headers DEF From
    <3>2. CASE j # 0
      <4>1. j \in 1 .. Len(s)
        BY <2>5, <3>2
      <4> QED BY <1>1, <2>5, <3>2, <4>1 DEF From
    <3> QED BY <3>1, <3>2
  <2>9. From(s, k) = End(s[k])
    BY <2>4 DEF From
  <2>10. v[k] \in Nat /\ End(s[k]) = s[k].start + v[k] /\ s[k].start \in Nat
    BY <1>1, <1>3, <2>5
  <2>11. PICK a \in Nat : a = s[k].start
    BY <2>10
  <2>12. PICK f \in Nat : f = From(s, j)
    BY <2>8
  <2>13. PICK p \in Int : p = sum[j]
    BY <2>7
  <2>14. sum[k] = p + v[k] /\ From(s, k) = a + v[k] /\ f <= a /\ p >= 0 /\ MajorHeader + p <= f
    BY <2>6, <2>7, <2>8, <2>9, <2>10, <2>11, <2>12, <2>13
  <2>15. p + v[k] >= 0 /\ MajorHeader + (p + v[k]) <= a + v[k]
    BY <2>10, <2>14, Headers
  <2> QED BY <2>3, <2>14, <2>15
<1> QED BY <1>7, <1>8

-----------------------------------------------------------------------------
(* The lists: l is the list of majors, f what is known of each, alloc and    *)
(* inuse the two totals.                                                     *)

Majors == [size : Nat, usage : Int, minors : Seq(Minors)]

MajorOk(m, r) ==
  /\ Placed(m, r.minors, r.size)
  /\ MajorHeader <= r.size /\ r.size <= Stride * PageSize
  /\ r.usage = MajorHeader + Feet(r.minors)

SizesOf(f)  == [m \in Ids |-> f[m].size]
BytesUsed(f) == [m \in Ids |-> Bytes(f[m].minors)]

ListsInv(l, f, alloc, inuse) ==
  /\ Distinct(l) /\ f \in [Ids -> Majors]
  /\ \A m \in Among(l) : MajorOk(m, f[m])
  /\ \A m \in Ids \ Among(l) : f[m].minors = <<>>
  /\ alloc = Total(Summed(l, SizesOf(f)))
  /\ inuse = Total(Summed(l, BytesUsed(f)))

AllBlocks(f) == UNION {BlocksIn(m, f[m].minors) : m \in Ids}

\* g is f but for m.
Updated(f, g, m, r) == g = [f EXCEPT ![m] = r]

\* A major that is updated leaves the others and their sums as they are.
LEMMA UpdatedIs ==
  ASSUME NEW f \in [Ids -> Majors], NEW m \in Ids, NEW r \in Majors, NEW g, Updated(f, g, m, r)
  PROVE  /\ g \in [Ids -> Majors] /\ g[m] = r /\ \A k \in Ids : k # m => g[k] = f[k]
         /\ SizesOf(f) \in [Ids -> Int] /\ SizesOf(g) \in [Ids -> Int]
         /\ BytesUsed(f) \in [Ids -> Int] /\ BytesUsed(g) \in [Ids -> Int]
         /\ Agree(SizesOf(f), SizesOf(g), m) /\ Agree(BytesUsed(f), BytesUsed(g), m)
         /\ SizesOf(f)[m] = f[m].size /\ SizesOf(g)[m] = r.size
         /\ BytesUsed(f)[m] = Bytes(f[m].minors) /\ BytesUsed(g)[m] = Bytes(r.minors)
<1>1. g \in [Ids -> Majors] /\ g[m] = r /\ \A k \in Ids : k # m => g[k] = f[k]
  BY DEF Updated
<1>2. ASSUME NEW h \in [Ids -> Majors]
      PROVE  /\ SizesOf(h) \in [Ids -> Int] /\ BytesUsed(h) \in [Ids -> Int]
             /\ \A k \in Ids : SizesOf(h)[k] = h[k].size /\ BytesUsed(h)[k] = Bytes(h[k].minors)
  <2>1. \A k \in Ids : h[k] \in Majors
    OBVIOUS
  <2>2. \A k \in Ids : h[k].size \in Int /\ h[k].minors \in Seq(Minors)
    BY <2>1 DEF Majors
  <2>3. \A k \in Ids : Bytes(h[k].minors) \in Int
    BY <2>2, BytesOf
  <2> QED BY <2>2, <2>3 DEF SizesOf, BytesUsed
<1>3. /\ SizesOf(f) \in [Ids -> Int] /\ BytesUsed(f) \in [Ids -> Int]
      /\ \A k \in Ids : SizesOf(f)[k] = f[k].size /\ BytesUsed(f)[k] = Bytes(f[k].minors)
  BY <1>2
<1>4. /\ SizesOf(g) \in [Ids -> Int] /\ BytesUsed(g) \in [Ids -> Int]
      /\ \A k \in Ids : SizesOf(g)[k] = g[k].size /\ BytesUsed(g)[k] = Bytes(g[k].minors)
  BY <1>1, <1>2
<1>5. \A k \in Ids : k # m => SizesOf(g)[k] = SizesOf(f)[k] /\ BytesUsed(g)[k] = BytesUsed(f)[k]
  BY <1>1, <1>3, <1>4
<1>6. Agree(SizesOf(f), SizesOf(g), m) /\ Agree(BytesUsed(f), BytesUsed(g), m)
  BY <1>5 DEF Agree
<1>7. SizesOf(g)[m] = r.size /\ BytesUsed(g)[m] = Bytes(r.minors)
  BY <1>1, <1>4
<1> QED BY <1>1, <1>3, <1>4, <1>6, <1>7

\* The blocks of the other majors.
Elsewhere(f, m) == UNION {BlocksIn(k, f[k].minors) : k \in Ids \ {m}}

\* The blocks in use are those of one major and those elsewhere.
LEMMA BlocksSplit ==
  ASSUME NEW f, NEW m \in Ids, NEW g, \A k \in Ids : k # m => g[k] = f[k]
  PROVE  AllBlocks(g) = Elsewhere(f, m) \cup BlocksIn(m, g[m].minors)
<1>1. ASSUME NEW b \in AllBlocks(g) PROVE b \in Elsewhere(f, m) \cup BlocksIn(m, g[m].minors)
  <2>1. PICK k \in Ids : b \in BlocksIn(k, g[k].minors)
    BY <1>1, Zenon DEF AllBlocks
  <2>2. CASE k = m
    BY <2>1, <2>2, Zenon
  <2>3. CASE k # m
    BY <2>1, <2>3, Zenon DEF Elsewhere
  <2> QED BY <2>2, <2>3
<1>2. ASSUME NEW b \in Elsewhere(f, m) PROVE b \in AllBlocks(g)
  <2>1. PICK k \in Ids \ {m} : b \in BlocksIn(k, f[k].minors)
    BY <1>2, Zenon DEF Elsewhere
  <2>2. b \in BlocksIn(k, g[k].minors)
    BY <2>1, Zenon
  <2> QED BY <2>1, <2>2, Zenon DEF AllBlocks
<1>3. BlocksIn(m, g[m].minors) \subseteq AllBlocks(g)
  BY Zenon DEF AllBlocks
<1> QED BY <1>1, <1>2, <1>3, Zenon

\* A block elsewhere is one of a live major, and lies inside of it.
LEMMA BlocksElsewhere ==
  ASSUME NEW l, NEW f, NEW alloc, NEW inuse, ListsInv(l, f, alloc, inuse),
         NEW m \in Ids, NEW b \in Elsewhere(f, m)
  PROVE  \E k \in Ids : \E j \in 1 .. Len(f[k].minors) :
           /\ k # m /\ k \in Among(l)
           /\ b = Block(k, f[k].minors[j]) /\ WellMade(k, f[k].minors[j])
           /\ End(f[k].minors[j]) <= f[k].size
           /\ End(f[k].minors[j]) <= Stride * PageSize
<1>1. PICK k \in Ids \ {m} : b \in BlocksIn(k, f[k].minors)
  BY Zenon DEF Elsewhere
<1>2. PICK j \in 1 .. Len(f[k].minors) : b = Block(k, f[k].minors[j])
  BY <1>1 DEF BlocksIn
<1>3. k \in Among(l)
  <2>1. ASSUME k \notin Among(l) PROVE FALSE
    <3>1. f[k].minors = <<>>
      BY <1>1, <2>1 DEF ListsInv
    <3>2. Len(f[k].minors) = 0
      BY <3>1
    <3> QED BY <1>2, <3>2
  <2> QED BY <2>1
<1>4. MajorOk(k, f[k])
  BY <1>3 DEF ListsInv
<1>5. PICK s : s = f[k].minors
  OBVIOUS
<1>6. f[k] \in Majors
  BY <1>1 DEF ListsInv
<1>7. PICK z \in Nat : z = f[k].size /\ z <= Stride * PageSize /\ Placed(k, s, z)
  BY <1>4, <1>5, <1>6 DEF MajorOk, Majors
<1>8. WellMade(k, s[j]) /\ End(s[j]) <= z
  BY <1>2, <1>5, <1>7 DEF Placed
<1>9. End(s[j]) \in Nat /\ Stride * PageSize \in Nat
  BY <1>1, <1>8, MinorTypes, Headers
<1>10. End(s[j]) <= Stride * PageSize
  BY <1>7, <1>8, <1>9
<1> QED BY <1>1, <1>2, <1>3, <1>5, <1>7, <1>8, <1>10

\* A new major, with the minors s.
LEMMA HeapGrows ==
  ASSUME NEW l, NEW f, NEW alloc, NEW inuse, ListsInv(l, f, alloc, inuse),
         NEW n \in Ids, n \notin Among(l), NEW r \in Majors, MajorOk(n, r),
         NEW g, Updated(f, g, n, r)
  PROVE  /\ ListsInv(Append(l, n), g, alloc + r.size, inuse + Bytes(r.minors))
         /\ AllBlocks(g) = AllBlocks(f) \cup BlocksIn(n, r.minors)
<1>1. /\ Distinct(l) /\ f \in [Ids -> Majors]
      /\ alloc = Total(Summed(l, SizesOf(f))) /\ inuse = Total(Summed(l, BytesUsed(f)))
  BY DEF ListsInv
<1>2. /\ \A m \in Among(l) : MajorOk(m, f[m])
      /\ \A m \in Ids \ Among(l) : f[m].minors = <<>>
  BY DEF ListsInv
<1>3. /\ g \in [Ids -> Majors] /\ g[n] = r /\ \A k \in Ids : k # n => g[k] = f[k]
      /\ SizesOf(f) \in [Ids -> Int] /\ SizesOf(g) \in [Ids -> Int]
      /\ BytesUsed(f) \in [Ids -> Int] /\ BytesUsed(g) \in [Ids -> Int]
      /\ Agree(SizesOf(f), SizesOf(g), n) /\ Agree(BytesUsed(f), BytesUsed(g), n)
      /\ SizesOf(g)[n] = r.size /\ BytesUsed(g)[n] = Bytes(r.minors)
  BY <1>1, UpdatedIs
<1>4. /\ Distinct(Append(l, n)) /\ Among(Append(l, n)) = Among(l) \cup {n}
      /\ Total(Summed(Append(l, n), SizesOf(g))) = alloc + r.size
  BY <1>1, <1>3, SumAppends
<1>5. Total(Summed(Append(l, n), BytesUsed(g))) = inuse + Bytes(r.minors)
  BY <1>1, <1>3, SumAppends
<1>6. Among(l) \subseteq Ids
  BY <1>1 DEF Distinct, Among
<1>7. ASSUME NEW m \in Among(Append(l, n)) PROVE MajorOk(m, g[m])
  <2>1. CASE m = n
    BY <1>3, <2>1
  <2>2. CASE m # n
    <3>1. m \in Among(l) /\ m \in Ids
      BY <1>4, <1>6, <2>2
    <3> QED BY <1>2, <1>3, <2>2, <3>1
  <2> QED BY <2>1, <2>2
<1>8. ASSUME NEW m \in Ids \ Among(Append(l, n)) PROVE g[m].minors = <<>>
  BY <1>2, <1>3, <1>4
<1>9. ListsInv(Append(l, n), g, alloc + r.size, inuse + Bytes(r.minors))
  BY <1>3, <1>4, <1>5, <1>7, <1>8 DEF ListsInv
<1>10. AllBlocks(g) = Elsewhere(f, n) \cup BlocksIn(n, r.minors)
  BY <1>3, BlocksSplit
<1>11. AllBlocks(f) = Elsewhere(f, n)
  <2>1. AllBlocks(f) = Elsewhere(f, n) \cup BlocksIn(n, f[n].minors)
    BY BlocksSplit
  <2>2. Len(f[n].minors) = 0
    <3>1. f[n].minors = <<>>
      BY <1>2
    <3> QED BY <3>1
  <2>3. BlocksIn(n, f[n].minors) = {}
    BY <2>2 DEF BlocksIn
  <2> QED BY <2>1, <2>3
<1> QED BY <1>9, <1>10, <1>11

\* The minors of a major change.
LEMMA HeapChanges ==
  ASSUME NEW l, NEW f, NEW alloc, NEW inuse, ListsInv(l, f, alloc, inuse),
         NEW n \in Among(l), NEW r \in Majors, MajorOk(n, r), r.size = f[n].size,
         NEW g, Updated(f, g, n, r)
  PROVE  /\ ListsInv(l, g, alloc, inuse - Bytes(f[n].minors) + Bytes(r.minors))
         /\ AllBlocks(f) = Elsewhere(f, n) \cup BlocksIn(n, f[n].minors)
         /\ AllBlocks(g) = Elsewhere(f, n) \cup BlocksIn(n, r.minors)
<1>1. /\ Distinct(l) /\ f \in [Ids -> Majors]
      /\ alloc = Total(Summed(l, SizesOf(f))) /\ inuse = Total(Summed(l, BytesUsed(f)))
  BY DEF ListsInv
<1>2. /\ \A m \in Among(l) : MajorOk(m, f[m])
      /\ \A m \in Ids \ Among(l) : f[m].minors = <<>>
  BY DEF ListsInv
<1>3. Among(l) \subseteq Ids /\ n \in Ids
  BY <1>1 DEF Distinct, Among
<1>4. PICK i \in 1 .. Len(l) : n = l[i]
  BY DEF Among
<1>5. /\ g \in [Ids -> Majors] /\ g[n] = r /\ \A k \in Ids : k # n => g[k] = f[k]
      /\ SizesOf(f) \in [Ids -> Int] /\ SizesOf(g) \in [Ids -> Int]
      /\ BytesUsed(f) \in [Ids -> Int] /\ BytesUsed(g) \in [Ids -> Int]
      /\ Agree(SizesOf(f), SizesOf(g), n) /\ Agree(BytesUsed(f), BytesUsed(g), n)
      /\ SizesOf(f)[n] = f[n].size /\ SizesOf(g)[n] = r.size
      /\ BytesUsed(f)[n] = Bytes(f[n].minors) /\ BytesUsed(g)[n] = Bytes(r.minors)
  BY <1>1, <1>3, UpdatedIs
<1>6. Total(Summed(l, SizesOf(g))) = alloc
  <2>1. Total(Summed(l, SizesOf(g))) = alloc - SizesOf(f)[n] + SizesOf(g)[n]
    BY <1>1, <1>4, <1>5, SumChanges
  <2>2. alloc \in Int
    BY <1>1, <1>5, TotalInt, SummedTypes DEF Distinct
  <2>3. SizesOf(f)[n] \in Int
    BY <1>3, <1>5
  <2> QED BY <1>5, <2>1, <2>2, <2>3
<1>7. Total(Summed(l, BytesUsed(g))) = inuse - Bytes(f[n].minors) + Bytes(r.minors)
  <2>1. Agree(BytesUsed(f), BytesUsed(g), l[i])
    BY <1>4, <1>5
  <2>2. Total(Summed(l, BytesUsed(g))) = inuse - BytesUsed(f)[l[i]] + BytesUsed(g)[l[i]]
    BY <1>1, <1>5, <2>1, SumChanges
  <2> QED BY <1>4, <1>5, <2>2
<1>8. ASSUME NEW m \in Among(l) PROVE MajorOk(m, g[m])
  <2>1. CASE m = n
    BY <1>5, <2>1
  <2>2. CASE m # n
    BY <1>2, <1>3, <1>5, <2>2
  <2> QED BY <2>1, <2>2
<1>9. ASSUME NEW m \in Ids \ Among(l) PROVE g[m].minors = <<>>
  BY <1>2, <1>5
<1>10. ListsInv(l, g, alloc, inuse - Bytes(f[n].minors) + Bytes(r.minors))
  BY <1>1, <1>5, <1>6, <1>7, <1>8, <1>9 DEF ListsInv
<1>11. AllBlocks(g) = Elsewhere(f, n) \cup BlocksIn(n, r.minors)
  BY <1>3, <1>5, BlocksSplit
<1>12. AllBlocks(f) = Elsewhere(f, n) \cup BlocksIn(n, f[n].minors)
  BY <1>3, BlocksSplit
<1> QED BY <1>10, <1>11, <1>12

\* A major goes back to the page allocator.
GivenBack(l, f, alloc, inuse, i, g) ==
  /\ ListsInv(RemoveAt(l, i), g, alloc - f[l[i]].size, inuse - Bytes(f[l[i]].minors))
  /\ AllBlocks(g) = Elsewhere(f, l[i])
  /\ Among(RemoveAt(l, i)) = Among(l) \ {l[i]}

\* A major is given back with its minors: the lists stay sound.
LEMMA HeapShrinks ==
  ASSUME NEW l, NEW f, NEW alloc, NEW inuse, ListsInv(l, f, alloc, inuse),
         NEW i \in 1 .. Len(l), NEW r \in Majors, r.minors = <<>>,
         NEW g, Updated(f, g, l[i], r)
  PROVE  GivenBack(l, f, alloc, inuse, i, g)
<1>1. /\ Distinct(l) /\ f \in [Ids -> Majors]
      /\ alloc = Total(Summed(l, SizesOf(f))) /\ inuse = Total(Summed(l, BytesUsed(f)))
  BY DEF ListsInv
<1>2. /\ \A m \in Among(l) : MajorOk(m, f[m])
      /\ \A m \in Ids \ Among(l) : f[m].minors = <<>>
  BY DEF ListsInv
<1>3. PICK n \in Ids : n = l[i]
  BY <1>1 DEF Distinct
<1>4. Among(l) \subseteq Ids
  BY <1>1 DEF Distinct, Among
<1>5. /\ g \in [Ids -> Majors] /\ g[n] = r /\ \A k \in Ids : k # n => g[k] = f[k]
      /\ SizesOf(f) \in [Ids -> Int] /\ SizesOf(g) \in [Ids -> Int]
      /\ BytesUsed(f) \in [Ids -> Int] /\ BytesUsed(g) \in [Ids -> Int]
      /\ Agree(SizesOf(f), SizesOf(g), n) /\ Agree(BytesUsed(f), BytesUsed(g), n)
      /\ SizesOf(f)[n] = f[n].size /\ BytesUsed(f)[n] = Bytes(f[n].minors)
  BY <1>1, <1>3, UpdatedIs
<1>6. /\ Distinct(RemoveAt(l, i)) /\ Among(RemoveAt(l, i)) = Among(l) \ {n}
      /\ Total(Summed(RemoveAt(l, i), SizesOf(g))) = alloc - f[n].size
  <2>1. Agree(SizesOf(f), SizesOf(g), l[i])
    BY <1>3, <1>5
  <2>2. /\ Distinct(RemoveAt(l, i)) /\ Among(RemoveAt(l, i)) = Among(l) \ {l[i]}
        /\ Total(Summed(RemoveAt(l, i), SizesOf(g))) = alloc - SizesOf(f)[l[i]]
    <3>1. Distinct(l) /\ SizesOf(f) \in [Ids -> Int] /\ SizesOf(g) \in [Ids -> Int]
      BY <1>1, <1>5
    <3>2. /\ Distinct(RemoveAt(l, i)) /\ Among(RemoveAt(l, i)) = Among(l) \ {l[i]}
          /\ Total(Summed(RemoveAt(l, i), SizesOf(g))) = Total(Summed(l, SizesOf(f))) - SizesOf(f)[l[i]]
      BY <2>1, <3>1, SumRemoves
    <3> QED BY <1>1, <3>2
  <2> QED BY <1>3, <1>5, <2>2
<1>7. Total(Summed(RemoveAt(l, i), BytesUsed(g))) = inuse - Bytes(f[n].minors)
  <2>1. Agree(BytesUsed(f), BytesUsed(g), l[i])
    BY <1>3, <1>5
  <2>2. Total(Summed(RemoveAt(l, i), BytesUsed(g))) = inuse - BytesUsed(f)[l[i]]
    <3>1. Distinct(l) /\ BytesUsed(f) \in [Ids -> Int] /\ BytesUsed(g) \in [Ids -> Int]
      BY <1>1, <1>5
    <3>2. Total(Summed(RemoveAt(l, i), BytesUsed(g))) = Total(Summed(l, BytesUsed(f))) - BytesUsed(f)[l[i]]
      BY <2>1, <3>1, SumRemoves
    <3> QED BY <1>1, <3>2
  <2> QED BY <1>3, <1>5, <2>2
<1>8. ASSUME NEW m \in Among(RemoveAt(l, i)) PROVE MajorOk(m, g[m])
  BY <1>2, <1>4, <1>5, <1>6
<1>9. ASSUME NEW m \in Ids \ Among(RemoveAt(l, i)) PROVE g[m].minors = <<>>
  BY <1>2, <1>5, <1>6
<1>10. ListsInv(RemoveAt(l, i), g, alloc - f[n].size, inuse - Bytes(f[n].minors))
  BY <1>5, <1>6, <1>7, <1>8, <1>9 DEF ListsInv
<1>11. AllBlocks(g) = Elsewhere(f, n) \cup BlocksIn(n, g[n].minors)
  BY <1>5, BlocksSplit
<1>12. BlocksIn(n, g[n].minors) = {}
  <2>1. Len(g[n].minors) = 0
    BY <1>5
  <2> QED BY <2>1 DEF BlocksIn
<1> QED BY <1>3, <1>6, <1>10, <1>11, <1>12 DEF GivenBack

\* A new major is large enough for the block it is made for, and not too large.
LEMMA PagesEnough ==
  ASSUME NEW req \in Requests
  PROVE  /\ PagesFor(req) * PageSize \in Nat
         /\ MajorHeader + Needed(req) <= PagesFor(req) * PageSize
         /\ PagesFor(req) * PageSize <= Stride * PageSize
         /\ Needed(req) \in Nat /\ Needed(req) = Size(req) + MinorHeader
         /\ Size(req) \in Nat \ {0}
<1>1. Size(req) \in Nat \ {0} /\ Needed(req) \in Nat /\ Needed(req) = Size(req) + MinorHeader
  BY Headers DEF Size, Needed
<1>2. PICK st \in Nat : st = Size(req) + MajorHeader + MinorHeader
  BY <1>1, Headers
<1>3. PICK y \in Nat : y = st + PageSize - 1
  <2>1. st + PageSize - 1 \in Nat
    BY Headers
  <2> QED BY <2>1
<1>4. /\ y = PageSize * (y \div PageSize) + (y % PageSize) /\ y % PageSize \in 0 .. PageSize - 1
      /\ y \div PageSize \in Nat
  BY Headers, Divided
<1>5. PICK q \in Nat : q = y \div PageSize
  BY <1>4
<1>6. PICK w \in Nat : w = q * PageSize
  BY <1>5, Headers
<1>7. st <= w
  <2>1. PageSize * q = w
    BY <1>5, <1>6, Headers
  <2>2. PICK r \in 0 .. PageSize - 1 : y = w + r
    BY <1>4, <1>5, <2>1
  <2> QED BY <1>2, <1>3, <1>6, <2>2, Headers
<1>8. PagesFor(req) = IF q < l_pageCount THEN l_pageCount ELSE q
  BY <1>2, <1>3, <1>5 DEF PagesFor
<1>9. PICK p \in Nat : p = PagesFor(req) /\ q <= p
  BY <1>8, Headers
<1>10. p <= Stride
  BY <1>9, MajorsLieApart
<1>11. w <= p * PageSize /\ p * PageSize \in Nat
  BY <1>6, <1>9, Products, Headers
<1>12. p * PageSize <= Stride * PageSize
  BY <1>9, <1>10, Products, Headers
<1>13. MajorHeader + Needed(req) <= p * PageSize
  BY <1>1, <1>2, <1>7, <1>11, Headers
<1> QED BY <1>1, <1>9, <1>11, <1>12, <1>13

\* The empty list of minors.
LEMMA NoMinors ==
  /\ <<>> \in Seq(Minors) /\ Len(<<>>) = 0 /\ Feet(<<>>) = 0 /\ Bytes(<<>>) = 0
  /\ \A m \in Ids : \A z : Placed(m, <<>>, z) /\ BlocksIn(m, <<>>) = {}
<1>1. <<>> \in Seq(Minors) /\ Len(<<>>) = 0
  OBVIOUS
<1>2. Feet(<<>>) = 0 /\ Bytes(<<>>) = 0
  BY <1>1, NoBytes
<1>3. \A m \in Ids : \A z : Placed(m, <<>>, z) /\ BlocksIn(m, <<>>) = {}
  BY <1>1 DEF Placed, BlocksIn
<1> QED BY <1>1, <1>2, <1>3

\* The two ways a major begins.
EmptyMajor(z) == [size |-> z, usage |-> MajorHeader, minors |-> <<>>]
FirstBlock(z, req, x) == [size |-> z, usage |-> MajorHeader + Needed(req), minors |-> <<x>>]

\* A major without a minor is sound,
LEMMA EmptyMajorOk ==
  ASSUME NEW n \in Ids, NEW z \in Nat, MajorHeader <= z, z <= Stride * PageSize
  PROVE  /\ EmptyMajor(z) \in Majors /\ MajorOk(n, EmptyMajor(z))
         /\ EmptyMajor(z).size = z /\ EmptyMajor(z).usage = MajorHeader
         /\ EmptyMajor(z).minors = <<>>
<1>1. PICK r : r = EmptyMajor(z)
  OBVIOUS
<1>2. r.size = z /\ r.usage = MajorHeader /\ r.minors = <<>>
  BY <1>1 DEF EmptyMajor
<1>3. r \in Majors
  BY <1>1, NoMinors, Headers DEF EmptyMajor, Majors
<1>4. r.usage = MajorHeader + Feet(r.minors)
  BY <1>2, NoMinors, Headers
<1>5. Placed(n, r.minors, r.size)
  BY <1>2, NoMinors
<1> QED BY <1>1, <1>2, <1>3, <1>4, <1>5 DEF MajorOk

\* and so is one that begins with its first block.
LEMMA FirstBlockOk ==
  ASSUME NEW n \in Ids, NEW z \in Nat, z <= Stride * PageSize, NEW req \in Requests,
         MajorHeader + Needed(req) <= z, NEW x, x = Minor(n, MajorHeader, req),
         NEW r, r = FirstBlock(z, req, x)
  PROVE  /\ r \in Majors /\ MajorOk(n, r)
         /\ r.size = z /\ r.minors = <<x>> /\ Len(r.minors) = 1
         /\ BlocksIn(n, r.minors) = {Block(n, x)} /\ Bytes(r.minors) = Size(req)
<1>1. /\ WellMade(n, x) /\ x.start = MajorHeader /\ x.size = Size(req)
      /\ End(x) = MajorHeader + Needed(req)
  BY MinorWellMade, Headers
<1>2. x \in Minors
  BY <1>1 DEF WellMade
<1>3. PICK e \in Seq(Minors) : e = <<>> /\ Len(e) = 0 /\ Feet(e) = 0 /\ Bytes(e) = 0
                               /\ Placed(n, e, z) /\ BlocksIn(n, e) = {}
  BY NoMinors
<1>4. PICK t : t = InsertAt(e, 0 + 1, x)
  OBVIOUS
<1>5. t \in Seq(Minors) /\ Len(t) = 1 /\ t[1] = x
  <2>1. 0 + 1 \in 1 .. (Len(e) + 1) /\ ~(1 < 0 + 1) /\ 1 = 0 + 1 /\ 1 \in 1 .. (Len(e) + 1)
    BY <1>3
  <2>2. /\ t \in Seq(Minors) /\ Len(t) = Len(e) + 1
        /\ \A i \in 1..(Len(e) + 1) :
              t[i] = IF i < 0 + 1 THEN e[i] ELSE IF i = 0 + 1 THEN x ELSE e[i - 1]
    BY <1>2, <1>4, <2>1, InsertedElements, SMTT(20)
  <2> QED BY <1>3, <2>1, <2>2
<1>6. t = <<x>>
  BY <1>2, <1>5
<1>7. From(e, 0) = MajorHeader /\ To(e, z, 0) = z /\ 0 \in 0 .. Len(e)
  BY <1>3 DEF From, To
<1>8. End(x) <= z
  BY <1>1
<1>9. Placed(n, t, z) /\ BlocksIn(n, t) = BlocksIn(n, e) \cup {Block(n, x)}
  BY <1>1, <1>3, <1>4, <1>7, <1>8, InsertPlaced
<1>10. Bytes(t) = x.size /\ Feet(t) = Freed(x)
  <2>1. Bytes(t) = Bytes(e) + x.size /\ Feet(t) = Feet(e) + Freed(x)
    BY <1>2, <1>3, <1>4, <1>7, BytesInsert
  <2>2. x.size \in Int /\ Freed(x) \in Int
    BY <1>2, Headers DEF Minors, Freed
  <2> QED BY <1>3, <2>1, <2>2
<1>11. Freed(x) = Needed(req)
  BY <1>1 DEF Freed, Needed
<1>12. r.size = z /\ r.usage = MajorHeader + Needed(req) /\ r.minors = t
  BY <1>6, Zenon DEF FirstBlock
<1>13. Needed(req) \in Nat
  BY PagesEnough
<1>14. r \in Majors
  <2>1. r = [size |-> z, usage |-> MajorHeader + Needed(req), minors |-> t]
    BY <1>6 DEF FirstBlock
  <2> QED BY <1>5, <1>13, <2>1, Headers DEF Majors
<1>15. MajorHeader <= z
  BY <1>13, Headers
<1>16. MajorOk(n, r)
  BY <1>9, <1>10, <1>11, <1>12, <1>15 DEF MajorOk
<1> QED BY <1>1, <1>3, <1>5, <1>6, <1>9, <1>10, <1>12, <1>14, <1>16

NewIn(m, s, z, k, x) ==
  WellMade(m, x) /\ x.start = From(s, k) /\ End(x) <= To(s, z, k) /\ End(x) <= z

\* A minor put into a gap is placed with the others.
LEMMA NewPlaced ==
  ASSUME NEW m \in Ids, NEW s, NEW z \in Nat, Placed(m, s, z), NEW k \in 0 .. Len(s),
         NEW x, NewIn(m, s, z, k, x), NEW t, t = InsertAt(s, k + 1, x)
  PROVE  /\ Placed(m, t, z) /\ BlocksIn(m, t) = BlocksIn(m, s) \cup {Block(m, x)}
         /\ Len(t) = Len(s) + 1 /\ ApartFrom(m, s, x)
BY InsertPlaced DEF NewIn

\* What the minors of a major come to when a gap is filled,
LEMMA FilledParts ==
  ASSUME NEW n \in Ids, NEW s, NEW z \in Nat, Placed(n, s, z), NEW req \in Requests,
         NEW k \in 0 .. Len(s), NEW x, x = Minor(n, From(s, k), req),
         From(s, k) + Needed(req) <= To(s, z, k), NEW t, t = InsertAt(s, k + 1, x)
  PROVE  /\ Placed(n, t, z) /\ BlocksIn(n, t) = BlocksIn(n, s) \cup {Block(n, x)}
         /\ Len(t) = Len(s) + 1 /\ ApartFrom(n, s, x)
         /\ Bytes(t) = Bytes(s) + Size(req) /\ Feet(t) = Feet(s) + Needed(req)
         /\ WellMade(n, x) /\ End(x) <= z /\ ApartFrom(n, s, x)
<1>1. s \in Seq(Minors) /\ Len(s) \in Nat
  BY DEF Placed
<1>4. /\ \A j \in 1 .. Len(s) : /\ s[j].start \in Nat /\ End(s[j]) \in Nat
                                /\ MajorHeader <= s[j].start /\ End(s[j]) <= z
                                /\ s[j].start < End(s[j])
  BY PlacedTypes
<1>5. PICK a \in Nat : a = From(s, k)
  <2>1. CASE k = 0
    BY <2>1, Headers DEF From
  <2>2. CASE k # 0
    <3>1. k \in 1 .. Len(s)
      BY <1>1, <2>2
    <3> QED BY <1>4, <2>2, <3>1 DEF From
  <2> QED BY <2>1, <2>2
<1>6. PICK b \in Nat : b = To(s, z, k) /\ b <= z
  <2>1. CASE k = Len(s)
    BY <2>1 DEF To
  <2>2. CASE k # Len(s)
    <3>1. k + 1 \in 1 .. Len(s)
      BY <1>1, <2>2
    <3>2. s[k + 1].start \in Nat /\ End(s[k + 1]) \in Nat /\ s[k + 1].start < End(s[k + 1]) /\ End(s[k + 1]) <= z
      BY <1>4, <3>1
    <3>3. s[k + 1].start <= z
      BY <3>2
    <3> QED BY <2>2, <3>2, <3>3 DEF To
  <2> QED BY <2>1, <2>2
<1>7. x = Minor(n, a, req)
  BY <1>5
<1>8. WellMade(n, x) /\ x.start = a /\ x.size = Size(req) /\ End(x) = a + Needed(req)
  BY <1>5, <1>7, MinorWellMade
<1>9. End(x) <= b /\ End(x) <= z
  <2>1. a + Needed(req) <= b
    BY <1>5, <1>6
  <2>2. Needed(req) \in Nat
    BY PagesEnough
  <2> QED BY <1>5, <1>6, <1>8, <2>1, <2>2
<1>10. NewIn(n, s, z, k, x)
  BY <1>5, <1>6, <1>8, <1>9 DEF NewIn
<1>11. /\ Placed(n, t, z) /\ BlocksIn(n, t) = BlocksIn(n, s) \cup {Block(n, x)}
       /\ Len(t) = Len(s) + 1 /\ ApartFrom(n, s, x)
  BY <1>10, NewPlaced
<1>12. x \in Minors
  BY <1>8 DEF WellMade
<1>13. Bytes(t) = Bytes(s) + x.size /\ Feet(t) = Feet(s) + Freed(x)
  BY <1>1, <1>12, BytesInsert
<1>14. Freed(x) = Needed(req)
  BY <1>8 DEF Freed, Needed
<1> QED BY <1>8, <1>9, <1>11, <1>13, <1>14

\* A block is added to a major.
Filled(r, s, req) == [size |-> r.size, usage |-> r.usage + Needed(req), minors |-> s]

\* and the major that is filled is sound.
LEMMA FilledOk ==
  ASSUME NEW n \in Ids, NEW f \in Majors, MajorOk(n, f), NEW req \in Requests,
         NEW k \in 0 .. Len(f.minors), NEW x, x = Minor(n, From(f.minors, k), req),
         From(f.minors, k) + Needed(req) <= To(f.minors, f.size, k),
         NEW t, t = InsertAt(f.minors, k + 1, x)
  PROVE  /\ Filled(f, t, req) \in Majors /\ MajorOk(n, Filled(f, t, req))
         /\ Filled(f, t, req).size = f.size /\ Filled(f, t, req).minors = t
         /\ Len(t) = Len(f.minors) + 1
         /\ BlocksIn(n, t) = BlocksIn(n, f.minors) \cup {Block(n, x)}
         /\ Bytes(t) = Bytes(f.minors) + Size(req)
         /\ WellMade(n, x) /\ End(x) <= f.size /\ ApartFrom(n, f.minors, x)
<1>1. f.minors \in Seq(Minors) /\ f.size \in Nat
  BY DEF Majors
<1>3. /\ Placed(n, f.minors, f.size) /\ MajorHeader <= f.size /\ f.size <= Stride * PageSize
      /\ f.usage = MajorHeader + Feet(f.minors)
  BY DEF MajorOk
<1>11. /\ Placed(n, t, f.size) /\ BlocksIn(n, t) = BlocksIn(n, f.minors) \cup {Block(n, x)}
       /\ Len(t) = Len(f.minors) + 1
       /\ Bytes(t) = Bytes(f.minors) + Size(req) /\ Feet(t) = Feet(f.minors) + Needed(req)
       /\ WellMade(n, x) /\ ApartFrom(n, f.minors, x)
  BY <1>1, <1>3, FilledParts
<1>111. End(x) <= f.size
  BY <1>1, <1>3, FilledParts, Zenon
<1>12. PICK r : r = Filled(f, t, req)
  OBVIOUS
<1>14. Needed(req) \in Nat
  BY PagesEnough
<1>15. r.size = f.size /\ r.usage = f.usage + Needed(req) /\ r.minors = t
  BY <1>12, Zenon DEF Filled
<1>16. Feet(f.minors) \in Int
  BY <1>1, BytesOf
<1>17. r.usage = MajorHeader + Feet(t) /\ r.usage \in Int
  BY <1>3, <1>11, <1>14, <1>15, <1>16, Headers
<1>18. r \in Majors
  <2>1. r = [size |-> f.size, usage |-> r.usage, minors |-> t]
    BY <1>12, <1>15, Zenon DEF Filled
  <2>2. t \in Seq(Minors)
    BY <1>11 DEF Placed
  <2> QED BY <1>1, <1>17, <2>1, <2>2 DEF Majors
<1>19. MajorOk(n, r)
  BY <1>3, <1>11, <1>15, <1>17 DEF MajorOk
<1> QED BY <1>11, <1>111, <1>12, <1>15, <1>18, <1>19

\* A block is taken from a major, or shrinks.
Emptied(r, k) ==
  [size |-> r.size, usage |-> r.usage - Freed(r.minors[k]), minors |-> RemoveAt(r.minors, k)]

Emptying(n, f, k, r) ==
  /\ r \in Majors /\ MajorOk(n, r)
  /\ r.size = f.size /\ r.minors = RemoveAt(f.minors, k)
  /\ Len(r.minors) = Len(f.minors) - 1
  /\ BlocksIn(n, r.minors) = BlocksIn(n, f.minors) \ {Block(n, f.minors[k])}
  /\ Bytes(r.minors) = Bytes(f.minors) - f.minors[k].size
  /\ Bytes(f.minors) \in Int /\ f.minors[k].size \in Int

\* A major from which one minor is taken is sound.
LEMMA EmptiedOk ==
  ASSUME NEW n \in Ids, NEW f \in Majors, MajorOk(n, f), NEW k \in 1 .. Len(f.minors),
         NEW r, r = Emptied(f, k)
  PROVE  Emptying(n, f, k, r)
<1>1. PICK s \in Seq(Minors) : s = f.minors
  BY DEF Majors
<1>2. PICK z \in Nat : z = f.size
  BY DEF Majors
<1>3. Placed(n, s, z) /\ MajorHeader <= z /\ z <= Stride * PageSize /\ f.usage = MajorHeader + Feet(s)
  BY <1>1, <1>2 DEF MajorOk
<1>4. k \in 1 .. Len(s)
  BY <1>1
<1>5. PICK t : t = RemoveAt(s, k)
  OBVIOUS
<1>6. /\ Placed(n, t, z) /\ BlocksIn(n, t) = BlocksIn(n, s) \ {Block(n, s[k])}
      /\ Len(t) = Len(s) - 1
  BY <1>3, <1>4, <1>5, RemovePlaced
<1>7. Bytes(t) = Bytes(s) - s[k].size /\ Feet(t) = Feet(s) - Freed(s[k])
  BY <1>4, <1>5, BytesRemove
<1>8. PICK b \in Minors : b = s[k]
  BY <1>4
<1>9. b.size \in Int /\ Freed(b) \in Int /\ Feet(s) \in Int /\ Bytes(s) \in Int
  <2>1. Feet(s) \in Int /\ Bytes(s) \in Int
    BY BytesOf
  <2>2. b.size \in Int /\ Freed(b) \in Int
    BY <1>8, Headers DEF Minors, Freed
  <2> QED BY <2>1, <2>2
<1>10. r.size = z /\ r.usage = f.usage - Freed(s[k]) /\ r.minors = t
  BY <1>1, <1>2, <1>5, Zenon DEF Emptied
<1>11. r.usage = MajorHeader + Feet(t) /\ r.usage \in Int
  BY <1>3, <1>7, <1>8, <1>9, <1>10, Headers
<1>12. r \in Majors
  <2>1. r = [size |-> z, usage |-> r.usage, minors |-> t]
    BY <1>10, Zenon DEF Emptied
  <2>2. t \in Seq(Minors)
    BY <1>6 DEF Placed
  <2> QED BY <1>11, <2>1, <2>2 DEF Majors
<1>13. MajorOk(n, r)
  BY <1>3, <1>6, <1>10, <1>11 DEF MajorOk
<1> QED BY <1>1, <1>2, <1>5, <1>6, <1>7, <1>8, <1>9, <1>10, <1>12, <1>13 DEF Emptying

Renoted(r, k, req) ==
  [size |-> r.size, usage |-> r.usage,
   minors |-> Noted(r.minors, k, req)]

\* Minors of the same sizes come to the same.
LEMMA SameSums ==
  ASSUME NEW s \in Seq(Minors), NEW t \in Seq(Minors), Len(t) = Len(s),
         \A j \in 1 .. Len(s) : t[j].size = s[j].size
  PROVE  Bytes(t) = Bytes(s) /\ Feet(t) = Feet(s)
<1>1. [k \in 1 .. Len(t) |-> t[k].size] = [k \in 1 .. Len(s) |-> s[k].size]
  OBVIOUS
<1>2. [k \in 1 .. Len(t) |-> Freed(t[k])] = [k \in 1 .. Len(s) |-> Freed(s[k])]
  BY DEF Freed
<1> QED BY <1>1, <1>2, BytesOf

\* A major one of whose minors has a smaller request noted is sound.
LEMMA RenotedOk ==
  ASSUME NEW n \in Ids, NEW f \in Majors, MajorOk(n, f), NEW k \in 1 .. Len(f.minors),
         NEW req \in Requests, req <= f.minors[k].req, NEW r, r = Renoted(f, k, req)
  PROVE  /\ r \in Majors /\ MajorOk(n, r)
         /\ r.size = f.size /\ Len(r.minors) = Len(f.minors)
         /\ BlocksIn(n, r.minors) = (BlocksIn(n, f.minors) \ {Block(n, f.minors[k])})
                                       \cup {[ptr |-> Ptr(n, f.minors[k]), size |-> req]}
         /\ Bytes(r.minors) = Bytes(f.minors) /\ Bytes(f.minors) \in Int
<1>1. PICK s \in Seq(Minors) : s = f.minors
  BY DEF Majors
<1>2. PICK z \in Nat : z = f.size
  BY DEF Majors
<1>3. Placed(n, s, z) /\ MajorHeader <= z /\ z <= Stride * PageSize /\ f.usage = MajorHeader + Feet(s)
  BY <1>1, <1>2 DEF MajorOk
<1>4. k \in 1 .. Len(s) /\ req <= s[k].req
  BY <1>1
<1>5. PICK t : t = Noted(s, k, req)
  OBVIOUS
<1>6. /\ Placed(n, t, z) /\ Len(t) = Len(s)
      /\ BlocksIn(n, t) = (BlocksIn(n, s) \ {Block(n, s[k])}) \cup {[ptr |-> Ptr(n, s[k]), size |-> req]}
      /\ \A j \in 1 .. Len(s) : t[j].size = s[j].size
  <2>1. Placed(n, s, z) /\ k \in 1 .. Len(s) /\ req <= s[k].req
    BY <1>3, <1>4
  <2> QED BY <1>5, <2>1, ResizePlaced
<1>7. t \in Seq(Minors)
  BY <1>6 DEF Placed
<1>8. Bytes(t) = Bytes(s) /\ Feet(t) = Feet(s) /\ Bytes(s) \in Int
  BY <1>6, <1>7, SameSums, BytesOf
<1>9. r = [size |-> z, usage |-> f.usage, minors |-> t]
  BY <1>1, <1>2, <1>5, Zenon DEF Renoted
<1>10. r.size = z /\ r.usage = f.usage /\ r.minors = t
  BY <1>9
<1>11. r \in Majors
  BY <1>7, <1>9 DEF Majors
<1>12. MajorOk(n, r)
  BY <1>3, <1>6, <1>8, <1>10 DEF MajorOk
<1> QED BY <1>1, <1>2, <1>6, <1>8, <1>10, <1>11, <1>12

-----------------------------------------------------------------------------
(* Pointers and blocks.                                                      *)

\* A block in use is one of a live major.
LEMMA BlocksKnown ==
  ASSUME NEW l, NEW f, NEW alloc, NEW inuse, ListsInv(l, f, alloc, inuse), NEW b \in AllBlocks(f)
  PROVE  \E k \in Among(l) : \E j \in 1 .. Len(f[k].minors) :
           /\ k \in Ids
           /\ b = Block(k, f[k].minors[j]) /\ WellMade(k, f[k].minors[j])
           /\ End(f[k].minors[j]) <= f[k].size
           /\ End(f[k].minors[j]) <= Stride * PageSize
<1>1. PICK k \in Ids : b \in BlocksIn(k, f[k].minors)
  BY Zenon DEF AllBlocks
<1>2. PICK j \in 1 .. Len(f[k].minors) : b = Block(k, f[k].minors[j])
  BY <1>1 DEF BlocksIn
<1>3. k \in Among(l)
  <2>1. ASSUME k \notin Among(l) PROVE FALSE
    <3>1. f[k].minors = <<>>
      BY <1>1, <2>1 DEF ListsInv
    <3>2. Len(f[k].minors) = 0
      BY <3>1
    <3> QED BY <1>2, <3>2
  <2> QED BY <2>1
<1>4. MajorOk(k, f[k])
  BY <1>3 DEF ListsInv
<1>5. PICK s : s = f[k].minors
  OBVIOUS
<1>6. f[k] \in Majors
  BY <1>1 DEF ListsInv
<1>7. PICK z \in Nat : z = f[k].size /\ z <= Stride * PageSize /\ Placed(k, s, z)
  BY <1>4, <1>5, <1>6 DEF MajorOk, Majors
<1>8. WellMade(k, s[j]) /\ End(s[j]) <= z
  BY <1>2, <1>5, <1>7 DEF Placed
<1>9. End(s[j]) \in Nat /\ Stride * PageSize \in Nat
  BY <1>1, <1>8, MinorTypes, Headers
<1>10. End(s[j]) <= Stride * PageSize
  BY <1>7, <1>8, <1>9
<1> QED BY <1>1, <1>2, <1>3, <1>5, <1>7, <1>8, <1>10

\* A new block shares no byte with a block of another major.
LEMMA ApartElsewhere ==
  ASSUME NEW l, NEW f, NEW alloc, NEW inuse, ListsInv(l, f, alloc, inuse),
         NEW n \in Ids, NEW b \in Elsewhere(f, n),
         NEW x, WellMade(n, x), End(x) <= Stride * PageSize
  PROVE  BlockBytes(b) \cap BlockBytes(Block(n, x)) = {}
<1>1. PICK k \in Ids : \E j \in 1 .. Len(f[k].minors) :
           /\ k # n /\ k \in Among(l)
           /\ b = Block(k, f[k].minors[j]) /\ WellMade(k, f[k].minors[j])
           /\ End(f[k].minors[j]) <= Stride * PageSize
  BY BlocksElsewhere
<1>2. PICK j \in 1 .. Len(f[k].minors) :
           /\ k # n
           /\ b = Block(k, f[k].minors[j]) /\ WellMade(k, f[k].minors[j])
           /\ End(f[k].minors[j]) <= Stride * PageSize
  BY <1>1
<1>3. PICK c : c = f[k].minors[j]
  OBVIOUS
<1>4. k # n /\ b = Block(k, c) /\ WellMade(k, c) /\ End(c) <= Stride * PageSize
  BY <1>2, <1>3
<1> QED BY <1>4, MajorsApart

\* Blocks of the lists have different addresses.
LEMMA BlocksUnique ==
  ASSUME NEW l, NEW f, NEW alloc, NEW inuse, ListsInv(l, f, alloc, inuse),
         NEW b \in AllBlocks(f), NEW c \in AllBlocks(f), b.ptr = c.ptr
  PROVE  b = c
<1>1. PICK k \in Among(l) : \E j \in 1 .. Len(f[k].minors) :
           /\ k \in Ids /\ b = Block(k, f[k].minors[j]) /\ WellMade(k, f[k].minors[j])
           /\ End(f[k].minors[j]) <= Stride * PageSize
  BY BlocksKnown
<1>2. PICK j \in 1 .. Len(f[k].minors) :
           /\ k \in Ids /\ b = Block(k, f[k].minors[j]) /\ WellMade(k, f[k].minors[j])
           /\ End(f[k].minors[j]) <= Stride * PageSize
  BY <1>1
<1>3. PICK n \in Ids : c \in BlocksIn(n, f[n].minors)
  BY Zenon DEF AllBlocks
<1>4. b.ptr = Ptr(k, f[k].minors[j]) /\ b.ptr \in BlockBytes(b)
  BY <1>2, BlockHasPtr
<1>5. CASE n = k
  <2>1. PICK i \in 1 .. Len(f[k].minors) : c = Block(k, f[k].minors[i])
    BY <1>3, <1>5 DEF BlocksIn
  <2>2. c.ptr = Ptr(k, f[k].minors[i])
    BY <2>1 DEF Block
  <2>3. PICK s, z : s = f[k].minors /\ Placed(k, s, z)
    BY <1>1 DEF ListsInv, MajorOk
  <2>4. i = j
    BY <1>2, <1>4, <2>1, <2>2, <2>3, PtrsDiffer
  <2> QED BY <1>2, <2>1, <2>4
<1>6. CASE n # k
  <2>1. c \in Elsewhere(f, k)
    BY <1>3, <1>6, Zenon DEF Elsewhere
  <2>2. BlockBytes(c) \cap BlockBytes(b) = {}
    BY <1>2, <2>1, ApartElsewhere
  <2>3. c.ptr \in BlockBytes(c)
    <3>1. PICK k2 \in Among(l) : \E j2 \in 1 .. Len(f[k2].minors) :
             k2 \in Ids /\ c = Block(k2, f[k2].minors[j2]) /\ WellMade(k2, f[k2].minors[j2])
      BY BlocksKnown
    <3>2. PICK j2 \in 1 .. Len(f[k2].minors) :
             k2 \in Ids /\ c = Block(k2, f[k2].minors[j2]) /\ WellMade(k2, f[k2].minors[j2])
      BY <3>1
    <3> QED BY <3>2, BlockHasPtr
  <2> QED BY <1>4, <2>2, <2>3
<1> QED BY <1>5, <1>6

-----------------------------------------------------------------------------
(* What callers hold: h of the blocks bs, all of them but the one at old.    *)

Holds(h, bs, old) ==
  IF old = NULL THEN h = bs ELSE \E b \in bs : b.ptr = old /\ h = bs \ {b}

\* A new block goes to a caller who holds it from then on,
LEMMA HoldsMore ==
  ASSUME NEW h, NEW bs, NEW old, Holds(h, bs, old), NEW x, x \notin bs
  PROVE  Holds(h \cup {x}, bs \cup {x}, old)
<1>1. CASE old = NULL
  BY <1>1 DEF Holds
<1>2. CASE old # NULL
  <2>1. PICK b \in bs : b.ptr = old /\ h = bs \ {b}
    BY <1>2 DEF Holds
  <2>2. h \cup {x} = (bs \cup {x}) \ {b}
    BY <2>1
  <2> QED BY <1>2, <2>1, <2>2 DEF Holds
<1> QED BY <1>1, <1>2

\* and one that is freed is held by nobody.
LEMMA HoldsLess ==
  ASSUME NEW h, NEW bs, NEW b \in bs, \A c \in bs : c.ptr = b.ptr => c = b, h = bs \/ h = bs \ {b}
  PROVE  Holds({c \in h : c.ptr # b.ptr}, bs \ {b}, NULL)
<1>1. {c \in h : c.ptr # b.ptr} = bs \ {b}
  OBVIOUS
<1> QED BY <1>1 DEF Holds

-----------------------------------------------------------------------------
(* The invariant.                                                            *)

Firsts   == [kind : {"first"}, req : Requests, old : Nat]
Mallocs  == [kind : {"malloc"}, req : Requests, old : Nat, maj : Ids,
             startedBet : BOOLEAN, bestSize : Int]
Releases == [kind : {"release"}, ptr : Nat, result : Nat]

\* The block its caller no longer holds and that is not free yet.
OldOf(c) == IF c = Idle THEN NULL ELSE IF c \in Releases THEN c.ptr ELSE c.old

\* No gap of a major is large enough.
NoGap(f, m, req) ==
  \A k \in 0 .. Len(f[m].minors) :
    ~(From(f[m].minors, k) + Needed(req) <= To(f[m].minors, f[m].size, k))

\* A search that did not start at the best bet has seen all majors before this one.
Searched(l, f, c) ==
  \A i, j \in 1 .. Len(l) : i < j /\ l[j] = c.maj => NoGap(f, l[i], c.req)

CallInv(l, f, c) ==
  \/ c = Idle
  \/ c \in Firsts /\ l = <<>>
  \/ /\ c \in Mallocs /\ c.maj \in Among(l)
     /\ c.startedBet = FALSE => Searched(l, f, c)
  \/ c \in Releases /\ c.ptr # NULL

\* Only the major of the call in progress has no minor, and then it has room for it.
EmptyInv(l, f, c) ==
  \A m \in Among(l) :
    f[m].minors = <<>> => c \in Mallocs /\ c.maj = m /\ f[m].size - f[m].usage >= Needed(c.req)

BetInv(l, bet) == bet \in Among(l) \cup {NULL}

HeapInv ==
  /\ ListsInv(majors, major, l_allocated, l_inuse)
  /\ BetInv(majors, l_bestBet)
  /\ CallInv(majors, major, call)
  /\ EmptyInv(majors, major, call)
  /\ Holds(held, AllBlocks(major), OldOf(call))

\* The kinds of calls differ.
LEMMA Kinds ==
  /\ Idle.kind = "idle" /\ Idle \notin Firsts \cup Mallocs \cup Releases
  /\ \A c \in Firsts : c.kind = "first" /\ c \notin Mallocs \cup Releases /\ c # Idle
  /\ \A c \in Mallocs : c.kind = "malloc" /\ c \notin Firsts \cup Releases /\ c # Idle
  /\ \A c \in Releases : c.kind = "release" /\ c \notin Firsts \cup Mallocs /\ c # Idle
<1>1. Idle.kind = "idle"
  BY DEF Idle
<1>2. \A c \in Firsts : c.kind = "first"
  BY DEF Firsts
<1>3. \A c \in Mallocs : c.kind = "malloc"
  BY DEF Mallocs
<1>4. \A c \in Releases : c.kind = "release"
  BY DEF Releases
<1> QED BY <1>1, <1>2, <1>3, <1>4

\* What the call in progress is.
LEMMA CallIs ==
  ASSUME NEW l, NEW f, NEW c, CallInv(l, f, c)
  PROVE  /\ c.kind = "idle" => c = Idle
         /\ c.kind = "first" => c \in Firsts /\ l = <<>>
         /\ c.kind = "malloc" =>
              /\ c \in Mallocs /\ c.maj \in Among(l)
              /\ c.startedBet = FALSE => Searched(l, f, c)
         /\ c.kind = "release" => c \in Releases /\ c.ptr # NULL
         /\ c.kind \in {"idle", "first", "malloc", "release"}
         /\ c = Idle => c.kind = "idle"
BY Kinds DEF CallInv

-----------------------------------------------------------------------------
(* Helpers of the source.                                                    *)

\* A new major is none of those in the list.
LEMMA NewIdIs ==
  ASSUME Distinct(majors), FreeIds # {}
  PROVE  NewId \in Ids /\ NewId \notin Among(majors)
<1>1. FreeIds \in SUBSET Nat
  BY DEF FreeIds, Ids
<1>2. PICK n \in FreeIds : \A k \in FreeIds : n <= k
  BY <1>1, LeastNatural
<1>3. NewId \in FreeIds
  BY <1>2 DEF NewId
<1>4. DOMAIN majors = 1 .. Len(majors)
  BY DEF Distinct
<1> QED BY <1>3, <1>4 DEF FreeIds, Among

\* The place of a major in the list.
LEMMA PositionIs ==
  ASSUME Distinct(majors), NEW m \in Among(majors)
  PROVE  Position(m) \in 1 .. Len(majors) /\ majors[Position(m)] = m
<1>1. DOMAIN majors = 1 .. Len(majors)
  BY DEF Distinct
<1>2. \E i \in DOMAIN majors : majors[i] = m
  BY <1>1 DEF Among
<1> QED BY <1>1, <1>2 DEF Position

\* The last major, the first one, and the one after another.
LEMMA LastIs ==
  ASSUME Distinct(majors), NEW m \in Among(majors)
  PROVE  /\ Len(majors) \in 1 .. Len(majors)
         /\ IsLast(m) <=> m = majors[Len(majors)]
         /\ 1 \in 1 .. Len(majors) /\ Root = majors[1]
         /\ ~IsLast(m) => /\ Position(m) + 1 \in 1 .. Len(majors)
                          /\ After(m) = majors[Position(m) + 1]
                          /\ After(m) \in Among(majors)
<1>1. Position(m) \in 1 .. Len(majors) /\ majors[Position(m)] = m /\ Len(majors) \in Nat
  BY PositionIs DEF Distinct
<1>2. Len(majors) \in 1 .. Len(majors) /\ 1 \in 1 .. Len(majors)
  BY <1>1
<1>3. IsLast(m) <=> m = majors[Len(majors)]
  BY DEF IsLast
<1>4. ~IsLast(m) => Position(m) + 1 \in 1 .. Len(majors)
  BY <1>1, <1>3
<1> QED BY <1>2, <1>3, <1>4 DEF After, Among, Root

\* The minor of a block in the lists is found, and is that block's.
LEMMA PlaceIs ==
  ASSUME ListsInv(majors, major, l_allocated, l_inuse), NEW b \in AllBlocks(major)
  PROVE  /\ MajorOf(b.ptr) \in Among(majors) /\ MajorOf(b.ptr) \in Ids
         /\ PlaceOf(b.ptr) \in 1 .. Len(major[MajorOf(b.ptr)].minors)
         /\ b = Block(MajorOf(b.ptr), major[MajorOf(b.ptr)].minors[PlaceOf(b.ptr)])
<1>1. \A m \in Ids : DOMAIN major[m].minors = 1 .. Len(major[m].minors)
  <2>1. \A m \in Ids : major[m].minors \in Seq(Minors)
    BY DEF ListsInv, Majors
  <2> QED BY <2>1
<1>2. PICK k \in Among(majors) : \E j \in 1 .. Len(major[k].minors) :
         k \in Ids /\ b = Block(k, major[k].minors[j])
  BY BlocksKnown
<1>3. \E m \in Ids : \E j \in DOMAIN major[m].minors : Ptr(m, major[m].minors[j]) = b.ptr
  BY <1>1, <1>2 DEF Block
<1>4. PICK m : m = MajorOf(b.ptr)
  OBVIOUS
<1>5. m \in Ids /\ \E j \in DOMAIN major[m].minors : Ptr(m, major[m].minors[j]) = b.ptr
  BY <1>3, <1>4, Zenon DEF MajorOf
<1>6. PICK p : p = PlaceOf(b.ptr)
  OBVIOUS
<1>7. p \in DOMAIN major[m].minors /\ Ptr(m, major[m].minors[p]) = b.ptr
  BY <1>4, <1>5, <1>6, Zenon DEF PlaceOf
<1>8. p \in 1 .. Len(major[m].minors)
  BY <1>1, <1>5, <1>7
<1>9. PICK c : c = Block(m, major[m].minors[p])
  OBVIOUS
<1>10. c \in AllBlocks(major)
  <2>1. c \in BlocksIn(m, major[m].minors)
    BY <1>8, <1>9 DEF BlocksIn
  <2> QED BY <1>5, <2>1, Zenon DEF AllBlocks
<1>11. c.ptr = b.ptr
  BY <1>7, <1>9 DEF Block
<1>12. b = c
  BY <1>10, <1>11, BlocksUnique
<1>13. m \in Among(majors)
  <2>1. ASSUME m \notin Among(majors) PROVE FALSE
    <3>1. major[m].minors = <<>>
      BY <1>5, <2>1 DEF ListsInv
    <3>2. Len(major[m].minors) = 0
      BY <3>1
    <3> QED BY <1>8, <3>2
  <2> QED BY <2>1
<1> QED BY <1>4, <1>5, <1>6, <1>8, <1>9, <1>12, <1>13

\* The gaps of the source are those of the lists.
LEMMA GapsLie ==
  ASSUME NEW m \in Ids, major \in [Ids -> Majors],
         NEW k \in 0 .. Len(major[m].minors), MajorOk(m, major[m])
  PROVE  /\ GapStart(m, k) = From(major[m].minors, k)
         /\ GapEnd(m, k) = To(major[m].minors, major[m].size, k)
         /\ From(major[m].minors, k) \in Int /\ To(major[m].minors, major[m].size, k) \in Int
         /\ From(major[m].minors, k) <= To(major[m].minors, major[m].size, k)
<1>1. GapStart(m, k) = From(major[m].minors, k)
  BY DEF GapStart, From
<1>2. GapEnd(m, k) = To(major[m].minors, major[m].size, k)
  BY DEF GapEnd, To
<1>3. PICK s : s = major[m].minors
  OBVIOUS
<1>4. PICK z \in Nat : z = major[m].size
  BY DEF Majors
<1>5. Placed(m, s, z) /\ MajorHeader <= z /\ k \in 0 .. Len(s)
  BY <1>3, <1>4 DEF MajorOk
<1>6. /\ Len(s) \in Nat
      /\ \A j \in 1 .. Len(s) : /\ s[j].start \in Nat /\ End(s[j]) \in Nat
                                /\ MajorHeader <= s[j].start /\ End(s[j]) <= z
      /\ \A i, j \in 1 .. Len(s) : i < j => End(s[i]) <= s[j].start
  BY <1>4, <1>5, PlacedTypes
<1>7. /\ k = 0 => From(s, k) = MajorHeader
      /\ k # 0 => From(s, k) = End(s[k]) /\ k \in 1 .. Len(s)
  BY <1>5, <1>6 DEF From
<1>8. /\ k = Len(s) => To(s, z, k) = z
      /\ k # Len(s) => To(s, z, k) = s[k + 1].start /\ k + 1 \in 1 .. Len(s)
  BY <1>5, <1>6 DEF To
<1>9. From(s, k) \in Int /\ To(s, z, k) \in Int
  BY <1>4, <1>6, <1>7, <1>8, Headers
<1>10. From(s, k) <= To(s, z, k)
  <2>1. CASE k = 0 /\ k = Len(s)
    BY <1>5, <1>7, <1>8, <2>1
  <2>2. CASE k = 0 /\ k # Len(s)
    BY <1>6, <1>7, <1>8, <2>2
  <2>3. CASE k # 0 /\ k = Len(s)
    BY <1>6, <1>7, <1>8, <2>3
  <2>4. CASE k # 0 /\ k # Len(s)
    <3>1. k < k + 1
      BY <1>5, <1>6
    <3> QED BY <1>6, <1>7, <1>8, <2>4, <3>1
  <2> QED BY <2>1, <2>2, <2>3, <2>4
<1> QED BY <1>1, <1>2, <1>3, <1>4, <1>9, <1>10

\* A gap fits a block exactly if the block ends before the gap does.
LEMMA GapsAre ==
  ASSUME NEW m \in Ids, major \in [Ids -> Majors], NEW req \in Requests,
         NEW k \in 0 .. Len(major[m].minors), MajorOk(m, major[m])
  PROVE  /\ GapStart(m, k) = From(major[m].minors, k)
         /\ GapFits(m, k, req)
              <=> From(major[m].minors, k) + Needed(req) <= To(major[m].minors, major[m].size, k)
<1>1. PICK a, b : a = From(major[m].minors, k) /\ b = To(major[m].minors, major[m].size, k)
  OBVIOUS
<1>2. GapStart(m, k) = a /\ GapEnd(m, k) = b /\ a \in Int /\ b \in Int
  BY <1>1, GapsLie
<1>3. GapFits(m, k, req) <=> b - a >= Needed(req)
  BY <1>2 DEF GapFits
<1>4. Needed(req) \in Nat
  BY PagesEnough
<1>5. GapFits(m, k, req) <=> a + Needed(req) <= b
  BY <1>2, <1>3, <1>4
<1> QED BY <1>1, <1>2, <1>5

\* A major has a gap, or none is large enough.
LEMMA HasGapIs ==
  ASSUME NEW m \in Ids, major \in [Ids -> Majors], NEW req \in Requests, MajorOk(m, major[m])
  PROVE  HasGap(m, req) <=> ~NoGap(major, m, req)
<1>1. \A k \in 0 .. Len(major[m].minors) :
         GapFits(m, k, req)
           <=> From(major[m].minors, k) + Needed(req) <= To(major[m].minors, major[m].size, k)
  BY GapsAre
<1> QED BY <1>1 DEF HasGap, NoGap

\* A major with a gap has room.
LEMMA GapIsRoom ==
  ASSUME NEW n \in Ids, NEW f \in [Ids -> Majors], MajorOk(n, f[n]), NEW req \in Requests,
         ~NoGap(f, n, req)
  PROVE  f[n].size - f[n].usage >= Needed(req)
<1>1. PICK r \in Majors : r = f[n] /\ MajorOk(n, r)
  OBVIOUS
<1>2. PICK k \in 0 .. Len(r.minors) : From(r.minors, k) + Needed(req) <= To(r.minors, r.size, k)
  BY <1>1 DEF NoGap
<1>3. PICK x : x = Minor(n, From(r.minors, k), req)
  OBVIOUS
<1>4. PICK t : t = InsertAt(r.minors, k + 1, x)
  OBVIOUS
<1>5. r.size \in Nat /\ r.usage \in Int /\ r.minors \in Seq(Minors)
  BY <1>1 DEF Majors
<1>6. /\ Placed(n, r.minors, r.size) /\ MajorHeader <= r.size
      /\ r.usage = MajorHeader + Feet(r.minors)
  BY <1>1 DEF MajorOk
<1>7. Placed(n, t, r.size) /\ Feet(t) = Feet(r.minors) + Needed(req)
  BY <1>2, <1>3, <1>4, <1>5, <1>6, FilledParts
<1>8. MajorHeader + Feet(t) <= r.size
  BY <1>5, <1>6, <1>7, FeetFit
<1>9. Feet(r.minors) \in Int /\ Needed(req) \in Nat
  BY <1>5, BytesOf, PagesEnough
<1>10. r.size - r.usage >= Needed(req)
  BY <1>5, <1>6, <1>7, <1>8, <1>9, Headers
<1> QED BY <1>1, <1>10

\* What the invariant says of the lists, in the terms the steps use.
LEMMA InvFacts ==
  ASSUME HeapInv
  PROVE  /\ Distinct(majors) /\ majors \in Seq(Ids) /\ major \in [Ids -> Majors]
         /\ Among(majors) \subseteq Ids /\ Live = Among(majors)
         /\ \A m \in Among(majors) : MajorOk(m, major[m]) /\ major[m] \in Majors
         /\ \A m \in Ids : major[m].minors \in Seq(Minors) /\ major[m].size \in Nat
                              /\ major[m].usage \in Int
         /\ UserBlocks = AllBlocks(major)
         /\ l_bestBet \in Among(majors) \cup {NULL}
<1>1. Distinct(majors) /\ majors \in Seq(Ids) /\ major \in [Ids -> Majors]
  BY DEF HeapInv, ListsInv, Distinct
<1>2. DOMAIN majors = 1 .. Len(majors) /\ \A i \in 1 .. Len(majors) : majors[i] \in Ids
  BY <1>1
<1>3. Among(majors) \subseteq Ids /\ Live = Among(majors)
  BY <1>2 DEF Among, Live
<1>4. \A m \in Ids : major[m] \in Majors
  BY <1>1
<1>5. \A m \in Ids : major[m].minors \in Seq(Minors) /\ major[m].size \in Nat /\ major[m].usage \in Int
  BY <1>4 DEF Majors
<1>6. \A m \in Among(majors) : MajorOk(m, major[m]) /\ major[m] \in Majors
  BY <1>3, <1>4 DEF HeapInv, ListsInv
<1>7. \A m \in Ids \ Among(majors) : BlocksIn(m, major[m].minors) = {}
  <2>1. ASSUME NEW m \in Ids \ Among(majors) PROVE BlocksIn(m, major[m].minors) = {}
    <3>1. major[m].minors = <<>>
      BY <2>1 DEF HeapInv, ListsInv
    <3> QED BY <2>1, <3>1, NoMinors
  <2> QED BY <2>1
<1>8. \A m \in Ids : {[ptr |-> Ptr(m, major[m].minors[k]), size |-> major[m].minors[k].req] :
                         k \in DOMAIN major[m].minors} = BlocksIn(m, major[m].minors)
  <2>1. \A m \in Ids : DOMAIN major[m].minors = 1 .. Len(major[m].minors)
    BY <1>5
  <2> QED BY <2>1, Zenon DEF BlocksIn, Block
<1>9. UserBlocks = AllBlocks(major)
  <2>1. UserBlocks = UNION {BlocksIn(m, major[m].minors) : m \in Live}
    <3>1. \A m \in Live : m \in Ids
      BY <1>3
    <3> DEFINE In(m) == {[ptr |-> Ptr(m, major[m].minors[k]), size |-> major[m].minors[k].req] :
                           k \in DOMAIN major[m].minors}
    <3>2. \A m \in Live : In(m) = BlocksIn(m, major[m].minors)
      BY <1>8, <3>1
    <3>3. UserBlocks = UNION {In(m) : m \in Live}
      BY Zenon DEF UserBlocks
    <3> HIDE DEF In
    <3>4. \A b : b \in UNION {In(m) : m \in Live} <=> \E m \in Live : b \in In(m)
      OBVIOUS
    <3>5. \A b : b \in UNION {BlocksIn(m, major[m].minors) : m \in Live}
                    <=> \E m \in Live : b \in BlocksIn(m, major[m].minors)
      OBVIOUS
    <3> QED BY <3>2, <3>3, <3>4, <3>5, Zenon
  <2>2. AllBlocks(major) = UNION {BlocksIn(m, major[m].minors) : m \in Live}
    <3>1. ASSUME NEW b \in AllBlocks(major)
          PROVE  b \in UNION {BlocksIn(m, major[m].minors) : m \in Live}
      <4>1. PICK m \in Ids : b \in BlocksIn(m, major[m].minors)
        BY Zenon DEF AllBlocks
      <4>2. m \in Live
        BY <1>3, <1>7, <4>1
      <4> QED BY <4>1, <4>2, Zenon
    <3>2. ASSUME NEW b \in UNION {BlocksIn(m, major[m].minors) : m \in Live}
          PROVE  b \in AllBlocks(major)
      <4>1. PICK m \in Live : b \in BlocksIn(m, major[m].minors)
        BY <3>2, Zenon
      <4>2. m \in Ids
        BY <1>3, <4>1
      <4> QED BY <4>1, <4>2, Zenon DEF AllBlocks
    <3> QED BY <3>1, <3>2, Zenon
  <2> QED BY <2>1, <2>2
<1> QED BY <1>1, <1>3, <1>5, <1>6, <1>9 DEF HeapInv, BetInv

\* The search begins at the root or at the best bet.
Started(c, req, old, root) ==
  /\ c \in Mallocs /\ OldOf(c) = old /\ c.req = req
  /\ c.maj = root \/ (c.maj = l_bestBet /\ l_bestBet \in Among(majors))
  /\ c.startedBet = FALSE => c.maj = root

\* A search that starts is a call of malloc.
LEMMA StartIs ==
  ASSUME HeapInv, NEW req \in Requests, NEW old \in Nat, NEW root \in Ids, NEW c,
         c = StartCall(req, old, root)
  PROVE  Started(c, req, old, root)
<1>1. /\ l_bestBet \in Among(majors) \cup {NULL} /\ Among(majors) \subseteq Ids
      /\ \A m \in Ids : major[m].size \in Nat /\ major[m].usage \in Int
  BY InvFacts
<1>2. StartsAtBet(req) \in BOOLEAN
  BY Zenon DEF StartsAtBet
<1>3. PICK sb \in BOOLEAN : sb = StartsAtBet(req)
  BY <1>2
<1>4. sb => l_bestBet \in Among(majors)
  BY <1>1, <1>3 DEF StartsAtBet
<1>5. PICK bs \in Int : bs = IF l_bestBet # NULL THEN Room(l_bestBet) ELSE 0
  BY <1>1 DEF Room
<1>6. PICK mj \in Ids : mj = IF sb THEN l_bestBet ELSE root
  BY <1>1, <1>4
<1>7. c = [kind |-> "malloc", req |-> req, old |-> old, maj |-> mj, startedBet |-> sb, bestSize |-> bs]
  BY <1>3, <1>5, <1>6, Zenon DEF StartCall
<1>8. c \in Mallocs
  BY <1>7 DEF Mallocs
<1>9. c.req = req /\ c.old = old /\ c.maj = mj /\ c.startedBet = sb
  BY <1>7
<1>10. OldOf(c) = old
  BY <1>8, <1>9, Kinds DEF OldOf
<1>11. c.maj = root \/ (c.maj = l_bestBet /\ l_bestBet \in Among(majors))
  BY <1>4, <1>6, <1>9
<1>12. sb = FALSE => c.maj = root
  BY <1>6, <1>9
<1> QED BY <1>8, <1>9, <1>10, <1>11, <1>12 DEF Started

\* A search at the root has nothing before it.
LEMMA SearchedFromRoot ==
  ASSUME NEW l, Distinct(l), NEW f, NEW c, c.maj = l[1]
  PROVE  Searched(l, f, c)
<1>1. Len(l) \in Nat /\ \A j \in 1 .. Len(l) : 1 \in 1 .. Len(l) /\ (l[j] = l[1] => j = 1)
  BY DEF Distinct
<1>2. ASSUME NEW i \in 1 .. Len(l), NEW j \in 1 .. Len(l), i < j, l[j] = c.maj
      PROVE  NoGap(f, l[i], c.req)
  <2>1. j = 1
    BY <1>1, <1>2
  <2> QED BY <1>2, <2>1
<1> QED BY <1>2 DEF Searched

\* Where a block cannot be placed there is no gap; no major is empty then.
LEMMA CannotPlace ==
  ASSUME HeapInv, Visiting, ~CanPlace
  PROVE  /\ call \in Mallocs /\ call.req \in Requests /\ call.maj \in Among(majors)
         /\ NoGap(major, call.maj, call.req)
         /\ \A m \in Among(majors) : major[m].minors # <<>>
<1>1. call \in Mallocs /\ call.maj \in Among(majors)
  BY CallIs DEF HeapInv, Visiting
<1>2. call.req \in Requests
  BY <1>1 DEF Mallocs
<1>3. PICK m \in Ids : m = call.maj /\ m \in Among(majors)
  BY <1>1, InvFacts
<1>4. MajorOk(m, major[m]) /\ major \in [Ids -> Majors]
  BY <1>3, InvFacts
<1>5. NoGap(major, m, call.req)
  <2>1. SUFFICES ASSUME ~NoGap(major, m, call.req) PROVE FALSE
    OBVIOUS
  <2>2. HasGap(m, call.req)
    BY <1>2, <1>4, <2>1, HasGapIs
  <2>3. major[m].size - major[m].usage >= Needed(call.req)
    BY <1>2, <1>4, <2>1, GapIsRoom
  <2> QED BY <1>3, <2>2, <2>3 DEF CanPlace, Fits, Room
<1>6. ASSUME NEW n \in Among(majors), major[n].minors = <<>> PROVE FALSE
  <2>1. call.maj = n /\ major[n].size - major[n].usage >= Needed(call.req)
    BY <1>6 DEF HeapInv, EmptyInv
  <2> QED BY <1>6, <2>1 DEF CanPlace, Fits, Room, IsEmpty
<1> QED BY <1>1, <1>2, <1>3, <1>5, <1>6

\* At the end of the search no major has a gap.
LEMMA AllSearched ==
  ASSUME HeapInv, AtTheEnd
  PROVE  \A m \in Among(majors) : NoGap(major, m, call.req)
<1>1. Visiting /\ ~CanPlace /\ IsLast(call.maj) /\ ~call.startedBet
  BY DEF AtTheEnd, MayRestart
<1>2. /\ call \in Mallocs /\ call.maj \in Among(majors) /\ NoGap(major, call.maj, call.req)
  BY <1>1, CannotPlace
<1>3. Distinct(majors) /\ Len(majors) \in Nat
  BY InvFacts DEF Distinct
<1>4. Len(majors) \in 1 .. Len(majors) /\ call.maj = majors[Len(majors)]
  BY <1>1, <1>2, <1>3, LastIs
<1>5. call.startedBet = FALSE
  <2>1. call.startedBet \in BOOLEAN
    BY <1>2 DEF Mallocs
  <2> QED BY <1>1, <2>1
<1>6. Searched(majors, major, call)
  BY <1>1, <1>5, CallIs DEF HeapInv, Visiting
<1>7. ASSUME NEW i \in 1 .. Len(majors) PROVE NoGap(major, majors[i], call.req)
  <2>1. CASE i = Len(majors)
    BY <1>2, <1>4, <2>1
  <2>2. CASE i # Len(majors)
    <3>1. i < Len(majors)
      BY <1>3, <2>2
    <3> QED BY <1>4, <1>6, <3>1 DEF Searched
  <2> QED BY <2>1, <2>2
<1> QED BY <1>7 DEF Among

-----------------------------------------------------------------------------
(* How the lists are updated, in one piece.                                  *)

\* Two fields of a major are replaced one after the other.
LEMMA TwoFields ==
  ASSUME NEW r \in Majors, NEW t, NEW u
  PROVE  [[r EXCEPT !.minors = t] EXCEPT !.usage = u] = [size |-> r.size, usage |-> u, minors |-> t]
<1>1. r = [size |-> r.size, usage |-> r.usage, minors |-> r.minors]
  BY DEF Majors
<1>2. PICK a, b, c : a = r.size /\ b = r.usage /\ c = r.minors
  OBVIOUS
<1>3. r = [size |-> a, usage |-> b, minors |-> c]
  BY <1>1, <1>2
<1>4. PICK q : q = [r EXCEPT !.minors = t]
  OBVIOUS
<1>5. q = [size |-> a, usage |-> b, minors |-> t]
  BY <1>3, <1>4
<1>6. [q EXCEPT !.usage = u] = [size |-> a, usage |-> u, minors |-> t]
  BY <1>5
<1> QED BY <1>2, <1>4, <1>6

Inserting(f, g, m, k, x, n) ==
  g = [f EXCEPT ![m].minors = InsertAt(@, k, x), ![m].usage = @ + n]

\* A minor goes into the list of its major,
LEMMA InsertingIs ==
  ASSUME NEW f \in [Ids -> Majors], NEW m \in Ids, NEW k, NEW x, NEW req, NEW g,
         Inserting(f, g, m, k, x, Needed(req))
  PROVE  Updated(f, g, m, Filled(f[m], InsertAt(f[m].minors, k, x), req))
<1>1. PICK t : t = InsertAt(f[m].minors, k, x)
  OBVIOUS
<1>2. PICK u : u = f[m].usage + Needed(req)
  OBVIOUS
<1>3. PICK r \in Majors : r = f[m]
  OBVIOUS
<1>4. [[r EXCEPT !.minors = t] EXCEPT !.usage = u] = [size |-> r.size, usage |-> u, minors |-> t]
  BY <1>3, TwoFields, ZenonT(40)
<1>5. [f EXCEPT ![m] = [[f[m] EXCEPT !.minors = t] EXCEPT !.usage = u]] = g
  <2>1. [f EXCEPT ![m].minors = t][m].usage + Needed(req) = u
    BY <1>2, <1>3 DEF Majors
  <2> QED BY <1>1, <1>2, <1>3, <2>1 DEF Inserting, Majors
<1> QED BY <1>1, <1>2, <1>3, <1>4, <1>5 DEF Updated, Filled

Removing(f, g, m, rest, usage) ==
  g = [f EXCEPT ![m].minors = rest, ![m].usage = usage]

\* leaves it,
LEMMA RemovingIs ==
  ASSUME NEW f \in [Ids -> Majors], NEW m \in Ids, NEW t, NEW u, NEW g, Removing(f, g, m, t, u)
  PROVE  Updated(f, g, m, [size |-> f[m].size, usage |-> u, minors |-> t])
<1>3. PICK r \in Majors : r = f[m]
  OBVIOUS
<1>4. [[r EXCEPT !.minors = t] EXCEPT !.usage = u] = [size |-> r.size, usage |-> u, minors |-> t]
  BY <1>3, TwoFields, ZenonT(40)
<1>5. [f EXCEPT ![m] = [[f[m] EXCEPT !.minors = t] EXCEPT !.usage = u]] = g
  BY <1>3 DEF Removing, Majors
<1> QED BY <1>3, <1>4, <1>5 DEF Updated

Noting(f, g, m, k, req) == g = [f EXCEPT ![m].minors[k].req = req]

\* or has another request noted.
LEMMA NotingIs ==
  ASSUME NEW f \in [Ids -> Majors], NEW m \in Ids, NEW k, NEW req, NEW g, Noting(f, g, m, k, req)
  PROVE  Updated(f, g, m, Renoted(f[m], k, req))
<1>1. PICK r \in Majors : r = f[m]
  OBVIOUS
<1>2. PICK t : t = Noted(r.minors, k, req)
  OBVIOUS
<1>3. [r EXCEPT !.minors = t] = [size |-> r.size, usage |-> r.usage, minors |-> t]
  BY <1>1 DEF Majors
<1>4. g = [f EXCEPT ![m] = [f[m] EXCEPT !.minors = [f[m].minors EXCEPT ![k] = [f[m].minors[k] EXCEPT !.req = req]]]]
  BY Zenon DEF Noting
<1>5. t = [f[m].minors EXCEPT ![k] = [f[m].minors[k] EXCEPT !.req = req]]
  BY <1>1, <1>2, Zenon DEF Noted, Resized
<1>6. g = [f EXCEPT ![m] = [r EXCEPT !.minors = t]]
  BY <1>1, <1>4, <1>5, Zenon
<1> QED BY <1>1, <1>2, <1>3, <1>6 DEF Updated, Renoted

\* What a step may do to the blocks in use.
Promised(bs, x) ==
  /\ x = [ptr |-> x.ptr, size |-> x.size] /\ x.size \in Requests
  /\ x.ptr \in HeapAddresses /\ x.ptr % ALIGNMENT = 0
  /\ BlockBytes(x) \subseteq HeapAddresses
  /\ \A b \in bs : BlockBytes(b) \cap BlockBytes(x) = {}

Gains(bs, bs2)   == \E x : Promised(bs, x) /\ bs2 = bs \cup {x}
Loses(bs, bs2)   == \E b \in bs : bs2 = bs \ {b}
Smaller(bs, bs2) ==
  \E b \in bs, size \in Requests :
    size < b.size /\ bs2 = (bs \ {b}) \cup {[b EXCEPT !.size = size]}

\* A new block, apart from those of its major, is what the header promises:
\* inside of the heap, aligned, and apart from every block in use.
LEMMA BlockPromised ==
  ASSUME NEW l, NEW f, NEW alloc, NEW inuse, ListsInv(l, f, alloc, inuse),
         NEW n \in Ids, NEW x, WellMade(n, x), End(x) <= Stride * PageSize,
         ApartFrom(n, f[n].minors, x)
  PROVE  Promised(AllBlocks(f), Block(n, x)) /\ Block(n, x) \notin AllBlocks(f)
<1>1. PICK b : b = Block(n, x)
  OBVIOUS
<1>2. /\ b.ptr = Ptr(n, x) /\ b.size = x.req /\ b = [ptr |-> b.ptr, size |-> b.size]
      /\ b.ptr \in BlockBytes(b)
  BY <1>1, BlockHasPtr DEF Block
<1>3. x.req \in Requests /\ Ptr(n, x) % ALIGNMENT = 0
  BY DEF WellMade
<1>4. BlockBytes(b) \subseteq HeapAddresses
  <2>1. /\ Base(n) \in Nat /\ Base(n + 1) = Base(n) + Stride * PageSize
        /\ Stride * PageSize \in Nat /\ End(x) \in Nat /\ x.start \in Nat /\ MinorHeader \in Nat
    BY BasesApart, MinorTypes, Headers
  <2>2. ASSUME NEW a \in BlockBytes(b) PROVE a \in Base(n) .. Base(n + 1) - 1
    <3>1. a \in Int /\ Base(n) + x.start + MinorHeader <= a /\ a < Base(n) + End(x)
      BY <1>1, <2>2, BlockLies
    <3> QED BY <2>1, <3>1
  <2> QED BY <2>2, Zenon DEF HeapAddresses
<1>5. ASSUME NEW c \in AllBlocks(f) PROVE BlockBytes(c) \cap BlockBytes(b) = {}
  <2>1. AllBlocks(f) = Elsewhere(f, n) \cup BlocksIn(n, f[n].minors)
    BY BlocksSplit
  <2>2. CASE c \in Elsewhere(f, n)
    BY <1>1, <2>2, ApartElsewhere
  <2>3. CASE c \in BlocksIn(n, f[n].minors)
    BY <1>1, <2>3 DEF ApartFrom
  <2> QED BY <1>5, <2>1, <2>2, <2>3
<1>6. b \notin AllBlocks(f)
  <2>1. ASSUME b \in AllBlocks(f) PROVE FALSE
    <3>1. BlockBytes(b) \cap BlockBytes(b) = {}
      BY <1>5, <2>1
    <3> QED BY <1>2, <3>1
  <2> QED BY <2>1
<1>7. b.ptr \in HeapAddresses
  BY <1>2, <1>4
<1> QED BY <1>1, <1>2, <1>3, <1>4, <1>5, <1>6, <1>7 DEF Promised

\* A call that returns leaves its old block, if it has one, to be freed.
LEMMA ReturnIs ==
  ASSUME call \in Firsts \cup Mallocs, NEW ptr \in Nat, Return(ptr)
  PROVE  /\ OldOf(call') = OldOf(call)
         /\ call' = Idle \/ (call' \in Releases /\ call'.ptr # NULL)
         /\ held' = IF ptr = NULL THEN held ELSE held \cup {[ptr |-> ptr, size |-> call.req]}
<1>1. OldOf(call) = call.old /\ call.old \in Nat
  BY Kinds DEF OldOf, Firsts, Mallocs
<1>2. CASE call.old = NULL
  BY <1>1, <1>2 DEF Return, OldOf
<1>3. CASE call.old # NULL
  <2>1. call' = [kind |-> "release", ptr |-> call.old, result |-> ptr]
    BY <1>3 DEF Return, ReleaseOld
  <2>2. call' \in Releases /\ call'.ptr = call.old
    BY <1>1, <2>1 DEF Releases
  <2>3. OldOf(call') = call.old
    BY <2>2, Kinds DEF OldOf
  <2> QED BY <1>1, <1>3, <2>2, <2>3 DEF Return
<1> QED BY <1>2, <1>3

\* A call that is over, or that is about to free, leaves no major empty.
LEMMA QuietInv ==
  ASSUME NEW l, NEW f, NEW c, c = Idle \/ (c \in Releases /\ c.ptr # NULL),
         \A m \in Among(l) : f[m].minors # <<>>
  PROVE  CallInv(l, f, c) /\ EmptyInv(l, f, c)
BY DEF CallInv, EmptyInv

\* A call begins: the lists stay as they are.
LEMMA BeginIs ==
  ASSUME HeapInv, call = Idle, NEW req \in Requests, NEW old \in Nat, BeginCall(req, old),
         UNCHANGED <<majors, major>>
  PROVE  CallInv(majors', major', call') /\ EmptyInv(majors', major', call') /\ OldOf(call') = old
<1>0. \A m \in Among(majors) : major[m].minors # <<>>
  BY Kinds DEF HeapInv, EmptyInv
<1>1. /\ Distinct(majors) /\ majors \in Seq(Ids) /\ Among(majors) \subseteq Ids
  BY InvFacts
<1>2. CASE majors = <<>>
  <2>1. call' = [kind |-> "first", req |-> req, old |-> old]
    BY <1>2 DEF BeginCall
  <2>2. call' \in Firsts /\ call'.old = old
    BY <2>1 DEF Firsts
  <2>3. OldOf(call') = old
    BY <2>2, Kinds DEF OldOf
  <2> QED BY <1>0, <1>2, <2>2, <2>3 DEF CallInv, EmptyInv
<1>3. CASE majors # <<>>
  <2>1. Len(majors) \in Nat /\ Len(majors) # 0
    BY <1>1, <1>3
  <2>2. 1 \in 1 .. Len(majors) /\ Root = majors[1]
    BY <2>1 DEF Root
  <2>3. PICK root \in Ids : root = Root /\ root \in Among(majors)
    BY <1>1, <2>2 DEF Among
  <2>4. PICK c : c = StartCall(req, old, root)
    OBVIOUS
  <2>5. call' = c
    BY <1>3, <2>3, <2>4 DEF BeginCall
  <2>6. /\ c \in Mallocs /\ OldOf(c) = old /\ c.req = req
        /\ c.maj = root \/ (c.maj = l_bestBet /\ l_bestBet \in Among(majors))
        /\ c.startedBet = FALSE => c.maj = root
    <3>1. Started(c, req, old, root)
      BY <2>3, <2>4, StartIs
    <3> QED BY <3>1 DEF Started
  <2>7. c.startedBet = FALSE => Searched(majors, major, c)
    BY <1>1, <2>2, <2>3, <2>6, SearchedFromRoot
  <2>8. CallInv(majors, major, c)
    BY <2>3, <2>6, <2>7 DEF CallInv
  <2>9. EmptyInv(majors, major, c)
    BY <1>0 DEF EmptyInv
  <2> QED BY <2>5, <2>6, <2>8, <2>9
<1> QED BY <1>2, <1>3

\* Between calls the callers hold all blocks.
LEMMA IdleHolds ==
  ASSUME HeapInv, call = Idle
  PROVE  held = AllBlocks(major)
BY DEF HeapInv, Holds, OldOf

\* malloc begins.
LEMMA MallocStep ==
  ASSUME HeapInv, NEW req \in Requests, malloc(req)
  PROVE  HeapInv' /\ AllBlocks(major)' = AllBlocks(major)
<1>1. /\ call = Idle /\ BeginCall(req, NULL) /\ NULL \in Nat
      /\ UNCHANGED <<majors, major, l_bestBet, l_allocated, l_inuse, held>>
  BY DEF malloc, NULL
<1>2. /\ CallInv(majors', major', call') /\ EmptyInv(majors', major', call')
      /\ OldOf(call') = NULL
  BY <1>1, BeginIs
<1>3. Holds(held', AllBlocks(major'), OldOf(call'))
  BY <1>1, <1>2, IdleHolds DEF Holds
<1> QED BY <1>1, <1>2, <1>3 DEF HeapInv

\* The totals are integers.
LEMMA TotalsAre == ASSUME HeapInv PROVE l_allocated \in Int /\ l_inuse \in Int
<1>1. /\ majors \in Seq(Ids) /\ major \in [Ids -> Majors]
      /\ \A m \in Ids : major[m].minors \in Seq(Minors) /\ major[m].size \in Nat
  BY InvFacts
<1>2. SizesOf(major) \in [Ids -> Int]
  BY <1>1 DEF SizesOf
<1>3. BytesUsed(major) \in [Ids -> Int]
  <2>1. \A m \in Ids : Bytes(major[m].minors) \in Int
    BY <1>1, BytesOf
  <2> QED BY <2>1 DEF BytesUsed
<1>4. /\ Summed(majors, SizesOf(major)) \in Seq(Int)
      /\ Summed(majors, BytesUsed(major)) \in Seq(Int)
  BY <1>1, <1>2, <1>3, SummedTypes
<1> QED BY <1>4, TotalInt DEF HeapInv, ListsInv

\* A new major with no minor joins the list.
GrewBy(n, req) ==
  /\ n = NewId /\ n \in Ids /\ n \notin Among(majors)
  /\ majors' = Append(majors, n) /\ Among(majors') = Among(majors) \cup {n}
  /\ Len(majors') = Len(majors) + 1 /\ majors' \in Seq(Ids) /\ Distinct(majors')
  /\ ListsInv(majors', major', l_allocated', l_inuse')
  /\ AllBlocks(major') = AllBlocks(major)
  /\ major'[n].minors = <<>> /\ major'[n].size - major'[n].usage >= Needed(req)
  /\ \A k \in Ids : k # n => major'[k] = major[k]

\* The list grows by a major without a minor, with room for the block.
LEMMA GrowsEmpty ==
  ASSUME HeapInv, NEW req \in Requests, NewMajor(req, <<>>, MajorHeader), UNCHANGED l_inuse
  PROVE  \E n : GrewBy(n, req)
<1>1. Distinct(majors) /\ major \in [Ids -> Majors] /\ FreeIds # {}
  BY InvFacts DEF NewMajor
<1>2. PICK n \in Ids : n = NewId /\ n \notin Among(majors)
  BY <1>1, NewIdIs
<1>3. /\ PagesFor(req) * PageSize \in Nat
      /\ MajorHeader + Needed(req) <= PagesFor(req) * PageSize
      /\ PagesFor(req) * PageSize <= Stride * PageSize
      /\ Needed(req) \in Nat
  BY PagesEnough
<1>4. PICK z \in Nat : z = PagesFor(req) * PageSize
  BY <1>3
<1>5. PICK r : r = EmptyMajor(z)
  OBVIOUS
<1>6. /\ majors' = Append(majors, n) /\ l_allocated' = l_allocated + z
      /\ major' = [major EXCEPT ![n] = [size |-> z, usage |-> MajorHeader, minors |-> <<>>]]
  BY <1>2, <1>4, Zenon DEF NewMajor
<1>7. /\ r \in Majors /\ MajorOk(n, r) /\ r.size = z /\ r.usage = MajorHeader /\ r.minors = <<>>
  <2>1. MajorHeader <= z /\ z <= Stride * PageSize
    BY <1>3, <1>4, Headers
  <2> QED BY <1>2, <1>4, <1>5, <2>1, EmptyMajorOk
<1>8. PICK g : g = major'
  OBVIOUS
<1>9. Updated(major, g, n, r)
  BY <1>5, <1>6, <1>8, Zenon DEF Updated, EmptyMajor
<1>10. /\ ListsInv(Append(majors, n), g, l_allocated + r.size, l_inuse + Bytes(r.minors))
       /\ AllBlocks(g) = AllBlocks(major) \cup BlocksIn(n, r.minors)
  <2>1. PICK l, f, al, iu : l = majors /\ f = major /\ al = l_allocated /\ iu = l_inuse
    OBVIOUS
  <2>2. ListsInv(l, f, al, iu)
    BY <2>1 DEF HeapInv
  <2> QED BY <1>2, <1>7, <1>9, <2>1, <2>2, HeapGrows
<1>11. l_inuse + Bytes(r.minors) = l_inuse'
  BY <1>7, NoMinors, TotalsAre
<1>12. ListsInv(majors', major', l_allocated', l_inuse')
  BY <1>6, <1>7, <1>8, <1>10, <1>11
<1>13. AllBlocks(major') = AllBlocks(major)
  BY <1>2, <1>7, <1>8, <1>10, NoMinors
<1>14. g[n] = r /\ \A k \in Ids : k # n => g[k] = major[k]
  <2>1. PICK f : f = major
    OBVIOUS
  <2> QED BY <1>1, <1>2, <1>7, <1>9, <2>1, UpdatedIs
<1>15. g[n].size - g[n].usage >= Needed(req) /\ g[n].minors = <<>>
  BY <1>3, <1>4, <1>7, <1>14, Headers
<1>16. /\ Among(majors') = Among(majors) \cup {n}
       /\ Len(majors') = Len(majors) + 1
  <2>1. PICK l : l = majors
    OBVIOUS
  <2>2. Len(l) \in Nat /\ l \in Seq(Ids)
    BY <1>1, <2>1 DEF Distinct
  <2>3. Append(l, n) \in Seq(Ids) /\ Len(Append(l, n)) = Len(l) + 1
    BY <1>2, <2>2
  <2>4. \A i \in 1 .. Len(l) : Append(l, n)[i] = l[i]
    BY <1>2, <2>2
  <2>5. Append(l, n)[Len(l) + 1] = n
    BY <1>2, <2>2
  <2>6. Among(Append(l, n)) = Among(l) \cup {n}
    <3>1. \A i \in 1 .. (Len(l) + 1) : i \in 1 .. Len(l) \/ i = Len(l) + 1
      BY <2>2
    <3>2. 1 .. Len(l) \subseteq 1 .. (Len(l) + 1) /\ Len(l) + 1 \in 1 .. (Len(l) + 1)
      BY <2>2
    <3> QED BY <2>3, <2>4, <2>5, <3>1, <3>2 DEF Among
  <2> QED BY <1>6, <2>1, <2>3, <2>6
<1>17. Distinct(majors') /\ majors' \in Seq(Ids)
  BY <1>12 DEF ListsInv, Distinct
<1> QED BY <1>2, <1>6, <1>8, <1>12, <1>13, <1>14, <1>15, <1>16, <1>17 DEF GrewBy

\* The first major.
LEMMA FirstMajorStep ==
  ASSUME HeapInv, FirstMajor
  PROVE  HeapInv' /\ AllBlocks(major)' = AllBlocks(major)
<1>1. call \in Firsts /\ majors = <<>>
  BY CallIs DEF HeapInv, FirstMajor
<1>2. PICK req \in Requests, old \in Nat : req = call.req /\ old = call.old
  BY <1>1 DEF Firsts
<1>3. OldOf(call) = old
  BY <1>1, <1>2, Kinds DEF OldOf
<1>4. /\ NewMajor(req, <<>>, MajorHeader) /\ UNCHANGED <<l_bestBet, l_inuse, held>>
      /\ call' = StartCall(req, old, NewId)
  BY <1>2 DEF FirstMajor
<1>5. PICK n : GrewBy(n, req)
  BY <1>4, GrowsEmpty
<1>6. /\ n = NewId /\ n \in Ids /\ n \notin Among(majors)
      /\ majors' = Append(majors, n) /\ Among(majors') = Among(majors) \cup {n}
      /\ Distinct(majors')
      /\ ListsInv(majors', major', l_allocated', l_inuse')
      /\ AllBlocks(major') = AllBlocks(major)
      /\ major'[n].minors = <<>> /\ major'[n].size - major'[n].usage >= Needed(req)
  BY <1>5, Zenon DEF GrewBy
<1>7. Len(majors) = 0 /\ Among(majors) = {}
  BY <1>1 DEF Among
<1>8. PICK c : c = StartCall(req, old, n)
  OBVIOUS
<1>9. Started(c, req, old, n)
  BY <1>6, <1>8, StartIs
<1>10. call' = c
  BY <1>4, <1>6, <1>8, Zenon
<1>11. c \in Mallocs /\ OldOf(c) = old /\ c.req = req /\ c.maj = n
  BY <1>7, <1>9 DEF Started
<1>12. majors'[1] = n
  BY <1>1, <1>6
<1>13. Searched(majors', major', c)
  <2>1. PICK l, f : l = majors' /\ f = major'
    OBVIOUS
  <2>2. Distinct(l) /\ c.maj = l[1]
    BY <1>6, <1>11, <1>12, <2>1
  <2> QED BY <2>1, <2>2, SearchedFromRoot
<1>14. CallInv(majors', major', call')
  BY <1>6, <1>10, <1>11, <1>13 DEF CallInv
<1>15. EmptyInv(majors', major', call')
  BY <1>6, <1>7, <1>10, <1>11 DEF EmptyInv
<1>16. Holds(held', AllBlocks(major'), OldOf(call'))
  BY <1>3, <1>4, <1>6, <1>10, <1>11 DEF HeapInv
<1>17. BetInv(majors', l_bestBet')
  BY <1>4, <1>6 DEF HeapInv, BetInv
<1> QED BY <1>6, <1>14, <1>15, <1>16, <1>17 DEF HeapInv

\* There is no first major: the call returns NULL.
LEMMA FirstFailsStep ==
  ASSUME HeapInv, FirstFails
  PROVE  HeapInv' /\ AllBlocks(major)' = AllBlocks(major)
<1>1. call \in Firsts /\ majors = <<>>
  BY CallIs DEF HeapInv, FirstFails
<1>2. /\ Return(NULL) /\ NULL \in Nat
      /\ UNCHANGED <<majors, major, l_bestBet, l_allocated, l_inuse>>
  BY DEF FirstFails, NULL
<1>3. /\ OldOf(call') = OldOf(call) /\ held' = held
      /\ call' = Idle \/ (call' \in Releases /\ call'.ptr # NULL)
  BY <1>1, <1>2, ReturnIs
<1>4. \A m \in Among(majors) : major[m].minors # <<>>
  BY <1>1 DEF Among
<1>5. CallInv(majors', major', call') /\ EmptyInv(majors', major', call')
  <2>1. PICK l, f, c : l = majors' /\ f = major' /\ c = call'
    OBVIOUS
  <2>2. c = Idle \/ (c \in Releases /\ c.ptr # NULL)
    BY <1>3, <2>1
  <2>3. \A m \in Among(l) : f[m].minors # <<>>
    BY <1>2, <1>4, <2>1
  <2> QED BY <2>1, <2>2, <2>3, QuietInv
<1> QED BY <1>2, <1>3, <1>5 DEF HeapInv

\* A block is taken out of the lists, and its major with it if that is empty then.
Released(b) ==
  /\ ListsInv(majors', major', l_allocated', l_inuse')
  /\ BetInv(majors', l_bestBet')
  /\ AllBlocks(major') = AllBlocks(major) \ {b}
  /\ \A m \in Among(majors') : major'[m].minors # <<>>
  /\ held' = {c \in held : c.ptr # b.ptr}

\* A block is released: only it leaves the lists, and an empty major with it.
LEMMA ReleaseIs ==
  ASSUME HeapInv, \A m \in Among(majors) : major[m].minors # <<>>,
         NEW b \in AllBlocks(major), Release(b.ptr)
  PROVE  Released(b)
<1>1. /\ Distinct(majors) /\ major \in [Ids -> Majors] /\ Among(majors) \subseteq Ids
      /\ l_bestBet \in Among(majors) \cup {NULL}
  BY InvFacts
<1>2. PICK m \in Ids : m = MajorOf(b.ptr) /\ m \in Among(majors)
  BY PlaceIs DEF HeapInv
<1>3. PICK k \in 1 .. Len(major[m].minors) :
         k = PlaceOf(b.ptr) /\ b = Block(m, major[m].minors[k])
  BY <1>2, PlaceIs DEF HeapInv
<1>4. PICK f \in Majors : f = major[m] /\ MajorOk(m, f)
  BY <1>2, InvFacts
<1>5. PICK min, rest, usage : /\ min = f.minors[k] /\ rest = RemoveAt(f.minors, k)
                              /\ usage = f.usage - Freed(min)
  OBVIOUS
<1>6. /\ l_inuse' = l_inuse - min.size
      /\ rest = <<>> => /\ majors' = RemoveAt(majors, Position(m))
                        /\ major' = [major EXCEPT ![m] = [size |-> 0, usage |-> 0, minors |-> <<>>]]
                        /\ l_allocated' = l_allocated - f.size
                        /\ l_bestBet' = BetWithout(m)
      /\ rest # <<>> => /\ Removing(major, major', m, rest, usage)
                        /\ l_bestBet' = BetAfter(m, usage)
                        /\ UNCHANGED <<majors, l_allocated>>
      /\ held' = {c \in held : c.ptr # b.ptr}
  BY <1>2, <1>3, <1>4, <1>5, Zenon DEF Release, Removing
<1>7. PICK r : r = Emptied(f, k)
  OBVIOUS
<1>8. /\ r \in Majors /\ MajorOk(m, r) /\ r.size = f.size /\ r.minors = rest
      /\ BlocksIn(m, rest) = BlocksIn(m, f.minors) \ {b}
      /\ Bytes(rest) = Bytes(f.minors) - min.size
      /\ Bytes(f.minors) \in Int /\ min.size \in Int
  <2>1. k \in 1 .. Len(f.minors) /\ b = Block(m, f.minors[k])
    BY <1>3, <1>4
  <2>2. Emptying(m, f, k, r)
    BY <1>4, <1>7, <2>1, EmptiedOk
  <2> QED BY <1>5, <2>1, <2>2 DEF Emptying
<1>9. PICK g : g = major'
  OBVIOUS
<1>10. PICK l, h, al, iu : /\ l = majors /\ h = major /\ al = l_allocated /\ iu = l_inuse
                           /\ ListsInv(l, h, al, iu)
  BY DEF HeapInv
<1>11. al \in Int /\ iu \in Int
  BY <1>10, TotalsAre
<1>12. b \notin Elsewhere(h, m)
  <2>1. ASSUME b \in Elsewhere(h, m) PROVE FALSE
    <3>1. WellMade(m, f.minors[k]) /\ End(f.minors[k]) <= Stride * PageSize
      <4>1. PICK z \in Nat : z = f.size /\ z <= Stride * PageSize /\ Placed(m, f.minors, z)
        BY <1>4 DEF MajorOk, Majors
      <4>2. WellMade(m, f.minors[k]) /\ End(f.minors[k]) <= z
        BY <1>3, <1>4, <4>1 DEF Placed
      <4>3. End(f.minors[k]) \in Nat /\ Stride * PageSize \in Nat
        BY <4>2, <1>2, MinorTypes, Headers
      <4> QED BY <4>1, <4>2, <4>3
    <3>2. BlockBytes(b) \cap BlockBytes(Block(m, f.minors[k])) = {}
      BY <1>2, <1>10, <2>1, <3>1, ApartElsewhere
    <3>3. b.ptr \in BlockBytes(b)
      BY <1>2, <1>3, <1>4, <3>1, BlockHasPtr
    <3> QED BY <1>3, <1>4, <3>2, <3>3
  <2> QED BY <2>1
<1>13. AllBlocks(h) = Elsewhere(h, m) \cup BlocksIn(m, f.minors)
  BY <1>2, <1>4, <1>10, BlocksSplit
<1>14. CASE rest = <<>>
  <2>1. PICK i \in 1 .. Len(l) : i = Position(m) /\ l[i] = m
    BY <1>1, <1>2, <1>10, PositionIs
  <2>2. PICK e : e = [size |-> 0, usage |-> 0, minors |-> <<>>]
    OBVIOUS
  <2>3. e \in Majors /\ e.minors = <<>>
    BY <2>2, NoMinors DEF Majors
  <2>4. Updated(h, g, l[i], e)
    BY <1>6, <1>9, <1>10, <1>14, <2>1, <2>2, Zenon DEF Updated
  <2>5. /\ ListsInv(RemoveAt(l, i), g, al - h[l[i]].size, iu - Bytes(h[l[i]].minors))
        /\ AllBlocks(g) = Elsewhere(h, l[i])
        /\ Among(RemoveAt(l, i)) = Among(l) \ {l[i]}
    <3>1. GivenBack(l, h, al, iu, i, g)
      BY <1>10, <2>1, <2>3, <2>4, HeapShrinks
    <3> QED BY <3>1, Zenon DEF GivenBack
  <2>6. /\ ListsInv(RemoveAt(l, i), g, al - f.size, iu - Bytes(f.minors))
        /\ AllBlocks(g) = Elsewhere(h, m) /\ Among(RemoveAt(l, i)) = Among(l) \ {m}
    BY <1>4, <1>10, <2>1, <2>5
  <2>7. Bytes(f.minors) = min.size
    <3>1. Bytes(rest) = 0
      BY <1>14, NoMinors
    <3> QED BY <1>8, <3>1
  <2>8. /\ majors' = RemoveAt(l, i) /\ l_allocated' = al - f.size /\ l_inuse' = iu - Bytes(f.minors)
    BY <1>6, <1>10, <1>14, <2>1, <2>7
  <2>9. ListsInv(majors', major', l_allocated', l_inuse') /\ Among(majors') = Among(majors) \ {m}
    BY <1>9, <1>10, <2>6, <2>8
  <2>10. AllBlocks(major') = AllBlocks(major) \ {b}
    <3>1. BlocksIn(m, f.minors) \subseteq {b}
      <4>1. BlocksIn(m, rest) = {}
        BY <1>2, <1>14, NoMinors
      <4> QED BY <1>8, <4>1
    <3>2. b \in BlocksIn(m, f.minors)
      BY <1>3, <1>4 DEF BlocksIn
    <3> QED BY <1>9, <1>10, <1>12, <1>13, <2>6, <3>1, <3>2
  <2>11. BetInv(majors', l_bestBet')
    <3>1. l_bestBet' = IF l_bestBet = m THEN NULL ELSE l_bestBet
      BY <1>6, <1>14 DEF BetWithout
    <3> QED BY <1>1, <2>9, <3>1 DEF BetInv
  <2>12. \A n \in Among(majors') : major'[n].minors # <<>>
    <3>1. ASSUME NEW n \in Among(majors') PROVE major'[n] = major[n] /\ n \in Among(majors)
      <4>1. n # m /\ n \in Among(majors) /\ n \in Ids
        BY <1>1, <2>9, <3>1
      <4>2. h \in [Ids -> Majors]
        BY <1>10 DEF ListsInv
      <4>3. g[n] = h[n]
        BY <2>1, <2>3, <2>4, <4>1, <4>2, UpdatedIs
      <4> QED BY <1>9, <1>10, <4>1, <4>3
    <3> QED BY <3>1
  <2> QED BY <1>6, <2>9, <2>10, <2>11, <2>12 DEF Released
<1>15. CASE rest # <<>>
  <2>1. Updated(h, g, m, r)
    <3>1. h \in [Ids -> Majors] /\ Removing(h, g, m, rest, usage)
      BY <1>1, <1>6, <1>9, <1>10, <1>15
    <3>2. Updated(h, g, m, [size |-> h[m].size, usage |-> usage, minors |-> rest])
      BY <3>1, RemovingIs
    <3>3. r = [size |-> h[m].size, usage |-> usage, minors |-> rest]
      BY <1>4, <1>5, <1>7, <1>10, Zenon DEF Emptied
    <3> QED BY <3>2, <3>3
  <2>2. /\ ListsInv(l, g, al, iu - Bytes(h[m].minors) + Bytes(r.minors))
        /\ AllBlocks(g) = Elsewhere(h, m) \cup BlocksIn(m, r.minors)
    <3>1. m \in Among(l) /\ r.size = h[m].size
      BY <1>2, <1>4, <1>8, <1>10
    <3> QED BY <1>8, <1>10, <2>1, <3>1, HeapChanges
  <2>3. iu - Bytes(h[m].minors) + Bytes(r.minors) = iu - min.size
    BY <1>4, <1>8, <1>10, <1>11
  <2>4. ListsInv(majors', major', l_allocated', l_inuse')
    BY <1>6, <1>9, <1>10, <1>15, <2>2, <2>3
  <2>5. AllBlocks(major') = AllBlocks(major) \ {b}
    BY <1>8, <1>9, <1>10, <1>12, <1>13, <2>2
  <2>6. BetInv(majors', l_bestBet')
    <3>1. l_bestBet' = m \/ l_bestBet' = l_bestBet
      BY <1>6, <1>15 DEF BetAfter
    <3> QED BY <1>1, <1>2, <1>6, <1>15, <3>1 DEF BetInv
  <2>7. \A n \in Among(majors') : major'[n].minors # <<>>
    <3>1. g[m] = r /\ \A n \in Ids : n # m => g[n] = h[n]
      <4>1. h \in [Ids -> Majors]
        BY <1>10 DEF ListsInv
      <4> QED BY <1>8, <2>1, <4>1, UpdatedIs
    <3>2. ASSUME NEW n \in Among(majors) PROVE g[n].minors # <<>>
      <4>1. CASE n = m
        BY <1>8, <1>15, <3>1, <4>1
      <4>2. CASE n # m
        <5>1. n \in Ids
          BY <1>1
        <5>2. g[n] = major[n]
          BY <1>10, <3>1, <4>2, <5>1
        <5> QED BY <5>2
      <4> QED BY <4>1, <4>2
    <3> QED BY <1>6, <1>9, <1>15, <3>2
  <2> QED BY <1>6, <2>4, <2>5, <2>6, <2>7 DEF Released
<1> QED BY <1>14, <1>15

\* One pointer is one block.
LEMMA SameBlock ==
  ASSUME HeapInv, NEW b \in AllBlocks(major)
  PROVE  \A c \in AllBlocks(major) : c.ptr = b.ptr => c = b
<1>1. PICK l, h, al, iu : /\ h = major /\ ListsInv(l, h, al, iu)
  BY DEF HeapInv
<1>2. \A c \in AllBlocks(h) : c.ptr = b.ptr => c = b
  BY <1>1, BlocksUnique
<1> QED BY <1>1, <1>2

\* No major is empty but the one malloc looks at.
LEMMA NoneEmpty ==
  ASSUME HeapInv, call \notin Mallocs
  PROVE  \A m \in Among(majors) : major[m].minors # <<>>
BY DEF HeapInv, EmptyInv

\* free takes the block of its caller and no other.
LEMMA FreeStep ==
  ASSUME HeapInv, NEW b \in held, free(b)
  PROVE  HeapInv' /\ Loses(AllBlocks(major), AllBlocks(major)')
<1>1. call = Idle /\ Release(b.ptr) /\ call' = call
  BY DEF free
<1>2. held = AllBlocks(major) /\ b \in AllBlocks(major)
  BY <1>1, IdleHolds
<1>3. \A m \in Among(majors) : major[m].minors # <<>>
  BY <1>1, Kinds, NoneEmpty
<1>4. Released(b)
  BY <1>1, <1>2, <1>3, ReleaseIs
<1>5. /\ ListsInv(majors', major', l_allocated', l_inuse')
      /\ BetInv(majors', l_bestBet')
      /\ AllBlocks(major') = AllBlocks(major) \ {b}
      /\ \A m \in Among(majors') : major'[m].minors # <<>>
      /\ held' = {c \in held : c.ptr # b.ptr}
  BY <1>4, Zenon DEF Released
<1>6. PICK bs : bs = AllBlocks(major) /\ \A c \in bs : c.ptr = b.ptr => c = b
  BY <1>2, SameBlock
<1>7. Holds(held', AllBlocks(major'), NULL)
  <2>1. PICK h : h = held
    OBVIOUS
  <2>2. Holds({c \in h : c.ptr # b.ptr}, bs \ {b}, NULL)
    BY <1>2, <1>6, <2>1, HoldsLess
  <2> QED BY <1>5, <1>6, <2>1, <2>2
<1>8. CallInv(majors', major', call') /\ EmptyInv(majors', major', call')
  BY <1>1, <1>5 DEF CallInv, EmptyInv
<1>9. OldOf(call') = NULL
  BY <1>1 DEF OldOf
<1> QED BY <1>2, <1>5, <1>7, <1>8, <1>9 DEF HeapInv, Loses

\* realloc frees the block it has copied and no other.
LEMMA FreeOldStep ==
  ASSUME HeapInv, FreeOld
  PROVE  HeapInv' /\ Loses(AllBlocks(major), AllBlocks(major)')
<1>1. call \in Releases /\ call.ptr # NULL /\ Release(call.ptr) /\ call' = Idle
  BY CallIs DEF HeapInv, FreeOld, DropOld
<1>2. OldOf(call) = call.ptr
  BY <1>1, Kinds DEF OldOf
<1>3. PICK b \in AllBlocks(major) : b.ptr = call.ptr /\ held = AllBlocks(major) \ {b}
  BY <1>1, <1>2 DEF HeapInv, Holds
<1>4. \A m \in Among(majors) : major[m].minors # <<>>
  BY <1>1, Kinds, NoneEmpty
<1>5. Released(b)
  BY <1>1, <1>3, <1>4, ReleaseIs
<1>6. /\ ListsInv(majors', major', l_allocated', l_inuse')
      /\ BetInv(majors', l_bestBet')
      /\ AllBlocks(major') = AllBlocks(major) \ {b}
      /\ \A m \in Among(majors') : major'[m].minors # <<>>
      /\ held' = {c \in held : c.ptr # b.ptr}
  BY <1>5, Zenon DEF Released
<1>7. PICK bs : bs = AllBlocks(major) /\ \A c \in bs : c.ptr = b.ptr => c = b
  BY <1>3, SameBlock
<1>8. Holds(held', AllBlocks(major'), NULL)
  <2>1. PICK h : h = held
    OBVIOUS
  <2>2. Holds({c \in h : c.ptr # b.ptr}, bs \ {b}, NULL)
    BY <1>3, <1>7, <2>1, HoldsLess
  <2> QED BY <1>6, <1>7, <2>1, <2>2
<1>9. CallInv(majors', major', call') /\ EmptyInv(majors', major', call')
  BY <1>1, <1>6 DEF CallInv, EmptyInv
<1>10. OldOf(call') = NULL
  BY <1>1 DEF OldOf
<1> QED BY <1>3, <1>6, <1>8, <1>9, <1>10 DEF HeapInv, Loses

\* What a search remembers on its way.
LEMMA RememberIs ==
  ASSUME HeapInv, call \in Mallocs, call.maj \in Among(majors), Remember
  PROVE  /\ l_bestBet' \in Among(majors) \cup {NULL}
         /\ BestSize \in Int
<1>1. /\ l_bestBet \in Among(majors) \cup {NULL} /\ Among(majors) \subseteq Ids
      /\ \A m \in Ids : major[m].size \in Nat /\ major[m].usage \in Int
  BY InvFacts
<1>2. l_bestBet' = call.maj \/ l_bestBet' = l_bestBet
  BY DEF Remember
<1>3. call.bestSize \in Int
  BY DEF Mallocs
<1>4. Room(call.maj) \in Int
  BY <1>1 DEF Room
<1> QED BY <1>1, <1>2, <1>3, <1>4 DEF BestSize

Moved(c, m, b) == [c EXCEPT !.maj = m, !.bestSize = b]
Restarted(c, m, b) == [c EXCEPT !.maj = m, !.startedBet = FALSE, !.bestSize = b]

\* The search goes on at another major,
LEMMA MovedIs ==
  ASSUME NEW c \in Mallocs, NEW m \in Ids, NEW b \in Int, NEW d, d = Moved(c, m, b)
  PROVE  /\ d \in Mallocs /\ d.maj = m /\ d.req = c.req
         /\ d.startedBet = c.startedBet /\ OldOf(d) = OldOf(c)
<1>1. PICK e : e = [c EXCEPT !.maj = m]
  OBVIOUS
<1>2. e \in Mallocs /\ e.maj = m /\ e.req = c.req /\ e.startedBet = c.startedBet /\ e.old = c.old
  BY <1>1 DEF Mallocs
<1>3. d = [e EXCEPT !.bestSize = b]
  BY <1>1, Zenon DEF Moved
<1>4. /\ d \in Mallocs /\ d.maj = m /\ d.req = c.req /\ d.startedBet = c.startedBet
      /\ d.old = c.old
  BY <1>2, <1>3 DEF Mallocs
<1>5. OldOf(d) = OldOf(c)
  BY <1>4, Kinds DEF OldOf
<1> QED BY <1>4, <1>5

\* or from the root, once.
LEMMA RestartedIs ==
  ASSUME NEW c \in Mallocs, NEW m \in Ids, NEW b \in Int, NEW d, d = Restarted(c, m, b)
  PROVE  d \in Mallocs /\ d.maj = m /\ d.req = c.req /\ OldOf(d) = OldOf(c)
<1>1. PICK e : e = [c EXCEPT !.maj = m]
  OBVIOUS
<1>2. e \in Mallocs /\ e.maj = m /\ e.req = c.req /\ e.old = c.old
  BY <1>1 DEF Mallocs
<1>3. PICK g : g = [e EXCEPT !.startedBet = FALSE]
  OBVIOUS
<1>4. g \in Mallocs /\ g.maj = m /\ g.req = c.req /\ g.old = c.old
  BY <1>2, <1>3 DEF Mallocs
<1>5. d = [g EXCEPT !.bestSize = b]
  BY <1>1, <1>3, Zenon DEF Restarted
<1>6. d \in Mallocs /\ d.maj = m /\ d.req = c.req /\ d.old = c.old
  BY <1>4, <1>5 DEF Mallocs
<1>7. OldOf(d) = OldOf(c)
  BY <1>6, Kinds DEF OldOf
<1> QED BY <1>6, <1>7

\* The search goes on: what it leaves behind has no gap.
LEMMA NextMajorStep ==
  ASSUME HeapInv, NextMajor
  PROVE  HeapInv' /\ AllBlocks(major)' = AllBlocks(major) /\ call'.kind = "malloc"
<1>1. /\ Visiting /\ ~CanPlace /\ ~IsLast(call.maj) /\ Remember
      /\ call' = Moved(call, After(call.maj), BestSize)
      /\ UNCHANGED <<majors, major, l_allocated, l_inuse, held>>
  BY Zenon DEF NextMajor, Moved
<1>2. /\ call \in Mallocs /\ call.req \in Requests /\ call.maj \in Among(majors)
      /\ NoGap(major, call.maj, call.req)
      /\ \A m \in Among(majors) : major[m].minors # <<>>
  BY <1>1, CannotPlace
<1>3. Distinct(majors) /\ Among(majors) \subseteq Ids
  BY InvFacts
<1>4. PICK c, l, f : c = call /\ l = majors /\ f = major
  OBVIOUS
<1>5. PICK p \in 1 .. Len(l) : /\ p = Position(c.maj) /\ l[p] = c.maj
  BY <1>2, <1>3, <1>4, PositionIs
<1>6. p + 1 \in 1 .. Len(l) /\ After(c.maj) = l[p + 1] /\ After(c.maj) \in Among(l)
  <2>1. PICK m \in Among(majors) : m = call.maj
    BY <1>2
  <2>2. ~IsLast(m)
    BY <1>1, <2>1
  <2>3. /\ Position(m) + 1 \in 1 .. Len(majors)
        /\ After(m) = majors[Position(m) + 1] /\ After(m) \in Among(majors)
    BY <1>3, <2>1, <2>2, LastIs
  <2> QED BY <1>4, <1>5, <2>1, <2>3
<1>7. l_bestBet' \in Among(majors) \cup {NULL} /\ BestSize \in Int
  BY <1>1, <1>2, RememberIs
<1>8. PICK n \in Ids : n = After(c.maj) /\ n \in Among(l) /\ n = l[p + 1]
  BY <1>3, <1>4, <1>6
<1>9. PICK b \in Int : b = BestSize
  BY <1>7
<1>10. PICK d : d = Moved(c, n, b)
  OBVIOUS
<1>11. call' = d
  BY <1>1, <1>4, <1>8, <1>9, <1>10, Zenon
<1>12. /\ d \in Mallocs /\ d.maj = n /\ d.req = c.req
       /\ d.startedBet = c.startedBet /\ OldOf(d) = OldOf(c)
  BY <1>2, <1>4, <1>8, <1>9, <1>10, MovedIs
<1>13. ASSUME d.startedBet = FALSE PROVE Searched(l, f, d)
  <2>1. Searched(l, f, c)
    BY <1>1, <1>4, <1>12, <1>13, CallIs DEF HeapInv, Visiting
  <2>2. ASSUME NEW i \in 1 .. Len(l), NEW j \in 1 .. Len(l), i < j, l[j] = d.maj
        PROVE  NoGap(f, l[i], d.req)
    <3>1. j = p + 1
      BY <1>3, <1>4, <1>6, <1>8, <1>12, <2>2 DEF Distinct
    <3>2. i < p \/ i = p
      BY <2>2, <3>1
    <3>3. CASE i < p
      BY <1>5, <1>12, <2>1, <3>3 DEF Searched
    <3>4. CASE i = p
      BY <1>2, <1>4, <1>5, <1>12, <3>4
    <3> QED BY <3>2, <3>3, <3>4
  <2> QED BY <2>2 DEF Searched
<1>14. CallInv(l, f, d)
  BY <1>8, <1>12, <1>13 DEF CallInv
<1>15. EmptyInv(l, f, d)
  BY <1>2, <1>4 DEF EmptyInv
<1>16. majors' = l /\ major' = f
  BY <1>1, <1>4
<1>17. call'.kind = "malloc"
  BY <1>11, <1>12, Kinds
<1> QED BY <1>1, <1>4, <1>7, <1>11, <1>12, <1>14, <1>15, <1>16, <1>17 DEF HeapInv, BetInv

\* The search starts again at the root.
LEMMA RestartStep ==
  ASSUME HeapInv, RestartAtRoot
  PROVE  HeapInv' /\ AllBlocks(major)' = AllBlocks(major) /\ call'.kind = "malloc"
<1>1. /\ Visiting /\ ~CanPlace /\ Remember
      /\ call' = Restarted(call, Root, BestSize)
      /\ UNCHANGED <<majors, major, l_allocated, l_inuse, held>>
  BY Zenon DEF RestartAtRoot, Restarts, Restarted
<1>2. /\ call \in Mallocs /\ call.req \in Requests /\ call.maj \in Among(majors)
      /\ \A m \in Among(majors) : major[m].minors # <<>>
  BY <1>1, CannotPlace
<1>3. Distinct(majors) /\ Among(majors) \subseteq Ids
  BY InvFacts
<1>4. PICK c, l, f : c = call /\ l = majors /\ f = major
  OBVIOUS
<1>5. 1 \in 1 .. Len(majors) /\ Root = majors[1]
  <2>1. PICK m \in Among(majors) : TRUE
    BY <1>2
  <2> QED BY <1>3, <2>1, LastIs
<1>6. PICK n \in Ids : n = Root /\ n \in Among(l) /\ n = l[1]
  BY <1>3, <1>4, <1>5 DEF Among
<1>7. l_bestBet' \in Among(majors) \cup {NULL} /\ BestSize \in Int
  BY <1>1, <1>2, RememberIs
<1>8. PICK b \in Int : b = BestSize
  BY <1>7
<1>9. PICK d : d = Restarted(c, n, b)
  OBVIOUS
<1>10. call' = d
  BY <1>1, <1>4, <1>6, <1>8, <1>9, Zenon
<1>11. d \in Mallocs /\ d.maj = n /\ d.req = c.req /\ OldOf(d) = OldOf(c)
  BY <1>2, <1>4, <1>6, <1>8, <1>9, RestartedIs
<1>12. Searched(l, f, d)
  BY <1>3, <1>4, <1>6, <1>11, SearchedFromRoot
<1>13. CallInv(l, f, d)
  BY <1>6, <1>11, <1>12 DEF CallInv
<1>14. EmptyInv(l, f, d)
  BY <1>2, <1>4 DEF EmptyInv
<1>15. majors' = l /\ major' = f
  BY <1>1, <1>4
<1>16. call'.kind = "malloc"
  BY <1>10, <1>11, Kinds
<1> QED BY <1>1, <1>4, <1>7, <1>10, <1>11, <1>13, <1>14, <1>15, <1>16 DEF HeapInv, BetInv

\* The list grows, and the search goes on in the new major.
LEMMA GrowAndVisitStep ==
  ASSUME HeapInv, GrowAndVisit
  PROVE  HeapInv' /\ AllBlocks(major)' = AllBlocks(major)
<1>1. /\ AtTheEnd /\ Visiting /\ ~CanPlace /\ Remember /\ NewMajor(call.req, <<>>, MajorHeader)
      /\ call' = Moved(call, NewId, BestSize)
      /\ UNCHANGED <<l_inuse, held>>
  BY Zenon DEF GrowAndVisit, AtTheEnd, Moved
<1>2. /\ call \in Mallocs /\ call.req \in Requests /\ call.maj \in Among(majors)
      /\ \A m \in Among(majors) : major[m].minors # <<>>
  BY <1>1, CannotPlace
<1>3. Distinct(majors) /\ Among(majors) \subseteq Ids /\ majors \in Seq(Ids)
  BY InvFacts
<1>4. \A m \in Among(majors) : NoGap(major, m, call.req)
  BY <1>1, AllSearched
<1>5. PICK req \in Requests : req = call.req
  BY <1>2
<1>6. PICK n : GrewBy(n, req)
  BY <1>1, <1>5, GrowsEmpty
<1>7. /\ n = NewId /\ n \in Ids /\ n \notin Among(majors)
      /\ majors' = Append(majors, n) /\ Among(majors') = Among(majors) \cup {n}
      /\ Len(majors') = Len(majors) + 1 /\ Distinct(majors')
      /\ ListsInv(majors', major', l_allocated', l_inuse')
      /\ AllBlocks(major') = AllBlocks(major)
      /\ major'[n].minors = <<>> /\ major'[n].size - major'[n].usage >= Needed(req)
      /\ \A k \in Ids : k # n => major'[k] = major[k]
  BY <1>6, Zenon DEF GrewBy
<1>8. l_bestBet' \in Among(majors) \cup {NULL} /\ BestSize \in Int
  BY <1>1, <1>2, RememberIs
<1>9. PICK c, l, f, l2, f2 : /\ c = call /\ l = majors /\ f = major
                             /\ l2 = majors' /\ f2 = major'
  OBVIOUS
<1>10. PICK b \in Int : b = BestSize
  BY <1>8
<1>11. PICK d : d = Moved(c, n, b)
  OBVIOUS
<1>12. call' = d
  BY <1>1, <1>7, <1>9, <1>10, <1>11, Zenon
<1>13. /\ d \in Mallocs /\ d.maj = n /\ d.req = c.req
       /\ d.startedBet = c.startedBet /\ OldOf(d) = OldOf(c)
  BY <1>2, <1>7, <1>9, <1>10, <1>11, MovedIs
<1>14. Searched(l2, f2, d)
  <2>1. ASSUME NEW i \in 1 .. Len(l2), NEW j \in 1 .. Len(l2), i < j, l2[j] = d.maj
        PROVE  NoGap(f2, l2[i], d.req)
    <3>1. PICK q \in Nat : q = Len(l) /\ Len(l2) = q + 1 /\ l2 = Append(l, n)
      BY <1>3, <1>7, <1>9
    <3>2. i \in 1 .. q
      BY <2>1, <3>1
    <3>3. l2[i] = l[i] /\ l[i] \in Among(l) /\ l[i] \in Ids
      BY <1>3, <1>7, <1>9, <3>1, <3>2 DEF Among
    <3>4. PICK m \in Ids : m = l[i] /\ m \in Among(l) /\ m # n
      BY <1>7, <1>9, <3>3
    <3>5. f2[m] = f[m] /\ NoGap(f, m, d.req)
      BY <1>4, <1>7, <1>9, <1>13, <3>4
    <3>6. NoGap(f2, m, d.req)
      BY <3>5 DEF NoGap
    <3> QED BY <3>3, <3>4, <3>6
  <2> QED BY <2>1 DEF Searched
<1>15. CallInv(l2, f2, d)
  BY <1>7, <1>9, <1>13, <1>14 DEF CallInv
<1>16. EmptyInv(l2, f2, d)
  <2>1. ASSUME NEW m \in Among(l2), f2[m].minors = <<>>
        PROVE  d.maj = m /\ f2[m].size - f2[m].usage >= Needed(d.req)
    <3>1. CASE m = n
      BY <1>5, <1>7, <1>9, <1>13, <3>1
    <3>2. CASE m # n
      <4>1. m \in Among(majors) /\ m \in Ids
        BY <1>3, <1>7, <1>9, <3>2
      <4>2. f2[m] = f[m]
        BY <1>7, <1>9, <3>2, <4>1
      <4> QED BY <1>2, <1>9, <2>1, <4>1, <4>2
    <3> QED BY <3>1, <3>2
  <2> QED BY <1>13, <2>1 DEF EmptyInv
<1>17. Holds(held', AllBlocks(major'), OldOf(call'))
  BY <1>1, <1>7, <1>9, <1>12, <1>13 DEF HeapInv
<1>18. BetInv(majors', l_bestBet')
  BY <1>7, <1>8 DEF BetInv
<1> QED BY <1>7, <1>9, <1>12, <1>15, <1>16, <1>17, <1>18 DEF HeapInv

\* There are no pages: the call returns NULL.
LEMMA GrowFailsStep ==
  ASSUME HeapInv, GrowFails
  PROVE  HeapInv' /\ AllBlocks(major)' = AllBlocks(major)
<1>1. /\ Visiting /\ ~CanPlace /\ Remember /\ Return(NULL) /\ NULL \in Nat
      /\ UNCHANGED <<majors, major, l_allocated, l_inuse>>
  BY DEF GrowFails, AtTheEnd, NULL
<1>2. /\ call \in Mallocs /\ call.maj \in Among(majors)
      /\ \A m \in Among(majors) : major[m].minors # <<>>
  BY <1>1, CannotPlace
<1>3. l_bestBet' \in Among(majors) \cup {NULL}
  BY <1>1, <1>2, RememberIs
<1>4. /\ OldOf(call') = OldOf(call) /\ held' = held
      /\ call' = Idle \/ (call' \in Releases /\ call'.ptr # NULL)
  BY <1>1, <1>2, ReturnIs
<1>5. CallInv(majors', major', call') /\ EmptyInv(majors', major', call')
  <2>1. PICK l, f, c : l = majors' /\ f = major' /\ c = call'
    OBVIOUS
  <2>2. c = Idle \/ (c \in Releases /\ c.ptr # NULL)
    BY <1>4, <2>1
  <2>3. \A m \in Among(l) : f[m].minors # <<>>
    BY <1>1, <1>2, <2>1
  <2> QED BY <2>1, <2>2, <2>3, QuietInv
<1> QED BY <1>1, <1>3, <1>4, <1>5 DEF HeapInv, BetInv

\* A block that is made smaller stays where it is.
Shrunk(bs, bs2, b, req) == bs2 = (bs \ {b}) \cup {[b EXCEPT !.size = req]}

\* A block that is large enough stays, with its new size noted.
LEMMA ShrinkIs ==
  ASSUME HeapInv, NEW b \in AllBlocks(major), NEW req \in Requests, req <= b.size,
         Noting(major, major', MajorOf(b.ptr), PlaceOf(b.ptr), req),
         UNCHANGED <<majors, l_allocated, l_inuse>>
  PROVE  /\ ListsInv(majors', major', l_allocated', l_inuse')
         /\ Shrunk(AllBlocks(major), AllBlocks(major'), b, req)
         /\ (\A m \in Among(majors) : major[m].minors # <<>>)
              => \A m \in Among(majors') : major'[m].minors # <<>>
<1>1. /\ Distinct(majors) /\ major \in [Ids -> Majors] /\ Among(majors) \subseteq Ids
  BY InvFacts
<1>2. PICK m \in Ids : m = MajorOf(b.ptr) /\ m \in Among(majors)
  BY PlaceIs DEF HeapInv
<1>3. PICK k \in 1 .. Len(major[m].minors) :
         k = PlaceOf(b.ptr) /\ b = Block(m, major[m].minors[k])
  BY <1>2, PlaceIs DEF HeapInv
<1>4. PICK f \in Majors : f = major[m] /\ MajorOk(m, f)
  BY <1>2, InvFacts
<1>5. PICK h, g, l, al, iu : /\ h = major /\ g = major' /\ l = majors
                             /\ al = l_allocated /\ iu = l_inuse /\ ListsInv(l, h, al, iu)
  BY DEF HeapInv
<1>6. Noting(h, g, m, k, req) /\ h \in [Ids -> Majors] /\ f = h[m]
  BY <1>1, <1>2, <1>3, <1>4, <1>5
<1>7. PICK r : r = Renoted(f, k, req)
  OBVIOUS
<1>8. Updated(h, g, m, r)
  BY <1>6, <1>7, NotingIs
<1>9. /\ b = Block(m, f.minors[k]) /\ k \in 1 .. Len(f.minors)
      /\ b = [ptr |-> Ptr(m, f.minors[k]), size |-> f.minors[k].req]
  BY <1>3, <1>4 DEF Block
<1>10. /\ r \in Majors /\ MajorOk(m, r)
       /\ r.size = f.size /\ Len(r.minors) = Len(f.minors)
       /\ BlocksIn(m, r.minors) = (BlocksIn(m, f.minors) \ {b})
                                    \cup {[ptr |-> Ptr(m, f.minors[k]), size |-> req]}
       /\ Bytes(r.minors) = Bytes(f.minors) /\ Bytes(f.minors) \in Int
  <2>1. req <= f.minors[k].req
    BY <1>9
  <2>2. /\ r \in Majors /\ MajorOk(m, r)
        /\ r.size = f.size /\ Len(r.minors) = Len(f.minors)
        /\ BlocksIn(m, r.minors) = (BlocksIn(m, f.minors) \ {Block(m, f.minors[k])})
                                     \cup {[ptr |-> Ptr(m, f.minors[k]), size |-> req]}
        /\ Bytes(r.minors) = Bytes(f.minors) /\ Bytes(f.minors) \in Int
    <3>1. k \in 1 .. Len(f.minors)
      BY <1>9
    <3>2. f \in Majors /\ MajorOk(m, f) /\ m \in Ids /\ req \in Requests
      BY <1>4
    <3> QED BY ONLY <1>7, <2>1, <3>1, <3>2, RenotedOk
  <2> QED BY <1>9, <2>2
<1>11. [ptr |-> Ptr(m, f.minors[k]), size |-> req] = [b EXCEPT !.size = req]
  BY <1>9
<1>12. /\ ListsInv(l, g, al, iu - Bytes(h[m].minors) + Bytes(r.minors))
       /\ AllBlocks(h) = Elsewhere(h, m) \cup BlocksIn(m, h[m].minors)
       /\ AllBlocks(g) = Elsewhere(h, m) \cup BlocksIn(m, r.minors)
  <2>1. m \in Among(l) /\ r.size = h[m].size
    BY <1>2, <1>5, <1>6, <1>10
  <2> QED BY <1>5, <1>8, <1>10, <2>1, HeapChanges
<1>13. iu - Bytes(h[m].minors) + Bytes(r.minors) = iu
  BY <1>5, <1>6, <1>10, TotalsAre
<1>14. b \notin Elsewhere(h, m)
  <2>1. ASSUME b \in Elsewhere(h, m) PROVE FALSE
    <3>1. WellMade(m, f.minors[k]) /\ End(f.minors[k]) <= f.size /\ f.size <= Stride * PageSize
      BY <1>4, <1>9 DEF MajorOk, Placed
    <3>2. PICK x : x = f.minors[k] /\ WellMade(m, x) /\ b = Block(m, x)
      BY <1>9, <3>1
    <3>3. End(x) \in Nat /\ f.size \in Nat /\ Stride * PageSize \in Nat
      BY <3>2, MinorTypes, Headers DEF Majors
    <3>4. End(x) <= Stride * PageSize
      BY <3>1, <3>2, <3>3
    <3>5. BlockBytes(b) \cap BlockBytes(b) = {}
      BY <1>5, <2>1, <3>2, <3>4, ApartElsewhere
    <3>6. b.ptr \in BlockBytes(b)
      BY <3>2, BlockHasPtr
    <3> QED BY <3>5, <3>6
  <2> QED BY <2>1
<1>15. Shrunk(AllBlocks(h), AllBlocks(g), b, req)
  <2>1. h[m].minors = f.minors
    BY <1>6
  <2> QED BY <1>10, <1>11, <1>12, <1>14, <2>1 DEF Shrunk
<1>16. ASSUME NEW n \in Among(l), h[n].minors # <<>> PROVE g[n].minors # <<>>
  <2>1. g[m] = r /\ \A i \in Ids : i # m => g[i] = h[i]
    BY <1>6, <1>8, <1>10, UpdatedIs
  <2>2. CASE n = m
    <3>1. Len(f.minors) # 0
      BY <1>9
    <3>2. Len(r.minors) # 0
      BY <1>10, <3>1
    <3> QED BY <2>1, <2>2, <3>2
  <2>3. CASE n # m
    BY <1>1, <1>5, <1>16, <2>1, <2>3
  <2> QED BY <2>2, <2>3
<1> QED BY <1>5, <1>12, <1>13, <1>15, <1>16

\* realloc shrinks the block in its place, or begins to look for another.
LEMMA ReallocStep ==
  ASSUME HeapInv, NEW b \in held, NEW req \in Requests, realloc(b, req)
  PROVE  /\ HeapInv'
         /\ \/ AllBlocks(major)' = AllBlocks(major)
            \/ Smaller(AllBlocks(major), AllBlocks(major)')
<1>1. /\ call = Idle /\ UNCHANGED <<majors, l_bestBet, l_allocated, l_inuse>>
      /\ b.size >= req =>
           /\ Noting(major, major', MajorOf(b.ptr), PlaceOf(b.ptr), req)
           /\ held' = (held \ {b}) \cup {[b EXCEPT !.size = req]}
           /\ UNCHANGED call
      /\ ~(b.size >= req) => BeginCall(req, b.ptr) /\ held' = held \ {b} /\ UNCHANGED major
  BY Zenon DEF realloc, Noting
<1>2. held = AllBlocks(major) /\ b \in AllBlocks(major)
  BY <1>1, IdleHolds
<1>3. \A m \in Among(majors) : major[m].minors # <<>>
  BY <1>1, Kinds, NoneEmpty
<1>4. /\ b.ptr \in Nat /\ b.ptr # NULL /\ b.size \in Nat
      /\ b = [ptr |-> b.ptr, size |-> b.size]
  <2>1. PICK l, f, al, iu : f = major /\ ListsInv(l, f, al, iu)
    BY DEF HeapInv
  <2>2. PICK m \in Among(l) : \E j \in 1 .. Len(f[m].minors) :
           m \in Ids /\ b = Block(m, f[m].minors[j]) /\ WellMade(m, f[m].minors[j])
    BY <1>2, <2>1, BlocksKnown
  <2>3. PICK j \in 1 .. Len(f[m].minors) :
           m \in Ids /\ b = Block(m, f[m].minors[j]) /\ WellMade(m, f[m].minors[j])
    BY <2>2
  <2>4. PICK x : x = f[m].minors[j] /\ b = Block(m, x) /\ WellMade(m, x) /\ m \in Ids
    BY <2>3
  <2>5. b.ptr = Ptr(m, x) /\ b.size = x.req /\ b = [ptr |-> b.ptr, size |-> b.size]
    BY <2>4 DEF Block
  <2> QED BY <2>4, <2>5, BlockHasPtr, MinorTypes
<1>5. CASE b.size >= req
  <2>1. req \in Nat
    BY Headers
  <2>2. req <= b.size
    BY <1>4, <1>5, <2>1
  <2>3. Noting(major, major', MajorOf(b.ptr), PlaceOf(b.ptr), req)
    BY <1>1, <1>5
  <2>4. /\ ListsInv(majors', major', l_allocated', l_inuse')
        /\ Shrunk(AllBlocks(major), AllBlocks(major'), b, req)
        /\ \A m \in Among(majors') : major'[m].minors # <<>>
    BY <1>1, <1>2, <1>3, <2>2, <2>3, ShrinkIs
  <2>5. held' = AllBlocks(major')
    BY <1>1, <1>2, <1>5, <2>4 DEF Shrunk
  <2>6. call' = Idle
    BY <1>1, <1>5
  <2>7. CallInv(majors', major', call') /\ EmptyInv(majors', major', call')
    BY <2>4, <2>6 DEF CallInv, EmptyInv
  <2>8. Holds(held', AllBlocks(major'), OldOf(call'))
    BY <2>5, <2>6 DEF Holds, OldOf
  <2>9. HeapInv'
    BY <1>1, <2>4, <2>7, <2>8 DEF HeapInv
  <2>10. CASE req = b.size
    <3>1. [b EXCEPT !.size = req] = b
      BY <1>4, <2>10
    <3>2. AllBlocks(major') = AllBlocks(major)
      BY <1>2, <2>4, <3>1 DEF Shrunk
    <3> QED BY <2>9, <3>2
  <2>11. CASE req # b.size
    <3>1. req < b.size
      BY <1>4, <2>1, <2>2, <2>11
    <3>2. Smaller(AllBlocks(major), AllBlocks(major'))
      BY <1>2, <2>4, <3>1 DEF Shrunk, Smaller
    <3> QED BY <2>9, <3>2
  <2> QED BY <2>10, <2>11
<1>6. CASE ~(b.size >= req)
  <2>1. BeginCall(req, b.ptr) /\ held' = held \ {b} /\ UNCHANGED <<majors, major>>
    BY <1>1, <1>6
  <2>2. PICK old \in Nat : old = b.ptr
    BY <1>4
  <2>3. BeginCall(req, old)
    BY <2>1, <2>2
  <2>4. CallInv(majors', major', call') /\ EmptyInv(majors', major', call') /\ OldOf(call') = old
    BY <1>1, <2>1, <2>3, BeginIs
  <2>5. Holds(held', AllBlocks(major'), OldOf(call'))
    BY <1>2, <1>4, <2>1, <2>2, <2>4 DEF Holds
  <2> QED BY <1>1, <2>1, <2>4, <2>5 DEF HeapInv
<1> QED BY <1>5, <1>6

\* The gap the source chooses.
LEMMA FirstGapIs ==
  ASSUME HeapInv, Visiting, CanPlace, NEW m \in Ids, m = call.maj, NEW req, req = call.req
  PROVE  /\ FirstGap \in 0 .. Len(major[m].minors)
         /\ GapStart(m, FirstGap) = From(major[m].minors, FirstGap)
         /\ From(major[m].minors, FirstGap) + Needed(req)
              <= To(major[m].minors, major[m].size, FirstGap)
<1>1. /\ call \in Mallocs /\ m \in Among(majors) /\ req \in Requests
  BY CallIs DEF HeapInv, Visiting, Mallocs
<1>2. /\ MajorOk(m, major[m]) /\ major \in [Ids -> Majors] /\ major[m] \in Majors
      /\ major[m].minors \in Seq(Minors) /\ Len(major[m].minors) \in Nat
      /\ major[m].size \in Nat /\ major[m].usage \in Int
  <2>1. MajorOk(m, major[m]) /\ major \in [Ids -> Majors]
    BY <1>1, InvFacts
  <2> QED BY <2>1 DEF Majors
<1>3. PICK s \in Seq(Minors) : s = major[m].minors /\ Len(s) \in Nat
  BY <1>2
<1>4. \A k \in 0 .. Len(s) :
        /\ GapStart(m, k) = From(s, k)
        /\ GapFits(m, k, req) <=> From(s, k) + Needed(req) <= To(s, major[m].size, k)
  <2>1. ASSUME NEW k \in 0 .. Len(s)
        PROVE /\ GapStart(m, k) = From(s, k)
              /\ GapFits(m, k, req) <=> From(s, k) + Needed(req) <= To(s, major[m].size, k)
    BY <1>1, <1>2, <1>3, GapsAre
  <2> QED BY <2>1
<1>5. FirstGap \in 0 .. Len(s) /\ GapFits(m, FirstGap, req)
  <2>1. CASE IsEmpty
    <3>1. FirstGap = 0 /\ s = <<>>
      BY <1>3, <2>1 DEF FirstGap, IsEmpty
    <3>2. Len(s) = 0
      BY <3>1
    <3>3. /\ major[m].size - major[m].usage >= Needed(req)
          /\ major[m].usage = MajorHeader + Feet(s)
      BY <1>2, <1>3 DEF CanPlace, Fits, Room, MajorOk
    <3>4. Feet(s) = 0 /\ Needed(req) \in Nat
      BY <1>1, <3>1, NoMinors, PagesEnough
    <3>5. MajorHeader + Needed(req) <= major[m].size
      BY <1>2, <3>3, <3>4, Headers
    <3>6. From(s, 0) = MajorHeader /\ To(s, major[m].size, 0) = major[m].size
      BY <3>2 DEF From, To
    <3>7. 0 \in 0 .. Len(s)
      BY <3>2
    <3> QED BY <1>4, <3>1, <3>5, <3>6, <3>7
  <2>2. CASE ~IsEmpty
    <3>1. HasGap(m, req)
      BY <2>2 DEF CanPlace
    <3>2. PICK G : G = {k \in 0 .. Len(s) : GapFits(m, k, req)}
      OBVIOUS
    <3>3. G \in SUBSET Nat /\ \E k \in G : TRUE
      BY <1>3, <3>1, <3>2 DEF HasGap
    <3>4. PICK k \in G : \A j \in G : k <= j
      BY <3>3, LeastNatural
    <3>5. \A j \in 0 .. k - 1 : ~GapFits(m, j, req)
      <4>1. ASSUME NEW j \in 0 .. k - 1, GapFits(m, j, req) PROVE FALSE
        <5>1. j \in G
          BY <1>3, <3>2, <4>1
        <5> QED BY <3>3, <3>4, <4>1, <5>1
      <4> QED BY <4>1
    <3>6. k \in 0 .. Len(s) /\ GapFits(m, k, req)
      BY <3>2
    <3>7. PICK q : q = FirstGap
      OBVIOUS
    <3>8. q = CHOOSE i \in 0 .. Len(s) :
               GapFits(m, i, req) /\ \A j \in 0 .. i - 1 : ~GapFits(m, j, req)
      BY <1>3, <2>2, <3>7, Zenon DEF FirstGap
    <3>9. q \in 0 .. Len(s) /\ GapFits(m, q, req)
      BY <3>5, <3>6, <3>8, Zenon
    <3> QED BY <3>7, <3>9
  <2> QED BY <2>1, <2>2
<1> QED BY <1>3, <1>4, <1>5

\* The block a call has found joins those in use.
LEMMA GainsBlock ==
  ASSUME NEW bs, NEW bs2, NEW x, Promised(bs, x), bs2 = bs \cup {x}
  PROVE  Gains(bs, bs2)
BY Zenon DEF Gains

\* The block that is returned is held.
LEMMA ReturnHolds ==
  ASSUME NEW h, NEW bs, NEW old, Holds(h, bs, old), NEW x, x \notin bs,
         NEW h2, h2 = h \cup {x}, NEW bs2, bs2 = bs \cup {x}
  PROVE  Holds(h2, bs2, old)
BY HoldsMore

\* malloc places the block in the first gap it fits in.
LEMMA PlaceStep ==
  ASSUME HeapInv, Place
  PROVE  /\ HeapInv' /\ Gains(AllBlocks(major), AllBlocks(major)')
         /\ l_inuse' # l_inuse /\ majors' = majors
<1>1. Visiting /\ CanPlace /\ Remember /\ UNCHANGED <<majors, l_allocated>>
  BY DEF Place
<1>2. /\ call \in Mallocs /\ call.maj \in Among(majors) /\ call.req \in Requests
  BY <1>1, CallIs DEF HeapInv, Visiting, Mallocs
<1>3. /\ Distinct(majors) /\ major \in [Ids -> Majors] /\ Among(majors) \subseteq Ids
  BY InvFacts
<1>4. PICK m \in Ids, req \in Requests : m = call.maj /\ m \in Among(majors) /\ req = call.req
  BY <1>2, <1>3
<1>5. PICK f \in Majors : f = major[m] /\ MajorOk(m, f)
  BY <1>4, InvFacts
<1>6. PICK k \in 0 .. Len(f.minors) :
         /\ k = FirstGap /\ GapStart(m, k) = From(f.minors, k)
         /\ From(f.minors, k) + Needed(req) <= To(f.minors, f.size, k)
  BY <1>1, <1>4, <1>5, FirstGapIs
<1>7. PICK x : x = Minor(m, From(f.minors, k), req)
  OBVIOUS
<1>8. PICK t : t = InsertAt(f.minors, k + 1, x)
  OBVIOUS
<1>9. PICK h, g, l, al, iu : /\ h = major /\ g = major' /\ l = majors
                             /\ al = l_allocated /\ iu = l_inuse /\ ListsInv(l, h, al, iu)
  BY DEF HeapInv
<1>10. PICK ptr : ptr = Ptr(m, x)
  OBVIOUS
<1>11. /\ Inserting(h, g, m, k + 1, x, Needed(req)) /\ Return(ptr)
       /\ l_inuse' = iu + Size(req)
  BY <1>4, <1>5, <1>6, <1>7, <1>9, <1>10, Zenon DEF Place, Inserting
<1>12. PICK r : r = Filled(f, t, req)
  OBVIOUS
<1>13. Updated(h, g, m, r)
  <2>1. h \in [Ids -> Majors] /\ h[m] = f
    BY <1>3, <1>5, <1>9
  <2>2. Updated(h, g, m, Filled(h[m], InsertAt(h[m].minors, k + 1, x), req))
    BY <1>11, <2>1, InsertingIs
  <2> QED BY <1>8, <1>12, <2>1, <2>2
<1>14. /\ r \in Majors /\ MajorOk(m, r)
       /\ r.size = f.size /\ r.minors = t /\ Len(t) = Len(f.minors) + 1
       /\ BlocksIn(m, t) = BlocksIn(m, f.minors) \cup {Block(m, x)}
       /\ Bytes(t) = Bytes(f.minors) + Size(req)
       /\ WellMade(m, x) /\ End(x) <= f.size /\ ApartFrom(m, f.minors, x)
  <2>1. From(f.minors, k) + Needed(req) <= To(f.minors, f.size, k)
    BY <1>6
  <2>2. /\ Filled(f, t, req) \in Majors /\ MajorOk(m, Filled(f, t, req))
        /\ Filled(f, t, req).size = f.size /\ Filled(f, t, req).minors = t
        /\ Len(t) = Len(f.minors) + 1
        /\ BlocksIn(m, t) = BlocksIn(m, f.minors) \cup {Block(m, x)}
        /\ Bytes(t) = Bytes(f.minors) + Size(req)
        /\ WellMade(m, x) /\ End(x) <= f.size /\ ApartFrom(m, f.minors, x)
    <3>1. k \in 0 .. Len(f.minors)
      BY <1>6
    <3>2. f \in Majors /\ MajorOk(m, f) /\ m \in Ids /\ req \in Requests
      BY <1>4, <1>5
    <3> QED BY ONLY <1>7, <1>8, <2>1, <3>1, <3>2, FilledOk
  <2> QED BY <1>12, <2>2
<1>15. /\ ListsInv(l, g, al, iu - Bytes(h[m].minors) + Bytes(r.minors))
       /\ AllBlocks(h) = Elsewhere(h, m) \cup BlocksIn(m, h[m].minors)
       /\ AllBlocks(g) = Elsewhere(h, m) \cup BlocksIn(m, r.minors)
  <2>1. m \in Among(l) /\ r.size = h[m].size
    BY <1>4, <1>5, <1>9, <1>14
  <2> QED BY <1>9, <1>13, <1>14, <2>1, HeapChanges
<1>16. h[m] = f /\ f.minors \in Seq(Minors) /\ f.size \in Nat /\ f.size <= Stride * PageSize
  BY <1>5, <1>9 DEF Majors, MajorOk
<1>17. iu \in Int /\ Bytes(f.minors) \in Int /\ Size(req) \in Nat \ {0}
  BY <1>9, <1>16, BytesOf, PagesEnough, TotalsAre
<1>18. ListsInv(majors', major', l_allocated', l_inuse')
  <2>1. iu - Bytes(h[m].minors) + Bytes(r.minors) = iu + Size(req)
    BY <1>14, <1>16, <1>17
  <2> QED BY <1>1, <1>9, <1>11, <1>15, <2>1
<1>19. AllBlocks(g) = AllBlocks(h) \cup {Block(m, x)}
  BY <1>14, <1>15, <1>16
<1>20. Promised(AllBlocks(h), Block(m, x)) /\ Block(m, x) \notin AllBlocks(h)
  <2>1. End(x) <= Stride * PageSize
    <3>1. End(x) \in Nat /\ Stride * PageSize \in Nat
      BY <1>14, MinorTypes, Headers
    <3> QED BY <1>14, <1>16, <3>1
  <2> QED BY <1>9, <1>14, <1>16, <2>1, BlockPromised
<1>21. Block(m, x) = [ptr |-> ptr, size |-> req] /\ ptr \in Nat /\ ptr # NULL
  <2>1. x.req = req
    <3>1. From(f.minors, k) \in Nat
      <4>1. k = 0 \/ k \in 1 .. Len(f.minors)
        BY <1>6
      <4>2. \A i \in 1 .. Len(f.minors) : End(f.minors[i]) \in Nat
        BY <1>5, PlacedTypes DEF MajorOk
      <4> QED BY <4>1, <4>2, Headers DEF From
    <3> QED BY <1>7, <3>1, MinorWellMade
  <2> QED BY <1>10, <1>14, <2>1, BlockHasPtr DEF Block
<1>22. /\ OldOf(call') = OldOf(call)
       /\ call' = Idle \/ (call' \in Releases /\ call'.ptr # NULL)
       /\ held' = held \cup {Block(m, x)}
  <2>1. /\ OldOf(call') = OldOf(call)
        /\ call' = Idle \/ (call' \in Releases /\ call'.ptr # NULL)
        /\ held' = IF ptr = NULL THEN held ELSE held \cup {[ptr |-> ptr, size |-> call.req]}
    BY <1>2, <1>11, <1>21, ReturnIs
  <2> QED BY <1>4, <1>21, <2>1
<1>23. ASSUME NEW n \in Among(l) PROVE g[n].minors # <<>>
  <2>1. g[m] = r /\ \A i \in Ids : i # m => g[i] = h[i]
    <3>1. h \in [Ids -> Majors]
      BY <1>3, <1>9
    <3> QED BY <1>13, <1>14, <3>1, UpdatedIs
  <2>2. CASE n = m
    <3>1. Len(f.minors) \in Nat
      BY <1>16
    <3>2. Len(r.minors) # 0
      BY <1>14, <3>1
    <3> QED BY <2>1, <2>2, <3>2
  <2>3. CASE n # m
    <3>1. n \in Ids /\ g[n] = h[n]
      BY <1>3, <1>9, <2>1, <2>3
    <3>2. h[n].minors # <<>>
      BY <1>4, <1>9, <2>3 DEF HeapInv, EmptyInv
    <3> QED BY <3>1, <3>2
  <2> QED BY <2>2, <2>3
<1>24. CallInv(majors', major', call') /\ EmptyInv(majors', major', call')
  <2>1. PICK l2, f2, c : l2 = majors' /\ f2 = major' /\ c = call'
    OBVIOUS
  <2>2. c = Idle \/ (c \in Releases /\ c.ptr # NULL)
    BY <1>22, <2>1
  <2>3. \A n \in Among(l2) : f2[n].minors # <<>>
    BY <1>1, <1>9, <1>23, <2>1
  <2> QED BY <2>1, <2>2, <2>3, QuietInv
<1>25. l_bestBet' \in Among(majors) \cup {NULL}
  BY <1>1, <1>2, RememberIs
<1>26. Holds(held', AllBlocks(major'), OldOf(call'))
  <2>1. PICK ho, ho2, bs, bs2, old, y : /\ ho = held /\ ho2 = held' /\ old = OldOf(call)
                                        /\ bs = AllBlocks(h) /\ bs2 = AllBlocks(g)
                                        /\ y = Block(m, x)
    OBVIOUS
  <2>2. Holds(ho, bs, old)
    BY <1>9, <2>1 DEF HeapInv
  <2>3. Holds(ho2, bs2, old)
    BY <1>19, <1>20, <1>22, <2>1, <2>2, ReturnHolds
  <2> QED BY <1>9, <1>22, <2>1, <2>3
<1>27. Gains(AllBlocks(h), AllBlocks(g))
  BY <1>19, <1>20, GainsBlock
<1>28. l_inuse' # l_inuse
  BY <1>9, <1>11, <1>17
<1>29. HeapInv'
  BY <1>1, <1>18, <1>24, <1>25, <1>26 DEF HeapInv, BetInv
<1> QED BY <1>1, <1>9, <1>27, <1>28, <1>29

\* The list grows, and the block is placed in the new major.
LEMMA GrowAndPlaceStep ==
  ASSUME HeapInv, GrowAndPlace
  PROVE  /\ HeapInv' /\ Gains(AllBlocks(major), AllBlocks(major)')
<1>1. AtTheEnd /\ Visiting /\ ~CanPlace /\ Remember
  BY DEF GrowAndPlace, AtTheEnd
<1>2. /\ call \in Mallocs /\ call.req \in Requests /\ call.maj \in Among(majors)
      /\ \A m \in Among(majors) : major[m].minors # <<>>
  BY <1>1, CannotPlace
<1>3. /\ Distinct(majors) /\ major \in [Ids -> Majors] /\ Among(majors) \subseteq Ids
      /\ majors \in Seq(Ids)
  BY InvFacts
<1>4. PICK req \in Requests : req = call.req
  BY <1>2
<1>5. FreeIds # {}
  BY DEF GrowAndPlace, NewMajor
<1>6. PICK n \in Ids : n = NewId /\ n \notin Among(majors)
  BY <1>3, <1>5, NewIdIs
<1>7. PICK x : x = Minor(n, MajorHeader, req)
  OBVIOUS
<1>8. PICK ptr : ptr = Ptr(n, x)
  OBVIOUS
<1>9. /\ PagesFor(req) * PageSize \in Nat
      /\ MajorHeader + Needed(req) <= PagesFor(req) * PageSize
      /\ PagesFor(req) * PageSize <= Stride * PageSize
      /\ Needed(req) \in Nat /\ Size(req) \in Nat \ {0}
  BY PagesEnough
<1>10. PICK z \in Nat : z = PagesFor(req) * PageSize
  BY <1>9
<1>11. PICK h, g, l, al, iu : /\ h = major /\ g = major' /\ l = majors
                              /\ al = l_allocated /\ iu = l_inuse /\ ListsInv(l, h, al, iu)
  BY DEF HeapInv
<1>12. PICK r : r = FirstBlock(z, req, x)
  OBVIOUS
<1>13. /\ majors' = Append(l, n) /\ l_allocated' = al + z /\ l_inuse' = iu + Size(req)
       /\ Updated(h, g, n, r) /\ Return(ptr)
  BY <1>4, <1>6, <1>7, <1>8, <1>10, <1>11, <1>12, Zenon
     DEF GrowAndPlace, NewMajor, Updated, FirstBlock
<1>14. /\ r \in Majors /\ MajorOk(n, r)
       /\ r.size = z /\ r.minors = <<x>> /\ Len(r.minors) = 1
       /\ BlocksIn(n, r.minors) = {Block(n, x)} /\ Bytes(r.minors) = Size(req)
  <2>1. z <= Stride * PageSize /\ MajorHeader + Needed(req) <= z
    BY <1>9, <1>10
  <2> QED BY <1>7, <1>12, <2>1, FirstBlockOk
<1>15. /\ ListsInv(Append(l, n), g, al + r.size, iu + Bytes(r.minors))
       /\ AllBlocks(g) = AllBlocks(h) \cup BlocksIn(n, r.minors)
  <2>1. n \notin Among(l)
    BY <1>6, <1>11
  <2> QED BY <1>11, <1>13, <1>14, <2>1, HeapGrows
<1>16. ListsInv(majors', major', l_allocated', l_inuse')
  BY <1>11, <1>13, <1>14, <1>15
<1>17. AllBlocks(g) = AllBlocks(h) \cup {Block(n, x)}
  BY <1>14, <1>15
<1>18. WellMade(n, x) /\ x.req = req /\ End(x) = MajorHeader + Needed(req)
  BY <1>7, MinorWellMade, Headers
<1>19. Promised(AllBlocks(h), Block(n, x)) /\ Block(n, x) \notin AllBlocks(h)
  <2>1. End(x) <= Stride * PageSize
    BY <1>9, <1>18, Headers
  <2>2. h[n].minors = <<>>
    BY <1>6, <1>11 DEF ListsInv
  <2>3. ApartFrom(n, h[n].minors, x)
    BY <2>2, NoMinors DEF ApartFrom
  <2> QED BY <1>11, <1>18, <2>1, <2>3, BlockPromised
<1>20. Block(n, x) = [ptr |-> ptr, size |-> req] /\ ptr \in Nat /\ ptr # NULL
  BY <1>8, <1>18, BlockHasPtr DEF Block
<1>21. /\ OldOf(call') = OldOf(call)
       /\ call' = Idle \/ (call' \in Releases /\ call'.ptr # NULL)
       /\ held' = held \cup {Block(n, x)}
  <2>1. /\ OldOf(call') = OldOf(call)
        /\ call' = Idle \/ (call' \in Releases /\ call'.ptr # NULL)
        /\ held' = IF ptr = NULL THEN held ELSE held \cup {[ptr |-> ptr, size |-> call.req]}
    BY <1>2, <1>13, <1>20, ReturnIs
  <2> QED BY <1>4, <1>20, <2>1
<1>22. Among(majors') = Among(majors) \cup {n}
  <2>1. PICK q \in Nat : q = Len(l) /\ l \in Seq(Ids)
    BY <1>3, <1>11
  <2>2. Len(Append(l, n)) = q + 1
    BY <1>6, <2>1
  <2>3. \A i \in 1 .. q : Append(l, n)[i] = l[i]
    BY <1>6, <2>1
  <2>4. Append(l, n)[q + 1] = n
    BY <1>6, <2>1
  <2>5. \A i \in 1 .. (q + 1) : i \in 1 .. q \/ i = q + 1
    BY <2>1
  <2>6. 1 .. q \subseteq 1 .. (q + 1) /\ q + 1 \in 1 .. (q + 1)
    BY <2>1
  <2>7. Among(Append(l, n)) = Among(l) \cup {n}
    BY <2>1, <2>2, <2>3, <2>4, <2>5, <2>6 DEF Among
  <2> QED BY <1>11, <1>13, <2>7
<1>23. ASSUME NEW k \in Among(majors') PROVE g[k].minors # <<>>
  <2>1. g[n] = r /\ \A i \in Ids : i # n => g[i] = h[i]
    <3>1. h \in [Ids -> Majors]
      BY <1>3, <1>11
    <3> QED BY <1>13, <1>14, <3>1, UpdatedIs
  <2>2. CASE k = n
    <3>1. Len(r.minors) # 0
      BY <1>14
    <3> QED BY <2>1, <2>2, <3>1
  <2>3. CASE k # n
    <3>1. k \in Among(majors) /\ k \in Ids
      BY <1>3, <1>22, <1>23, <2>3
    <3>2. g[k] = h[k]
      BY <2>1, <2>3, <3>1
    <3> QED BY <1>2, <1>11, <3>1, <3>2
  <2> QED BY <2>2, <2>3
<1>24. CallInv(majors', major', call') /\ EmptyInv(majors', major', call')
  <2>1. PICK l2, f2, c : l2 = majors' /\ f2 = major' /\ c = call'
    OBVIOUS
  <2>2. c = Idle \/ (c \in Releases /\ c.ptr # NULL)
    BY <1>21, <2>1
  <2>3. \A k \in Among(l2) : f2[k].minors # <<>>
    BY <1>11, <1>23, <2>1
  <2> QED BY <2>1, <2>2, <2>3, QuietInv
<1>25. BetInv(majors', l_bestBet')
  <2>1. l_bestBet' \in Among(majors) \cup {NULL}
    BY <1>1, <1>2, RememberIs
  <2> QED BY <1>22, <2>1 DEF BetInv
<1>26. Holds(held', AllBlocks(major'), OldOf(call'))
  <2>1. PICK ho, ho2, bs, bs2, old, y : /\ ho = held /\ ho2 = held' /\ old = OldOf(call)
                                        /\ bs = AllBlocks(h) /\ bs2 = AllBlocks(g)
                                        /\ y = Block(n, x)
    OBVIOUS
  <2>2. Holds(ho, bs, old)
    BY <1>11, <2>1 DEF HeapInv
  <2>3. Holds(ho2, bs2, old)
    BY <1>17, <1>19, <1>21, <2>1, <2>2, ReturnHolds
  <2> QED BY <1>11, <1>21, <2>1, <2>3
<1>27. Gains(AllBlocks(h), AllBlocks(g))
  BY <1>17, <1>19, GainsBlock
<1>28. HeapInv'
  BY <1>16, <1>24, <1>25, <1>26 DEF HeapInv
<1> QED BY <1>11, <1>27, <1>28

\* The heap is empty at first.
LEMMA InitInv == Init => HeapInv /\ UserBlocks = {}
<1> SUFFICES ASSUME Init PROVE HeapInv /\ UserBlocks = {}
  OBVIOUS
<1>1. /\ majors = <<>> /\ l_bestBet = NULL /\ l_allocated = 0 /\ l_inuse = 0
      /\ call = Idle /\ held = {}
      /\ major = [m \in Ids |-> [size |-> 0, usage |-> 0, minors |-> <<>>]]
  BY DEF Init
<1>2. PICK l, f : l = majors /\ f = major
  OBVIOUS
<1>3. Distinct(l) /\ Among(l) = {} /\ Len(l) = 0 /\ l \in Seq(Ids)
  BY <1>1, <1>2 DEF Distinct, Among
<1>4. f \in [Ids -> Majors] /\ \A m \in Ids : f[m].minors = <<>>
  BY <1>1, <1>2, NoMinors DEF Majors
<1>5. SizesOf(f) \in [Ids -> Int] /\ BytesUsed(f) \in [Ids -> Int]
  <2>1. \A m \in Ids : f[m] \in Majors
    BY <1>4
  <2>2. \A m \in Ids : f[m].size \in Int /\ Bytes(f[m].minors) \in Int
    BY <1>4, <2>1, NoMinors DEF Majors
  <2> QED BY <2>2 DEF SizesOf, BytesUsed
<1>6. Total(Summed(l, SizesOf(f))) = 0 /\ Total(Summed(l, BytesUsed(f))) = 0
  <2>1. /\ Summed(l, SizesOf(f)) \in Seq(Int) /\ Len(Summed(l, SizesOf(f))) = 0
        /\ Summed(l, BytesUsed(f)) \in Seq(Int) /\ Len(Summed(l, BytesUsed(f))) = 0
    BY <1>3, <1>5, SummedTypes
  <2> QED BY <2>1, TotalEmpty
<1>7. ListsInv(majors, major, l_allocated, l_inuse)
  BY <1>1, <1>2, <1>3, <1>4, <1>6 DEF ListsInv
<1>8. AllBlocks(major) = {}
  <2>1. ASSUME NEW b \in AllBlocks(f) PROVE FALSE
    <3>1. PICK m \in Ids : b \in BlocksIn(m, f[m].minors)
      BY <2>1, Zenon DEF AllBlocks
    <3> QED BY <1>4, <3>1, NoMinors
  <2> QED BY <1>2, <2>1
<1>9. HeapInv
  BY <1>1, <1>2, <1>3, <1>7, <1>8 DEF HeapInv, BetInv, CallInv, EmptyInv, Holds, OldOf
<1> QED BY <1>8, <1>9, InvFacts

\* Every step keeps the invariant and does to the blocks what its caller asked.
LEMMA StepInv ==
  ASSUME HeapInv, Next
  PROVE  /\ HeapInv'
         /\ \/ AllBlocks(major)' = AllBlocks(major)
            \/ Gains(AllBlocks(major), AllBlocks(major)')
            \/ Loses(AllBlocks(major), AllBlocks(major)')
            \/ Smaller(AllBlocks(major), AllBlocks(major)')
<1>1. ASSUME NEW req \in Requests, malloc(req)
      PROVE  HeapInv' /\ AllBlocks(major)' = AllBlocks(major)
  BY <1>1, MallocStep
<1>2. ASSUME NEW b \in held, NEW req \in Requests, realloc(b, req)
      PROVE  /\ HeapInv'
             /\ \/ AllBlocks(major)' = AllBlocks(major)
                \/ Smaller(AllBlocks(major), AllBlocks(major)')
  BY <1>2, ReallocStep
<1>3. ASSUME NEW b \in held, free(b)
      PROVE  HeapInv' /\ Loses(AllBlocks(major), AllBlocks(major)')
  BY <1>3, FreeStep
<1>4. CASE FirstMajor
  BY <1>4, FirstMajorStep
<1>5. CASE FirstFails
  BY <1>5, FirstFailsStep
<1>6. CASE Place
  BY <1>6, PlaceStep
<1>7. CASE NextMajor
  BY <1>7, NextMajorStep
<1>8. CASE RestartAtRoot
  BY <1>8, RestartStep
<1>9. CASE GrowAndPlace
  BY <1>9, GrowAndPlaceStep
<1>10. CASE GrowAndVisit
  BY <1>10, GrowAndVisitStep
<1>11. CASE GrowFails
  BY <1>11, GrowFailsStep
<1>12. CASE FreeOld
  BY <1>12, FreeOldStep
<1> QED BY <1>1, <1>2, <1>3, <1>4, <1>5, <1>6, <1>7, <1>8, <1>9, <1>10, <1>11, <1>12
     DEF Next, Steps

BlocksInUse == UserBlocks = AllBlocks(major)

\* The blocks users have are those of the lists,
LEMMA BlocksAre == HeapInv => BlocksInUse
BY InvFacts DEF BlocksInUse

\* after a step as well.
LEMMA BlocksAreNext == HeapInv' => BlocksInUse'
BY BlocksAre, PTL

\* Nothing changes in a step that changes nothing.
LEMMA StutterInv ==
  ASSUME HeapInv, UNCHANGED vars
  PROVE  HeapInv' /\ AllBlocks(major)' = AllBlocks(major) /\ UserBlocks' = UserBlocks
<1>1. UNCHANGED <<majors, major, l_bestBet, l_allocated, l_inuse, call, held>>
  BY DEF vars
<1>2. HeapInv'
  BY <1>1 DEF HeapInv
<1>3. UserBlocks = AllBlocks(major)
  BY InvFacts
<1>4. HeapInv' => UserBlocks' = AllBlocks(major)'
  BY BlocksAreNext DEF BlocksInUse
<1> QED BY <1>1, <1>2, <1>3, <1>4

(* The invariant holds in every state the heap reaches, whatever the      *)
(* sizes of headers, pages and requests, and however many majors there    *)
(* may be.                                                                *)
THEOREM HeapInvariant == Spec => []HeapInv
<1>1. Init => HeapInv
  BY InitInv
<1>2. HeapInv /\ [Next]_vars => HeapInv'
  BY StepInv, StutterInv
<1> QED BY <1>1, <1>2, PTL DEF Spec

\* The accounts of the source follow from the sums of the invariant.
LEMMA AccountsHold ==
  ASSUME HeapInv
  PROVE  Accounts
<1>1. /\ Distinct(majors) /\ majors \in Seq(Ids) /\ major \in [Ids -> Majors]
      /\ Among(majors) \subseteq Ids /\ Live = Among(majors)
      /\ \A m \in Among(majors) : MajorOk(m, major[m]) /\ major[m] \in Majors
      /\ \A m \in Ids : major[m].minors \in Seq(Minors) /\ major[m].size \in Nat
                           /\ major[m].usage \in Int
  BY InvFacts
<1>2. \A i \in 1 .. Len(majors) : majors[i] \in Ids
  BY <1>1
<1>3. DOMAIN majors = 1 .. Len(majors)
  BY <1>1
<1>4. \A m \in Ids : DOMAIN major[m].minors = 1 .. Len(major[m].minors)
  BY <1>1
<1>5. \A m \in Live : major[m].usage = UsageOf(m)
  <2>1. ASSUME NEW m \in Live PROVE major[m].usage = UsageOf(m)
    <3>1. m \in Ids /\ major[m].usage = MajorHeader + Feet(major[m].minors)
      BY <1>1 DEF MajorOk
    <3>2. PICK s \in Seq(Minors) : s = major[m].minors /\ DOMAIN s = 1 .. Len(s)
      BY <1>1, <1>4, <3>1
    <3>3. Feet(s) = Total([k \in 1 .. Len(s) |-> Freed(s[k])])
      BY <3>2, BytesOf
    <3>4. UsageOf(m) = MajorHeader + Total([k \in DOMAIN s |-> Freed(s[k])])
      BY <3>2, Zenon DEF UsageOf
    <3> QED BY <3>1, <3>2, <3>3, <3>4
  <2> QED BY <2>1
<1>6. l_allocated = Total([i \in DOMAIN majors |-> major[majors[i]].size])
  <2>1. Summed(majors, SizesOf(major)) = [i \in 1 .. Len(majors) |-> major[majors[i]].size]
    BY <1>2 DEF Summed, SizesOf
  <2> QED BY <1>3, <2>1 DEF HeapInv, ListsInv
<1>7. l_inuse = Total([i \in DOMAIN majors |-> SizeOf(majors[i])])
  <2>1. \A m \in Ids : SizeOf(m) = Bytes(major[m].minors)
    <3>1. ASSUME NEW m \in Ids PROVE SizeOf(m) = Bytes(major[m].minors)
      <4>1. PICK s \in Seq(Minors) : s = major[m].minors /\ DOMAIN s = 1 .. Len(s)
        BY <1>1, <1>4, <3>1
      <4>2. Bytes(s) = Total([k \in 1 .. Len(s) |-> s[k].size])
        BY <4>1, BytesOf
      <4>3. SizeOf(m) = Total([k \in DOMAIN s |-> s[k].size])
        BY <4>1, Zenon DEF SizeOf
      <4> QED BY <4>1, <4>2, <4>3
    <3> QED BY <3>1
  <2>2. \A i \in 1 .. Len(majors) : BytesUsed(major)[majors[i]] = SizeOf(majors[i])
    BY <1>2, <2>1 DEF BytesUsed
  <2>3. Summed(majors, BytesUsed(major)) = [i \in 1 .. Len(majors) |-> SizeOf(majors[i])]
    BY <2>2 DEF Summed
  <2> QED BY <1>3, <2>3 DEF HeapInv, ListsInv
<1> QED BY <1>5, <1>6, <1>7 DEF Accounts

\* The properties of the lists follow from the invariant.
LEMMA InvListsSound ==
  ASSUME HeapInv
  PROVE  ListsAreSound
<1>1. /\ major \in [Ids -> Majors] /\ Among(majors) \subseteq Ids /\ Live = Among(majors)
      /\ \A m \in Among(majors) : MajorOk(m, major[m])
      /\ UserBlocks = AllBlocks(major)
      /\ l_bestBet \in Among(majors) \cup {NULL}
  BY InvFacts
<1>2. MinorsInPlace
  <2>1. ASSUME NEW m \in Live, NEW k \in 0 .. Len(major[m].minors)
        PROVE  GapStart(m, k) <= GapEnd(m, k)
    <3>1. m \in Ids /\ MajorOk(m, major[m])
      BY <1>1
    <3> QED BY <1>1, <3>1, GapsLie
  <2>2. ASSUME NEW m \in Live, call = Idle PROVE major[m].minors # <<>>
    BY <1>1, <2>2, Kinds, NoneEmpty
  <2> QED BY <2>1, <2>2 DEF MinorsInPlace
<1>3. BestBetIsLive
  BY <1>1 DEF BestBetIsLive
<1>4. HeldIsLive
  BY <1>1, IdleHolds DEF HeldIsLive
<1> QED BY <1>2, <1>3, <1>4, AccountsHold DEF ListsAreSound

(* The totals kept step by step are those of the lists, minors lie inside *)
(* of their majors in the order of the list, the best bet is never a      *)
(* major that has been given back, and between calls the blocks in the    *)
(* lists are those callers hold: none is lost, none taken from its caller. *)
THEOREM ListsCorrect == Spec => []ListsAreSound
BY HeapInvariant, InvListsSound, PTL

\* What malloc of the abstract heap may do.
MallocGives(bs, bs2) ==
  \E ptr \in HeapAddresses, size \in Requests :
    LET new == [ptr |-> ptr, size |-> size]
    IN  /\ ptr % ALIGNMENT = 0
        /\ H!Bytes(new) \subseteq HeapAddresses
        /\ \A b \in bs : H!Bytes(b) \cap H!Bytes(new) = {}
        /\ bs2 = bs \cup {new}

\* A block that is gained is one malloc of the abstract heap may give.
LEMMA AbstractStep ==
  ASSUME NEW bs, NEW bs2, Gains(bs, bs2)
  PROVE  MallocGives(bs, bs2)
<1>1. \A b : H!Bytes(b) = BlockBytes(b)
  BY DEF H!Bytes, BlockBytes
<1>2. PICK x : Promised(bs, x) /\ bs2 = bs \cup {x}
  BY DEF Gains
<1>3. /\ x = [ptr |-> x.ptr, size |-> x.size] /\ x.size \in Requests
      /\ x.ptr \in HeapAddresses /\ x.ptr % ALIGNMENT = 0
      /\ BlockBytes(x) \subseteq HeapAddresses
      /\ \A b \in bs : BlockBytes(b) \cap BlockBytes(x) = {}
  BY <1>2 DEF Promised
<1>4. PICK ptr \in HeapAddresses, size \in Requests : ptr = x.ptr /\ size = x.size
  BY <1>3
<1>5. x = [ptr |-> ptr, size |-> size] /\ ptr % ALIGNMENT = 0
  BY <1>3, <1>4
<1>6. H!Bytes(x) \subseteq HeapAddresses /\ \A b \in bs : H!Bytes(b) \cap H!Bytes(x) = {}
  BY <1>1, <1>3
<1> QED BY <1>2, <1>4, <1>5, <1>6 DEF MallocGives

(* liballoc implements the heap its header promises, for every alignment, *)
(* header, page and request: blocks in use never overlap, lie in the      *)
(* heap, are aligned, and change only when a caller asks.                 *)
THEOREM HeapCorrect == Spec => HeapSpec
<1>1. Init => H!Init
  BY InitInv DEF H!Init
<1>2. HeapInv /\ HeapInv' /\ [Next]_vars => [H!Next]_UserBlocks
  <2> SUFFICES ASSUME HeapInv, HeapInv', [Next]_vars PROVE [H!Next]_UserBlocks
    OBVIOUS
  <2>1. UserBlocks = AllBlocks(major)
    BY InvFacts
  <2>2. UserBlocks' = AllBlocks(major)'
    <3>1. HeapInv' => UserBlocks' = AllBlocks(major)'
      BY BlocksAreNext DEF BlocksInUse
    <3> QED BY <3>1
  <2>3. CASE UNCHANGED vars
    BY <2>3, StutterInv
  <2>4. CASE Next
    <3>1. PICK bs, bs2 : bs = UserBlocks /\ bs2 = UserBlocks'
      OBVIOUS
    <3>2. \/ bs2 = bs \/ Gains(bs, bs2) \/ Loses(bs, bs2) \/ Smaller(bs, bs2)
      BY <2>1, <2>2, <2>4, <3>1, StepInv
    <3>3. CASE bs2 = bs
      BY <3>1, <3>3
    <3>4. CASE Gains(bs, bs2)
      <4>1. H!Malloc
        <5>1. MallocGives(bs, bs2)
          BY <3>4, AbstractStep
        <5> QED BY <3>1, <5>1, Zenon DEF H!Malloc, MallocGives
      <4> QED BY <4>1 DEF H!Next
    <3>5. CASE Loses(bs, bs2)
      <4>1. H!Free
        BY <3>1, <3>5 DEF H!Free, Loses
      <4> QED BY <4>1 DEF H!Next
    <3>6. CASE Smaller(bs, bs2)
      <4>1. H!Shrink
        BY <3>1, <3>6 DEF H!Shrink, Smaller
      <4> QED BY <4>1 DEF H!Next
    <3> QED BY <3>2, <3>3, <3>4, <3>5, <3>6
  <2> QED BY <2>3, <2>4
<1> QED BY <1>1, <1>2, HeapInvariant, PTL DEF Spec, HeapSpec, H!Spec

\* Releasing a block never lengthens the list of majors.
LEMMA ReleaseShortens ==
  ASSUME HeapInv, NEW b \in AllBlocks(major), Release(b.ptr)
  PROVE  ~(Len(majors') > Len(majors))
<1>1. Distinct(majors) /\ majors \in Seq(Ids)
  BY InvFacts
<1>2. PICK m : m = MajorOf(b.ptr) /\ m \in Among(majors)
  BY PlaceIs DEF HeapInv
<1>3. PICK l, i : l = majors /\ i = Position(m) /\ i \in 1 .. Len(l)
  BY <1>1, <1>2, PositionIs
<1>4. l \in Seq(Ids) /\ Len(l) \in Nat /\ i \in 1 .. Len(l)
  BY <1>1, <1>3
<1>5. majors' = RemoveAt(l, i) \/ majors' = l
  BY <1>2, <1>3 DEF Release
<1>6. Len(RemoveAt(l, i)) = Len(l) - 1
  BY <1>4, RemovedElements
<1> QED BY <1>3, <1>4, <1>5, <1>6

Asks == (Visiting /\ call'.kind # "malloc" /\ l_inuse' = l_inuse) \/ Len(majors') > Len(majors)

(* New pages are asked for, and a request refused, only when no major has *)
(* a gap the block fits in: the search has seen every major, whether it   *)
(* started at the root or at the best bet.                                *)
THEOREM GrowthCorrect == Spec => GrowsOnlyWhenFull
<1>1. ASSUME HeapInv, [Next]_vars, Asks
      PROVE  \A m \in Live : ~HasGap(m, call.req)
  <2>1. Len(majors) \in Nat
    BY <1>1, InvFacts
  <2>2. Idle.kind = "idle"
    BY Kinds
  <2>3. CASE AtTheEnd
    <3>1. \A m \in Among(majors) : NoGap(major, m, call.req)
      BY <1>1, <2>3, AllSearched
    <3>2. call.req \in Requests
      BY <1>1, <2>3, CannotPlace DEF AtTheEnd
    <3>3. PICK req \in Requests : req = call.req
      BY <3>2
    <3>4. /\ major \in [Ids -> Majors] /\ Among(majors) \subseteq Ids /\ Live = Among(majors)
          /\ \A m \in Among(majors) : MajorOk(m, major[m])
      BY <1>1, InvFacts
    <3>5. ASSUME NEW m \in Live PROVE ~HasGap(m, req)
      <4>1. m \in Ids /\ MajorOk(m, major[m]) /\ NoGap(major, m, req)
        BY <3>1, <3>3, <3>4, <3>5
      <4> QED BY <3>4, <4>1, HasGapIs
    <3> QED BY <3>3, <3>5
  <2>4. CASE FirstMajor
    <3>1. majors = <<>>
      BY <1>1, <2>4, CallIs DEF HeapInv, FirstMajor
    <3> QED BY <3>1 DEF Live
  <2>5. CASE UNCHANGED vars
    BY <1>1, <2>1, <2>5 DEF Asks, vars, Visiting
  <2>6. ASSUME NEW req \in Requests, malloc(req) PROVE FALSE
    BY <1>1, <2>1, <2>2, <2>6 DEF Asks, malloc, Visiting
  <2>7. ASSUME NEW b \in held, NEW req \in Requests, realloc(b, req) PROVE FALSE
    BY <1>1, <2>1, <2>2, <2>7 DEF Asks, realloc, Visiting
  <2>8. ASSUME NEW b \in held, free(b) PROVE FALSE
    <3>1. b \in AllBlocks(major)
      BY <1>1, <2>8, IdleHolds DEF free
    <3>2. ~(Len(majors') > Len(majors))
      BY <1>1, <2>8, <3>1, ReleaseShortens DEF free
    <3> QED BY <1>1, <2>2, <2>8, <3>2 DEF Asks, free, Visiting
  <2>9. CASE FirstFails
    BY <1>1, <2>1, <2>9 DEF Asks, FirstFails, Visiting
  <2>10. CASE Place
    BY <1>1, <2>1, <2>10, PlaceStep DEF Asks
  <2>11. CASE NextMajor
    <3>1. call'.kind = "malloc" /\ majors' = majors
      BY <1>1, <2>11, NextMajorStep DEF NextMajor
    <3> QED BY <1>1, <2>1, <3>1 DEF Asks
  <2>12. CASE RestartAtRoot
    <3>1. call'.kind = "malloc" /\ majors' = majors
      BY <1>1, <2>12, RestartStep DEF RestartAtRoot
    <3> QED BY <1>1, <2>1, <3>1 DEF Asks
  <2>13. CASE FreeOld
    <3>1. call.kind = "release" /\ Release(call.ptr)
      BY <2>13 DEF FreeOld, DropOld
    <3>2. PICK b \in AllBlocks(major) : b.ptr = call.ptr
      <4>1. call \in Releases /\ call.ptr # NULL
        BY <1>1, <3>1, CallIs DEF HeapInv
      <4>2. OldOf(call) = call.ptr
        BY <4>1, Kinds DEF OldOf
      <4> QED BY <1>1, <4>1, <4>2 DEF HeapInv, Holds
    <3>3. ~(Len(majors') > Len(majors))
      BY <1>1, <3>1, <3>2, ReleaseShortens
    <3> QED BY <1>1, <3>1, <3>3 DEF Asks, Visiting
  <2>14. CASE GrowAndPlace \/ GrowAndVisit \/ GrowFails
    BY <2>3, <2>14 DEF GrowAndPlace, GrowAndVisit, GrowFails
  <2> QED BY <1>1, <2>4, <2>5, <2>6, <2>7, <2>8, <2>9, <2>10, <2>11, <2>12, <2>13, <2>14
       DEF Next, Steps
<1>2. HeapInv /\ [Next]_vars
        => [(Visiting /\ call'.kind # "malloc" /\ l_inuse' = l_inuse) \/ Len(majors') > Len(majors)
              => \A m \in Live : ~HasGap(m, call.req)]_vars
  BY <1>1 DEF Asks
<1> QED BY <1>2, HeapInvariant, PTL DEF Spec, GrowsOnlyWhenFull
=============================================================================
