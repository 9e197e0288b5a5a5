---------------------------- MODULE SeqBufProofs ----------------------------
(***************************************************************************)
(* For a ring of any size and any bytes: the types, that only bytes the    *)
(* interrupt handler wrote are ever read, and that the ring implements the *)
(* bounded queue of ByteQueue. The inductive invariant is the conjunction  *)
(* of the first two; the queue is the sequence Contents, and the lemmas    *)
(* say what the two moves of an index do to it.                            *)
(***************************************************************************)
EXTENDS SeqBuf, SequenceTheorems, TLAPS

IInv == TypeOK /\ OnlyWrittenIsRead

(* An index moves to the next slot, or from the last to the first.         *)
LEMMA AfterIsNext ==
  ASSUME NEW i \in Slots
  PROVE  /\ After(i) = IF i + 1 = Size THEN 0 ELSE i + 1
         /\ After(i) \in Slots
<1>1. CASE i + 1 = Size
  <2>1. (i + 1) % Size = 0
    BY <1>1, SeqBufAssumption DEF Slots
  <2> QED BY <1>1, <2>1, SeqBufAssumption DEF After, Slots
<1>2. CASE i + 1 # Size
  <2>1. i + 1 \in 0 .. Size - 1
    BY <1>2, SeqBufAssumption DEF Slots
  <2>2. (i + 1) % Size = i + 1
    BY <2>1, SeqBufAssumption
  <2> QED BY <1>2, <2>1, <2>2 DEF After, Slots
<1> QED BY <1>1, <1>2

(* The ring holds at most all slots but one, and is full exactly then.     *)
LEMMA CountInRange ==
  ASSUME TypeOK
  PROVE  /\ Count \in 0 .. Size - 1
         /\ IsFull <=> Count = Size - 1
         /\ IsEmpty <=> Count = 0
BY AfterIsNext, SeqBufAssumption, SMTT(20) DEF TypeOK, Count, IsFull, IsEmpty, Slots

LEMMA SlotInRange ==
  ASSUME TypeOK, NEW k \in 0 .. Count
  PROVE  /\ Slot(k) \in Slots
         /\ k < Count => Slot(k) # seqbuf_end
         /\ Slot(Count) = seqbuf_end
         /\ Slot(0) = seqbuf_start
BY CountInRange, SeqBufAssumption DEF TypeOK, Count, Slot, Slots

LEMMA ContentsIsSeq ==
  ASSUME TypeOK
  PROVE  /\ Contents \in Seq(Bytes \cup {NoByte})
         /\ Len(Contents) = Count
         /\ Contents = <<>> <=> IsEmpty
<1>1. \A k \in 1 .. Count : seqbuf[Slot(k - 1)] \in Bytes \cup {NoByte}
  <2>1. \A k \in 1 .. Count : k - 1 \in 0 .. Count
    BY CountInRange
  <2> QED BY <2>1, SlotInRange DEF TypeOK
<1>2. Count \in Nat
  BY CountInRange, SeqBufAssumption
<1>3. Contents \in Seq(Bytes \cup {NoByte}) /\ Len(Contents) = Count
  BY <1>1, <1>2 DEF Contents
<1> QED BY <1>2, <1>3, CountInRange

(* The handler appends.                                                    *)
LEMMA StoreAppends ==
  ASSUME TypeOK, TypeOK', ~IsFull, output \in Bytes,
         seqbuf' = [seqbuf EXCEPT ![seqbuf_end] = output],
         seqbuf_end' = After(seqbuf_end), seqbuf_start' = seqbuf_start
  PROVE  Contents' = Append(Contents, output)
<1>0. seqbuf_end' = IF seqbuf_end + 1 = Size THEN 0 ELSE seqbuf_end + 1
  BY AfterIsNext DEF TypeOK
<1>1. Count' = Count + 1
  <2>1. seqbuf_end' # seqbuf_start
    BY DEF IsFull
  <2> HIDE DEF IsFull
  <2> QED BY <1>0, <2>1, SeqBufAssumption DEF TypeOK, Count, Slots
<1>2. \A k \in 0 .. Count : Slot(k)' = Slot(k)
  BY DEF Slot
<1>3. \A k \in 1 .. Count : seqbuf'[Slot(k - 1)'] = seqbuf[Slot(k - 1)]
  <2> SUFFICES ASSUME NEW k \in 1 .. Count
               PROVE  seqbuf'[Slot(k - 1)'] = seqbuf[Slot(k - 1)]
    OBVIOUS
  <2>1. k - 1 \in 0 .. Count /\ k - 1 < Count
    BY CountInRange
  <2> QED BY <2>1, <1>2, SlotInRange DEF TypeOK
<1>4. \A k \in 0 .. Count : k = Count => seqbuf'[Slot(k)'] = output
  BY <1>2, SlotInRange DEF TypeOK
<1>5. ASSUME NEW k \in 1 .. Count'
      PROVE  Contents'[k] = Append(Contents, output)[k]
  <2>1. Contents'[k] = seqbuf'[Slot(k - 1)']
    BY DEF Contents
  <2>2. Contents \in Seq(Bytes \cup {NoByte}) /\ Len(Contents) = Count /\ Count \in Nat
    BY ContentsIsSeq, CountInRange, SeqBufAssumption
  <2>3. CASE k \in 1 .. Count
    <3>1. Contents'[k] = Contents[k]
      BY <1>3, <2>1, <2>3 DEF Contents
    <3> QED BY <2>2, <2>3, <3>1
  <2>4. CASE k = Count + 1
    <3>1. k - 1 \in 0 .. Count /\ k - 1 = Count
      BY <2>2, <2>4
    <3>2. Contents'[k] = output
      BY <1>4, <2>1, <3>1
    <3> QED BY <2>2, <2>4, <3>2
  <2> QED BY <1>1, <2>2, <2>3, <2>4
<1>6. Contents \in Seq(Bytes \cup {NoByte}) /\ Len(Contents) = Count /\ Count \in Nat
  BY ContentsIsSeq, CountInRange, SeqBufAssumption
<1>7. (Contents \in Seq(Bytes \cup {NoByte}) /\ Len(Contents) = Count)'
  BY ContentsIsSeq, PTL
<1>8. Append(Contents, output) \in Seq(Bytes \cup {NoByte})
  BY <1>6
<1>9. Len(Append(Contents, output)) = Count + 1
  BY <1>6
<1> QED BY <1>1, <1>5, <1>7, <1>8, <1>9, SeqEqual

(* The foreground takes the first byte.                                    *)
LEMMA AdvanceTakes ==
  ASSUME TypeOK, TypeOK', ~IsEmpty,
         Advance, seqbuf' = seqbuf, seqbuf_end' = seqbuf_end
  PROVE  Contents # <<>> /\ Contents' = Tail(Contents)
<1>0. seqbuf_start' = IF seqbuf_start + 1 = Size THEN 0 ELSE seqbuf_start + 1
  BY AfterIsNext DEF TypeOK, Advance
<1>1. Count' = Count - 1 /\ Count \in 1 .. Size - 1
  BY <1>0, SeqBufAssumption DEF TypeOK, Count, Slots, IsEmpty
<1>2. \A k \in 1 .. Count' : Slot(k - 1)' = Slot(k)
  <2> SUFFICES ASSUME NEW k \in 1 .. Count' PROVE Slot(k - 1)' = Slot(k)
    OBVIOUS
  <2>1. k \in 1 .. Size - 1
    BY <1>1, SeqBufAssumption
  <2> QED BY <1>0, <2>1, SeqBufAssumption DEF TypeOK, Slot, Slots
<1>3. Contents \in Seq(Bytes \cup {NoByte}) /\ Len(Contents) = Count
  BY ContentsIsSeq
<1>4. Contents # <<>> /\ Count \in Nat
  BY <1>1, ContentsIsSeq, SeqBufAssumption
<1>5. ASSUME NEW k \in 1 .. Count'
      PROVE  Contents'[k] = Tail(Contents)[k]
  <2>1. k + 1 \in 1 .. Count /\ (k + 1) - 1 = k
    BY <1>1
  <2>2. Contents'[k] = seqbuf[Slot(k)]
    BY <1>2 DEF Contents
  <2>3. Contents[k + 1] = seqbuf[Slot(k)]
    BY <2>1 DEF Contents
  <2>4. Tail(Contents)[k] = Contents[k + 1]
    BY <1>1, <1>3, <1>4, HeadTailProperties
  <2> QED BY <2>2, <2>3, <2>4
<1>6. (Contents \in Seq(Bytes \cup {NoByte}) /\ Len(Contents) = Count)'
  BY ContentsIsSeq, PTL
<1>7. Tail(Contents) \in Seq(Bytes \cup {NoByte}) /\ Len(Tail(Contents)) = Count'
  BY <1>1, <1>3, <1>4, HeadTailProperties
<1> QED BY <1>4, <1>5, <1>6, <1>7, SeqEqual

-----------------------------------------------------------------------------
LEMMA InitIInv == InitSeqBuf => IInv
<1> SUFFICES ASSUME InitSeqBuf PROVE IInv
  OBVIOUS
<1>1. TypeOK
  <2>1. 0 \in Slots
    BY SeqBufAssumption DEF Slots
  <2> QED BY <2>1 DEF InitSeqBuf, TypeOK
<1>2. Count = 0
  BY DEF InitSeqBuf, Count
<1> QED BY <1>1, <1>2 DEF IInv, OnlyWrittenIsRead, InitSeqBuf

LEMMA NextTypeOK == IInv /\ [Next]_sbvars => TypeOK'
<1> SUFFICES ASSUME IInv, [Next]_sbvars PROVE TypeOK'
  OBVIOUS
<1> USE DEF IInv, TypeOK
<1>1. ASSUME NEW b \in Bytes, Send(b) PROVE TypeOK'
  BY <1>1 DEF Send
<1>2. CASE Isr
  BY <1>2, AfterIsNext DEF Isr
<1>3. CASE FindByte
  BY <1>3 DEF FindByte
<1>4. CASE Mask
  BY <1>4 DEF Mask
<1>5. CASE ReadByte
  BY <1>5 DEF ReadByte
<1>6. CASE Decode
  BY <1>6, AfterIsNext DEF Decode, Advance, Stay
<1>7. CASE Unmask
  BY <1>7 DEF Unmask, Unmasked
<1>8. CASE UNCHANGED sbvars
  BY <1>8 DEF sbvars
<1> QED BY <1>1, <1>2, <1>3, <1>4, <1>5, <1>6, <1>7, <1>8 DEF Next, Poll

(* A step that leaves the ring alone leaves its contents alone.            *)
LEMMA RingKept ==
  ASSUME UNCHANGED ring
  PROVE  Contents' = Contents /\ Count' = Count /\ IsEmpty' = IsEmpty
BY DEF ring, Contents, Count, Slot, IsEmpty

LEMMA NextOnlyWritten == IInv /\ [Next]_sbvars => OnlyWrittenIsRead'
<1> SUFFICES ASSUME IInv, [Next]_sbvars PROVE OnlyWrittenIsRead'
  OBVIOUS
<1>0. TypeOK /\ TypeOK' /\ OnlyWrittenIsRead
  BY NextTypeOK DEF IInv
<1>1. ASSUME NEW b \in Bytes, Send(b) PROVE OnlyWrittenIsRead'
  BY <1>0, <1>1, RingKept DEF Send, OnlyWrittenIsRead, ring
<1>2. CASE Isr
  <2>1. CASE IsFull
    BY <1>0, <1>2, <2>1, RingKept DEF Isr, OnlyWrittenIsRead, ring
  <2>2. CASE ~IsFull
    <3>1. output \in Bytes /\ Contents' = Append(Contents, output)
      BY <1>0, <1>2, <2>2, StoreAppends DEF Isr, TypeOK
    <3>2. Contents \in Seq(Bytes \cup {NoByte}) /\ Len(Contents) = Count /\ Count \in Nat
      BY <1>0, ContentsIsSeq, CountInRange, SeqBufAssumption
    <3>3. Contents' # <<>> /\ Len(Contents') = Count + 1
      BY <3>1, <3>2
    <3>4. Count' = Count + 1 /\ ~IsEmpty'
      <4>1. (Len(Contents) = Count /\ (Contents = <<>> <=> IsEmpty))'
        BY <1>0, ContentsIsSeq, PTL
      <4> QED BY <4>1, <3>3
    <3>5. \A k \in 1 .. Count' : Contents'[k] \in Bytes
      BY <1>0, <3>1, <3>2, <3>4 DEF OnlyWrittenIsRead
    <3>6. reader' = "decode" => byte' = seqbuf'[seqbuf_start']
      <4>1. reader = "decode" => ~IsEmpty /\ byte = seqbuf[seqbuf_start]
        BY <1>0 DEF OnlyWrittenIsRead
      <4> QED BY <1>0, <1>2, <2>2, <4>1 DEF Isr, IsEmpty, TypeOK
    <3> QED BY <3>4, <3>5, <3>6 DEF OnlyWrittenIsRead
  <2> QED BY <2>1, <2>2
<1>3. CASE FindByte
  BY <1>0, <1>3, RingKept DEF FindByte, OnlyWrittenIsRead, ring
<1>4. CASE Mask
  BY <1>0, <1>4, RingKept DEF Mask, OnlyWrittenIsRead, ring
<1>5. CASE ReadByte
  <2>1. UNCHANGED ring /\ reader = "read" /\ reader' = "decode" /\ byte' = seqbuf[seqbuf_start]
    BY <1>5 DEF ReadByte, ring
  <2>2. seqbuf' = seqbuf /\ seqbuf_start' = seqbuf_start
    BY <2>1 DEF ring
  <2> QED BY <1>0, <2>1, <2>2, RingKept DEF OnlyWrittenIsRead
<1>6. CASE Decode
  <2>1. reader' = "unmask"
    BY <1>6 DEF Decode
  <2>2. CASE Advance
    <3>1. Contents' = Tail(Contents) /\ Contents # <<>>
      BY <1>0, <1>6, <2>2, AdvanceTakes DEF Decode, OnlyWrittenIsRead
    <3>2. Contents \in Seq(Bytes \cup {NoByte}) /\ Len(Contents) = Count /\ Count \in Nat
      BY <1>0, ContentsIsSeq, CountInRange, SeqBufAssumption
    <3>3. Count' = Count - 1
      <4>1. (Len(Contents) = Count)'
        BY <1>0, ContentsIsSeq, PTL
      <4> QED BY <4>1, <3>1, <3>2
    <3>4. \A k \in 1 .. Count' : Contents'[k] \in Bytes
      BY <1>0, <3>1, <3>2, <3>3 DEF OnlyWrittenIsRead
    <3> QED BY <2>1, <3>4 DEF OnlyWrittenIsRead
  <2>3. CASE Stay
    BY <1>0, <1>6, <2>3, RingKept DEF Decode, Stay, OnlyWrittenIsRead, ring
  <2> QED BY <1>6, <2>2, <2>3 DEF Decode
<1>7. CASE Unmask
  BY <1>0, <1>7, RingKept DEF Unmask, OnlyWrittenIsRead, ring
<1>8. CASE UNCHANGED sbvars
  BY <1>0, <1>8, RingKept DEF sbvars, OnlyWrittenIsRead, ring
<1> QED BY <1>1, <1>2, <1>3, <1>4, <1>5, <1>6, <1>7, <1>8 DEF Next, Poll

LEMMA Invariance == Spec => []IInv
<1>1. IInv /\ [Next]_sbvars => IInv'
  BY NextTypeOK, NextOnlyWritten DEF IInv
<1> QED BY InitIInv, <1>1, PTL DEF Spec

(* Indices, flags and bytes keep their types, for a ring of any size.      *)
THEOREM TypeCorrect == Spec => []TypeOK
BY Invariance, PTL DEF IInv

(* However interrupts fall between the check for an empty ring, the mask   *)
(* and the read, poll_event reads a byte the handler stored and the        *)
(* foreground has not used.                                                *)
THEOREM ReadsCorrect == Spec => []OnlyWrittenIsRead
BY Invariance, PTL DEF IInv

(* The ring is a bounded first-in first-out queue that loses a byte only   *)
(* when Size - 1 of them are waiting.                                      *)
THEOREM RingIsQueue == Spec => QueueSpec
<1>1. InitSeqBuf => Q!Init
  <2> SUFFICES ASSUME InitSeqBuf PROVE output = NoByte /\ Contents = <<>>
    BY DEF Q!Init
  <2>1. Count = 0
    BY DEF InitSeqBuf, Count
  <2> QED BY <2>1 DEF InitSeqBuf, Contents
<1>2. IInv /\ IInv' /\ [Next]_sbvars => [Q!Next]_<<output, Contents>>
  <2> SUFFICES ASSUME IInv, IInv', [Next]_sbvars
               PROVE  Q!Next \/ (output' = output /\ Contents' = Contents)
    OBVIOUS
  <2>0. TypeOK /\ TypeOK' /\ OnlyWrittenIsRead
    BY DEF IInv
  <2>1. ASSUME NEW b \in Bytes, Send(b) PROVE Q!Next
    <3>1. UNCHANGED ring
      BY <2>1 DEF Send, ring
    <3>2. Q!Arrive(b)
      BY <2>1, <3>1, RingKept DEF Send, Q!Arrive
    <3> QED BY <3>2 DEF Q!Next
  <2>2. CASE Isr
    <3>1. Len(Contents) = Count
      BY <2>0, ContentsIsSeq
    <3>2. CASE IsFull
      <4>1. Contents' = Contents
        BY <2>2, <3>2, RingKept DEF Isr, ring
      <4>2. ~(Len(Contents) < Size - 1)
        BY <2>0, <3>1, <3>2, CountInRange, SeqBufAssumption
      <4>3. Q!Accept
        BY <2>2, <4>1, <4>2 DEF Isr, Q!Accept
      <4> QED BY <4>3 DEF Q!Next
    <3>3. CASE ~IsFull
      <4>1. Contents' = Append(Contents, output)
        BY <2>0, <2>2, <3>3, StoreAppends DEF Isr, TypeOK
      <4>2. Len(Contents) < Size - 1
        BY <2>0, <3>1, <3>3, CountInRange, SeqBufAssumption
      <4>3. Q!Accept
        BY <2>2, <4>1, <4>2 DEF Isr, Q!Accept
      <4> QED BY <4>3 DEF Q!Next
    <3> QED BY <3>2, <3>3
  <2>3. CASE FindByte
    BY <2>3, RingKept DEF FindByte, ring
  <2>4. CASE Mask
    BY <2>4, RingKept DEF Mask, ring
  <2>5. CASE ReadByte
    BY <2>5, RingKept DEF ReadByte, ring
  <2>6. CASE Decode
    <3>1. CASE Advance
      <4>1. Contents # <<>> /\ Contents' = Tail(Contents)
        BY <2>0, <2>6, <3>1, AdvanceTakes DEF Decode, OnlyWrittenIsRead
      <4>2. Q!Take
        BY <2>6, <4>1 DEF Decode, Q!Take
      <4> QED BY <4>2 DEF Q!Next
    <3>2. CASE Stay
      BY <2>6, <3>2, RingKept DEF Decode, Stay, ring
    <3> QED BY <2>6, <3>1, <3>2 DEF Decode
  <2>7. CASE Unmask
    BY <2>7, RingKept DEF Unmask, ring
  <2>8. CASE UNCHANGED sbvars
    BY <2>8, RingKept DEF sbvars, ring
  <2> QED BY <2>1, <2>2, <2>3, <2>4, <2>5, <2>6, <2>7, <2>8 DEF Next, Poll
<1> QED BY <1>1, <1>2, Invariance, PTL DEF Spec, QueueSpec, Q!Spec

-----------------------------------------------------------------------------
(* The bytes between a device that still has w to send and the foreground, *)
(* oldest first, and what each step of the ring does to them.              *)
Waiting   == IF output = NoByte THEN <<>> ELSE <<output>>
Stream(w) == Contents \o (Waiting \o w)

LEMMA BytesJoin ==
  ASSUME NEW a \in Seq(Bytes), NEW b \in Seq(Bytes), NEW c \in Seq(Bytes)
  PROVE  /\ a \o b \in Seq(Bytes)
         /\ <<>> \o a = a /\ a \o <<>> = a
         /\ (a \o b) \o c = a \o (b \o c)
         /\ a # <<>> => /\ a \o b # <<>>
                       /\ Head(a \o b) = Head(a) /\ Head(a) \in Bytes
                       /\ Tail(a) \in Seq(Bytes)
                       /\ Tail(a \o b) = Tail(a) \o b
                       /\ <<Head(a)>> \o Tail(a) = a
<1>1. /\ a \o b \in Seq(Bytes)
      /\ <<>> \o a = a /\ a \o <<>> = a
      /\ (a \o b) \o c = a \o (b \o c)
  BY ConcatProperties, ConcatEmptySeq, ConcatAssociative
<1>2. ASSUME a # <<>>
      PROVE  /\ a \o b # <<>> /\ Head(a \o b) = Head(a)
             /\ Head(a) \in Bytes /\ Tail(a) \in Seq(Bytes)
  BY <1>2
<1>3. ASSUME a # <<>> PROVE <<Head(a)>> \o Tail(a) = a
  BY <1>3
<1>4. ASSUME a # <<>> PROVE Tail(a \o b) = Tail(a) \o b
  BY <1>4
<1> QED BY <1>1, <1>2, <1>3, <1>4

LEMMA StreamType ==
  ASSUME IInv, NEW w \in Seq(Bytes)
  PROVE  Contents \in Seq(Bytes) /\ Waiting \in Seq(Bytes) /\ Stream(w) \in Seq(Bytes)
<1>1. Contents \in Seq(Bytes)
  <2>1. Contents \in Seq(Bytes \cup {NoByte}) /\ Len(Contents) = Count
    BY ContentsIsSeq DEF IInv
  <2>2. \A k \in 1 .. Count : Contents[k] \in Bytes
    BY DEF IInv, OnlyWrittenIsRead
  <2>3. Contents = [k \in 1 .. Count |-> Contents[k]] /\ Count \in Nat
    BY <2>1
  <2> HIDE DEF IInv
  <2> QED BY <2>2, <2>3
<1>2. Waiting \in Seq(Bytes)
  BY DEF IInv, TypeOK, Waiting
<1> QED BY <1>1, <1>2, BytesJoin DEF Stream

LEMMA StreamKept ==
  ASSUME UNCHANGED <<ring, output>>
  PROVE  Contents' = Contents /\ Waiting' = Waiting
BY RingKept DEF Waiting

(* With nothing in the output buffer, what the device has still to send    *)
(* follows the contents of the ring.                                       *)
LEMMA StreamAtRest ==
  ASSUME IInv, output = NoByte, NEW w \in Seq(Bytes)
  PROVE  Waiting = <<>> /\ Waiting \o w = w /\ Stream(w) = Contents \o w
BY BytesJoin DEF Stream, Waiting

LEMMA SendKeeps ==
  ASSUME NEW w \in Seq(Bytes), w # <<>>, Send(Head(w))
  PROVE  Contents' = Contents /\ Waiting' \o Tail(w) = Waiting \o w
<1>1. Contents' = Contents
  BY RingKept DEF Send, ring
<1>2. Head(w) \in Bytes /\ Head(w) # NoByte /\ <<Head(w)>> \o Tail(w) = w /\ <<>> \o w = w
  BY BytesJoin, SeqBufAssumption
<1>3. Waiting = <<>> /\ Waiting' = <<Head(w)>>
  BY <1>2 DEF Send, Waiting
<1> QED BY <1>1, <1>2, <1>3

LEMMA StoreKeeps ==
  ASSUME IInv, IInv', NEW w \in Seq(Bytes), Isr, ~IsFull
  PROVE  /\ output \in Bytes /\ Contents' = Contents \o <<output>>
         /\ Contents' \o (Waiting' \o w) = Contents \o (Waiting \o w)
<1>1. output \in Bytes /\ output' = NoByte /\ Contents \in Seq(Bytes)
  BY StreamType DEF Isr, IInv, TypeOK
<1>2. Contents' = Contents \o <<output>>
  <2>1. Contents' = Append(Contents, output)
    BY <1>1, StoreAppends DEF Isr, IInv
  <2> QED BY <1>1, <2>1
<1>3. Waiting = <<output>> /\ Waiting' = <<>>
  BY <1>1 DEF Waiting, Isr
<1>4. PICK b \in Seq(Bytes) : b = <<output>>
  <2>1. PICK c \in Bytes : c = output
    BY <1>1
  <2>2. <<c>> \in Seq(Bytes)
    OBVIOUS
  <2> QED BY <2>1, <2>2
<1>5. <<>> \o w = w /\ (Contents \o b) \o w = Contents \o (b \o w)
  BY <1>1, BytesJoin
<1> QED BY <1>1, <1>2, <1>3, <1>4, <1>5

LEMMA DecodesHead ==
  ASSUME IInv, reader = "decode"
  PROVE  Contents # <<>> /\ Head(Contents) = byte
<1>1. TypeOK /\ ~IsEmpty /\ byte = seqbuf[seqbuf_start]
  BY DEF IInv, OnlyWrittenIsRead
<1>2. Count \in 0 .. Size - 1 /\ Count # 0
  BY <1>1, CountInRange
<1>3. 1 \in 1 .. Count /\ Slot(0) = seqbuf_start /\ 1 - 1 = 0
  BY <1>1, <1>2, SlotInRange, SeqBufAssumption
<1>4. Contents[1] = seqbuf[seqbuf_start]
  BY <1>3 DEF Contents
<1>5. Contents \in Seq(Bytes \cup {NoByte}) /\ Contents # <<>>
  BY <1>1, ContentsIsSeq
<1> HIDE DEF Contents
<1> QED BY <1>1, <1>4, <1>5

(* The byte poll_event decodes is the first, also of what follows.         *)
LEMMA HeadOfStream ==
  ASSUME IInv, NEW w \in Seq(Bytes), reader = "decode"
  PROVE  /\ Stream(w) # <<>> /\ Head(Stream(w)) = byte
         /\ Tail(Stream(w)) = Tail(Contents) \o (Waiting \o w)
<1>1. PICK behind \in Seq(Bytes) : behind = Waiting \o w
  BY StreamType, BytesJoin
<1>2. /\ Contents \o behind # <<>> /\ Head(Contents \o behind) = Head(Contents)
      /\ Tail(Contents \o behind) = Tail(Contents) \o behind
  BY DecodesHead, StreamType, BytesJoin
<1> QED BY <1>1, <1>2, DecodesHead DEF Stream

LEMMA TakeShortens ==
  ASSUME IInv, IInv', NEW w \in Seq(Bytes), Decode, Advance
  PROVE  /\ Contents # <<>> /\ Contents' = Tail(Contents) /\ Head(Contents) = byte
         /\ Stream(w) # <<>> /\ Head(Stream(w)) = byte
         /\ Contents' \o (Waiting' \o w) = Tail(Stream(w))
<1>1. reader = "decode" /\ ~IsEmpty /\ UNCHANGED <<seqbuf, seqbuf_end, output>>
  BY DEF Decode, IInv, OnlyWrittenIsRead
<1>2. Contents' = Tail(Contents)
  BY <1>1, AdvanceTakes DEF IInv
<1>3. Waiting' = Waiting
  BY <1>1 DEF Waiting
<1> QED BY <1>1, <1>2, <1>3, DecodesHead, HeadOfStream
=============================================================================
