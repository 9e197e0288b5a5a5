------------------------------- MODULE SeqBuf -------------------------------
(***************************************************************************)
(* The byte buffer between a PS/2 interrupt handler and the foreground, as *)
(* ps2_keyboard.c and ps2_mouse.c both have it: a ring whose end only the  *)
(* handler moves and whose start only the foreground moves.                *)
(*                                                                         *)
(* There is one CPU: a handler runs between two steps of the foreground    *)
(* and is itself one step (gates clear IF). The foreground masks the line  *)
(* at the interrupt controller before it touches the ring, after it has    *)
(* looked whether there is anything in it.                                 *)
(***************************************************************************)
EXTENDS Integers, Sequences

CONSTANTS
  Size,    \* sizeof(data->seqbuf)
  Bytes,
  NoByte

ASSUME SeqBufAssumption ==
  /\ Size \in Nat /\ Size > 1
  /\ NoByte \notin Bytes

Slots == 0 .. Size - 1

VARIABLES
  seqbuf, seqbuf_start, seqbuf_end,
  output,   \* the i8042 output buffer: a byte of this device waits in it
  masked,   \* the line is masked at the interrupt controller
  reader,   \* where the foreground is in poll_event
  byte      \* the byte poll_event has read

ring == <<seqbuf, seqbuf_start, seqbuf_end>>
sbvars == <<seqbuf, seqbuf_start, seqbuf_end, output, masked, reader, byte>>

After(i) == (i + 1) % Size

IsEmpty == seqbuf_start = seqbuf_end

NeverFull == FALSE  \* a slip to compare with

IsFull == After(seqbuf_end) = seqbuf_start

(* The ring comes from malloc: a slot holds NoByte until it is written.    *)
InitSeqBuf ==
  /\ seqbuf = [i \in Slots |-> NoByte]
  /\ seqbuf_start = 0 /\ seqbuf_end = 0
  /\ output = NoByte
  /\ masked = FALSE
  /\ reader = "idle"
  /\ byte = NoByte

(* The device sends its next byte once the output buffer is free, and the  *)
(* controller raises the line.                                             *)
Send(b) ==
  /\ output = NoByte
  /\ output' = b
  /\ UNCHANGED <<seqbuf, seqbuf_start, seqbuf_end, masked, reader, byte>>

Isr ==
  /\ output # NoByte /\ ~masked
  /\ output' = NoByte
  /\ IF IsFull THEN UNCHANGED <<seqbuf, seqbuf_end>>
               ELSE /\ seqbuf' = [seqbuf EXCEPT ![seqbuf_end] = output]
                    /\ seqbuf_end' = After(seqbuf_end)
  /\ UNCHANGED <<seqbuf_start, masked, reader, byte>>

-----------------------------------------------------------------------------
(* poll_event, a step at a time.                                           *)

FindByte ==
  /\ reader = "idle" /\ ~IsEmpty
  /\ reader' = "mask"
  /\ UNCHANGED <<seqbuf, seqbuf_start, seqbuf_end, output, masked, byte>>

Mask ==
  /\ reader = "mask"
  /\ masked' = TRUE
  /\ reader' = "read"
  /\ UNCHANGED <<seqbuf, seqbuf_start, seqbuf_end, output, byte>>

ReadByte ==
  /\ reader = "read"
  /\ byte' = seqbuf[seqbuf_start]
  /\ reader' = "decode"
  /\ UNCHANGED <<seqbuf, seqbuf_start, seqbuf_end, output, masked>>

(* The byte is used up, or left for the next call.                         *)
Advance == seqbuf_start' = After(seqbuf_start)
Stay    == seqbuf_start' = seqbuf_start

Decode ==
  /\ reader = "decode"
  /\ Advance \/ Stay
  /\ reader' = "unmask"
  /\ UNCHANGED <<seqbuf, seqbuf_end, output, masked, byte>>

KeepMask == masked' = masked  \* a slip to compare with: an exit that skips Unmask

Unmasked == masked' = FALSE

Unmask ==
  /\ reader = "unmask"
  /\ Unmasked
  /\ reader' = "idle"
  /\ byte' = NoByte
  /\ UNCHANGED <<seqbuf, seqbuf_start, seqbuf_end, output>>

Poll == Mask \/ ReadByte \/ Decode \/ Unmask

Next == (\E b \in Bytes : Send(b)) \/ Isr \/ FindByte \/ Poll

Spec == InitSeqBuf /\ [][Next]_sbvars

-----------------------------------------------------------------------------
TypeOK ==
  /\ seqbuf \in [Slots -> Bytes \cup {NoByte}]
  /\ seqbuf_start \in Slots /\ seqbuf_end \in Slots
  /\ output \in Bytes \cup {NoByte}
  /\ masked \in BOOLEAN
  /\ reader \in {"idle", "mask", "read", "decode", "unmask"}
  /\ byte \in Bytes \cup {NoByte}

(* The slots that hold bytes, from seqbuf_start on. *)
Count == IF seqbuf_start <= seqbuf_end THEN seqbuf_end - seqbuf_start
                                       ELSE seqbuf_end - seqbuf_start + Size
Slot(k) == IF seqbuf_start + k < Size THEN seqbuf_start + k ELSE seqbuf_start + k - Size

Contents == [k \in 1 .. Count |-> seqbuf[Slot(k - 1)]]

(* Between start and end there are only bytes the handler wrote, and a call *)
(* past its check for an empty ring has such a byte at the start: masking   *)
(* after looking, and not before, does no harm.                             *)
OnlyWrittenIsRead ==
  /\ \A k \in 1 .. Count : Contents[k] \in Bytes
  /\ reader \in {"mask", "read", "decode"} => ~IsEmpty
  /\ reader = "decode" => byte = seqbuf[seqbuf_start]

(* The ring is the bounded queue, and loses a byte only when full.          *)
Q == INSTANCE ByteQueue WITH Capacity <- Size - 1, port <- output, queue <- Contents
QueueSpec == Q!Spec
=============================================================================
