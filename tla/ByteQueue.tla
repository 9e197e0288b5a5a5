----------------------------- MODULE ByteQueue -----------------------------
(* What the byte buffers of the PS/2 drivers promise: a first-in first-out    *)
(* queue behind a one-byte port. A byte that finds the queue full is the one  *)
(* that is lost; nothing is repeated, reordered or made up.                   *)
EXTENDS Naturals, Sequences

CONSTANTS Bytes, NoByte, Capacity

VARIABLES port, queue

Init == port = NoByte /\ queue = <<>>

Arrive(b) == port = NoByte /\ port' = b /\ UNCHANGED queue

Accept ==
  /\ port # NoByte
  /\ port' = NoByte
  /\ queue' = IF Len(queue) < Capacity THEN Append(queue, port) ELSE queue

Take == queue # <<>> /\ queue' = Tail(queue) /\ UNCHANGED port

Next == (\E b \in Bytes : Arrive(b)) \/ Accept \/ Take

Spec == Init /\ [][Next]_<<port, queue>>
=============================================================================
