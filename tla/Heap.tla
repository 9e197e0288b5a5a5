-------------------------------- MODULE Heap --------------------------------
(* What malloc, realloc and free promise their callers ("The standard       *)
(* function.", lib/liballoc/include/liballoc.h): the blocks in use never    *)
(* overlap, are aligned, and change only when a caller asks.                *)
EXTENDS Integers

CONSTANTS
  Addresses,  \* where blocks may lie
  Sizes,      \* what callers ask for
  Alignment

VARIABLE blocks  \* the blocks in use: [ptr, size]

Bytes(b) == b.ptr .. b.ptr + b.size - 1

Init == blocks = {}

Malloc ==
  \E ptr \in Addresses, size \in Sizes :
    LET new == [ptr |-> ptr, size |-> size]
    IN  /\ ptr % Alignment = 0
        /\ Bytes(new) \subseteq Addresses
        /\ \A b \in blocks : Bytes(b) \cap Bytes(new) = {}
        /\ blocks' = blocks \cup {new}

Free == \E b \in blocks : blocks' = blocks \ {b}

Shrink ==
  \E b \in blocks, size \in Sizes :
    size < b.size /\ blocks' = (blocks \ {b}) \cup {[b EXCEPT !.size = size]}

Next == Malloc \/ Free \/ Shrink

Spec == Init /\ [][Next]_blocks
=============================================================================
