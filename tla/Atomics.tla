------------------------------ MODULE Atomics ------------------------------
(***************************************************************************)
(* The atomic operations for processors without them (lib/libatomic): they *)
(* turn interrupts off, and on again when they are done, whatever they     *)
(* were before.  A thread and interrupt handlers count in one word.        *)
(***************************************************************************)
EXTENDS Integers, Sequences, SequencesExt

CONSTANTS Values,     \* of the word: 2^32
          MaxDepth,   \* handlers inside one another: a bound of the stack
          MaxOps      \* operations in all: a bound

ASSUME ValuesAssumption == Values \in Nat \ {0}

VARIABLES word, interrupts,
          stack,      \* the operations in progress, the innermost last
          total,      \* what the operations that succeeded add up to
          raced,      \* a comparison was of a value that was not there any more
          ops

atomicVars == <<word, interrupts, stack, total, raced, ops>>

AtomicInit == word = 0 /\ interrupts = TRUE /\ stack = <<>> /\ total = 0 /\ raced = FALSE /\ ops = 0

Op(name, at) == [name |-> name, at |-> at, value |-> 0]
Top == Last(stack)
\* The first step of each: the exchange reads before it turns interrupts off.
Begins == {Op("add", "disable"), Op("sub", "disable"), Op("exchange", "look")}

\* The thread begins an operation, or an interrupt does.
begin ==
    \E op \in Begins :
        /\ ops < MaxOps /\ Len(stack) <= MaxDepth
        /\ stack = <<>> \/ interrupts
        /\ stack' = Append(stack, op) /\ ops' = ops + 1
        /\ interrupts' = (stack = <<>>)
        /\ UNCHANGED <<word, total, raced>>

Step(name, at, next) == stack # <<>> /\ Top.name = name /\ Top.at = at
                        /\ stack' = Append(Front(stack), next)

disable ==
    \E name \in {"add", "sub", "exchange"} :
        /\ Step(name, "disable", [Top EXCEPT !.at = IF name = "exchange" THEN "compare" ELSE "read"])
        /\ interrupts' = FALSE
        /\ UNCHANGED <<word, total, raced, ops>>

read ==
    \E name \in {"add", "sub"} :
        /\ Step(name, "read", [Top EXCEPT !.at = "write", !.value = word])
        /\ UNCHANGED <<word, interrupts, total, raced, ops>>

Change(name) == IF name = "sub" THEN -1 ELSE 1

write ==
    \E name \in {"add", "sub"} :
        /\ Step(name, "write", [Top EXCEPT !.at = "enable"])
        /\ word' = (Top.value + Change(name)) % Values
        /\ total' = (total + Change(name)) % Values
        /\ UNCHANGED <<interrupts, raced, ops>>

\* What the caller expects is what it read before; it wants one more.
look ==
    /\ Step("exchange", "look", [Top EXCEPT !.at = "disable", !.value = word])
    /\ UNCHANGED <<word, interrupts, total, raced, ops>>

\* The value that is compared is the one of look, or another the caller had.
compare ==
    \E matches \in BOOLEAN :
        /\ Step("exchange", "compare", [Top EXCEPT !.at = "enable"])
        /\ IF matches
           THEN /\ word' = (Top.value + 1) % Values /\ total' = (total + 1) % Values
                /\ raced' = (raced \/ word # Top.value)
           ELSE UNCHANGED <<word, total, raced>>
        /\ UNCHANGED <<interrupts, ops>>

\* Interrupts go on, inside of a handler as well, and the operation returns.
enable ==
    /\ stack # <<>> /\ Top.at = "enable"
    /\ stack' = Front(stack) /\ interrupts' = TRUE
    /\ UNCHANGED <<word, total, raced, ops>>

AtomicNext == begin \/ disable \/ read \/ write \/ look \/ compare \/ enable

-----------------------------------------------------------------------------
(* No addition is lost to an interrupt, however deep, except by a compare-  *)
(* and-exchange whose value changed between its look and its turning        *)
(* interrupts off.                                                          *)
NoUpdateIsLost == ~raced => word = total

AtomicSpec == AtomicInit /\ [][AtomicNext]_atomicVars
=============================================================================
