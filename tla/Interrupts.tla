----------------------------- MODULE Interrupts -----------------------------
(***************************************************************************)
(* Interrupt handlers (arch/ia32/pc/bios/isr.c) and the masks of the       *)
(* interrupt controllers (pic.c).  Handlers are added to and removed from  *)
(* the chain of their vector while interrupts are on: one may come between *)
(* any two steps.  Vectors are the lines of the controllers and traps; an  *)
(* interrupt is not interrupted, and its handlers leave the chains alone.  *)
(***************************************************************************)
EXTENDS Atomics, FiniteSets

CONSTANTS Controllers, \* interrupt controller -> its lines
          Traps,       \* vectors that are no line of a controller
          Handlers,    \* handler structures that memory has room for
          MaxCalls     \* calls of the functions below in all: a bound

VARIABLES table,      \* vector -> the first of its chain
          nxt,        \* handler -> the next one
          alive,      \* handlers that are allocated
          pic,        \* controller -> the lines its register masks
          thread,     \* the call in progress
          added,      \* vector -> the handlers added to it, in order
          wanted,     \* the lines that are to be masked
          clean,      \* no call has unlinked a handler yet
          ran,        \* the last interrupt and the handlers it ran
          calls

interruptVars == <<table, nxt, alive, pic, thread, added, wanted, clean, ran, calls>>

NoHandler == "null"
Lines == UNION {Controllers[p] : p \in DOMAIN Controllers}
Vectors == Lines \cup Traps
PortOf(line) == CHOOSE p \in DOMAIN Controllers : line \in Controllers[p]
Idle == [op |-> "none"]

\* A line belongs to one controller, and no handler lies at address 0.
ASSUME ControllersAssumption == \A p, q \in DOMAIN Controllers : p # q => Controllers[p] \cap Controllers[q] = {}
ASSUME HandlersAssumption == IsFiniteSet(Handlers) /\ NoHandler \notin Handlers

\* VlIntP_Init empties the table; _pc_pic_remap_int leaves no line masked.
InterruptInit ==
    /\ table = [v \in Vectors |-> NoHandler] /\ nxt = [e \in Handlers |-> NoHandler] /\ alive = {}
    /\ pic = [p \in DOMAIN Controllers |-> {}]
    /\ thread = Idle /\ added = [v \in Vectors |-> <<>>] /\ wanted = {}
    /\ clean = TRUE /\ ran = [vector |-> -1, handlers |-> <<>>] /\ calls = 0

\* The chain from entry e on, as far as it can be followed.
Chain(e) ==
    LET follow[n \in 0 .. Cardinality(Handlers)] ==
          IF n = 0 THEN IF e = NoHandler THEN <<>> ELSE <<e>>
          ELSE LET c == follow[n - 1]
               IN IF c = <<>> \/ nxt[Last(c)] = NoHandler THEN c ELSE Append(c, nxt[Last(c)])
    IN follow[Cardinality(Handlers)]

-----------------------------------------------------------------------------
Calls(call) ==
    /\ thread = Idle /\ calls < MaxCalls
    /\ thread' = call /\ calls' = calls + 1

\* A new handler, filled in.  What was freed may be handed out again.
VlIntP_AddHandler ==
    \E v \in Vectors, e \in Handlers \ alive :
        /\ Calls([op |-> "add", vector |-> v, entry |-> e])
        /\ alive' = alive \cup {e}
        /\ nxt' = [nxt EXCEPT ![e] = NoHandler]
        /\ UNCHANGED <<table, pic, added, wanted, clean, ran>>

\* A slip to compare with: the new handler takes the place of the chain.
LinkFirst ==
    LET v == thread.vector
        e == thread.entry
    IN /\ thread.op = "add" /\ thread' = Idle
       /\ table' = [table EXCEPT ![v] = e] /\ UNCHANGED nxt
       /\ added' = [added EXCEPT ![v] = Append(@, e)]
       /\ UNCHANGED <<alive, pic, wanted, clean, ran, calls>>

\* ... is linked behind the last one.
link ==
    LET v == thread.vector
        e == thread.entry
    IN /\ thread.op = "add" /\ thread' = Idle
       /\ IF table[v] = NoHandler THEN table' = [table EXCEPT ![v] = e] /\ UNCHANGED nxt
          ELSE nxt' = [nxt EXCEPT ![Last(Chain(table[v]))] = e] /\ UNCHANGED table
       /\ added' = [added EXCEPT ![v] = Append(@, e)]
       /\ UNCHANGED <<alive, pic, wanted, clean, ran, calls>>

\* Removing looks for the handler before it, and does nothing without one.
VlIntP_RemoveHandler ==
    \E v \in Vectors, e \in Handlers :
        LET before == {p \in ToSet(Chain(table[v])) : nxt[p] = e}
        IN /\ e \in ToSet(added[v]) /\ e \in alive
           /\ IF before = {} THEN Calls(Idle) /\ UNCHANGED <<nxt, clean, added>>
              ELSE \E p \in before :
                      /\ Calls([op |-> "remove", entry |-> p])
                      /\ nxt' = [nxt EXCEPT ![p] = nxt[e]]
                      /\ added' = [added EXCEPT ![v] = SelectSeq(@, LAMBDA h : h # e)]
                      /\ clean' = FALSE
           /\ UNCHANGED <<table, alive, pic, wanted, ran>>

\* It is the one before that is freed, which stays in the chain.
free ==
    /\ thread.op = "remove" /\ thread' = Idle
    /\ alive' = alive \ {thread.entry}
    /\ UNCHANGED <<table, nxt, pic, added, wanted, clean, ran, calls>>

\* The register of the controller is read, and written back with one line
\* more or less.  The descriptor's attributes are a byte and stay as they are.
VlIntP_Mask ==
    \E line \in Lines, op \in {"mask", "unmask"} :
        /\ Calls([op |-> op, line |-> line, read |-> pic[PortOf(line)]])
        /\ UNCHANGED <<table, nxt, alive, pic, added, wanted, clean, ran>>

write_mask ==
    /\ thread.op \in {"mask", "unmask"} /\ thread' = Idle
    /\ pic' = [pic EXCEPT ![PortOf(thread.line)] =
                 IF thread.op = "mask" THEN thread.read \cup {thread.line} ELSE thread.read \ {thread.line}]
    /\ wanted' = IF thread.op = "mask" THEN wanted \cup {thread.line} ELSE wanted \ {thread.line}
    /\ UNCHANGED <<table, nxt, alive, added, clean, ran, calls>>

\* An interrupt runs its chain, whatever the thread is at.
_pc_isr_common ==
    \E v \in Vectors :
        /\ v \in Lines => v \notin pic[PortOf(v)]
        /\ ran' = [vector |-> v, handlers |-> Chain(table[v])]
        /\ UNCHANGED <<table, nxt, alive, pic, thread, added, wanted, clean, calls>>

InterruptNext ==
    \/ VlIntP_AddHandler \/ link \/ VlIntP_RemoveHandler \/ free
    \/ VlIntP_Mask \/ write_mask \/ _pc_isr_common

-----------------------------------------------------------------------------
(* As long as nothing was unlinked, an interrupt has run the handlers that  *)
(* were added to its vector by then, in their order, none of them freed,    *)
(* wherever it came; and a masked line is quiet.                            *)
HandlersRun ==
    /\ clean => /\ ToSet(ran.handlers) \subseteq alive
                /\ ran.vector # -1 => IsPrefix(ran.handlers, added[ran.vector])
    /\ clean => \A v \in Vectors : Chain(table[v]) = added[v]
    /\ pic = [p \in DOMAIN Controllers |-> Controllers[p] \cap wanted]

(* As long as nothing was unlinked an interrupt runs the handlers of its     *)
(* vector, wherever it comes, and a masked line is quiet; and no addition to *)
(* a counter is lost to one, but by an exchange that looked too early.       *)
InterruptsLoseNothing == HandlersRun /\ NoUpdateIsLost

\* The chains and the words that handlers count in, side by side.
HandlersOrCounters ==
    \/ InterruptNext /\ UNCHANGED atomicVars
    \/ AtomicNext /\ UNCHANGED interruptVars

InterruptSpec == InterruptInit /\ AtomicInit /\ [][HandlersOrCounters]_<<interruptVars, atomicVars>>
=============================================================================
