------------------------------- MODULE Clock -------------------------------
(***************************************************************************)
(* The real time clock (device/rtc/rtc_isa.c): get_time reads the clock's  *)
(* registers one by one while the clock goes on, and begins anew when the  *)
(* seconds have changed meanwhile.  The clock is external: for a while     *)
(* before each of its seconds it says that an update is in progress, and   *)
(* its registers read as anything then.  There are a second, a minute and  *)
(* an hour to read; day, month, year and century go like the hour.         *)
(***************************************************************************)
EXTENDS Integers, Sequences

CONSTANTS Seconds, Minutes, Hours,   \* 60, 60, 24
          Ten, DigitRoom,            \* what a digit counts, and the room it has: 10, 16
          HasTsc,                    \* the processor counts cycles
          MaxSeconds                 \* a bound

\* Two digits have room for each of the fields.
ASSUME ClockAssumption ==
    /\ Seconds \in Nat \ {0} /\ Minutes \in Nat \ {0} /\ Hours \in Nat \ {0}
    /\ Ten \in Nat \ {0} /\ DigitRoom \in Nat /\ Ten <= DigitRoom
    /\ Seconds <= Ten * DigitRoom /\ Minutes <= Ten * DigitRoom /\ Hours <= Ten * DigitRoom

VARIABLES time,      \* of the clock, in seconds
          updating,  \* an update is in progress
          reader,    \* get_time: where it is and what it has read
          torn,      \* a register was read during an update since the registers are read
          fresh,     \* an update interrupt was seen, with its count of cycles
          answer

clockVars == <<time, updating, reader, torn, fresh, answer>>

None == [from |-> 0, fields |-> <<>>, millisecond |-> 0]
NoReader == [at |-> "idle", from |-> 0, got |-> <<0, 0, 0>>]

ClockInit ==
    /\ time \in 0 .. Seconds * Minutes * Hours - 1 /\ updating = FALSE
    /\ reader = NoReader /\ torn = FALSE /\ fresh = FALSE /\ answer = None

\* The fields of a moment, and a field as the two digits of a register.
Field(i, t) == IF i = 1 THEN t % Seconds ELSE IF i = 2 THEN (t \div Seconds) % Minutes
               ELSE (t \div (Seconds * Minutes)) % Hours
Fields(t) == <<Field(1, t), Field(2, t), Field(3, t)>>
Register(n) == (n \div Ten) * DigitRoom + (n % Ten)
bcd2int(bcd) == ((bcd \div DigitRoom) % DigitRoom) * Ten + (bcd % DigitRoom)

\* What reading a register may have.
Readable(i) == IF updating THEN {0, Register(Field(i, time))} ELSE {Register(Field(i, time))}

-----------------------------------------------------------------------------
clock_updates == ~updating /\ updating' = TRUE /\ UNCHANGED <<time, reader, torn, fresh, answer>>
clock_ticks ==
    /\ updating /\ time < MaxSeconds
    /\ updating' = FALSE /\ time' = time + 1
    /\ UNCHANGED <<reader, torn, fresh, answer>>

\* The test for the counter of cycles is the wrong way round: with one, which
\* is what the driver needs, the milliseconds are not kept.
rtc_isr ==
    /\ fresh' = (fresh \/ ~HasTsc) /\ fresh' # fresh
    /\ UNCHANGED <<time, updating, reader, torn, answer>>

get_time ==
    /\ reader.at = "idle" /\ reader' = [NoReader EXCEPT !.at = "wait", !.from = time]
    /\ torn' = FALSE /\ answer' = None /\ UNCHANGED <<time, updating, fresh>>

\* An update is waited for once, and not before the registers are read again.
wait_update ==
    /\ reader.at = "wait" /\ ~updating /\ reader' = [reader EXCEPT !.at = "read", !.got = <<>>]
    /\ UNCHANGED <<time, updating, torn, fresh, answer>>

read_register ==
    LET i == Len(reader.got) + 1
    IN /\ reader.at = "read" /\ i <= 3
       /\ \E r \in Readable(i) : reader' = [reader EXCEPT !.got = Append(@, bcd2int(r))]
       /\ torn' = (torn \/ updating)
       /\ UNCHANGED <<time, updating, fresh, answer>>

\* A slip to compare with: the seconds are read again, and not compared.
BelievesAll(second) == reader.got[1] >= 0
Believes(second) == reader.got[1] = second

\* The seconds are read again.
read_again ==
    /\ reader.at = "read" /\ Len(reader.got) = 3
    /\ \E r \in Readable(1) :
          IF Believes(bcd2int(r))
          THEN /\ reader' = NoReader /\ torn' = (torn \/ updating)
               /\ \E ms \in IF ~HasTsc /\ fresh THEN {0, 999} ELSE {0} :
                    answer' = [from |-> reader.from, fields |-> reader.got, millisecond |-> ms]
          ELSE reader' = [reader EXCEPT !.got = <<>>] /\ torn' = FALSE /\ UNCHANGED answer
    /\ UNCHANGED <<time, updating, fresh>>

Reader == wait_update \/ read_register \/ read_again
ClockNext == clock_updates \/ clock_ticks \/ rtc_isr \/ get_time \/ Reader

ClockSpec == ClockInit /\ [][ClockNext]_clockVars

-----------------------------------------------------------------------------
(* A time that is answered is one that the clock showed between the call    *)
(* and now, unless the clock went around the seconds during the call or a   *)
(* register was read while it was being updated.                            *)
TimeIsShown ==
    answer.fields # <<>> /\ ~torn /\ time - answer.from < Seconds =>
        \E t \in answer.from .. time : answer.fields = Fields(t)
=============================================================================
