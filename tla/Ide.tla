-------------------------------- MODULE Ide --------------------------------
(***************************************************************************)
(* Reading from the two drives of an IDE bus: the controller's driver      *)
(* (device/block/ide_isa.c) and the drivers of the disks (ata.c) and of    *)
(* the CD drives (atapi.c).  The drives are external: a command makes one  *)
(* busy, and then it offers a block, is done or fails, as often as there   *)
(* are blocks left.  A loop that reads the status is a step that waits     *)
(* for the status it looks for.                                            *)
(* A register holds a byte, a number below Octet; the low half of the      *)
(* drive/head register is one below Nibble.                                *)
(***************************************************************************)
EXTENDS Integers, Sequences, SequencesExt

CONSTANTS Octet, Nibble, \* 256, 16
          Kinds,         \* what may be on the bus: a kind for either drive
          Sectors,       \* of each drive
          Requests,      \* [lba, count]
          MaxReads       \* a bound

\* Addresses have two times three bytes.
ASSUME IdeAssumption ==
    /\ Octet \in Nat \ {0, 1} /\ Nibble \in 1 .. Octet /\ Sectors \in Nat
    /\ Kinds \subseteq {"none", "ata", "atapi"} \X {"none", "ata", "atapi"}
    /\ Requests \subseteq [lba : 0 .. (Octet * Octet * Octet) * (Octet * Octet * Octet) - 1, count : Nat]

VARIABLES bus,           \* the drive that is selected, and the registers
          drives,        \* the drives
          call,          \* the call in progress
          found,         \* what the probe made out, drive by drive
          reads

ideVars == <<bus, drives, call, found, reads>>

Slaves == {0, 1}
Junk == <<"junk">>
Packet == <<"packet">>
Identity(s) == <<"identity", s>>
Sector(s, n) == <<"sector", s, n>>
Part(block) == [block EXCEPT ![1] = "part"]

Drive == drives[bus.slave]
IsBusy == Drive.state = "busy"
Wanted == Drive.state = "data"
Failed == Drive.state = "error"

IdeInit ==
    /\ \E k \in Kinds : drives = [s \in Slaves |-> [kind |-> k[s + 1], state |-> "idle", left |-> <<>>]]
    /\ bus = [slave |-> 0, regs |-> [r \in {"count", "sector", "low", "high"} |-> <<0, 0>>]]
    /\ call = [op |-> "detect", at |-> "reset", slave |-> 0, lba |-> 0, count |-> 0, got |-> <<>>]
    /\ found = [s \in Slaves |-> "none"] /\ reads = 0

-----------------------------------------------------------------------------
(* The drives *)

Becomes(s, state, left) == drives' = [drives EXCEPT ![s].state = state, ![s].left = left]
\* The selected drive takes a command, which leaves it these to offer.
Takes(left) == Becomes(bus'.slave, "busy", left)
Refuses == Becomes(bus'.slave, "error", <<>>)

Third == Octet * Octet * Octet  \* what three bytes count to
\* What the registers ask of a disk; a count of zero is a byte, or two, full.
Asked(extended, regs, head) ==
    LET Address(i) == regs.sector[i] + Octet * (regs.low[i] + Octet * regs.high[i])
        n == regs.count[1] + IF extended THEN Octet * regs.count[2] ELSE 0
    IN [lba |-> Address(1) + Third * (IF extended THEN Address(2) ELSE head),
        count |-> IF n # 0 THEN n ELSE IF extended THEN Octet * Octet ELSE Octet]

Blocks(s, ask) == [i \in 1 .. ask.count |-> Sector(s, ask.lba + i - 1)]
Answers(ask) ==
    IF ask.lba + ask.count <= Sectors THEN Takes(Blocks(bus'.slave, ask)) ELSE Refuses

\* A drive that is busy has done what it was asked for, or has the next block.
drive_answers ==
    \E s \in Slaves :
        /\ drives[s].state = "busy"
        /\ Becomes(s, IF drives[s].left = <<>> THEN "idle" ELSE "data", drives[s].left)
        /\ UNCHANGED <<bus, call, found, reads>>

drive_fails ==
    \E s \in Slaves :
        /\ drives[s].state = "busy" /\ Becomes(s, "error", <<>>)
        /\ UNCHANGED <<bus, call, found, reads>>

\* A CD drive may offer a part of a block, and the rest after it.
drive_offers_part ==
    \E s \in Slaves :
        /\ drives[s].state = "busy" /\ drives[s].kind = "atapi" /\ drives[s].left # <<>>
        /\ Head(drives[s].left)[1] = "sector"
        /\ Becomes(s, "data", <<Part(Head(drives[s].left))>> \o drives[s].left)
        /\ UNCHANGED <<bus, call, found, reads>>

\* What is read from the data register, and what becomes of the drive by that.
Offered == IF Wanted THEN Head(Drive.left) ELSE Junk
Handed ==
    IF ~Wanted THEN UNCHANGED drives
    ELSE Becomes(bus.slave, IF Len(Drive.left) > 1 THEN "busy" ELSE "idle", Tail(Drive.left))

-----------------------------------------------------------------------------
(* The driver of the controller *)

At(place) == call.at = place /\ UNCHANGED <<found, reads>>
Goes(place) == call' = [call EXCEPT !.at = place]
Looks == UNCHANGED <<bus, drives>>

\* A slip to compare with: the drive that was used last stays selected.
SelectNever(s) == bus
Select(s) == [bus EXCEPT !.slave = s]

\* The first drive is selected, and both begin anew.  What an absent one
\* answers is zero next to the other drive, and ones on an empty bus.
bus_soft_reset ==
    /\ At("reset")
    /\ bus' = [bus EXCEPT !.slave = 0]
    /\ drives' = [s \in Slaves |-> [drives[s] EXCEPT !.left = <<>>,
                                      !.state = IF drives[s].kind = "none" THEN "idle" ELSE "busy"]]
    /\ Goes(IF \A s \in Slaves : drives[s].kind = "none" THEN "failed" ELSE "reset done")

\* A slip to compare with: the wait is for a drive that is ready, and one that
\* has failed never is.
ResetUntilReady ==
    /\ At("reset done") /\ ~IsBusy /\ ~Failed /\ Looks /\ Goes("signature")
bus_soft_reset_done ==
    /\ At("reset done") /\ ~IsBusy /\ Looks /\ Goes(IF Failed THEN "failed" ELSE "signature")

\* The signature that a reset leaves says what the drive is, and that it is
\* there, whether it is still busy or has failed.
detect_device ==
    /\ At("signature")
    /\ bus' = [bus EXCEPT !.slave = call.slave] /\ UNCHANGED drives
    /\ Goes(IF drives[call.slave].kind = "none" THEN "failed" ELSE "switch")

switch_device == At("switch") /\ bus' = Select(call.slave) /\ UNCHANGED drives /\ Goes("switched")

\* Where a call goes once the drive is selected.
Command == IF call.op # "read" THEN "identify" ELSE IF found[call.slave] = "ata" THEN "command" ELSE "packet"

\* An error counts if the drive was busy before.
switched ==
    /\ At("switched") /\ Looks /\ Goes(IF IsBusy THEN "switching" ELSE Command)
switching ==
    /\ At("switching") /\ ~IsBusy /\ Looks /\ Goes(IF Failed THEN "failed" ELSE Command)

\* IDENTIFY DEVICE or IDENTIFY PACKET DEVICE: a block, with no packet.
identify ==
    /\ At("identify") /\ UNCHANGED bus
    /\ Takes(<<Identity(bus.slave)>>)
    /\ call' = [call EXCEPT !.at = "taken", !.count = 1]

\* read of ata.c clips the count to two bytes.  Below 2^28 the registers have
\* the address and the low byte of the count; from there on they take two
\* writes each, the one that comes first for the high bytes.
Clip(count) == IF count > Octet * Octet - 1 THEN Octet * Octet - 1 ELSE count
Extended(lba) == lba >= Third * Nibble
Shifted(n) == n \div Octet
Upper(lba) == Shifted(Shifted(Shifted(lba)))
Written(regs, values) == [r \in DOMAIN regs |-> <<values[r], regs[r][1]>>]
Lowest(lba, n) ==
    [count |-> n % Octet, sector |-> lba % Octet, low |-> Shifted(lba) % Octet, high |-> Shifted(Shifted(lba)) % Octet]

send_command ==
    LET n == Clip(call.count)
        high == IF Extended(call.lba) THEN Written(bus.regs, Lowest(Upper(call.lba), Shifted(n))) ELSE bus.regs
        regs == Written(high, Lowest(call.lba, n))
    IN /\ At("command")
       /\ bus' = [bus EXCEPT !.regs = regs]
       /\ Answers(Asked(Extended(call.lba), regs, (Upper(call.lba) % Octet) % Nibble))
       /\ call' = [call EXCEPT !.at = "taken", !.count = n]

\* A block is read whenever the drive is not busy, offered or not, and one at
\* the least.
send_command_done ==
    /\ At("taken") /\ ~IsBusy /\ Looks /\ Goes(IF Failed THEN "failed" ELSE "data")

send_command_pVlA_Input ==
    /\ At("data") /\ ~IsBusy /\ UNCHANGED bus
    /\ IF Failed THEN Looks /\ Goes("check")
       ELSE /\ Handed
            /\ call' = [call EXCEPT !.got = Append(@, Offered),
                          !.at = IF Len(call.got) + 1 < call.count THEN "data" ELSE "check"]

\* The status is looked at once more: a drive that has failed by now counts.
check == At("check") /\ Looks /\ Goes(IF Failed THEN "failed" ELSE "ok")

send_command_packet ==
    At("packet") /\ UNCHANGED bus /\ Takes(<<Packet>>) /\ Goes("packet wanted")

\* Twelve words are written of a packet of twelve bytes: the drive takes six.
packet_written ==
    /\ At("packet wanted") /\ UNCHANGED bus /\ (Wanted \/ Failed)
    /\ IF Failed THEN Looks /\ Goes("failed")
       ELSE /\ IF call.count = 0 THEN Takes(<<>>) ELSE Answers([lba |-> call.lba, count |-> call.count])
            /\ Goes("packet taken")

packet_taken ==
    /\ At("packet taken") /\ ~IsBusy /\ Looks /\ Goes(IF Failed THEN "failed" ELSE "packet data")

\* A block is read when it is offered; a part of one ends the call, and is not
\* counted.
send_command_packet_input ==
    /\ At("packet data") /\ UNCHANGED bus /\ (Wanted \/ Failed)
    /\ IF Failed THEN Looks /\ Goes("check")
       ELSE LET whole == Offered[1] = "sector"
            IN /\ Handed
               /\ call' = [call EXCEPT !.got = IF whole THEN Append(@, Offered) ELSE @,
                             !.at = IF whole /\ Len(call.got) + 1 < call.count THEN "packet data" ELSE "check"]

-----------------------------------------------------------------------------
(* The calls, one after the other *)

Ended == call.at \in {"ok", "failed"}
Begin(op, at, s, lba, count) ==
    call' = [op |-> op, at |-> at, slave |-> s, lba |-> lba, count |-> count, got |-> <<>>]

\* The probe detects either drive, the bus being reset for each; then the
\* driver of a drive asks it for its identity again.
probe ==
    /\ Ended /\ call.op \in {"detect", "identify"} /\ Looks /\ UNCHANGED reads
    /\ LET s == call.slave
           now == [found EXCEPT ![s] = IF call.at = "ok" THEN drives[s].kind ELSE "none"]
           later == {t \in Slaves : now[t] # "none" /\ (call.op = "detect" \/ t > s)}
       IN /\ found' = now
          /\ IF call.op = "detect" /\ s = 0 THEN Begin("detect", "reset", 1, 0, 0)
             ELSE IF later = {} THEN Begin("none", "ok", 0, 0, 0)
             ELSE Begin("identify", "switch", CHOOSE t \in later : \A u \in later : t <= u, 0, 0)

read_blocks ==
    \E s \in Slaves, r \in Requests :
        /\ Ended /\ call.op \in {"none", "read"} /\ found[s] # "none" /\ reads < MaxReads
        /\ Begin("read", "switch", s, r.lba, r.count) /\ reads' = reads + 1
        /\ Looks /\ UNCHANGED found

DriverStep ==
    \/ bus_soft_reset \/ bus_soft_reset_done \/ detect_device \/ switch_device \/ switched \/ switching
    \/ identify \/ send_command \/ send_command_done \/ send_command_pVlA_Input \/ check
    \/ send_command_packet \/ packet_written \/ packet_taken \/ send_command_packet_input
    \/ probe
DriveStep == drive_answers \/ drive_fails \/ drive_offers_part
IdeNext == DriverStep \/ DriveStep \/ read_blocks

IdeSpec == IdeInit /\ [][IdeNext]_ideVars

-----------------------------------------------------------------------------
(* A read that succeeds has the blocks that were asked for, of the drive    *)
(* that was asked, in order: all of them on a disk, up to a byte's worth    *)
(* below 2^28 sectors; those that were counted on a CD drive.               *)
TransfersAreRight ==
    call.op = "read" /\ call.at = "ok" /\ call.count # 0 =>
        LET asked == Blocks(call.slave, call)
        IN IF found[call.slave] = "atapi" THEN IsPrefix(call.got, asked)
           ELSE call.count <= Octet \/ Extended(call.lba) => call.got = asked

(* Every call that asks for something comes to an end, if the drives answer *)
(* or fail.                                                                 *)
CallEnds == Ended \/ (call.op = "read" /\ call.count = 0)
=============================================================================
