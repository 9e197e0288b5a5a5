----------------------------- MODULE Partitions -----------------------------
(***************************************************************************)
(* Partition tables and partitions (device/block/part): a disk is probed   *)
(* for the tables of mbr.c, nested ones included, and for that of gpt.c    *)
(* when there are none; part.c reads from what they describe.  Any read of *)
(* the disk may fail.                                                      *)
(***************************************************************************)
EXTENDS Integers, Sequences, SequencesExt

CONSTANTS Disks,      \* sector -> what is in it, one disk after another
          PerTable,   \* entries of a table of mbr.c: 4
          Wrap,       \* of a count of sectors: 2^32
          Lbas, ReadCounts,  \* that are read: bounds
          Room               \* where tables are

VARIABLES disk,
          step,       \* what the probe is at
          tables,     \* the tables of mbr.c that are being read, the inner one last
          gpt,        \* the list of gpt.c: its sector, what was read, where in it
          parts,      \* the partitions that are registered
          misread,    \* a failure went unnoticed
          reading     \* the last read of a partition, and the sectors it got

partitionVars == <<disk, step, tables, gpt, parts, misread, reading>>

NoList == [lba |-> 0, buf |-> <<>>, at |-> 0, size |-> 1, i |-> 0, n |-> 0]
NoRead == [part |-> 0, lba |-> 0, count |-> 0, got |-> 0, sector |-> 0]

PartitionInit ==
    /\ disk \in Disks /\ step = "mbr" /\ tables = <<[base |-> 0, i |-> 0]>>
    /\ gpt = NoList /\ parts = <<>> /\ misread = FALSE /\ reading = NoRead

\* What a sector is: a table, the header of a list, entries of one, or else.
On(d, lba) == IF lba \in DOMAIN d THEN d[lba] ELSE [kind |-> "data"]
TableAt(d, lba) == On(d, lba).kind = "mbr"
Content(lba) == On(disk, lba)
IsTable(lba) == TableAt(disk, lba)
IsProtective(lba) == IsTable(lba) /\ Content(lba).entries[1].type = "gpt"

Probing(place) == step = place /\ UNCHANGED <<disk, reading>>
\* A probe that fails removes its partitions; the next kind of table is tried.
Fails ==
    /\ step' = IF step = "mbr" THEN "gpt" ELSE "none"
    /\ tables' = <<>> /\ gpt' = NoList /\ parts' = <<>> /\ UNCHANGED misread

\* part.c refuses a partition that ends before it begins, and may find no room.
Registers(base, limit) == base <= limit /\ parts' = Append(parts, [base |-> base, limit |-> limit])

-----------------------------------------------------------------------------
(* mbr.c *)

Table == Last(tables)
TableEntry == Content(Table.base).entries[Table.i]
Later == [Table EXCEPT !.i = @ + 1]

register_partitions ==
    /\ Probing("mbr") /\ tables # <<>> /\ Table.i = 0
    /\ \/ Fails
       \/ /\ IsTable(Table.base) /\ ~IsProtective(Table.base)
          /\ tables' = Append(Front(tables), Later)
          /\ UNCHANGED <<step, gpt, parts, misread>>

\* A slip to compare with: every table counts from the beginning of the disk.
BelowTop(table, entry) == entry.base
Below(table, entry) == table.base + entry.base

\* An entry names a table, which is read before the next entry, or a partition.
register_entry ==
    /\ Probing("mbr") /\ tables # <<>> /\ Table.i \in 1 .. PerTable
    /\ UNCHANGED <<gpt, misread>>
    /\ CASE TableEntry.type = "none" -> tables' = Append(Front(tables), Later) /\ UNCHANGED <<step, parts>>
         [] TableEntry.type = "extended" ->
              /\ tables' = Append(Front(tables), Later) \o <<[base |-> Below(Table, TableEntry), i |-> 0]>>
              /\ UNCHANGED <<step, parts>>
         [] OTHER ->
              /\ Registers(Below(Table, TableEntry), Below(Table, TableEntry) + TableEntry.count - 1)
              /\ tables' = Append(Front(tables), Later) /\ UNCHANGED step

register_entry_fails ==
    /\ Probing("mbr") /\ tables # <<>> /\ Table.i \in 1 .. PerTable
    /\ TableEntry.type \notin {"none", "extended"} /\ Fails

register_partitions_end ==
    /\ Probing("mbr") /\ tables # <<>> /\ Table.i > PerTable
    /\ tables' = Front(tables) /\ step' = IF Len(tables) = 1 THEN "done" ELSE step
    /\ UNCHANGED <<gpt, parts, misread>>

-----------------------------------------------------------------------------
(* gpt.c *)

\* The table that protects the list, its header, and the list's first sector.
gpt_probe ==
    /\ Probing("gpt")
    /\ \/ Fails
       \/ LET header == Content(disk[0].entries[1].base)
          IN /\ IsProtective(0) /\ header.kind = "header"
             /\ gpt' = [lba |-> header.list, buf |-> Content(header.list).entries, at |-> 0,
                        size |-> header.size, i |-> 0, n |-> header.n]
             /\ step' = "list" /\ UNCHANGED <<tables, parts, misread>>

\* EntryRecords up to the first empty one, a sector after the other.  If the next
\* sector cannot be read, the one before stays in the buffer.
gpt_entry ==
    LET entry == gpt.buf[gpt.at + 1]
        next == [gpt EXCEPT !.i = @ + 1, !.at = @ + 1]
        turn == [next EXCEPT !.at = 0, !.lba = @ + 1]
    IN /\ Probing("list") /\ gpt.i < gpt.n /\ entry.type # "none"
       /\ Registers(entry.base, entry.limit)
       /\ IF next.at < gpt.size THEN gpt' = next /\ UNCHANGED misread
          ELSE \/ gpt' = [turn EXCEPT !.buf = Content(turn.lba).entries] /\ UNCHANGED misread
               \/ gpt' = turn /\ misread' = TRUE
       /\ UNCHANGED <<step, tables>>

gpt_entry_fails ==
    /\ Probing("list") /\ gpt.i < gpt.n /\ gpt.buf[gpt.at + 1].type # "none" /\ Fails

gpt_end ==
    /\ Probing("list") /\ (gpt.i = gpt.n \/ gpt.buf[gpt.at + 1].type = "none")
    /\ step' = "done" /\ UNCHANGED <<tables, gpt, parts, misread>>

-----------------------------------------------------------------------------
(* part.c *)

\* What is past the limit is taken off the count; the limit itself is past it.
Clipped(p, lba, count) ==
    LET over == p.base + lba + count - p.limit
    IN IF over > 0 THEN (count - over) % Wrap ELSE count

\* With nothing left, the read succeeds, and how much it read stays unset.
read_sectors ==
    \E p \in 1 .. Len(parts), lba \in Lbas, count \in ReadCounts :
        /\ step = "done" /\ lba <= parts[p].limit
        /\ reading' = [part |-> p, lba |-> lba, count |-> count,
                       got |-> Clipped(parts[p], lba, count), sector |-> parts[p].base + lba]
        /\ UNCHANGED <<disk, step, tables, gpt, parts, misread>>

PartitionNext ==
    \/ register_partitions \/ register_entry \/ register_entry_fails \/ register_partitions_end
    \/ gpt_probe \/ gpt_entry \/ gpt_entry_fails \/ gpt_end \/ read_sectors

PartitionSpec == PartitionInit /\ [][PartitionNext]_partitionVars

-----------------------------------------------------------------------------
\* What the first i entries of the table of mbr.c in sector b describe, those of
\* the tables inside included.
Nested(d) ==
    LET upto[x \in (0 .. Room) \X (0 .. PerTable)] ==
          LET b == x[1]
              i == x[2]
              e == On(d, b).entries[i]
          IN IF i = 0 \/ ~TableAt(d, b) THEN <<>>
             ELSE upto[<<b, i - 1>>] \o
                    CASE e.type = "none" -> <<>>
                      [] e.type = "extended" -> upto[<<b + e.base, PerTable>>]
                      [] OTHER -> <<[base |-> b + e.base, limit |-> b + e.base + e.count - 1]>>
    IN upto
UpTo(d, b, i) == Nested(d)[<<b, i>>]
\* The i-th entry of a list, and what it describes up to the first empty one.
Nth(d, header, i) == On(d, header.list + ((i - 1) \div header.size)).entries[((i - 1) % header.size) + 1]
InList(d, header) ==
    LET used == {n \in 0 .. header.n : \A i \in 1 .. n : Nth(d, header, i).type # "none"}
        all == CHOOSE n \in used : \A k \in used : k <= n
    IN [i \in 1 .. all |-> [base |-> Nth(d, header, i).base, limit |-> Nth(d, header, i).limit]]
Described ==
    IF IsProtective(0) THEN InList(disk, Content(disk[0].entries[1].base)) ELSE UpTo(disk, 0, PerTable)

EntryRecords == [type : {"none", "extended", "gpt", "data"}, base : Nat, count : Nat, limit : Int]
PartRecords == [base : Int, limit : Int]
\* A table lies behind the one it is inside of.
Behind(d) ==
    \A b \in 0 .. Room : TableAt(d, b) =>
        \A i \in 1 .. PerTable :
            LET e == On(d, b).entries[i]
            IN e.type = "extended" => e.base > 0 /\ b + e.base <= Room

ASSUME PartitionAssumption ==
    /\ PerTable \in Nat \ {0} /\ Wrap \in Nat /\ Room \in Nat
    /\ Lbas \subseteq Nat /\ ReadCounts \subseteq 0 .. Wrap - 1
    /\ \A d \in Disks : Behind(d) /\ \A lba \in DOMAIN d :
         /\ On(d, lba).kind = "mbr" => On(d, lba).entries \in [1 .. PerTable -> EntryRecords]
         /\ On(d, lba).kind = "header" =>
              /\ On(d, lba).list \in Nat /\ On(d, lba).size \in Nat \ {0} /\ On(d, lba).n \in Nat
              /\ \A i \in 1 .. On(d, lba).n : Nth(d, On(d, lba), i) \in EntryRecords

(* A probe that succeeds has registered what the tables describe, nested    *)
(* ones and all the sectors of a list included, in order, unless a sector   *)
(* of the list could not be read; and a read that begins before the last    *)
(* sector of its partition has the sectors from there on, as many as were   *)
(* asked for or as there are before the last, and none of another's.        *)
PartitionsAreRight ==
    /\ step = "done" /\ ~misread => parts = Described
    /\ reading.part # 0 =>
         LET p == parts[reading.part]
             left == p.limit - reading.sector
         IN left >= 0 => reading.got = IF reading.count < left THEN reading.count ELSE left
=============================================================================
