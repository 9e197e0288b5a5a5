-------------------------------- MODULE Boot --------------------------------
(* From the BIOS to the program: the boot record of a disk (mbrboot.S) picks *)
(* a partition, that of the partition (fdboot.S) loads STAGE1.X86, which     *)
(* (stage1.c) loads VELLUM.X86, and that mounts the partition it came from   *)
(* (init.c).  A disk is [heads, spt, size, bad, strict], and what the file   *)
(* system on it says of itself: [hidden, reserved, fats, fatsize, entries,   *)
(* spc, root, fat].  What is loaded are numbers of sectors.                  *)
EXTENDS Integers, Sequences, SequencesExt

CONSTANTS PerSector,    \* entries of a directory in a sector: 16
          SectorBytes,  \* 512
          FatRead,      \* sectors of the table that stage1 reads: 8
          Cylinders,    \* that fit into an address: 1024
          Byte          \* 256

Ends(how, loaded) == [end |-> how, loaded |-> loaded]
Upto(first, count) == [k \in 1 .. count |-> first + k - 1]

-----------------------------------------------------------------------------
(* Reading sectors *)

LbaToChs(d, lba) == [cylinder |-> lba \div (d.heads * d.spt), head |-> (lba \div d.spt) % d.heads, sector |-> (lba % d.spt) + 1]

\* A strict BIOS does not read past the end of a cylinder.
BiosReads(d, first, count) ==
    /\ count > 0 /\ first + count <= d.size
    /\ d.bad \cap (first .. first + count - 1) = {}
    /\ d.strict => (first % (d.heads * d.spt)) + count <= d.heads * d.spt

VlBiosP_ReadDisk(d, chs, count) ==
    LET first == ((chs.cylinder % Cylinders) * d.heads + chs.head) * d.spt + chs.sector - 1
    IN [ok |-> BiosReads(d, first, count), sectors |-> Upto(first, count)]

read_disk(d, lba, count) == VlBiosP_ReadDisk(d, LbaToChs(d, lba + d.hidden), count)

-----------------------------------------------------------------------------
(* The file system *)

rootdir_lba(d) == d.reserved + d.fatsize * d.fats
cluster_start_lba(d) == rootdir_lba(d) + (d.entries + PerSector - 1) \div PerSector
ClusterLba(d, cluster) == cluster_start_lba(d) + (cluster - 2) * d.spc

Empty == [name |-> "", cluster |-> 0]
Entry(d, k) == IF k <= Len(d.root) THEN d.root[k] ELSE Empty

\* Two entries of the table are three bytes.
Linked(d, cluster) == IF cluster < Len(d.fat) THEN d.fat[cluster + 1] ELSE 0
FatByte(d, k) ==
    LET even == Linked(d, 2 * (k \div 3))
        odd == Linked(d, 2 * (k \div 3) + 1)
    IN CASE k % 3 = 0 -> even % 256 [] k % 3 = 1 -> (odd % 16) * 16 + even \div 256 [] OTHER -> odd \div 16

\* -1 is what lies beyond the sectors that were read.
NextCluster(d, cluster, sectors) ==
    LET k == (cluster * 3) \div 2
    IN IF k + 1 >= sectors * SectorBytes THEN -1
       ELSE IF cluster % 2 = 1 THEN FatByte(d, k + 1) * 16 + FatByte(d, k) \div 16
       ELSE (FatByte(d, k + 1) % 16) * 256 + FatByte(d, k)

-----------------------------------------------------------------------------
(* mbrboot.S: a table has four entries [flag, lba, good]; flags from 128 on  *)
(* are negative bytes.                                                       *)

mbrboot(table) ==
    LET active == {k \in DOMAIN table : table[k].flag >= 128}
    IN IF (\E k \in DOMAIN table : table[k].flag \in 1 .. 127) \/ (\E i, j \in active : i # j) THEN Ends("err_pt", <<>>)
       ELSE IF active = {} THEN Ends("diskless", <<>>)
       ELSE LET entry == table[CHOOSE k \in active : TRUE]
            IN CASE entry.good = "unreadable" -> Ends("err_rd", <<>>) [] entry.good = "unsigned" -> Ends("err_os", <<>>)
                 [] OTHER -> Ends("runs", <<entry.lba>>)

-----------------------------------------------------------------------------
(* fdboot.S: one sector of the directory, one of the table.  The number of   *)
(* sectors to read is what the lba left in the register.                     *)

RECURSIVE LoadStage1(_, _, _, _, _)
LoadStage1(d, cluster, di, mem, steps) ==
    LET lba == ClusterLba(d, cluster)
        r == read_disk(d, lba, lba % Byte)
        stored == SubSeq(mem, 1, di) \o r.sectors \o SubSeq(mem, di + Len(r.sectors) + 1, Len(mem))
        next == NextCluster(d, cluster, 1)
    IN IF steps = 0 THEN Ends("loops", mem)
       ELSE IF ~r.ok THEN Ends("diskerror", mem)
       ELSE IF next = -1 THEN Ends("wild", stored)
       ELSE IF next >= 4088 THEN Ends("runs", stored)
       ELSE LoadStage1(d, next, di + d.spc, stored, steps - 1)

fdboot(d) ==
    LET entries == {k \in 1 .. PerSector : Entry(d, k).name \in {"STAGE1", ""}}
        entry == Entry(d, Min(entries))
    IN IF ~read_disk(d, rootdir_lba(d), 1).ok THEN Ends("diskerror", <<>>)
       ELSE IF entries = {} THEN Ends("wild", <<>>)
       ELSE IF entry.name = "" THEN Ends("notfound", <<>>)
       ELSE IF ~read_disk(d, d.reserved, 1).ok THEN Ends("diskerror", <<>>)
       ELSE LoadStage1(d, entry.cluster, 0, <<>>, 9)

-----------------------------------------------------------------------------
(* stage1.c.  It looks at twice as many entries as a sector has: the second  *)
(* half of the buffer is still clear.                                        *)

RECURSIVE LoadStage2(_, _, _, _)
LoadStage2(d, cluster, loaded, steps) ==
    LET r == read_disk(d, ClusterLba(d, cluster), d.spc)
        next == NextCluster(d, cluster, FatRead)
    IN IF cluster > 4084 THEN Ends("runs", loaded)
       ELSE IF steps = 0 THEN Ends("loops", loaded)
       ELSE IF ~r.ok THEN Ends("diskerror", loaded)
       ELSE IF next = -1 THEN Ends("wild", loaded \o r.sectors)
       ELSE LoadStage2(d, next, loaded \o r.sectors, steps - 1)

s1main(d) ==
    LET Seen(k) == IF k <= PerSector THEN Entry(d, k) ELSE Empty
        entry == Seen(Min({k \in 1 .. 2 * PerSector : Seen(k).name \in {"VELLUM", ""}}))
    IN IF rootdir_lba(d) = cluster_start_lba(d) THEN Ends("notfound", <<>>)
       ELSE IF ~read_disk(d, rootdir_lba(d), 1).ok \/ ~read_disk(d, d.reserved, FatRead).ok THEN Ends("diskerror", <<>>)
       ELSE LoadStage2(d, entry.cluster, <<>>, 9)

-----------------------------------------------------------------------------
(* init.c: the boot sector is read once more, and the first device that      *)
(* begins with it is mounted.  A device is [block, size, ok, first].         *)

_pc_boot_sector(d) == VlBiosP_ReadDisk(d, LbaToChs(d, d.hidden), 1)

mount_boot_filesystem(d, devices) ==
    LET alike == {k \in DOMAIN devices : devices[k].block /\ devices[k].size <= 512 /\ devices[k].ok
                                        /\ <<devices[k].first>> = _pc_boot_sector(d).sectors}
    IN IF ~_pc_boot_sector(d).ok THEN "panic" ELSE IF alike = {} THEN "inaccessible" ELSE Min(alike)

-----------------------------------------------------------------------------
(* Reference: the sectors of a file *)

RECURSIVE Chain(_, _, _)
Chain(d, cluster, steps) ==
    IF steps = 0 \/ cluster \notin 2 .. 4087 THEN <<>> ELSE <<cluster>> \o Chain(d, Linked(d, cluster), steps - 1)
Last12(d, cluster) == LET c == Chain(d, cluster, 9) IN Len(c) < 9 /\ c # <<>> /\ Linked(d, Last(c)) >= 4088
\* Clusters have numbers from 2 on.
Starts(d, cluster) == d.hidden + d.reserved + d.fats * d.fatsize + Cardinality({k \in 0 .. d.entries - 1 : k % PerSector = 0}) + (cluster - 2) * d.spc
SectorsOf(d, cluster) ==
    FlattenSeq([k \in DOMAIN Chain(d, cluster, 9) |-> Upto(Starts(d, Chain(d, cluster, 9)[k]), d.spc)])

Place(d, name) == {k \in DOMAIN d.root : d.root[k].name = name}
\* In the first sector of the directory, with its links in the first sectors
\* of the table, on cylinders that have an address.
InReach(d, name, sectors) ==
    /\ Place(d, name) \cap 1 .. PerSector # {}
    /\ LET cluster == d.root[Min(Place(d, name))].cluster
       IN /\ Last12(d, cluster)
          /\ \A c \in ToSet(Chain(d, cluster, 9)) :
                /\ (c * 3) \div 2 + 1 < sectors * SectorBytes
                /\ Starts(d, c) + d.spc <= Cylinders * d.heads * d.spt
File(d, name) == SectorsOf(d, d.root[Min(Place(d, name))].cluster)

(* A file in reach is loaded whole and in order, or an error is shown, which *)
(* there is for a reason: a sector that cannot be read, for STAGE1 also one  *)
(* of those read after it, which stay in memory behind it.  STAGE1 must not  *)
(* have a cluster whose lba has a low byte below the size of clusters, or    *)
(* less than the cluster is read.  Where VELLUM is not in the first sector   *)
(* of the directory no message says so: what is in front of the clusters is  *)
(* loaded.                                                                   *)
LoadersLoad(d) ==
    LET one == fdboot(d)
        two == s1main(d)
        Needed(name) == {d.hidden + rootdir_lba(d)} \cup ToSet(File(d, name))
        \* As many sectors are read as the low byte of the lba says.
        enough == \A c \in ToSet(Chain(d, d.root[Min(Place(d, "STAGE1"))].cluster, 9)) : (Starts(d, c) - d.hidden) % Byte >= d.spc
    IN /\ InReach(d, "STAGE1", 1) /\ enough =>
             one.end = "diskerror" \/ (one.end = "runs" /\ IsPrefix(File(d, "STAGE1"), one.loaded))
       /\ InReach(d, "VELLUM", FatRead) =>
             \/ two.end = "runs" /\ two.loaded = File(d, "VELLUM")
             \/ two.end = "diskerror" /\ (d.strict \/ \E s \in Needed("VELLUM") \cup ToSet(Upto(d.hidden + d.reserved, FatRead)) : s \in d.bad \/ s >= d.size)
       /\ (two.end = "notfound") <=> d.entries = 0
       /\ Place(d, "VELLUM") \cap 1 .. PerSector = {} /\ two.loaded # <<>> =>
             two.loaded[1] = Starts(d, 0) % (Cylinders * d.heads * d.spt)

(* What a disk boots is its one active partition, and a table with two of    *)
(* them, or with flags that are none, boots nothing.                         *)
OneIsBooted(table) ==
    LET active == {k \in DOMAIN table : table[k].flag >= 128}
        sound == \A k \in DOMAIN table : table[k].flag \notin 1 .. 127
    IN /\ mbrboot(table).end = "runs" => sound /\ \E k \in active : active = {k} /\ mbrboot(table).loaded = <<table[k].lba>>
       /\ mbrboot(table).end = "diskless" => sound /\ active = {}

(* The file system that is mounted as boot is on the partition the program   *)
(* came from, as long as that begins below the cylinders' limit.             *)
BootIsMounted(d, devices) ==
    LET k == mount_boot_filesystem(d, devices)
    IN d.hidden < Cylinders * d.heads * d.spt /\ d.hidden \notin d.bad /\ d.hidden < d.size =>
         IF \E i \in DOMAIN devices : devices[i] = [block |-> TRUE, size |-> 512, ok |-> TRUE, first |-> d.hidden]
         THEN k \in DOMAIN devices /\ devices[k].first = d.hidden ELSE k = "inaccessible"
=============================================================================
