-------------------------------- MODULE Fat --------------------------------
(***************************************************************************)
(* The FAT driver (filesystem/fat/fat.c): cluster chains, the two sector   *)
(* buffers it reads through, open files and the directory walk.  Calls     *)
(* come one after another; a call is cut at each device read, any of which *)
(* can fail, leaving the buffer as far overwritten as the drive had got.   *)
(*                                                                         *)
(* A medium block is named by its number and holds its own number: what a  *)
(* buffer holds is compared with what its key says.  The byte at offset o  *)
(* of block b is <<b, o>>.                                                 *)
(***************************************************************************)
EXTENDS Integers, Sequences, FiniteSets

CONSTANTS Volumes,      \* id -> the volume
          Handles,      \* open files
          Lengths,      \* lengths that callers read
          SectorSize,
          Failures      \* how many device reads may fail: a bound

VARIABLES id,           \* the mounted volume
          fatbuf,       \* fatbuf_lba and what fatbuf holds
          databuf,      \* databuf_lba_start and what databuf holds
          files,        \* handle -> fat_file_data
          dir,          \* fat_dir_data of the open directory
          call,         \* the call in progress
          answer,       \* what the last call answered
          failed        \* history: device reads that have failed

vars == <<id, fatbuf, databuf, files, dir, call, answer, failed>>
caches == <<fatbuf, databuf>>

None == -1
Junk == -2          \* memory nobody has written
Nowhere == 0        \* the end mark of a chain, past every cluster

-----------------------------------------------------------------------------
(* Geometry *)

volume == Volumes[id]
Clusters == DOMAIN volume.next
ClusterSize == SectorSize * volume.spc

fatcluster_to_sector(c) == volume.rootSectors + (c - 2) * volume.spc + 1

\* The table sectors that hold the entry of cluster c, in the order in which
\* they are read: a 12-bit entry may straddle two.
FatSectors(c) ==
    LET byte == c + c \div 2 IN
    CASE volume.type = 12 ->
           IF byte % SectorSize = SectorSize - 1
           THEN <<byte \div SectorSize, byte \div SectorSize + 1>>
           ELSE <<byte \div SectorSize>>
      [] volume.type = 16 -> <<c \div (SectorSize \div 2)>>
      [] volume.type = 32 -> <<c \div (SectorSize \div 4)>>

\* Blocks a buffer key stands for: a sector of the fixed root directory, or
\* a cluster.
Extent(lba) == IF lba <= volume.rootSectors THEN 1 ELSE volume.spc

Torn(buf, n) == buf.key # None /\ \E i \in 1 .. n : buf.holds[i] # buf.key + i - 1
FatTorn == Torn(fatbuf, 1)
DataTorn == Torn(databuf, Extent(databuf.key))

-----------------------------------------------------------------------------
(* Device reads through a buffer *)

\* The buffer after its first n blocks have been overwritten from lba on.
Overwritten(buf, lba, n) ==
    [i \in DOMAIN buf.holds |-> IF i <= n THEN lba + i - 1 ELSE buf.holds[i]]

\* Ways a read of n blocks from lba on can end.
Fetch(buf, lba, n) ==
    IF buf.key = lba
    THEN {[ok |-> TRUE, buf |-> buf]}
    ELSE {[ok |-> TRUE, buf |-> [key |-> lba, holds |-> Overwritten(buf, lba, n)]]}
         \cup {[ok |-> FALSE, buf |-> [buf EXCEPT !.holds = Overwritten(buf, lba, k)]] : k \in 0 .. n}

read_fat(sector) == Fetch(fatbuf, sector, 1)
read_sector(lba) == Fetch(databuf, lba, 1)

\* Past the end mark lies nothing the device would read.
read_cluster(c) ==
    IF c = Nowhere THEN {[ok |-> FALSE, buf |-> databuf]}
    ELSE Fetch(databuf, fatcluster_to_sector(c), volume.spc)

-----------------------------------------------------------------------------
(* Calls *)

NoCall == [op |-> "none", doubt |-> FALSE]
NoFile == <<"none">>
NoName == [text |-> [i \in 1 .. 2 |-> "?"], end |-> 2]
ClosedFile == [name |-> NoFile, size |-> 0, head |-> 0, current |-> 0, cursor |-> 0, sure |-> TRUE]
IsOpen(h) == files[h].name # NoFile

\* The reads that may fail are bounded.
DeviceFails == failed < Failures /\ failed' = failed + 1

Return(result) == answer' = result /\ call' = NoCall
Start(c) == answer' = <<"none">> /\ call' = c

\* The call goes on as c; doubt records that a buffer was torn on the way.
GoOn(c) ==
    /\ call' = [c EXCEPT !.doubt = @ \/ FatTorn \/ DataTorn]
    /\ UNCHANGED answer

\* open_root_directory, and the last lines of open_directory.
RootHead == IF volume.type = 32 THEN volume.rootCluster ELSE 0
OpenedDirectory(name, head, root) ==
    [name |-> name, head |-> head, current |-> head, root |-> root, index |-> 0, pos |-> 0, sure |-> TRUE]

Init ==
    /\ id \in DOMAIN Volumes
    /\ databuf = [key |-> None, holds |-> [i \in 1 .. volume.spc |-> Junk]]
    \* mount leaves fatbuf_lba as malloc returned it
    /\ \E k \in {None, 0} : fatbuf = [key |-> k, holds |-> <<Junk>>]
    /\ files = [h \in Handles |-> ClosedFile]
    /\ dir = OpenedDirectory(<<"root">>, RootHead, TRUE)
    /\ call = NoCall
    /\ answer = <<"none">>
    /\ failed = 0

\* get_next_cluster is asked to follow count links from cluster c and to go
\* on with the call afterwards.
Follow(rest, c, count) ==
    [rest EXCEPT !.at = "fat", !.cluster = c, !.need = FatSectors(c), !.good = TRUE, !.count = count]

\* A call of which nothing has been done yet.
Begin(op, h) ==
    [op |-> op, h |-> h, at |-> "start", cluster |-> 0, need |-> <<>>, good |-> TRUE, doubt |-> FALSE,
     count |-> 0, from |-> 0, to |-> 0, len |-> 0, got |-> <<>>, lfn |-> NoName, is_lfn |-> FALSE, name |-> NoFile]

-----------------------------------------------------------------------------
(* read *)

Min2(a, b) == IF a < b THEN a ELSE b
Left(h) == files[h].size - files[h].cursor

read(h, len) ==
    /\ call = NoCall
    /\ IsOpen(h)
    /\ IF Left(h) <= 0
       THEN Return(<<"end of file">>)
       ELSE Start([Begin("read", h) EXCEPT !.at = "data", !.len = Min2(len, Left(h)),
                                           !.from = files[h].cursor])
    /\ UNCHANGED <<id, fatbuf, databuf, files, dir, failed>>

\* The piece of the current cluster that the read takes next.
Offset == files[call.h].cursor % ClusterSize
Piece == Min2(ClusterSize - Offset, call.len)
Copied(buf) ==
    [i \in 1 .. Piece |-> <<buf.holds[(Offset + i - 1) \div SectorSize + 1], (Offset + i - 1) % SectorSize>>]

\* One turn of the loop up to the next link of the chain.
ReadPiece ==
    /\ call.op = "read" /\ call.at = "data"
    /\ \E r \in read_cluster(files[call.h].current) :
         /\ r.ok
         /\ databuf' = r.buf
         /\ files' = [files EXCEPT ![call.h].cursor = @ + Piece]
         /\ LET rest == [call EXCEPT !.len = @ - Piece, !.got = @ \o Copied(r.buf)]
            IN IF Offset + Piece < ClusterSize
               THEN Return(<<"bytes", rest.got>>)
               ELSE GoOn(Follow(rest, files[call.h].current, 1))
    /\ UNCHANGED <<id, fatbuf, dir, failed>>

ReadPieceFails ==
    /\ call.op = "read" /\ call.at = "data"
    /\ \E r \in read_cluster(files[call.h].current) :
         ~r.ok /\ databuf' = r.buf
    /\ files' = [files EXCEPT ![call.h].sure = FALSE]
    /\ IF files[call.h].current = Nowhere THEN UNCHANGED failed ELSE DeviceFails
    /\ Return(<<"error">>)
    /\ UNCHANGED <<id, fatbuf, dir>>

\* The chain goes on with cluster c.
NextCluster(c, good) ==
    /\ call.op = "read"
    /\ files' = [files EXCEPT ![call.h].current = c, ![call.h].sure = @ /\ good]
    /\ IF call.len > 0 /\ c # Nowhere
       THEN GoOn([call EXCEPT !.at = "data"])
       ELSE Return(<<"bytes", call.got>>)
    /\ UNCHANGED dir

\* A link that cannot be read ends the read as the end of the chain would.
ReadBreaks ==
    /\ call.op = "read"
    /\ files' = [files EXCEPT ![call.h].sure = FALSE]
    /\ Return(<<"bytes", call.got>>)
    /\ UNCHANGED dir
-----------------------------------------------------------------------------
(* seek *)

\* offset and origin come down to a position, which is cut at the size.
seek(h, to) ==
    /\ call = NoCall
    /\ IsOpen(h)
    /\ LET new_cursor == Min2(to, files[h].size)
           begun == [Begin("seek", h) EXCEPT !.from = new_cursor, !.to = to]
       IN IF new_cursor \div ClusterSize = 0
          THEN /\ files' = [files EXCEPT ![h].cursor = new_cursor, ![h].current = files[h].head,
                                         ![h].sure = TRUE]
               /\ Return(<<"moved", to>>)
          ELSE /\ Start(Follow(begun, files[h].head, new_cursor \div ClusterSize))
               /\ UNCHANGED files
    /\ UNCHANGED <<id, fatbuf, databuf, dir, failed>>

seek_invalid(h) ==
    /\ call = NoCall
    /\ IsOpen(h)
    /\ Return(<<"invalid">>)
    /\ UNCHANGED <<id, fatbuf, databuf, files, dir, failed>>

\* The place behind the last cluster of a file is in no cluster.
SeekLink(c, good) ==
    /\ call.op = "seek"
    /\ IF c = Nowhere
       THEN Return(<<"not moved", call.to>>) /\ UNCHANGED files
       ELSE IF call.count > 1
       THEN /\ GoOn([Follow(call, c, call.count - 1) EXCEPT !.good = good])
            /\ UNCHANGED files
       ELSE /\ files' = [files EXCEPT ![call.h].current = c, ![call.h].cursor = call.from,
                                      ![call.h].sure = good]
            /\ Return(<<"moved", call.to>>)
    /\ UNCHANGED dir

SeekBreaks ==
    /\ call.op = "seek"
    /\ Return(<<"not moved", call.to>>)
    /\ UNCHANGED <<files, dir>>

-----------------------------------------------------------------------------
(* The directory walk *)

IsRoot == volume.type # 32 /\ dir.head = 0
EntriesPerBlock == IF IsRoot THEN volume.entries ELSE volume.entries * volume.spc


Rewound == [dir EXCEPT !.current = dir.head, !.index = 0, !.pos = 0, !.sure = TRUE]

rewind_directory ==
    /\ call = NoCall
    /\ dir' = Rewound
    /\ Return(<<"rewound">>)
    /\ UNCHANGED <<id, fatbuf, databuf, files, failed>>

\* One call of iter_directory, as itself or for match_name.
iter_directory ==
    /\ call = NoCall
    /\ Start([Begin("list", CHOOSE h \in Handles : TRUE) EXCEPT !.at = "block"])
    /\ UNCHANGED <<id, fatbuf, databuf, files, dir, failed>>

match_name(op, h, name) ==
    /\ call = NoCall
    /\ dir' = Rewound
    /\ Start([Begin(op, h) EXCEPT !.at = "block", !.name = name])
    /\ UNCHANGED <<id, fatbuf, databuf, files, failed>>

AllEntries == UNION {{volume.slots[b][i] : i \in DOMAIN volume.slots[b]} : b \in DOMAIN volume.slots}

open(h, name) == ~IsOpen(h) /\ match_name("open", h, name)

\* In the root directory, "." and ".." name the root directory.
open_directory(name) ==
    IF dir.root /\ name \in {<<".">>, <<"..">>}
    THEN /\ call = NoCall
         /\ dir' = OpenedDirectory(<<"root">>, RootHead, TRUE)
         /\ Return(<<"opened", <<"root">>>>)
         /\ UNCHANGED <<id, fatbuf, databuf, files, failed>>
    ELSE match_name("opendir", CHOOSE h \in Handles : TRUE, name)

close(h) ==
    /\ call = NoCall
    /\ IsOpen(h)
    /\ files' = [files EXCEPT ![h] = ClosedFile]
    /\ Return(<<"closed">>)
    /\ UNCHANGED <<id, fatbuf, databuf, dir, failed>>

\* What the caller of iter_directory is told when there is no further entry.
Walking == call.op \in {"list", "open", "opendir"}
NoMore == IF call.op = "list" THEN <<"end of list">> ELSE <<"not found">>
NoRead == IF call.op = "list" THEN <<"error">> ELSE <<"not found">>

RootBlock == dir.index \div EntriesPerBlock

EndOfRoot ==
    /\ Walking /\ call.at = "block" /\ IsRoot
    /\ RootBlock >= volume.rootSectors
    /\ Return(NoMore)
    /\ UNCHANGED <<id, fatbuf, databuf, files, dir, failed>>

\* The block of entries the walk is in, or the link to the next one.
Block ==
    IF IsRoot THEN read_sector(1 + RootBlock) ELSE read_cluster(dir.current)

NeedsLink == ~IsRoot /\ dir.index >= EntriesPerBlock

FetchBlock ==
    /\ Walking /\ call.at = "block"
    /\ IsRoot => RootBlock < volume.rootSectors
    /\ IF NeedsLink
       THEN /\ GoOn(Follow(call, dir.current, 1))
            /\ UNCHANGED databuf
       ELSE /\ \E r \in Block : r.ok /\ databuf' = r.buf
            /\ GoOn([call EXCEPT !.at = "scan"])
    /\ UNCHANGED <<id, fatbuf, files, dir, failed>>

FetchBlockFails ==
    /\ Walking /\ call.at = "block"
    /\ IsRoot => RootBlock < volume.rootSectors
    /\ ~NeedsLink
    /\ \E r \in Block : ~r.ok /\ databuf' = r.buf
    /\ DeviceFails
    /\ dir' = [dir EXCEPT !.sure = FALSE]
    /\ Return(NoRead)
    /\ UNCHANGED <<id, fatbuf, files>>

\* The link to the next block is known: the walk is at its first entry, but
\* stays in its old block until the new one has been read.
BlockLink(c, good) ==
    /\ Walking
    /\ IF c = Nowhere
       THEN dir' = [dir EXCEPT !.sure = @ /\ good] /\ Return(NoMore)
       ELSE /\ dir' = [dir EXCEPT !.index = 0, !.sure = @ /\ good]
            /\ GoOn([call EXCEPT !.at = "next block", !.cluster = c])
    /\ UNCHANGED files

BlockLinkBreaks ==
    /\ Walking
    /\ dir' = [dir EXCEPT !.sure = FALSE]
    /\ Return(NoRead)
    /\ UNCHANGED files

FetchNext ==
    /\ Walking /\ call.at = "next block"
    /\ \E r \in read_cluster(call.cluster) :
         /\ databuf' = r.buf
         /\ IF r.ok
            THEN /\ dir' = [dir EXCEPT !.current = call.cluster]
                 /\ GoOn([call EXCEPT !.at = "scan"])
                 /\ UNCHANGED failed
            ELSE /\ dir' = [dir EXCEPT !.sure = FALSE]
                 /\ DeviceFails
                 /\ Return(NoRead)
    /\ UNCHANGED <<id, fatbuf, files>>

\* The entry at the walk's place, taken from what the buffer holds.  A sector
\* that holds no entries reads as the end of the list.
Current ==
    LET i == dir.index % EntriesPerBlock
        lba == databuf.holds[i \div volume.entries + 1]
    IN IF lba \in DOMAIN volume.slots THEN volume.slots[lba][(i % volume.entries) + 1]
       ELSE [kind |-> "end"]

\* get_lfn_filename: a fragment goes to its place, the last one ends the name.
WithFragment(buf, e) ==
    [text |-> [buf.text EXCEPT ![e.place] = e.text], end |-> IF e.last THEN e.place ELSE buf.end]

\* The name the caller sees: the long one that came before, or the short one.
NameOf(e) == IF call.is_lfn THEN SubSeq(call.lfn.text, 1, call.lfn.end) ELSE e.short


\* The walk passes one entry, and at the end of a block looks for the next.
Pass(c) ==
    /\ dir' = [dir EXCEPT !.index = @ + 1]
    /\ GoOn([c EXCEPT !.at = IF (dir.index + 1) % EntriesPerBlock = 0 THEN "block" ELSE "scan"])

Scanning == Walking /\ call.at = "scan"

SkipEntry ==
    /\ Scanning
    /\ CASE Current.kind = "deleted" -> Pass(call)
         [] Current.kind = "lfn" ->
              Pass([call EXCEPT !.lfn = WithFragment(@, Current), !.is_lfn = TRUE])
         [] Current.kind = "volume id" -> Pass([call EXCEPT !.is_lfn = FALSE])
         [] OTHER -> FALSE
    /\ UNCHANGED <<id, fatbuf, databuf, files, failed>>

EndOfEntries ==
    /\ Scanning
    /\ Current.kind = "end"
    /\ dir' = [dir EXCEPT !.sure = @ /\ ~(call.doubt \/ DataTorn)]
    /\ Return(NoMore)
    /\ UNCHANGED <<id, fatbuf, databuf, files, failed>>

\* The entry that iter_directory hands over.  It is looked up in the block by
\* the index into the whole directory: past the first sector of the fixed
\* root directory, that is whatever lies behind the block in the buffer, or
\* behind the buffer.
IsBeyond == dir.index >= EntriesPerBlock
Taken == IF IsBeyond THEN {e \in AllEntries : e.kind = "file"} ELSE {Current}

AtEntry(e) == [dir EXCEPT !.index = @ + 1, !.pos = @ + 1, !.sure = @ /\ e = Current /\ ~(call.doubt \/ DataTorn)]

ListEntry ==
    /\ Scanning /\ call.op = "list"
    /\ Current.kind = "file"
    /\ \E e \in Taken : dir' = AtEntry(e) /\ Return(<<"entry", NameOf(e)>>)
    /\ UNCHANGED <<id, fatbuf, databuf, files, failed>>

\* match_name compares and calls iter_directory again.
OtherEntry ==
    /\ Scanning /\ call.op # "list"
    /\ Current.kind = "file"
    /\ \E e \in Taken : NameOf(e) # call.name /\ dir' = AtEntry(e)
    /\ GoOn([call EXCEPT !.at = "block", !.lfn = NoName, !.is_lfn = FALSE])
    /\ UNCHANGED <<id, fatbuf, databuf, files, failed>>

Opened(e) ==
    [name |-> e.target, size |-> e.size, head |-> e.head, current |-> e.head,
     cursor |-> 0, sure |-> TRUE]

OpenFile ==
    /\ Scanning /\ call.op = "open"
    /\ Current.kind = "file"
    /\ \E e \in Taken :
         /\ NameOf(e) = call.name
         /\ dir' = AtEntry(e)
         /\ IF e.directory
            THEN Return(<<"refused">>) /\ UNCHANGED files
            ELSE /\ files' = [files EXCEPT ![call.h] = Opened(e)]
                 /\ Return(<<"opened", e.target>>)
    /\ UNCHANGED <<id, fatbuf, databuf, failed>>

\* An entry without a cluster is the way back to the root directory.
HeadOf(e) == IF e.head = 0 THEN volume.rootCluster ELSE e.head

OpenDirectory ==
    /\ Scanning /\ call.op = "opendir"
    /\ Current.kind = "file"
    /\ \E e \in Taken :
         /\ NameOf(e) = call.name
         /\ IF e.directory
            THEN /\ dir' = OpenedDirectory(e.target, HeadOf(e), e.head = 0)
                 /\ Return(<<"opened", e.target>>)
            ELSE dir' = AtEntry(e) /\ Return(<<"refused">>)
    /\ UNCHANGED <<id, fatbuf, databuf, files, failed>>

\* The new handle, or its data, cannot be allocated.
OpenFails ==
    /\ Scanning /\ call.op # "list"
    /\ Current.kind = "file"
    /\ \E e \in Taken : NameOf(e) = call.name /\ dir' = AtEntry(e)
    /\ Return(<<"refused">>)
    /\ UNCHANGED <<id, fatbuf, databuf, files, failed>>

-----------------------------------------------------------------------------
(* get_next_cluster *)

\* What the buffered entry says of the next cluster: the truth, when the
\* buffer held the right sectors.
Links(good) == IF good THEN {volume.next[call.cluster]} ELSE Clusters \cup {Nowhere}

FetchLink ==
    /\ call.op # "none" /\ call.at = "fat"
    /\ \E r \in read_fat(Head(call.need)) :
         /\ r.ok
         /\ fatbuf' = r.buf
         /\ LET good == call.good /\ r.buf.holds[1] = Head(call.need)
            IN IF Len(call.need) > 1
               THEN /\ GoOn([call EXCEPT !.need = Tail(@), !.good = good])
                    /\ UNCHANGED <<files, dir>>
               ELSE \E c \in Links(good) : NextCluster(c, good) \/ SeekLink(c, good) \/ BlockLink(c, good)
    /\ UNCHANGED <<id, databuf, failed>>

FetchLinkFails ==
    /\ call.op # "none" /\ call.at = "fat"
    /\ \E r \in read_fat(Head(call.need)) : ~r.ok /\ fatbuf' = r.buf
    /\ DeviceFails
    /\ ReadBreaks \/ SeekBreaks \/ BlockLinkBreaks
    /\ UNCHANGED <<id, databuf>>

-----------------------------------------------------------------------------
Client ==
    \/ \E h \in Handles :
         \/ \E n \in Lengths : read(h, n)
         \/ \E p \in volume.seeks : seek(h, p)
         \/ \E n \in volume.names : open(h, n)
         \/ seek_invalid(h) \/ close(h)
    \/ rewind_directory \/ iter_directory
    \/ \E n \in volume.directories : open_directory(n)

Driver ==
    \/ ReadPiece \/ ReadPieceFails
    \/ EndOfRoot \/ FetchBlock \/ FetchBlockFails \/ FetchNext
    \/ SkipEntry \/ EndOfEntries \/ ListEntry \/ OtherEntry
    \/ OpenFile \/ OpenDirectory \/ OpenFails
    \/ FetchLink \/ FetchLinkFails

Next == Client \/ Driver

Spec == Init /\ [][Next]_vars /\ WF_vars(Driver)

-----------------------------------------------------------------------------
(* What the volume holds *)

\* The k-th cluster of the chain that starts at head, counted from 0.
Nth(head, k) ==
    LET at[i \in 0 .. k] == IF i = 0 THEN head ELSE volume.next[at[i - 1]] IN at[k]

\* The bytes of a file.
BytesOf(e) ==
    [i \in 1 .. e.size |->
        <<fatcluster_to_sector(Nth(e.head, (i - 1) \div ClusterSize)) + ((i - 1) % ClusterSize) \div SectorSize,
          (i - 1) % SectorSize>>]

\* The files that fill their last cluster: a seek to the end of one follows a
\* link more than its chain has.
FillClusters(f) == volume.entryOf[f].size > 0 /\ volume.entryOf[f].size % ClusterSize = 0

FS == INSTANCE FileSystem WITH
    medium <- [bytes |-> [f \in volume.files |-> BytesOf(volume.entryOf[f])],
               ends |-> {f \in volume.files : FillClusters(f)},
               listing |-> volume.listing, leads |-> volume.leads],
    files <- [h \in Handles |->
                [name |-> files[h].name, sure |-> files[h].sure,
                 pos |-> IF call.op = "read" /\ call.h = h THEN call.from ELSE files[h].cursor]],
    walk <- [dir |-> dir.name, sure |-> dir.sure,
             pos |-> IF call.op \in {"open", "opendir"} THEN 0
                     ELSE Min2(dir.pos, Len(volume.listing[dir.name]))],
    answer <- IF call.op \in {"open", "opendir"} THEN <<"asked", call.name>> ELSE answer,
    failed <- failed,
    torn <- FatTorn \/ DataTorn \/ call.doubt \/ (Scanning /\ IsBeyond)
=============================================================================
