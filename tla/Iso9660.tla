------------------------------ MODULE Iso9660 ------------------------------
(***************************************************************************)
(* The ISO 9660 driver (filesystem/iso9660/iso9660.c): files and           *)
(* directories are runs of sectors, read through one buffer of a sector.   *)
(* A call is cut at each device read, any of which can fail and leave the  *)
(* buffer overwritten under its old number.                                *)
(*                                                                         *)
(* A sector is named by its number and holds its own number.  The byte at  *)
(* offset o of sector b is <<b, o>>; a directory sector holds a sequence   *)
(* of entries, its unused rest an entry of kind "end".                     *)
(***************************************************************************)
EXTENDS Integers, Sequences

CONSTANTS Volumes,      \* id -> the volume
          Handles,      \* open files
          Lengths,      \* lengths that callers read
          SectorSize,
          Failures      \* how many device reads may fail: a bound

Root == <<"root">>
NoFile == <<"none">>
IsSequence(s) == s \in Seq({s[i] : i \in DOMAIN s})

\* Sector s of a volume is directory d: its entries, and behind them an end.
IsDirectory(v, s, d) ==
    /\ d \in DOMAIN v.listing
    /\ s \in DOMAIN v.slots \cap Nat
    /\ LET n == Len(v.listing[d])
           slots == v.slots[s]
       IN /\ n < Len(slots)
          /\ slots[n + 1].kind = "end"
          /\ \A i \in 1 .. n :
                /\ slots[i].kind = "file"
                /\ slots[i].name = v.listing[d][i]
                /\ slots[i].target = v.leads[d][v.listing[d][i]]

\* An entry leads to a directory or to a file; behind the last there is an end.
IsEntry(v, e) ==
    IF e.kind = "end" THEN TRUE
    ELSE IF e.directory THEN IsDirectory(v, e.start, e.target)
    ELSE /\ e.target \in v.files
         /\ e.size = v.entryOf[e.target].size /\ e.start = v.entryOf[e.target].start

IsSector(v, slots) ==
    /\ IsSequence(slots) /\ slots # <<>> /\ slots[Len(slots)].kind = "end"
    /\ \A i \in 1 .. Len(slots) : slots[i].kind \in {"end", "file"} /\ IsEntry(v, slots[i])

ASSUME BoundsAssumption == SectorSize \in Nat \ {0} /\ Lengths \subseteq Nat \ {0} /\ Failures \in Nat /\ Handles # {}

\* Every directory lies in one sector and does not fill it: the walk of a
\* directory that does never gets to its end.
ASSUME VolumesAssumption ==
    \A i \in DOMAIN Volumes :
        LET v == Volumes[i] IN
        /\ v.pathtbl \in Nat /\ v.seeks \subseteq Nat
        /\ IsDirectory(v, v.rootdir, Root)
        /\ NoFile \notin v.files
        /\ \A f \in v.files : v.entryOf[f].size \in Nat /\ v.entryOf[f].start \in Nat
        /\ \A d \in DOMAIN v.listing : IsSequence(v.listing[d])
        /\ \A s \in DOMAIN v.slots : IsSector(v, v.slots[s])

VARIABLES id,           \* the mounted volume
          databuf,      \* databuf_lba and the sector databuf holds
          files,        \* handle -> iso9660_file_data
          dir,          \* iso9660_dir_data of the open directory
          call,         \* the call in progress
          answer,       \* what the last call answered
          failed        \* history: device reads that have failed

isoVars == <<id, databuf, files, dir, call, answer, failed>>

None == -1
Junk == -2
volume == Volumes[id]
Torn == databuf.key # None /\ databuf.holds # databuf.key

-----------------------------------------------------------------------------
(* Calls *)

NoCall == [op |-> "none", doubt |-> FALSE]
ClosedFile == [name |-> NoFile, size |-> 0, start |-> 0, cursor |-> 0, sure |-> TRUE]
OpenedDirectory(name, lba) ==
    [name |-> name, start |-> lba, lba |-> lba, index |-> 0, pos |-> 0, sure |-> TRUE]
IsOpen(h) == files[h].name # NoFile

Answer(result) == answer' = result /\ call' = NoCall
Start(c) == answer' = <<"none">> /\ call' = c
GoOn(c) ==
    /\ call' = [c EXCEPT !.doubt = @ \/ Torn]
    /\ UNCHANGED answer

NewCall(op, h, name) ==
    [op |-> op, h |-> h, at |-> "read", name |-> name, doubt |-> FALSE, from |-> 0, len |-> 0, got |-> <<>>]

\* mount has read the descriptors and the path table through the buffer.
IsoInit ==
    /\ id \in DOMAIN Volumes
    /\ databuf = [key |-> volume.pathtbl, holds |-> volume.pathtbl]
    /\ files = [h \in Handles |-> ClosedFile]
    /\ dir = OpenedDirectory(Root, volume.rootdir)
    /\ call = NoCall
    /\ answer = <<"none">>
    /\ failed = 0

\* Ways the read of a sector through the buffer can end.
read_sector(lba) ==
    IF databuf.key = lba
    THEN {[ok |-> TRUE, buf |-> databuf]}
    ELSE {[ok |-> TRUE, buf |-> [key |-> lba, holds |-> lba]]}
         \cup {[ok |-> FALSE, buf |-> [databuf EXCEPT !.holds = s]] : s \in {databuf.holds, lba}}

DeviceFails == failed < Failures /\ failed' = failed + 1

-----------------------------------------------------------------------------
(* Files *)

Min2(a, b) == IF a < b THEN a ELSE b
Left(h) == files[h].size - files[h].cursor

read(h, len) ==
    /\ call = NoCall
    /\ IsOpen(h)
    /\ IF Left(h) <= 0
       THEN Answer(<<"end of file">>)
       ELSE Start([NewCall("read", h, NoFile) EXCEPT !.len = Min2(len, Left(h)), !.from = files[h].cursor])
    /\ UNCHANGED <<id, databuf, files, dir, failed>>

Offset == files[call.h].cursor % SectorSize
Piece == Min2(SectorSize - Offset, call.len)
PieceSector == files[call.h].start + files[call.h].cursor \div SectorSize

\* One turn of the loop.
ReadPiece ==
    /\ call.op = "read"
    /\ \E r \in read_sector(PieceSector) :
         /\ r.ok
         /\ databuf' = r.buf
         /\ files' = [files EXCEPT ![call.h].cursor = @ + Piece]
         /\ LET got == call.got \o [i \in 1 .. Piece |-> <<r.buf.holds, Offset + i - 1>>]
            IN IF Piece = call.len
               THEN Answer(<<"bytes", got>>)
               ELSE GoOn([call EXCEPT !.len = @ - Piece, !.got = got])
    /\ UNCHANGED <<id, dir, failed>>

ReadPieceFails ==
    /\ call.op = "read"
    /\ \E r \in read_sector(PieceSector) : ~r.ok /\ databuf' = r.buf
    /\ DeviceFails
    /\ Answer(<<"error">>)
    /\ UNCHANGED <<id, files, dir>>

\* offset and origin come down to a position, which is cut at the size.
seek(h, to) ==
    /\ call = NoCall
    /\ IsOpen(h)
    /\ files' = [files EXCEPT ![h].cursor = Min2(to, files[h].size)]
    /\ Answer(<<"moved", to>>)
    /\ UNCHANGED <<id, databuf, dir, failed>>

seek_invalid(h) ==
    /\ call = NoCall
    /\ IsOpen(h)
    /\ Answer(<<"invalid">>)
    /\ UNCHANGED <<id, databuf, files, dir, failed>>

close(h) ==
    /\ call = NoCall
    /\ IsOpen(h)
    /\ files' = [files EXCEPT ![h] = ClosedFile]
    /\ Answer(<<"closed">>)
    /\ UNCHANGED <<id, databuf, dir, failed>>

-----------------------------------------------------------------------------
(* Directories *)

Rewound == [dir EXCEPT !.lba = dir.start, !.index = 0, !.pos = 0, !.sure = TRUE]

rewind_directory ==
    /\ call = NoCall
    /\ dir' = Rewound
    /\ Answer(<<"rewound">>)
    /\ UNCHANGED <<id, databuf, files, failed>>

iter_directory ==
    /\ call = NoCall
    /\ Start(NewCall("list", CHOOSE h \in Handles : TRUE, NoFile))
    /\ UNCHANGED <<id, databuf, files, dir, failed>>

match_name(op, h, name) ==
    /\ call = NoCall
    /\ dir' = Rewound
    /\ Start(NewCall(op, h, name))
    /\ UNCHANGED <<id, databuf, files, failed>>

open(h, name) == ~IsOpen(h) /\ match_name("open", h, name)

\* In the root directory, "." and ".." name the root directory.
open_directory(name) ==
    IF dir.start = volume.rootdir /\ name \in {<<".">>, <<"..">>}
    THEN /\ call = NoCall
         /\ dir' = OpenedDirectory(Root, volume.rootdir)
         /\ Answer(<<"opened", Root>>)
         /\ UNCHANGED <<id, databuf, files, failed>>
    ELSE match_name("opendir", CHOOSE h \in Handles : TRUE, name)

Walking == call.op \in {"list", "open", "opendir"}
NoMore == IF call.op = "list" THEN <<"end of list">> ELSE <<"not found">>
NoRead == IF call.op = "list" THEN <<"error">> ELSE <<"not found">>

FetchEntry ==
    /\ Walking /\ call.at = "read"
    /\ \E r \in read_sector(dir.lba) : r.ok /\ databuf' = r.buf
    /\ GoOn([call EXCEPT !.at = "entry"])
    /\ UNCHANGED <<id, files, dir, failed>>

FetchEntryFails ==
    /\ Walking /\ call.at = "read"
    /\ \E r \in read_sector(dir.lba) : ~r.ok /\ databuf' = r.buf
    /\ DeviceFails
    /\ Answer(NoRead)
    /\ UNCHANGED <<id, files, dir>>

\* The entry at the walk's place, in whatever the buffer holds.
Slots == IF databuf.holds \in DOMAIN volume.slots THEN volume.slots[databuf.holds] ELSE <<>>
Current == IF dir.index < Len(Slots) THEN Slots[dir.index + 1] ELSE [kind |-> "end"]

Sure == dir.sure /\ ~(call.doubt \/ Torn)

EndOfEntries ==
    /\ Walking /\ call.at = "entry"
    /\ Current.kind = "end"
    /\ dir' = [dir EXCEPT !.sure = Sure]
    /\ Answer(NoMore)
    /\ UNCHANGED <<id, databuf, files, failed>>

\* Past the last entry of a full sector the walk starts over in the same
\* sector; it is the start of the directory that moves on.
AtNext ==
    LET moved == [dir EXCEPT !.index = @ + 1, !.pos = @ + 1, !.sure = Sure] IN
    IF dir.index + 1 < Len(Slots) THEN moved
    ELSE [moved EXCEPT !.index = 0, !.start = @ + 1]

AtEntry == Walking /\ call.at = "entry" /\ Current.kind = "file"

ListEntry ==
    /\ AtEntry /\ call.op = "list"
    /\ dir' = AtNext
    /\ Answer(<<"entry", Current.name>>)
    /\ UNCHANGED <<id, databuf, files, failed>>

OtherEntry ==
    /\ AtEntry /\ call.op # "list"
    /\ Current.name # call.name
    /\ dir' = AtNext
    /\ GoOn([call EXCEPT !.at = "read"])
    /\ UNCHANGED <<id, databuf, files, failed>>

OpenFile ==
    /\ AtEntry /\ call.op = "open"
    /\ Current.name = call.name
    /\ dir' = AtNext
    /\ IF Current.directory
       THEN Answer(<<"refused">>) /\ UNCHANGED files
       ELSE /\ files' = [files EXCEPT ![call.h] =
                           [name |-> Current.target, size |-> Current.size, start |-> Current.start,
                            cursor |-> 0, sure |-> TRUE]]
            /\ Answer(<<"opened", Current.target>>)
    /\ UNCHANGED <<id, databuf, failed>>

OpenDirectory ==
    /\ AtEntry /\ call.op = "opendir"
    /\ Current.name = call.name
    /\ IF Current.directory
       THEN /\ dir' = OpenedDirectory(Current.target, Current.start)
            /\ Answer(<<"opened", Current.target>>)
       ELSE dir' = AtNext /\ Answer(<<"refused">>)
    /\ UNCHANGED <<id, databuf, files, failed>>

\* The new handle, or its data, cannot be allocated.
OpenFails ==
    /\ AtEntry /\ call.op # "list"
    /\ Current.name = call.name
    /\ dir' = AtNext
    /\ Answer(<<"refused">>)
    /\ UNCHANGED <<id, databuf, files, failed>>

-----------------------------------------------------------------------------
Client ==
    \/ \E h \in Handles :
         \/ \E n \in Lengths : read(h, n)
         \/ \E p \in volume.seeks : seek(h, p)
         \/ \E n \in volume.names : open(h, n)
         \/ seek_invalid(h) \/ close(h)
    \/ rewind_directory \/ iter_directory
    \/ \E n \in volume.directories : open_directory(n)

Driver ==
    \/ ReadPiece \/ ReadPieceFails \/ FetchEntry \/ FetchEntryFails
    \/ EndOfEntries \/ ListEntry \/ OtherEntry
    \/ OpenFile \/ OpenDirectory \/ OpenFails

IsoNext == Client \/ Driver

IsoSpec == IsoInit /\ [][IsoNext]_isoVars /\ WF_isoVars(Driver)

-----------------------------------------------------------------------------
(* What the volume holds *)

BytesOf(e) == [i \in 1 .. e.size |-> <<e.start + (i - 1) \div SectorSize, (i - 1) % SectorSize>>]

FS == INSTANCE FileSystem WITH
    medium <- [bytes |-> [f \in volume.files |-> BytesOf(volume.entryOf[f])],
               ends |-> {},
               listing |-> volume.listing, leads |-> volume.leads],
    files <- [h \in Handles |->
                [name |-> files[h].name, sure |-> files[h].sure,
                 pos |-> IF call.op = "read" /\ call.h = h THEN call.from ELSE files[h].cursor]],
    walk <- [dir |-> dir.name, sure |-> dir.sure,
             pos |-> IF call.op \in {"open", "opendir"} THEN 0
                     ELSE Min2(dir.pos, Len(volume.listing[dir.name]))],
    answer <- IF call.op \in {"open", "opendir"} THEN <<"asked", call.name>> ELSE answer,
    failed <- failed,
    torn <- Torn \/ call.doubt
=============================================================================
