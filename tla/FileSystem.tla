----------------------------- MODULE FileSystem -----------------------------
(***************************************************************************)
(* What a file system driver of Vellum promises to fread, fseek and the    *)
(* directory walk, whatever the medium looks like.  A file is a sequence   *)
(* of bytes, an open file a position in it; a directory is a sequence of   *)
(* entries, the open directory a position in that.                         *)
(*                                                                         *)
(* A call during which a device read fails may leave a handle that is no   *)
(* longer sure of its place: the next seek or rewind that succeeds makes   *)
(* it sure again.  A failed read may also leave a buffer half overwritten; *)
(* while a buffer is torn, nothing that is answered can be relied on.      *)
(***************************************************************************)
EXTENDS Naturals, Sequences

CONSTANTS Handles       \* open files

VARIABLES medium,       \* the bytes of its files, those whose end cannot be sought,
                        \* the names its directories list and what each name leads to
          files,        \* handle -> its file, its position, and if that is sure
          walk,         \* the open directory, its position, and if that is sure
          failed,       \* device reads that have failed since the volume was mounted
          torn,         \* a buffer holds something else than it says
          answer        \* what the last call answered

fsVars == <<medium, files, walk, failed, torn, answer>>

Root == <<"root">>
Files == DOMAIN medium.bytes
Directories == DOMAIN medium.listing
Bytes(f) == medium.bytes[f]
Listing(d) == medium.listing[d]

Closed == [name |-> <<"none">>, pos |-> 0, sure |-> TRUE]
IsOpen(h) == files[h].name \in Files
Size(h) == Len(Bytes(files[h].name))
Left(h) == Size(h) - files[h].pos
Entries == Listing(walk.dir)
Walks == [dir : {walk.dir}, pos : 0 .. Len(Entries), sure : BOOLEAN]
IsListed(n) == \E i \in DOMAIN Entries : Entries[i] = n
LeadsTo(n, x) == IsListed(n) /\ medium.leads[walk.dir][n] = x

\* The name that is looked for, while it is.
Asks == answer[1] = "asked"
Asked == answer[2]

\* Device reads fail and buffers tear at any time; failures are counted.
Device ==
    /\ UNCHANGED medium
    /\ failed' \in Nat /\ failed' >= failed
    /\ torn' \in BOOLEAN

\* A device read fails in this step.
ReadFailed == failed' > failed

\* The device has given no reason to doubt what this step answers.
Whole == ~torn /\ ~torn'

\* A read never makes a handle sure, and leaves it in doubt of its place only
\* when it fails itself.
Keeps(h, sure) ==
    /\ sure => files[h].sure
    /\ files[h].sure => sure \/ ReadFailed \/ ~Whole

Init ==
    /\ files = [h \in Handles |-> Closed]
    /\ walk = [dir |-> Root, pos |-> 0, sure |-> TRUE]
    /\ failed = 0
    /\ torn \in BOOLEAN
    /\ answer = <<"none">>

\* A call begins.
Ask == answer' = <<"none">> /\ UNCHANGED <<files, walk>>

\* A place is in doubt before the call returns.
LoseTrack ==
    /\ ~Whole \/ ReadFailed
    /\ \/ walk' = [walk EXCEPT !.sure = FALSE] /\ UNCHANGED files
       \/ \E h \in Handles : files' = [files EXCEPT ![h].sure = FALSE] /\ UNCHANGED walk
    /\ UNCHANGED answer

\* Looking for a name starts at the first entry and stops at the name.
LookUp ==
    /\ walk' = [walk EXCEPT !.pos = 0, !.sure = TRUE]
    /\ answer'[1] = "asked"
    /\ UNCHANGED files

Open(h, f) ==
    /\ ~IsOpen(h)
    /\ Asks
    /\ LeadsTo(Asked, f) \/ ~(walk.sure /\ Whole)
    /\ files' = [files EXCEPT ![h] = [name |-> f, pos |-> 0, sure |-> TRUE]]
    /\ answer' = <<"opened", f>>
    /\ walk' \in Walks

Close(h) ==
    /\ IsOpen(h)
    /\ files' = [files EXCEPT ![h] = Closed]
    /\ answer' = <<"closed">>
    /\ UNCHANGED walk

\* A read answers the next n bytes and moves past them.
Read(h) ==
    /\ IsOpen(h)
    /\ \E n \in 0 .. Left(h), sure \in BOOLEAN :
         /\ Keeps(h, sure)
         /\ files' = [files EXCEPT ![h].pos = files[h].pos + n, ![h].sure = sure]
         /\ \/ answer' = <<"bytes", SubSeq(Bytes(files[h].name), files[h].pos + 1, files[h].pos + n)>>
            \/ ~(files[h].sure /\ Whole) /\ answer'[1] = "bytes" /\ Len(answer'[2]) = n
    /\ UNCHANGED walk

EndOfFile(h) ==
    /\ IsOpen(h)
    /\ Left(h) = 0
    /\ answer' = <<"end of file">>
    /\ UNCHANGED <<files, walk>>

ReadFails(h) ==
    /\ IsOpen(h)
    /\ ReadFailed \/ ~files[h].sure
    /\ \E n \in 0 .. Left(h), sure \in BOOLEAN :
         /\ Keeps(h, sure)
         /\ files' = [files EXCEPT ![h].pos = files[h].pos + n, ![h].sure = sure]
    /\ answer' = <<"error">>
    /\ UNCHANGED walk

\* The place that a seek asks for, which the end of the file cuts.
Place(h, to) == IF to < Size(h) THEN to ELSE Size(h)

\* A seek that succeeds moves the handle to the place it was asked for, and
\* makes it sure of it again.
Seek(h) ==
    /\ IsOpen(h)
    /\ answer'[1] = "moved"
    /\ \E sure \in BOOLEAN :
         /\ sure \/ ~Whole
         /\ files' = [files EXCEPT ![h].pos = Place(h, answer'[2]), ![h].sure = sure]
    /\ UNCHANGED walk

\* A seek that fails leaves the handle where it was. It fails with a device
\* read, or at the end of a file whose end the driver cannot seek to.
SeekFails(h) ==
    /\ IsOpen(h)
    /\ answer'[1] = "not moved"
    /\ \/ ReadFailed \/ ~Whole
       \/ Place(h, answer'[2]) = Size(h) /\ files[h].name \in medium.ends
    /\ UNCHANGED <<files, walk>>

\* A seek before the first byte, or from an origin that there is not.
SeekInvalid(h) ==
    /\ IsOpen(h)
    /\ answer' = <<"invalid">>
    /\ UNCHANGED <<files, walk>>

Rewind ==
    /\ walk' = [walk EXCEPT !.pos = 0, !.sure = TRUE]
    /\ answer' = <<"rewound">>
    /\ UNCHANGED files

\* The root directory can be opened without looking for a name.
OpenDirectory(d) ==
    /\ IF Asks THEN LeadsTo(Asked, d) \/ ~(walk.sure /\ Whole) ELSE d = Root
    /\ walk' = [dir |-> d, pos |-> 0, sure |-> TRUE]
    /\ answer' = <<"opened", d>>
    /\ UNCHANGED files

\* The walk answers each entry of the directory once, in order.
NextEntry ==
    /\ answer'[1] = "entry"
    /\ walk' \in Walks
    /\ \/ /\ walk.pos < Len(Entries)
          /\ walk'.pos = walk.pos + 1
          /\ answer' = <<"entry", Entries[walk.pos + 1]>>
          /\ walk'.sure \/ ~walk.sure
       \/ ~walk'.sure /\ (~walk.sure \/ ~Whole)
    /\ UNCHANGED files

EndOfList ==
    /\ answer' = <<"end of list">>
    /\ \/ walk.pos = Len(Entries) /\ UNCHANGED walk
       \/ ~(walk.sure /\ Whole) /\ walk' \in Walks /\ ~walk'.sure
    /\ UNCHANGED files

WalkFails ==
    /\ ReadFailed
    /\ answer' = <<"error">>
    /\ walk' \in Walks
    /\ UNCHANGED files

\* What was found is of the other kind, or there is no memory for a handle.
Refuse ==
    /\ Asks
    /\ IsListed(Asked) \/ ~(walk.sure /\ Whole)
    /\ answer' = <<"refused">>
    /\ walk' \in Walks
    /\ UNCHANGED files

\* A name that is not found: it is not there, or a read failed on the way.
NotFound ==
    /\ Asks
    /\ answer' = <<"not found">>
    /\ ~IsListed(Asked) \/ ReadFailed \/ ~(walk.sure /\ Whole)
    /\ walk' \in Walks
    /\ UNCHANGED files

FsStep ==
    \/ \E h \in Handles :
         \/ \E f \in Files : Open(h, f)
         \/ Read(h) \/ Seek(h) \/ Close(h) \/ EndOfFile(h) \/ ReadFails(h)
         \/ SeekFails(h) \/ SeekInvalid(h)
    \/ Ask \/ LookUp \/ LoseTrack \/ Rewind \/ NextEntry \/ EndOfList \/ WalkFails
    \/ Refuse \/ NotFound
    \/ \E d \in Directories : OpenDirectory(d)
    \/ UNCHANGED <<files, walk, answer>>

FsNext == Device /\ FsStep

FsSpec == Init /\ [][FsNext]_fsVars

=============================================================================
