------------------------------- MODULE Mounts -------------------------------
(***************************************************************************)
(* The list of mounted file systems (filesystem/fs.c) and the mount code   *)
(* of the two drivers, which puts a file system into the list before it    *)
(* knows whether the volume can be read, and takes it out again when not.  *)
(***************************************************************************)
EXTENDS Naturals, Sequences, FiniteSets, SequencesExt

CONSTANTS Media,        \* what can be in a drive: "fat", "fat32", "iso", "blank"
          MountNames,   \* names to mount under: sequences
          NameMax,      \* FILESYSTEM_NAME_MAX
          FsIds         \* file systems that can be created: a bound

VARIABLES mounts,       \* the list of fs.c
          fs,           \* what each file system holds; `end` is a history:
                        \* how its mount ended
          pieces,       \* the pieces of memory that are allocated
          attempt       \* the mount in progress

mountVars == <<mounts, fs, pieces, attempt>>

\* The order in which the drivers were registered.
Registered == <<"fat", "iso9660">>
NoFs == [name |-> <<>>, cut |-> FALSE, driver |-> "none", data |-> "none", end |-> "none"]
NoAttempt == [at |-> "none"]

MountInit ==
    /\ mounts = <<>>
    /\ fs = [i \in FsIds |-> NoFs]
    /\ pieces = {}
    /\ attempt = NoAttempt

Cut(name) == SubSeq(name, 1, IF Len(name) < NameMax THEN Len(name) ELSE NameMax - 1)

\* VlFs_Find compares NameMax bytes of the name with the name kept.
Matches(i, name) ==
    fs[i].name = SubSeq(name, 1, IF Len(name) < NameMax THEN Len(name) ELSE NameMax)
VlFs_Find(name) == {i \in FsIds : Contains(mounts, i) /\ Matches(i, name)}

-----------------------------------------------------------------------------
(* VlFs_MountAuto: each driver in turn *)

VlFs_MountAuto(medium, name) ==
    /\ attempt = NoAttempt
    /\ attempt' = [at |-> "probe", medium |-> medium, name |-> name, driver |-> 1, id |-> 0]
    /\ UNCHANGED <<mounts, fs, pieces>>

\* The driver has failed: the next one is asked.
NextDriver ==
    attempt' = IF attempt.driver = Len(Registered) THEN NoAttempt
               ELSE [attempt EXCEPT !.at = "probe", !.driver = @ + 1]

Asked == Registered[attempt.driver]

Accept == attempt' = [attempt EXCEPT !.at = "create"] /\ UNCHANGED <<mounts, fs, pieces>>

\* 512-byte blocks, the marks of a boot sector, and of FSInfo on FAT32.
probe_fat ==
    /\ attempt.at = "probe" /\ Asked = "fat"
    /\ attempt.medium \in {"fat", "fat32"}
    /\ Accept

\* 2048-byte blocks, and descriptors with a primary one among them.
probe_iso9660 ==
    /\ attempt.at = "probe" /\ Asked = "iso9660"
    /\ attempt.medium = "iso"
    /\ Accept

\* The wrong driver, or a device read that fails.
probe_fails ==
    /\ attempt.at = "probe"
    /\ NextDriver
    /\ UNCHANGED <<mounts, fs, pieces>>

-----------------------------------------------------------------------------
(* mount *)

VlFs_Create(name) ==
    /\ VlFs_Find(name) = {}
    /\ \E i \in FsIds :
         /\ ~Contains(mounts, i) /\ <<i, "fs">> \notin pieces
         /\ \A j \in FsIds : ~Contains(mounts, j) /\ <<j, "fs">> \notin pieces => i <= j
         /\ fs' = [fs EXCEPT ![i] = [name |-> Cut(name), cut |-> Cut(name) # name,
                                     driver |-> Asked, data |-> "none", end |-> "none"]]
         /\ mounts' = Append(mounts, i)
         /\ pieces' = pieces \cup {<<i, "fs">>}
         /\ attempt' = [attempt EXCEPT !.at = "data", !.id = i]

create == attempt.at = "create" /\ VlFs_Create(attempt.name)

\* The name is taken, or there is no memory.
create_fails ==
    /\ attempt.at = "create"
    /\ NextDriver
    /\ UNCHANGED <<mounts, fs, pieces>>

\* VlFs_Remove only looks behind the first file system of the list.
VlFs_Remove(i, kept) ==
    IF Contains(Tail(mounts), i)
    THEN /\ mounts' = RemoveAt(mounts, CHOOSE k \in 1 .. Len(mounts) : mounts[k] = i)
         /\ pieces' = kept \ {<<i, "fs">>}
         /\ fs' = [fs EXCEPT ![i] = NoFs]
    ELSE /\ pieces' = kept
         /\ fs' = [fs EXCEPT ![i].data = IF @ = "none" THEN @ ELSE "freed"]
         /\ UNCHANGED mounts

\* A slip to compare with: the driver's data is not freed.
ForgetData ==
    /\ VlFs_Remove(attempt.id, pieces)
    /\ NextDriver

has_error ==
    /\ VlFs_Remove(attempt.id, pieces \ {<<attempt.id, "data">>, <<attempt.id, "databuf">>})
    /\ NextDriver

MountEnded(how) == fs' = [fs EXCEPT ![attempt.id].end = how]

allocate_data ==
    /\ attempt.at = "data"
    /\ fs' = [fs EXCEPT ![attempt.id].data = "live"]
    /\ pieces' = pieces \cup {<<attempt.id, "data">>}
    /\ attempt' = [attempt EXCEPT !.at = "volume"]
    /\ UNCHANGED mounts

allocate_data_fails == attempt.at = "data" /\ has_error

read_boot_sector ==
    /\ attempt.at = "volume" /\ Asked = "fat"
    /\ pieces' = pieces \cup {<<attempt.id, "databuf">>}
    /\ \/ /\ attempt.medium = "fat32"
          /\ attempt' = [attempt EXCEPT !.at = "fsinfo"]
          /\ UNCHANGED fs
       \/ /\ attempt.medium # "fat32"
          /\ attempt' = NoAttempt
          /\ MountEnded("mounted")
    /\ UNCHANGED mounts

\* The descriptors, the primary one again and the path table.
read_descriptors ==
    /\ attempt.at = "volume" /\ Asked = "iso9660"
    /\ attempt' = NoAttempt
    /\ MountEnded("mounted")
    /\ UNCHANGED <<mounts, pieces>>

read_volume_fails == attempt.at = "volume" /\ has_error

read_fsinfo ==
    /\ attempt.at = "fsinfo"
    /\ attempt' = NoAttempt
    /\ MountEnded("mounted")
    /\ UNCHANGED <<mounts, pieces>>

\* The FAT driver returns without cleaning up: the file system stays listed.
read_fsinfo_fails ==
    /\ attempt.at = "fsinfo"
    /\ NextDriver
    /\ MountEnded("unread")
    /\ UNCHANGED <<mounts, pieces>>

-----------------------------------------------------------------------------
Mount ==
    \/ probe_fat \/ probe_iso9660 \/ probe_fails \/ create \/ create_fails
    \/ allocate_data \/ allocate_data_fails
    \/ read_boot_sector \/ read_descriptors \/ read_volume_fails \/ read_fsinfo \/ read_fsinfo_fails

MountNext == Mount \/ \E m \in Media, n \in MountNames : VlFs_MountAuto(m, n)

MountSpec == MountInit /\ [][MountNext]_mountVars /\ WF_mountVars(Mount)

-----------------------------------------------------------------------------
\* No two mounts have one name, unless a name was cut to the room for it.
NamesAreUnique ==
    \A i, j \in DOMAIN mounts :
        fs[mounts[i]].name = fs[mounts[j]].name => i = j \/ fs[mounts[i]].cut \/ fs[mounts[j]].cut

\* What is allocated beside a file system is that file system's.
NothingIsLost ==
    \A piece \in pieces : \E k \in DOMAIN mounts :
        mounts[k] = piece[1] /\ (piece[2] = "fs" \/ fs[piece[1]].data = "live")

(* Mounts have names of their own.  A mount that failed leaves no memory     *)
(* behind that nothing leads to: what is allocated is a file system of the   *)
(* list, or the data of one that has its data.  And it is not left in the    *)
(* list: between mounts the list holds mounted file systems, whole with      *)
(* their data, whatever failed on the way and whichever driver was asked.    *)
(* Two exceptions are the code's: FAT32's failure to read FSInfo leaves the  *)
(* file system listed ("unread"), and VlFs_Remove cannot take out the first. *)
FailedMountsLeaveNothing ==
    /\ NamesAreUnique
    /\ NothingIsLost
    /\ attempt = NoAttempt => \A k \in DOMAIN mounts : k > 1 =>
         fs[mounts[k]].data = "live" /\ fs[mounts[k]].end \in {"mounted", "unread"}
=============================================================================
