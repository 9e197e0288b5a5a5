------------------------------ MODULE MCFiles ------------------------------
(* The FAT driver, the ISO 9660 driver and the list of mounts, each on its *)
(* own: "part" says which one a behaviour is about.                        *)
EXTENDS TLC, Iso9660, Mounts

VARIABLES part, fatbuf

driverVars == <<isoVars, fatbuf>>

Missing == <<"missing">>
End == [kind |-> "end"]
Deleted == [kind |-> "deleted"]
VolumeId == [kind |-> "volume id"]
Lfn(place, text, last) == [kind |-> "lfn", place |-> place, text |-> text, last |-> last]
File(short, size, head, target) ==
    [kind |-> "file", short |-> <<short>>, size |-> size, head |-> head, directory |-> FALSE, target |-> target]
Dir(short, head, target) ==
    [kind |-> "file", short |-> <<short>>, size |-> 0, head |-> head, directory |-> TRUE, target |-> target]

Long == <<"A", "B">>
Small == <<"S">>
Sub == <<"D">>
Up == <<"..">>
Top == <<"root">>

\* Two clusters of two sectors of four bytes, filled to the last byte.
Whole16 == File("AB", 16, 2, Long)
Three(head) == File("S", 3, head, Small)

\* The clusters form the chains 2 3, 4 5, 6 and 7.
Chains == 2 :> 3 @@ 3 :> 0 @@ 4 :> 5 @@ 5 :> 0 @@ 6 :> 0 @@ 7 :> 0

\* Everything in the fixed root directory; the link of cluster 2 straddles
\* two sectors of the table.
Fat12 ==
    [type |-> 12, rootSectors |-> 1, rootCluster |-> 0, next |-> Chains, entries |-> 4, spc |-> 2,
     files |-> {Long, Small}, entryOf |-> Long :> Whole16 @@ Small :> Three(6),
     names |-> {Long, Small, Missing}, directories |-> {}, seeks |-> {0, 8, 16},
     listing |-> Top :> <<Long, Small>>, leads |-> Top :> (Long :> Long @@ Small :> Small),
     slots |-> 1 :> <<Lfn(2, "B", TRUE), Lfn(1, "A", FALSE), Whole16, Three(6)>>]

\* A directory of two clusters; the long name lies before the seam, its
\* file behind it.
Fat16 ==
    [type |-> 16, rootSectors |-> 1, rootCluster |-> 0, next |-> Chains, entries |-> 2, spc |-> 2,
     files |-> {Long}, entryOf |-> Long :> Whole16,
     names |-> {Long}, directories |-> {Sub, Long}, seeks |-> {9},
     listing |-> Top :> <<Sub>> @@ Sub :> <<Long>>,
     leads |-> Top :> (Sub :> Sub) @@ Sub :> (Long :> Long),
     slots |-> 1 :> <<Dir("D", 4, Sub), End>>
            @@ 6 :> <<Deleted, VolumeId>> @@ 7 :> <<Lfn(2, "B", TRUE), Lfn(1, "A", FALSE)>>
            @@ 8 :> <<Whole16, End>> @@ 9 :> <<End, End>>]

\* The root directory is cluster 7; the directory leads back to it.
Fat32 ==
    [type |-> 32, rootSectors |-> 0, rootCluster |-> 7, next |-> Chains, entries |-> 2, spc |-> 2,
     files |-> {Small}, entryOf |-> Small :> Three(6),
     names |-> {Small}, directories |-> {Sub, Up}, seeks |-> {0},
     listing |-> Top :> <<Sub>> @@ Sub :> <<Up, Small>>,
     leads |-> Top :> (Sub :> Sub) @@ Sub :> (Up :> Top @@ Small :> Small),
     slots |-> 11 :> <<Deleted, Dir("D", 4, Sub)>> @@ 12 :> <<End, End>>
            @@ 5 :> <<Dir("..", 0, Top), Deleted>> @@ 6 :> <<VolumeId, Deleted>>
            @@ 7 :> <<Three(6), End>> @@ 8 :> <<End, End>>]

\* A fixed root directory of two sectors: the long name lies in the first, its
\* file in the second. The file ends inside of its second cluster.
Eleven == File("AB", 11, 4, Long)
TwoRoots ==
    [type |-> 16, rootSectors |-> 2, rootCluster |-> 0, next |-> Chains, entries |-> 3, spc |-> 2,
     files |-> {Long, Small}, entryOf |-> Long :> Eleven @@ Small :> Three(6),
     names |-> {Long, Small}, directories |-> {}, seeks |-> {9, 12},
     listing |-> Top :> <<Small, Long>>, leads |-> Top :> (Long :> Long @@ Small :> Small),
     slots |-> 1 :> <<Three(6), Lfn(2, "B", TRUE), Lfn(1, "A", FALSE)>> @@ 2 :> <<Eleven, Deleted, End>>]

FatVolumes == 2 :> TwoRoots @@ 12 :> Fat12 @@ 16 :> Fat16 @@ 32 :> Fat32

Record(name, size, start, target) ==
    [kind |-> "file", name |-> name, size |-> size, start |-> start, directory |-> FALSE, target |-> target]
Folder(name, start, target) ==
    [kind |-> "file", name |-> name, size |-> 8, start |-> start, directory |-> TRUE, target |-> target]

\* A file of exactly two sectors, an empty one, a directory, and in it a file
\* of the same name as another.
Deep == <<"D", "S">>
Disc ==
    [pathtbl |-> 18, rootdir |-> 20,
     files |-> {Long, Small, Deep},
     entryOf |-> Long :> [size |-> 8, start |-> 30] @@ Small :> [size |-> 0, start |-> 40]
                 @@ Deep :> [size |-> 2, start |-> 41],
     names |-> {Long, Small, Sub}, directories |-> {Sub, Up}, seeks |-> {3, 8},
     listing |-> Top :> <<Up, Sub, Small>> @@ Sub :> <<Up, Long, Small>>,
     leads |-> Top :> (Up :> Top @@ Sub :> Sub @@ Small :> Small)
               @@ Sub :> (Up :> Top @@ Long :> Long @@ Small :> Deep),
     slots |-> 20 :> <<Folder(Up, 20, Top), Folder(Sub, 21, Sub), Record(Small, 0, 40, Small), End>>
            @@ 21 :> <<Folder(Up, 20, Top), Record(Long, 8, 30, Long), Record(Small, 2, 41, Deep), End>>]
Discs == 1 :> Disc

F == INSTANCE Fat WITH Volumes <- FatVolumes, Lengths <- {9}, SectorSize <- 4
MCMountNames == {<<"a">>, <<"a", "b">>, <<"c">>}

Init ==
    \/ part = "fat" /\ F!Init /\ MountInit
    \/ part = "iso" /\ IsoInit /\ MountInit /\ fatbuf = <<>>
    \/ part = "mounts" /\ MountInit
       /\ id = 0 /\ fatbuf = <<>> /\ databuf = <<>> /\ files = <<>> /\ dir = <<>>
       /\ call = NoCall /\ answer = <<>> /\ failed = 0

Fat == part = "fat" /\ F!Next /\ UNCHANGED <<part, mountVars>>
Iso == part = "iso" /\ IsoNext /\ UNCHANGED <<part, fatbuf, mountVars>>
Mounting == part = "mounts" /\ MountNext /\ UNCHANGED <<part, driverVars>>
Next == Fat \/ Iso \/ Mounting

vars == <<part, driverVars, mountVars>>
Working ==
    \/ part = "fat" /\ F!Driver /\ UNCHANGED <<part, mountVars>>
    \/ part = "iso" /\ Driver /\ UNCHANGED <<part, fatbuf, mountVars>>
Spec == Init /\ [][Next]_vars /\ WF_vars(Working)


(* A call to a driver returns, whatever fails on the way, except where the   *)
(* buffer of the FAT does not hold the sector its number says: a chain read  *)
(* from it may run in a circle.                                              *)
CallsReturn == call.op # "none" ~> call.op = "none" \/ (part = "fat" /\ F!FatTorn)
=============================================================================
