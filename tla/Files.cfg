SPECIFICATION Spec
CONSTANTS
    Handles = {h1}
    Failures = 1
    Volumes <- Discs
    Lengths = {5}
    SectorSize = 4
    Media = {"blank", "fat", "fat32", "iso"}
    MountNames <- MCMountNames
    NameMax = 2
    FsIds = {1, 2, 3}
INVARIANT FailedMountsLeaveNothing
 
 
CHECK_DEADLOCK FALSE
