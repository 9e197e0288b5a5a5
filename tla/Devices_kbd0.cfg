SPECIFICATION Spec
CONSTANTS
    Addr <- MCAddr
    Machines <- MCMachines
    Floppies = 1
    Channels = 1
    Drives = 1
    MaxParts = 2
CHECK_DEADLOCK FALSE
INVARIANTS
    Kbd0IsAKeyboard
