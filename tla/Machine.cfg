SPECIFICATION Spec
CONSTANTS
    Controllers <- MCControllers
    Traps = {14}
    Handlers = {"a", "b", "c"}
    MaxCalls = 4
    Values = 4
    MaxDepth = 2
    MaxOps = 4
    width = 3
    height = 3
    Wide = 2
    High = 2
    cursor_data <- Arrow
    PolygonPixels <- Polygon
    CloseButton <- Corner
    MaxPoints = 3
    Jumps = {2}
    MaxClicks = 3
    MaxRuns = 2
    Seconds = 3
    Minutes = 2
    Hours = 2
    Ten = 2
    DigitRoom = 4
    HasTsc = FALSE
    MaxSeconds = 16
    Octet = 2
    Nibble = 2
    Sectors = 20
    MaxReads = 2
    PerTable = 2
    Wrap = 64
    Room = 20
    Lbas = {0, 1, 2, 3, 4, 5, 6}
    ReadCounts = {0, 1, 3}
    Disks <- SomeDisks
    Kinds <- Buses
    Requests <- Asks
INVARIANT InterruptsLoseNothing
INVARIANT TransfersAreRight
INVARIANT TimeIsShown
INVARIANT PartitionsAreRight
INVARIANT FoundIsWhatIsThere
INVARIANT PictureIsKept
INVARIANT ChoicesAreCarriedOut
PROPERTY WaitsEnd
CHECK_DEADLOCK FALSE
