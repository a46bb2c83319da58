SPECIFICATION OrderedFairSpec
CONSTANTS
    NProc = 2
    Width = 6
    MaxTrip = 12
    MaxNumber = 14
    Interfaces = {"unordered", "iteration", "chunk"}
    OrderedTrip = 6
    Schedules <- SoundSchedules
    Trips <- UpToTwelve
    Chunks = {1, 2, 3}
    Sizes <- MCSizes
    First <- MCFirst
    Past <- MCPast
    Served <- MCServed
INVARIANTS
    TypeOK
    FlagIfSet
    CursorExact
    InOrder
PROPERTIES
    AllLeave
    KeepsPromise
