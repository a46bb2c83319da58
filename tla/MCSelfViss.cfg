SPECIFICATION OrderedSpec
CONSTANTS
    NProc = 2
    Width = 6
    MaxTrip = 12
    MaxNumber = 14
    Interfaces = {"unordered"}
    OrderedTrip = 0
    Schedules = {"viss"}
    Trips <- UpToTwelve
    Chunks = {1}
    Sizes <- MCSizes
    First <- MCFirst
    Past <- MCPast
    Served <- MCServed
INVARIANTS
    AllHandedOut
