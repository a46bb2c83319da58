SPECIFICATION Spec
CONSTANTS
    NProc = 2
    Steps = 2
    Schedules <- AllSchedules
    Trips = {1, 5, 7}
    MinChunks = {1, 2}
    Rates = {1, 2}
    Weights = {1, 2, 3}
    Mu = 2
    Overhead = 1
    FirstChunk = 5
    Divider = 2
INVARIANTS
    TypeOK
    WorkConserved
    EqualRatesEqualChunks
    SumsBalance
    SubChunksFit
PROPERTIES
    KeepsPromise
