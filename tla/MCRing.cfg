SPECIFICATION FairSpec
CONSTANTS
    t1 = t1
    t2 = t2
    t3 = t3
    Threads <- ThreeThreads
    NumBuffers = 2
    NumLoops = 4
    MaxRegions = 2
    Trip <- TripMixed
    Kind <- KindMixed
    NoWait <- AllNoWait
    FacFirst <- HalfBatch
    FacSize <- HalfBatch
    MinChunk = 1
INVARIANTS
    TypeOK
    OneLoopPerSlot
    ClearAlone
PROPERTIES
    AllFinish
    ImplementsPromise
