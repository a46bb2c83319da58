SPECIFICATION FairSpec
CONSTANTS
    NProc = 3
    NumBuffers = 1
    Ntc <- TwoLoops
    NoWait = FALSE
    Wide = {1}
    Named = {2}
INVARIANTS
    TypeOK
    OnePlace
    StoreAlone
    NothingLost
PROPERTIES
    AllFinish
