SPECIFICATION BarrierFairSpec
CONSTANTS
    MaxProc = 5
    Cases <- Teams
    SkipPerLevel <- TwoByTwo
INVARIANTS
    ReductionComplete
PROPERTIES
    ImplementsBarrier
    AllPass
