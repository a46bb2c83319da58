SPECIFICATION FairSpec
CONSTANTS
    Size = 3
    NProc = 2
    p1 = p1
    p2 = p2
    None = None
    Loops <- Alternating
    Barrier = TRUE
    Places = {p1, p2}
    Options = {3, 4}
    Percents <- SomePercents
    Durations = {1, 3}
INVARIANTS
    OwnSchedule
PROPERTIES
    AllFinish
    ImplementsTuning
