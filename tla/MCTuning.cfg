SPECIFICATION TriedSpec
CONSTANTS
    Size = 4
    Policies = {"explore_first", "softmax"}
    Places = {p1}
    Trips <- OneTrip
    Team = 2
    Options = {2, 3, 4, 5, 6, 15}
    Times = {20, 21, 1500}
    Imbalances = {0, 3, 30}
    Rewards = {"looptime", "loadimbalance"}
    Stray = {0, 999}
    MaxTrials = 6
    MaxSteps = 17
    None = None
INVARIANTS
    TypeOK
    EachTriedOnce
    ExploresEachOnce
PROPERTIES
    SearchEnds
CHECK_DEADLOCK FALSE
