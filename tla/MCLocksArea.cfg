SPECIFICATION Spec
CONSTANTS
    NThreads = 4
    Kinds = {"drdpa"}
    Rounds <- FirstTwice
    MaxDepth = 1
    Tests = {"drdpa"}
    Oversubscribed = {FALSE}
INVARIANTS
    PollsInArea
