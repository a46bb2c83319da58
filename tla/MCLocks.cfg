SPECIFICATION FairSpec
CONSTANTS
    NThreads = 3
    Kinds = {"tas", "futex", "ticket", "queuing", "drdpa"}
    Rounds <- FirstTwice
    MaxDepth = 2
    Tests = {"tas", "futex", "ticket", "queuing", "drdpa"}
    Oversubscribed = {FALSE}
INVARIANTS
    TypeOK
    NeverMistaken
    PollsInArea
PROPERTIES
    ImplementsLock
    AllServed
