SPECIFICATION FairSpec
CONSTANTS
    MaxProc = 3
    Explicit = {4, 5, 6, 7, 8}
    Groups = {11}
    Addrs = {21}
    DequeSize = 2
    Programs <- Cases
INVARIANTS
    NoUseAfterFree
PROPERTIES
    ImplementsTasks
    AllEnd
