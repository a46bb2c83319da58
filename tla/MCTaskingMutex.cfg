SPECIFICATION Spec
CONSTANTS
    MaxProc = 3
    Explicit = {4, 5, 6, 7, 8}
    Groups = {11}
    Addrs = {21}
    DequeSize = 2
    Programs <- Excluding
INVARIANTS
    HolderAlone
