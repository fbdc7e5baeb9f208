CONSTANTS
    n1 = n1
    n2 = n2
    t1 = t1
    t2 = t2
    None = None
    Budget = 4
    Files <- MCFiles
    Copy <- MCCopy
    FileNumber <- MCFileNumber
    Format <- MCFormat
    Threads <- MCThreads
SPECIFICATION MCSpec
INVARIANTS
    EditAsked
SYMMETRY Symmetry
CHECK_DEADLOCK FALSE
