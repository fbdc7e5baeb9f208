CONSTANTS
    None = None
    Files <- MCFiles
    Copy <- MCCopy
    FileNumber <- MCFileNumber
    n1 = n1
    n2 = n2
    a = a
    b = b
    c = c
    k1 = k1
    k2 = k2
    Keys = {k1, k2}
    Contents <- MCContents
    Rates = {500}
    Default = 80
    Keep = Keep
    MaxSaves = 2
    MaxSteps = 3
SPECIFICATION MCSpec
INVARIANTS
    AskedShown
    TrustedTrue
    SelectionTrue
PROPERTIES
    PartKept
SYMMETRY Symmetry
CHECK_DEADLOCK FALSE
