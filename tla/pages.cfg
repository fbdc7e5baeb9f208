CONSTANTS
    a = a
    b = b
    c = c
    d = d
    None = None
    Names = {1, 2, 3}
    Invoices = {a, b, c, d}
    Target <- MCTarget
    MaxFails = 2
    MaxUser = 1
    Systems = {"posix", "windows"}
    n1 = n1
    n2 = n2
    t1 = t1
    t2 = t2
    Requests = 3
    Absent = None
    Files <- MCFiles
    Copy <- MCCopy
    FileNumber <- MCFileNumber
    Format <- MCFormat
    Threads = {t1, t2}
    s1 = s1
    s2 = s2
    MaxJobs = 2
    MaxChanges = 2
    Faults = {"crash", "spawn", "worker"}
    Exports = 2
    Scopes = {s1, s2}
    Numbers = {n1, n2}
    RowSources = {"a", "b"}
    Lines = {"x", "y"}
    Outbounds <- MCOutbounds
    Priority <- MCPriority
    OutNumber <- MCOutNumber
    Copies = 2
SPECIFICATION MCSpec
INVARIANTS
    BatchUndone
    CountedOnce
    ListsTrue
    DocumentsTrue
    WordsTrue
PROPERTIES
    ChoicesKept
SYMMETRY Symmetry
CHECK_DEADLOCK FALSE
