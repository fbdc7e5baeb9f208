CONSTANTS
    Profiles = {p1, p2}
    None = None
    MaxGen = 2
    Faults = {"late", "stubborn", "spawn", "crash"}
    Absent = None
    Folders = {f1, f2}
    Streams = {s1}
    MaxCalls = 2
    MaxAsks = 3
    EndFaults = {"stop", "write", "event"}
    Versions = {1, 2, 3}
    TooNew = {3}
    Callers = {p, q}
    MaxFeeds = 1
    Systems = {"macos", "windows"}
    MaxUpdates = 2
    MaxUser = 2
    MaxFaults = 3
SPECIFICATION MCSpec
INVARIANTS
    ReadyAndHeld
    MonitorsFollow
    ChecksTold
PROPERTIES
    ChildrenEnd
    AcceptedEnds
    
    OwedReturns
    FeedInstalled
CHECK_DEADLOCK FALSE
