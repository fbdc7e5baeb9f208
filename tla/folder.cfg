CONSTANTS
    pdf = pdf
    ofd = ofd
    r1 = r1
    r2 = r2
    None = None
    PageFiles = {pdf, ofd}
    Requests = {r1, r2}
    Format <- MCFormat
    Size <- MCSize
    Broken = {}
    TTL = 2
    MaxJobs = 2
    MaxJobBytes = 2
    MaxCacheBytes = 3
    MaxMade = 3
    MaxTicks = 2
    MaxChanges = 1
    Files = {f1, f2}
    Allowed = {}
    Fields = {seller}
    Manual = {m1}
    NoRow = NoRow
    Unseen = Unseen
    MaxClock = 4
    MaxEdits = 3
    MaxFaults = 0
SPECIFICATION BothSpec
INVARIANTS
    PreviewTrue
    RowsFollow
    OverridesFollow
    EditsNotLost
PROPERTIES
    LeastUsedGo
SYMMETRY AllSymmetry
CHECK_DEADLOCK FALSE
