CONSTANTS
    acc1 = acc1
    acc2 = acc2
    closed = closed
    unlisted = unlisted
    Sources = {s1}
    AllocIds = {a1, a2}
    RowAmounts <- MCRows
    Answers <- MCAnswers
    Accounts = {acc1, acc2, closed}
    Usable = {acc1, acc2}
    Liabilities = {acc1, closed}
    Incomplete = {acc2}
    NoAccount = NoAccount
    Every = NoAccount
    None = NoAccount
    Targets = {t1, t2}
    seller = seller
    project = project
    day = day
    t1 = t1
    t2 = t2
    Scopes <- MCScopes
    RuleId <- MCRuleId
    Contexts <- MCContexts
    LegacyFiles <- MCLegacyFiles
    Commands = {c1, c2}
    MaxWrites = 3
SPECIFICATION MCSpec
INVARIANTS
    DecisionsRight
    MigrationSafe
PROPERTIES
    ChoicesLast
    ManualKept
SYMMETRY Symmetry
CHECK_DEADLOCK FALSE
