SPECIFICATION FairSpec
CONSTANTS
  Files = {f1, f2}
  Fields = {seller}
  Manual = {m1}
  None = None
  NoRow = NoRow
  Unseen = Unseen
  Allowed = {"ioerror", "crash", "pendingRebuild", "pendingPatch", "brief"}
  MaxClock = 2
  MaxEdits = 1
  MaxFaults = 1
\* no symmetry
INVARIANTS TypeOK SourceTracked
PROPERTY CatchesUp
