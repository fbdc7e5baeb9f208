SPECIFICATION Spec
CONSTANTS
  Daemons = {d1, d2, d3}
  Controllers = {c1, c2}
  Nobody = Nobody
  NoLock = NoLock
  Posix = TRUE
  Allowed = {"kill", "syncfails", "slowstart"}
SYMMETRY Symmetry
INVARIANTS OneMonitor ReadyTruth StartedIsTrue
