SPECIFICATION LiveSpec
CONSTANTS
  Daemons = {d1, d2}
  Controllers = {c1, c2}
  Nobody = Nobody
  NoLock = NoLock
  Posix = TRUE
  Allowed = {"slowstop", "reuse"}
INVARIANT MonitorIsFound
PROPERTY StopWorks
