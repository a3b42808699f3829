SPECIFICATION Spec
CONSTANTS
  p1 = p1
  p2 = p2
  Procs = {p1, p2}
  MaxSessions = 1
  MaxEvents = 1
  MaxFaults = 0
  Overlap = TRUE
  NoLog = NoLog
  NoMeta = NoMeta
  NoProc = NoProc
  Nothing = Nothing
SYMMETRY ProcSymmetry
INVARIANTS
  CleanupSparesSessions
CHECK_DEADLOCK FALSE
