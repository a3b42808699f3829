SPECIFICATION Spec
CONSTANTS
  p1 = p1
  p2 = p2
  Procs = {p1, p2}
  MaxSessions = 2
  MaxEvents = 2
  MaxFaults = 2
  Overlap = FALSE
  NoLog = NoLog
  NoMeta = NoMeta
  NoProc = NoProc
  Nothing = Nothing
SYMMETRY ProcSymmetry
INVARIANTS
  TypeOK
  DamageIsDetected
PROPERTIES
  AppendOnly
  SessionKept
CHECK_DEADLOCK FALSE
