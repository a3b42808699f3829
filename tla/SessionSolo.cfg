SPECIFICATION Spec
CONSTANTS
  p1 = p1
  p2 = p2
  Procs = {p1}
  MaxSessions = 3
  MaxEvents = 2
  MaxFaults = 3
  Overlap = FALSE
  NoLog = NoLog
  NoMeta = NoMeta
  NoProc = NoProc
  Nothing = Nothing
PROPERTIES
  FollowsLifecycle
CHECK_DEADLOCK FALSE
