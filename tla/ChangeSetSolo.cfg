SPECIFICATION Spec
CONSTANTS
  p1 = p1
  p2 = p2
  c1 = c1
  c2 = c2
  v1 = v1
  v2 = v2
  e1 = e1
  e2 = e2
  Procs = {p1}
  Entities = {e1, e2}
  ChangeSets = {c1, c2}
  Versions = {v1, v2}
  Content <- MCContent
  OpIds <- MCOpIds
  Requests <- MCRequests
  SessionBound = {c1}
  Existing = {e1}
  MaxOps = 2
  MaxFaults = 3
  MaxAttempts = 2
  Seed = Seed
  NoDoc = NoDoc
  NoPath = NoPath
  NoReq = NoReq
  Absent = Absent
  Torn = Torn
INVARIANTS
  FailureTellsTheTruth
  ValidatedApplies
  NoContradiction
  IntentsAreDelegated
PROPERTIES
  AppliesOnce
CHECK_DEADLOCK FALSE
