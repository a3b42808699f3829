SPECIFICATION Spec
CONSTANTS
  p1 = p1
  p2 = p2
  c1 = c1
  c2 = c2
  v1 = v1
  v2 = v2
  e1 = e1
  e2 = e2
  Procs = {p1, p2}
  Entities = {e1, e2}
  ChangeSets = {c1, c2}
  Versions = {v1, v2}
  Content <- MCContent
  OpIds <- MCOpIds
  Requests <- MCRequests
  SessionBound = {c1}
  Existing = {e1}
  MaxOps = 2
  MaxFaults = 1
  MaxAttempts = 1
  Seed = Seed
  NoDoc = NoDoc
  NoPath = NoPath
  NoReq = NoReq
  Absent = Absent
  Torn = Torn
SYMMETRY ProcSymmetry
INVARIANTS
  TypeOK
  InOrder
  ApprovedContentOnly
  RecordsTellTheTruth
CHECK_DEADLOCK FALSE
