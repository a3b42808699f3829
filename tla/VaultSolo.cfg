SPECIFICATION RepoSpec
CONSTANTS
  p1 = p1
  p2 = p2
  o1 = o1
  o2 = o2
  e1 = e1
  e2 = e2
  Procs = {p1}
  Entities = {e1, e2}
  OpIds = {o1, o2}
  Requests <- MCRequests
  Existing = {e1}
  Seed = Seed
  NoDoc = NoDoc
  NoPath = NoPath
  NoReq = NoReq
  MaxFaults = 4
INVARIANTS
  AtMostOnce
  UniqueEntity
PROPERTIES
  NothingLost
