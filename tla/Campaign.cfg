SPECIFICATION Spec
CONSTANTS
  p1 = p1
  p2 = p2
  Procs <- MCProcs
  NoValue = NoValue
  NoGroup = NoGroup
  NormalForm <- MCNormalForm
  PathOrder <- MCPathOrder
  EntityFolders <- MCEntityFolders
  ExcludedNames = {".old", "node_modules"}
  TextExtensions = {"md", "txt"}
  DerivedPaths <- MCDerivedPaths
  MaxDepth = 2
  MaxFileBytes = 8
  MaxTotalBytes = 20
  MaxContext = 4
  MaxBatches = 2
  MaxCandidates = 4
  MaxClaims = 8
  MaxReferences = 8
  RecentLimit = 1
  MaxTouched = 2
  Scenarios <- MCScenarios
  Edits <- MCEdits
  Answers <- MCAnswers
INVARIANTS TypeOK SnapshotIsReal CompleteWasCurrent NoNameTwice MappingAccountsForAll
CHECK_DEADLOCK FALSE
