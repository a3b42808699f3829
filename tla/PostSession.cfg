SPECIFICATION Spec
CONSTANTS
  p1 = p1
  p2 = p2
  a1 = a1
  a2 = a2
  Procs <- MCProcs
  Attempts <- MCAttempts
  AttemptsOf <- MCAttemptsOf
  NoValue = NoValue
  Partial = Partial
  NoEntity = NoEntity
  NormalForm <- MCNormalForm
  Documents <- MCDocuments
  SessionStates <- MCSessionStates
  Extractions <- MCExtractions
  HandEdits <- MCHandEdits
  RecapInputs <- MCRecapInputs
  SupportedTypes = {"npc", "place"}
  MaxEntities = 2
  MaxBody = 2
  MaxMentions = 2
  MaxDisturbances = 1
INVARIANTS TypeOK WorkedOnce CompletedVerifies FactsOnce ReportsTrue RecapHidesSecrets
PROPERTY ClaimedEnds
CHECK_DEADLOCK FALSE
