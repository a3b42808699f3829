SPECIFICATION Spec
CONSTANTS
  Fold <- MCFold
  Ratio <- MCRatio
  Contains <- MCContains
  Relevance <- MCRelevance
  NoIndex = NoIndex
  Notes <- MCNotes
  NoteOf <- MCNoteOf
  Queries <- MCQueries
  Batches <- MCBatches
  AllowWrite = TRUE
  MaxRequests = 1
  MaxSessions = 1
  MaxTurns = 1
  NoRun = NoRun
  NoAnswer = NoAnswer
  NoOwner = NoOwner
  NoWork = NoWork
INVARIANT WritesAsAsked
PROPERTY RequestsAnswered
CHECK_DEADLOCK FALSE
