SPECIFICATION Spec
CONSTANTS
  Hex <- MCHex
  Files <- MCFiles
  Jobs <- MCJobs
  WorkingSet = 2
  EosTokens = {1, 5}
  PrefillChunk = 2
  GpuFails = {"record", "prefill", "decode"}
  ScoreChunk = 4
  RowBlock = 2
  LogitsBatch = 3
  ScoreFails = {"stage", "submit", "norm", "head"}
CHECK_DEADLOCK FALSE
INVARIANTS
  RoundTrip
  SpecialsMatched
  DrawsFromNucleus
  ReplyAccounts
  LogitsOfPositions
PROPERTIES
  ImplementsMergeAll
  CompletionEnds
