SPECIFICATION Spec
CONSTANTS
  a = a
  b = b
  Token = {a, b}
  EosTokens = {b}
  NoRow = NoRow
  Window = 2
  GlobalCap = 4
  NumLayers = 2
  Kind <- MCKind
  MaxChunk = 2
  MBlock = 2
  SplitsSliding = 2
  SplitsGlobal = 2
  Faults = {}
  Requests <- MCRequestsLong
INVARIANT HistoryResident
