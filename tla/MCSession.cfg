SPECIFICATION FairSpec
CONSTANTS
  a = a
  b = b
  Token = {a, b}
  EosTokens = {b}
  NoRow = NoRow
  Window = 3
  GlobalCap = 6
  NumLayers = 2
  Kind <- MCKind
  MaxChunk = 2
  MBlock = 2
  SplitsSliding = 2
  SplitsGlobal = 2
  Faults = {}
  Requests <- MCRequests
INVARIANT TypeOK
INVARIANT AttendsExactWindow
PROPERTY ImplementsStatelessApi
PROPERTY RequestEnds
