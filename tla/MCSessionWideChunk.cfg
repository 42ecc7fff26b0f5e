SPECIFICATION Spec
CONSTANTS
  a = a
  b = b
  Token = {a, b}
  EosTokens = {b}
  NoRow = NoRow
  Window = 2
  GlobalCap = 6
  NumLayers = 2
  Kind <- MCKind
  MaxChunk = 3
  MBlock = 1
  SplitsSliding = 2
  SplitsGlobal = 2
  Faults = {}
  Requests <- MCRequests
INVARIANT AttendsExactWindow
