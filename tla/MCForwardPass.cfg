SPECIFICATION ForwardSpec
CONSTANTS
  NumLayers = 3
  Kind <- MCKind
  SegmentLayers = 2
  MaxBlocks = 3
  MaxFailures = 1
  MayOverrun = FALSE
  Graphs <- MCGraphs
  Buffer <- MCBuffers
INVARIANT ForwardIsReference
INVARIANT ConflictsOrdered
PROPERTY BlockEnds
