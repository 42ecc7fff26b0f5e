SPECIFICATION ForwardSpec
CONSTANTS
  NumLayers = 3
  Kind <- MCKind
  SegmentLayers = 2
  MaxBlocks = 2
  MaxFailures = 1
  MayOverrun = TRUE
  Graphs <- MCGraphs
  Buffer <- MCBuffers
PROPERTY StepWrittenBetweenSubmits
