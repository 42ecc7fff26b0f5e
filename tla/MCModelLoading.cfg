SPECIFICATION Spec
CONSTANTS
  MaxU64 = 1048575
  Magic = "GGUF"
  Version = 3
  DefaultAlignment = 32
  MaxDims = 4
  MaxArrayDepth = 2
  NLayers = 6
  Hidden = 256
  Ffn = 32
  Vocab = 3
  Context = 64
  NQHeads = 2
  SlidingKvHeads = 2
  SlidingHeadDim = 16
  SlidingWindow = 8
  GlobalKvHeads = 1
  GlobalHeadDim = 32
  Q6kRowWords = 54
  UploadFails = {1, 5, 80}
  Block = 4
  Chunk = 8
  Addresses = {64, 65, 66, 67}
  Lost = {0, 1, 9}
  Surplus = {0, 1}
  Files <- MCFiles
  MaxLoad = 40
CHECK_DEADLOCK FALSE
INVARIANTS
  TypeOK
  AcceptedTableFits
  KernelsReadTheFile
  ValidFilesUpload
  TensorsWhereDeclared
  LoadIsCopy
  ReadsAligned
PROPERTIES
  ImplementsWeightSource
  LoadingEnds
