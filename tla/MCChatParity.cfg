SPECIFICATION Spec
CONSTANTS
  Space = {"sp", "nl"}
  Number = {"7"}
  KeyOrder <- MCKeyOrder
  Capital <- MCCapital
  Declarations <- MCDeclarations
  Ordinary <- MCOrdinary
  Text <- MCText
  SpecialPieces <- MCSpecials
  Spelling <- MCSpelling
  MergeTable <- MCMergeTable
  ClientMessages <- MCAnonymous
  Tools <- MCTools
  CallIds <- MCIds
  MaxMessages = 6
  MaxHistory = 3
  MaxFree = 1
  ArgObjects <- MCArgObjects
  Scripts <- MCScripts
CHECK_DEADLOCK FALSE
INVARIANTS
  RenderIsTemplate
