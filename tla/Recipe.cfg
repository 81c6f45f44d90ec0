SPECIFICATION FairInspectSpec
CONSTANTS
  Paths <- BothPaths
  Fold <- MCFold
  Files <- BothPaths
  Programs <- AllPrograms
  Initial <- MCStart
  Texts <- AllTexts
  Renamings <- SameOrMoved
INVARIANTS
  TypeOK
  WriteOrder
  ReadOrder
  TameSerial
  AlikeShown
PROPERTY
  Returns
