SPECIFICATION Spec
CONSTANTS
  Paths <- FlatPaths
  Fold <- MCFold
  Files <- FlatPaths
  Programs <- TwoReaders
  Initial <- BothFiles
INVARIANT
  SerialReads
