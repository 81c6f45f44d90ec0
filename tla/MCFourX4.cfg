SPECIFICATION FairSpec
CONSTANTS
  Workers = {w1, w2}
  MaxBlocks = 3
INVARIANTS
  TypeOK
  InOrder
  Conserved
  CompleteAtEOF
  HonestError
PROPERTIES
  KeepsOrder
  NoLeak
