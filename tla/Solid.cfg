SPECIFICATION FairSpec
CONSTANTS
  Paths = {"a", "b", "c", "d"}
  Archives <- AllArchives
  Kinds = {"disk", "memory"}
  Sem = 2
  Cpus = 2
  Ios = 3
  Chunks = 2
INVARIANTS
  Intact
  WholeStream
  MemoryLastCloseWins
PROPERTIES
  NoLateWrite
  Returns
