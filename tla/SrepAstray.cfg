SPECIFICATION Spec
CONSTANTS
  Streams <- const_Streams
  Useful = 7
  Room = 2
  Grown = 3
  DiskBlock = 7
  RecordHead = 1
  RecordTail = 1
  Far = 99
INVARIANT SpillAgrees
