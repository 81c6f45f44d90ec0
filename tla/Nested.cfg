SPECIFICATION NestedSpec
CONSTANTS
  Files = {"a", "b", "r", "q"}
  Programs = {}
  Initial = {}
  Scripts <- AllScripts
  MaxDepth = 3
INVARIANTS
  NestedSerial
  OneScheduler
PROPERTY NestedReturns
