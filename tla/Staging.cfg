SPECIFICATION Spec
CONSTANTS
  a1 = a1
  a2 = a2
  hasher = hasher
  Names <- const_Names
  Key <- const_Key
  Dir <- const_Dir
  Top = "."
  Versions = {"v0", "v1", "v2"}
  Actors <- const_Actors
  Scenarios <- const_Scenarios
  None = "gone"
INVARIANTS
  StoreAgrees
  ReadsRight
  RaceOnlyWithRemove
PROPERTY
  Returns
CHECK_DEADLOCK FALSE
