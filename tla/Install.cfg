SPECIFICATION FairSpec
CONSTANTS
  Vols = {"v1", "v2"}
  Paths = {"a", "b"}
  Plans <- AllPlans
INVARIANTS
  TypeOK
  ExitComplete
  VerifiedExit
  NoStagingLeft
  KeptForUse
PROPERTY Terminates
