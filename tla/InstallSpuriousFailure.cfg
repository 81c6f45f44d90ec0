SPECIFICATION Spec
CONSTANTS
  Vols = {"v1", "v2"}
  Paths = {"a", "b"}
  Plans <- SoundPlans
INVARIANT SoundInstallSucceeds
