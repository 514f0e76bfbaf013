SPECIFICATION FairSpec
CONSTANTS
  Jobs = {j1, j2}
  Admins = {a1}
  Names = {n1}
  Platform = platform
  Nothing = nothing
  MaxClusters = 3
  MaxCrashes = 1
INVARIANTS
  ResultTracksImport
  ResultNeverForeign
  NoZombieJob
  KeyScope
PROPERTIES
  ImplementsLifecycle
  GoneForGood
  JobSettles
CHECK_DEADLOCK FALSE
