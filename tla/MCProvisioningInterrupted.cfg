SPECIFICATION Spec
CONSTANTS
  Jobs = {j1}
  Admins = {}
  Names = {n1}
  Platform = platform
  Nothing = nothing
  MaxClusters = 1
  MaxCrashes = 1
INVARIANTS
  InterruptedMeansStopped
CHECK_DEADLOCK FALSE
