SPECIFICATION Spec
CONSTANTS
  Handlers = {h1}
  Configs = {k1}
  Workers = {w1, w2}
  AskedModes = {"ready", "maintenance"}
  ProbedVersions = {TRUE}
  Nothing = nothing
  MaxClusters = 1
  MaxCalls = 3
  MaxCrashes = 0
SYMMETRY Symmetry
INVARIANTS
  MaintenanceMeansCordoned
CHECK_DEADLOCK FALSE
