SPECIFICATION Spec
CONSTANTS
  Handlers = {h1, h2}
  Configs = {k1, k2}
  Workers = {w1, w2}
  AskedModes = {"ready", "maintenance"}
  ProbedVersions = {TRUE, FALSE}
  Nothing = nothing
  MaxClusters = 1
  MaxCalls = 3
  MaxCrashes = 1
SYMMETRY Symmetry
INVARIANTS
  SwitchTakesEffect
  MaintenanceHonest
CHECK_DEADLOCK FALSE
