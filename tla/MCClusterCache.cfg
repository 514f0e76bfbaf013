SPECIFICATION Spec
CONSTANTS
  Handlers = {h1, h2}
  Configs = {k1, k2}
  Workers = {w1}
  AskedModes = {"ready"}
  ProbedVersions = {TRUE}
  Nothing = nothing
  MaxClusters = 2
  MaxCalls = 4
  MaxCrashes = 0
SYMMETRY Symmetry
INVARIANTS
  RuntimeIsOwn
  CacheFresh
  TestHeals
CHECK_DEADLOCK FALSE
