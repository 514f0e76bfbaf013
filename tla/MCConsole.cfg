SPECIFICATION Spec
CONSTANTS
  Rights <- TwoUsers
  Refreshed = {"registryArtifacts"}
  None = none
  MaxLogins = 2
  MaxRequests = 2
  Clusters = {k1}
  Pods = {p1}
  Containers = {c1, c2}
  MaxSockets = 2
SYMMETRY Symmetry
INVARIANTS
  SessionIsEarned
  ShownIsSessions
  StreamsAreCurrent
CHECK_DEADLOCK FALSE
