SPECIFICATION Spec
CONSTANTS
  Work = {"objects", "terminal"}
  Requests = {r1, r2}
  Workload = app
  Scalers = {hpa, other}
  Nil = nil
  MaxRevision = 4
  QueueSize = 2
  Shells = 2
  MaxWire = 2
  MaxSizes = 5
INVARIANTS
  BatchIsUndone
  OneScalerEach
  LastSizeArrives
PROPERTIES
  DeletesAreOwn
  ChangesAreSeen
  SessionWindsUp
CHECK_DEADLOCK FALSE
