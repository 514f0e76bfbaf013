SPECIFICATION PagesSpec
CONSTANTS
  Views = {"workloads"}
  Clusters = {k1, k2}
  Kinds = {"deployment", "node"}
  Names = {web}
  k1 = k1
  k2 = k2
  Namespaced = {"deployment"}
  NamespacesOf <- Spaces
  Panels = {"history", "autoscaling"}
  None = none
  MaxCalls = 3
  MaxMoves = 2
  MaxOpened = 3
  SourceKinds = {"registry"}
  Items = {}
  MaxSources = 1
  MaxAsked = 1
  MaxEdits = 0
INVARIANTS
  ShownIsSelected
  WritesGoHome
CHECK_DEADLOCK FALSE
