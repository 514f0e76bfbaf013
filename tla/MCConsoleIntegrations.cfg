SPECIFICATION PagesSpec
CONSTANTS
  Views = {"sources"}
  Clusters = {}
  Kinds = {"node"}
  Names = {}
  k1 = k1
  k2 = k2
  Namespaced = {"node"}
  NamespacesOf <- Spaces
  Panels = {}
  None = none
  MaxCalls = 0
  MaxMoves = 0
  MaxOpened = 0
  SourceKinds = {"registry", "grafana"}
  Items = {d1}
  MaxSources = 2
  MaxAsked = 2
  MaxEdits = 2
INVARIANTS
  CatalogIsOwn
  EditsGoHome
PROPERTIES
  CatalogReturns
CHECK_DEADLOCK FALSE
