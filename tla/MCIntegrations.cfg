SPECIFICATION EitherSpec
CONSTANTS
  Subjects = {"registries", "grafana"}
  Handlers = {h1, h2}
  Endpoints = {e1, e2}
  Namespaces = {s1, s2}
  Nothing = nothing
  CacheTTL = 1
  MaxRows = 2
  MaxCalls = 5
  MaxTime = 3
  Accounts = {a1, a2, t1}
  Tokens = {t1}
  MaxCookies = 3
  MaxVisits = 5
SYMMETRY Symmetry
INVARIANTS
  ListedIsOwn
  CacheCurrent
  SessionIsRows
  RefusedIsGone
CHECK_DEADLOCK FALSE
