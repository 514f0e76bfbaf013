SPECIFICATION Spec
CONSTANTS
  Tasks = {"provision", "import", "admin", "review"}
  Payloads = {changed}
  Raw = raw
  Fallback = fallback
  Nil = nil
  MaxJobs = 1
  MaxAsked = 2
  MaxLost = 1
  Kubeconfigs = {kubeA, kubeB}
  Blank = blank
  MaxPending = 2
  NoForm = noForm
  MaxWrites = 2
  Line = {x, y, z}
  EmptyLine = x
  None = none
  MaxLines = 3
INVARIANTS
  CreatedWasChecked
  ListsCatchUp
  ScriptIsSound
  ScriptIsShortest
  RowsLoseNothing
PROPERTIES
  JobFollowed
CHECK_DEADLOCK FALSE
