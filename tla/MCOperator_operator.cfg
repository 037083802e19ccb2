SPECIFICATION Spec
CONSTANTS
  None = None
  VarIsSet = TRUE
  AcmeEmail = TRUE
  Operators = {o1, o2}
  o1 = o1
  o2 = o2
  MaxDeploys = 3
  Tags = {"v1", "v2"}
  WaitLimit = 1
  Scenarios <- MCScenarios
CHECK_DEADLOCK FALSE
INVARIANTS
  ApplySticks
  AppliedRuns
  RollbackTargetWorked
