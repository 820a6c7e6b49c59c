SPECIFICATION MCSpec
CONSTANTS
  web = web
  api = api
  j1 = j1
  j2 = j2
  j3 = j3
  Key = {web, api}
  Filter = {web}
  JobId = {j1, j2, j3}
  Count = {0, 2}
  FailureThreshold = 2
  Tries = 2
  FaultPlans <- SilentPlan
  MaxCommands = 0
  Job = {j1}
  Grant = "tagged"
  require_grant = TRUE
  ProbePlans <- NothingFails
PROPERTY AlwaysHeals
CHECK_DEADLOCK FALSE
