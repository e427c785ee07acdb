\* One workflow, no obstacles; others submit evidence and enforce.
SPECIFICATION WorkflowSpec
CONSTANTS
  Workflows = {w1}
  Intents = {w1}
  Evidences = {e1}
  Calls <- StageCalls
  Agents <- StageCalls
  Roles = {team}
  Team = team
  None = None
  Limit = 1
  RawTargets = {"evidenced", "authorized", "executing", "validating", "completed", "rejected", "reverted"}
  OutsideTargets = {}
  Obstacles = FALSE
  MaxBudgets = 6
  MaxRestarts = 0
CHECK_DEADLOCK FALSE
INVARIANT
  EveryStageIsReached
