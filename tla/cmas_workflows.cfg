\* Two workflows, obstacles at every stage; others submit evidence, enforce and revert.
SPECIFICATION FairWorkflowSpec
CONSTANTS
  Workflows = {w1, w2}
  Intents = {w1, w2}
  Evidences = {e1, e2}
  Calls <- StageCalls
  Agents <- StageCalls
  Roles = {team}
  Team = team
  None = None
  Limit = 1
  RawTargets = {"evidenced", "authorized", "executing", "validating", "completed", "rejected", "reverted"}
  OutsideTargets = {"reverted"}
  Obstacles = TRUE
  MaxBudgets = 6
  MaxRestarts = 0
CHECK_DEADLOCK FALSE
INVARIANTS
  WorkflowTypeOK
  FailedIsEnded
  StageAdvancesIntent
  NeverReviewed
  NoGapNoGuess
PROPERTIES
  WorkflowsEnd
  ImplementsGovernance
