\* Raw transitions, restarts, more budgets than needed.
SPECIFICATION Spec
CONSTANTS
  Intents = {i1}
  Evidences = {e1}
  Agents = {a1}
  Roles = {r1}
  Calls = {c1, c2}
  None = None
  Limit = 1
  RawTargets = {"evidenced", "completed", "rejected", "reverted"}
  MaxBudgets = 1
  MaxRestarts = 1
SYMMETRY IdSymmetry
CHECK_DEADLOCK FALSE
INVARIANTS
  RegistryLogged
  ApprovedHadAuthority
  ApprovedInCharter
PROPERTIES
  TerminalClosed
