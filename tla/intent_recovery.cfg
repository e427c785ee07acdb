\* enforceILC alone moves intents; one restart.
SPECIFICATION Spec
CONSTANTS
  Intents = {i1}
  Evidences = {e1}
  Agents = {a1}
  Roles = {r1}
  Calls = {c1}
  None = None
  Limit = 2
  RawTargets = {}
  MaxBudgets = 1
  MaxRestarts = 1
SYMMETRY IdSymmetry
CHECK_DEADLOCK FALSE
PROPERTY
  NeverRegresses
