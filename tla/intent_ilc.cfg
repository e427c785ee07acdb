\* Only enforceILC and kernelGovernAction move intents; no restart.
SPECIFICATION Spec
CONSTANTS
  Intents = {i1}
  Evidences = {e1}
  Agents = {a1, a2}
  Roles = {r1}
  Calls = {c1, c2}
  None = None
  Limit = 2
  RawTargets = {}
  MaxBudgets = 2
  MaxRestarts = 0
SYMMETRY IdSymmetry
CHECK_DEADLOCK FALSE
INVARIANTS
  StepByStep
  EvidenceBeforeAuthority
  ChargesCovered
  OneLiveAccount
