\* P-I007 of modelChecker.ts: a federated action requires an active treaty.
SPECIFICATION FederationSpec
CONSTANTS
  Worlds = {w1, w2}
  Treaties = {t1}
  Actions = {a1}
  Nothing = nothing
  MaxExecutions = 1
CHECK_DEADLOCK FALSE
PROPERTY
  ImplementsStrictContract
