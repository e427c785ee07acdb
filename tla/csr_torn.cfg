\* One caller, a crash inside an append, everything else as it should be.
SPECIFICATION Spec
CONSTANTS
  Callers = {c1}
  Torn = Torn
  MaxRecords = 6
  EarlyRecords = FALSE
  FaultyDisk = FALSE
  TornCrashes = TRUE
  StrayForks = FALSE
INVARIANT
  AckedDurable
