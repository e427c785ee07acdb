\* Two callers inside seedKernel at once, everything else as it should be.
SPECIFICATION Spec
CONSTANTS
  Callers = {c1, c2}
  Torn = Torn
  MaxRecords = 6
  EarlyRecords = FALSE
  FaultyDisk = FALSE
  TornCrashes = FALSE
  StrayForks = FALSE
INVARIANT
  ChainIntact
