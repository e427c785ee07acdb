\* Racing callers, records before seeding, a failing disk, stray forks.
SPECIFICATION Spec
CONSTANTS
  Callers = {c1, c2}
  Torn = Torn
  MaxRecords = 6
  EarlyRecords = TRUE
  FaultyDisk = TRUE
  TornCrashes = TRUE
  StrayForks = TRUE
SYMMETRY CallerSymmetry
INVARIANTS
  TypeOK
  SeededSeesAcked
  NoDuplicateOnDisk
