\* One caller seeds; crashes and resets at any point; forks off the tail.
SPECIFICATION FairSpec
CONSTANTS
  Callers = {c1}
  Torn = Torn
  MaxRecords = 9
  EarlyRecords = FALSE
  FaultyDisk = FALSE
  TornCrashes = FALSE
  StrayForks = FALSE
INVARIANTS
  ChainIntact
  AckedDurable
  SeedRecordHeadsLog
PROPERTIES
  ImplementsJournal
  SeedsAgain
