\* The services that share no state, one at a time.
SPECIFICATION ServicesSpec
CONSTANTS
  Subjects = {0, 1, 2}
  MaxReceipts = 4
  FabricReceipts = 2
  Nodes = {n1, n2}
  TaskIds = {k1}
  Launches = {l1, l2}
  MaxAuthorizations = 2
  Executions = {e1, e2, e3}
  Inputs = {good, better, drop}
  Dangerous = {drop}
  Original = original
  MaxAmendments = 3
  MaxEntries = 3
  Worlds = {w1, w2}
  Treaties = {t1, t2}
  Actions = {a1, a2}
  Nothing = nothing
  MaxExecutions = 2
  Members = {m1, m2}
  Sites = {s1, s2}
  Blobs = {b1, b2}
  Absent = absent
  Peers = {p1, p2}
  Polls = {q1, q2}
  MaxRecorded = 3
  KeyIds = {i1, i2}
  GraphIds = {g1, g2}
  TokenIds = {j1}
  Envelopes = {v1, v2}
  EpochKeyIds = {h1, h2, h3}
  MaxAlerts = 2
  Kernels = {r1, r2}
  Constraints = {c1, c2}
  ExecutionStates <- SampleStates
  NoBaseline = nobaseline
  MaxReports = 2
  Screened = {d1}
  Capacity = 1
  Requests = {q1, q2, q3}
  MaxRetries = 2
SYMMETRY Interchangeable
CHECK_DEADLOCK FALSE
INVARIANTS
  ServicesTypeOK
  FileTellsTheTruth
  TasksAreAuthorized
  LateCallsReachTheFirst
  FlagShowsSomeone
  ActiveWasValidated
  ContentDecides
  MissedInTheGap
  FirstUseCostsOne
  AlarmsAreSigned
  HistoryLeadsHere
  CitesNoneBefore
PROPERTIES
  SuspensionAdmitsNothing
  ImplementsContract
  CountersignatureFinal
  PlungeIsAppealed
  StatusGoesBackIfOvertaken
