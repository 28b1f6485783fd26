SPECIFICATION CasesSpec
CONSTANTS
  t1 = t1  a1 = a1
  NoTask = NoTask
  Task = {t1}
  Audit = {a1}
  BlockedBy <- MCNone
  Phantom = {t1}
  N = 2
  Threshold = 2
  MaxRetries = 1
  Retry = 0
  MaxRuns <- MCRuns
  MaxRestarts = 1
  MaxBeats = 1
INVARIANTS TypeOK CompletedMeansSucceeded AuditBounded
PROPERTY NothingStaysInProgress
PROPERTY SuccessClosesTask
CHECK_DEADLOCK FALSE
