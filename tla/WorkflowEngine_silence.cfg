CONSTANTS
  q1 = q1
  q2 = q2
  q3 = q3
  q4 = q4
  q5 = q5
  q6 = q6
  k1 = k1
  k2 = k2
  t1 = t1
  t2 = t2
  Run = {q1}
  Task = {k1}
  Audit = {}
  NoTask = NoTask
  TaskOf <- SameTask
  Node <- Writer
  NoNode = NoNode
  Entry <- EntryWriter
  Type <- MCType
  Goto <- MCGoto
  Succ <- MCSucc
  Failures <- MCFailures
  TimedOut <- MCTimedOut
  AbortOn <- MCAbortOn
  Retry <- MCRetry
  Fallback <- MCFallback
  EscalateAfter <- MCEscalateAfter
  Tick = {t1}
  NoTick = NoTick
  SnapshotLimit = 20
  MaxPasses = 5
  SpawnLimit = 3
  MaxResets = 0
  Overlap = FALSE
SPECIFICATION Spec
CHECK_DEADLOCK FALSE
PROPERTY SilenceMeansDropped
