CONSTANTS
  q1 = q1
  q2 = q2
  q3 = q3
  q4 = q4
  q5 = q5
  q6 = q6
  k1 = k1
  k2 = k2
  t1 = t1
  t2 = t2
  Run = {q1, q2}
  Task = {k1}
  Audit = {}
  NoTask = NoTask
  TaskOf <- OnlyFirstTask
  Node <- WriterAndCode
  NoNode = NoNode
  Entry <- EntryWriterThenCode
  Type <- MCType
  Goto <- MCGoto
  Succ <- MCSucc
  Failures <- MCFailures
  TimedOut <- MCTimedOut
  AbortOn <- MCAbortOn
  Retry <- MCRetry
  Fallback <- MCFallback
  EscalateAfter <- MCEscalateAfter
  Tick = {t1}
  NoTick = NoTick
  SnapshotLimit = 20
  MaxPasses = 5
  SpawnLimit = 3
  MaxResets = 1
  Overlap = FALSE
SPECIFICATION FairSpec
CHECK_DEADLOCK FALSE
PROPERTY EveryRunFinishes
