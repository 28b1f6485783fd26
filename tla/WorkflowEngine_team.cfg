CONSTANTS
  q1 = q1
  q2 = q2
  q3 = q3
  q4 = q4
  q5 = q5
  q6 = q6
  k1 = k1
  k2 = k2
  t1 = t1
  t2 = t2
  Run = {q1, q2, q3, q4, q5, q6}
  Task = {k1, k2}
  Audit = {k2}
  NoTask = NoTask
  TaskOf <- TeamTasks
  Node <- Team
  NoNode = NoNode
  Entry <- EntryTeam
  Type <- MCType
  Goto <- MCGoto
  Succ <- MCSucc
  Failures <- MCFailures
  TimedOut <- MCTimedOut
  AbortOn <- MCAbortOn
  Retry <- MCRetry
  Fallback <- MCFallback
  EscalateAfter <- MCEscalateAfter
  Tick = {t1}
  NoTick = NoTick
  SnapshotLimit = 20
  MaxPasses = 5
  SpawnLimit = 3
  MaxResets = 2
  Overlap = FALSE
SPECIFICATION Spec
CONSTRAINT OneTeam
CHECK_DEADLOCK FALSE
INVARIANT TypeOK
INVARIANT SpawnAnswered
INVARIANT EveryStartCounted
INVARIANT NothingLeftRunning
PROPERTY ImplementsLifecycle
PROPERTY CompletionFinal
