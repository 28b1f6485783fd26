SPECIFICATION Spec
CONSTANTS
  c1 = c1  c2 = c2
  u1 = u1  u2 = u2  s1 = s1  v1 = v1
  Channel = {c1, c2}
  ChannelOf <- MCChannelOf
  Message = {u1, u2, s1}
  System = {}
  MaxConcurrent = 1
  RetryBudget = 1
  Pausable = {}
  Early = FALSE
  MaxPauses = 0
  MaxStale = 1
  MaxRestarts = 0
INVARIANT WaitingSurvivesRestart
CHECK_DEADLOCK FALSE
