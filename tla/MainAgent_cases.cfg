SPECIFICATION CasesSpec
CONSTANTS
  c1 = c1  c2 = c2
  u1 = u1  u2 = u2  s1 = s1  v1 = v1
  Channel = {c1, c2}
  ChannelOf <- MCChannelOf
  Message = {u1, s1, v1}
  System = {s1}
  MaxConcurrent = 1
  RetryBudget = 1
  Pausable = {c1}
  Early = FALSE
  MaxPauses = 1
  MaxStale = 1
  MaxRestarts = 1
INVARIANTS TypeOK InterruptedIsFound HeldExactlyOnce SlotHeldByRun
PROPERTIES WithinCapacity QueueDrains
CHECK_DEADLOCK FALSE
