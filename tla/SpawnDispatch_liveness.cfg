CONSTANTS
  r1 = r1
  r2 = r2
  r3 = r3
  r4 = r4
  h1 = h1
  h2 = h2
  pA = pA
  pB = pB
  NoKey = NoKey
  Request = {r1, r2, r4}
  Heartbeat = {h1}
  LockKey <- MCLockKey
  WorkerKey <- MCWorkerKeyMissing
  Gated = {}
  MaxWorkers = 2
  HeartbeatSlots = 1
  Overlap = TRUE
SPECIFICATION FairSpec
PROPERTY QueuedIsServed
PROPERTY LockoutEnds
INVARIANT ReservationsBacked
