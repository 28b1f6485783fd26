SPECIFICATION MCSpec
CONSTANTS
  k1 = k1  k2 = k2  s1 = s1  s2 = s2
  Key = {k1, k2}
  NoKey = NoKey
  Session = {s1, s2}
  Config <- MCConfig
  MaxRetries = 2
  Models = 2
  RateLimit = 3
  Quarantine = 2
  Short = 1
  MaxCooldown = 3
  Doublings = 1
  Recent = 1
  MaxWait = 1
  MaxReloads = 1
  MaxRestarts = 1
INVARIANT TypeOK
PROPERTIES CallEnds KeyComesBack CooldownKept
CHECK_DEADLOCK FALSE
