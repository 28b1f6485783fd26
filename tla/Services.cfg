SPECIFICATION ServicesSpec
CONSTANTS
  a1 = a1
  a2 = a2
  b1 = b1
  e1 = e1
  y1 = y1
  SystemJob = {y1}
  CronJob = {a1, a2}
  AtJob = {b1}
  EveryJob = {e1}
  JobOrder <- MCOrder
  Matches <- MCMatches
  At <- MCAt
  Every <- MCEvery
  Added = {a1}
  Spoken = {a2, b1}
  CatchUpWindow = 3
  LastMinute = 2
  MaxChanges = 1
  MaxStarts = 2
  MaxTurns = 3
  MinTurns = 2
  MaxResumed = 4
  Continuations = 1
  CriticalLoop = 3
  MaxRuns = 2
  MaxCompactions = 1
  Source = {s1, s2}
  Redirected = {s2}
  Manual = {m1}
  Run = {r1, r2, r3}
  MaxConcurrency = 2
  MaxItems = 1
  PerRun = 2
  Feeds = 1
  MaxFailures = 1
  MaxCrashes = 1
  Kind = {"start", "start --launchd", "stop", "restart"}
  MaxProcesses = 4
  MaxCommands = 2
  MaxProcCrashes = 1
  MaxReuses = 1
  MaxSilences = 1
  MaxChunks = 2
  MaxResearch = 1
  Join = {j1, j2}
  NoJoin = NoJoin
  MaxDrops = 2
  MaxActions = 1
  c1 = c1
  c2 = c2
  c3 = c3
  Session = {c1, c2, c3}
  Consolidator = {g1}
  Indexed <- MCIndexed
  Extractable <- MCExtractable
  MaxMemories = 3
  MaxCandidates <- MCCandidates
  Unreflected <- MCUnreflected
  MaxByHand = 1
INVARIANTS ServicesTypeOK FiresOnce OneResearcher OneAnalysis NothingOrphaned DisputeLeavesOne
PROPERTIES MissedIsCaughtUp PairingKept CheckpointKept StartServes ServiceComesBack
CHECK_DEADLOCK FALSE
