CONSTANTS
  Captures = {c1}
  Workers = {w1, w2}
  Handlers = {h1}
  Reaper = reaper
  NoJob = NoJob
  NoFile = NoFile
  NoLog = NoLog
  CPUs = 4
  InitLimit = 0
  InitRetention = 0
  Retentions = {}
  MaxSubmits = 3
  MaxSettings = 0
  MaxClock = 0
  MaxFaults = 0
  MaxCrashes = 1
SPECIFICATION Spec
INVARIANTS TypeOK ClaimedOnce NoOrphans RunningIsWorkedOn LogOfAttempt
PROPERTY ImplementsLifecycle
SYMMETRY Symmetry
