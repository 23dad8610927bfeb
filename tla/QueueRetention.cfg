CONSTANTS
  Captures = {c1, c2}
  Workers = {w1}
  Handlers = {h1}
  Reaper = reaper
  NoJob = NoJob
  NoFile = NoFile
  NoLog = NoLog
  CPUs = 2
  InitLimit = 0
  InitRetention = 1
  Retentions = {0, 1}
  MaxSubmits = 2
  MaxSettings = 1
  MaxClock = 2
  MaxFaults = 1
  MaxCrashes = 0
SPECIFICATION Spec
INVARIANT MediaOfDone
PROPERTY Orderly
