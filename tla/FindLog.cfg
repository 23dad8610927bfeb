CONSTANTS
  Captures = {c1}
  Workers = {w1, w2}
  Handlers = {}
  Reaper = reaper
  NoJob = NoJob
  NoFile = NoFile
  NoLog = NoLog
  CPUs = 4
  InitLimit = 0
  InitRetention = 0
  Retentions = {}
  MaxSubmits = 2
  MaxSettings = 0
  MaxClock = 0
  MaxFaults = 0
  MaxCrashes = 0
SPECIFICATION Spec
INVARIANT RunningHasLog
