CONSTANTS
  Captures = {c1}
  Workers = {w1, w2}
  Handlers = {}
  Reaper = reaper
  NoJob = NoJob
  NoFile = NoFile
  NoLog = NoLog
  CPUs = 2
  InitLimit = 0
  InitRetention = 1
  Retentions = {0, 1}
  MaxSubmits = 2
  MaxSettings = 0
  MaxClock = 2
  MaxFaults = 0
  MaxCrashes = 0
SPECIFICATION TimedSpec
PROPERTIES QueuedIsServed RunningEnds ExpiredIsReaped
