CONSTANTS
  Captures = {c1}
  Workers = {w1, w2, w3}
  Handlers = {}
  Reaper = reaper
  NoJob = NoJob
  NoFile = NoFile
  NoLog = NoLog
  CPUs = 2
  InitLimit = 2
  InitRetention = 0
  Retentions = {}
  MaxSubmits = 1
  MaxSettings = 2
  MaxClock = 0
  MaxFaults = 1
  MaxCrashes = 1
SPECIFICATION Spec
INVARIANTS CounterExact WithinLimit
SYMMETRY Symmetry
