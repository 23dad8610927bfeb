CONSTANTS
  c = c1
  Captures = {c1}
  NoJob = NoJob
  NoFile = NoFile
  Nothing = Nothing
  Asks <- OneAsk
  Speeds = {1, 2}
  Servers <- SomeServers
  Answers <- SomeAnswers
  Sources <- SomeSources
  MaxSubmits = 2
  MaxDrops = 1
  MaxFaults = 1
  MaxCrashes = 1
SPECIFICATION Spec
INVARIANTS TypeOK CachedIsCurrent RecordIsTrue FallsBack
CHECK_DEADLOCK FALSE
