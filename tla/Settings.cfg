CONSTANTS
  unset = unset
  CPUs = 6
  Unset <- unset
  EnvValues <- SomeValues
  Inputs <- Numbers
  Ages = {0, 1, 4, 12}
  Hour = 3
  DurationRange = 64
  MaxSaves = 3
  MaxFaults = 1
  MaxCrashes = 2
SPECIFICATION Spec
INVARIANTS
  TypeOK
  SavedSticks
  LimitInRange
