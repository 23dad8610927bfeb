CONSTANTS
  unset = unset
  CPUs = 2
  Unset <- unset
  EnvValues <- NoValues
  Inputs <- Numbers
  Ages = {0, 1, 4, 12}
  Hour = 3
  DurationRange = 64
  MaxSaves = 1
  MaxFaults = 0
  MaxCrashes = 0
SPECIFICATION Spec
INVARIANTS
  SpanApplies
