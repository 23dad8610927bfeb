CONSTANTS
  MaxAttempts = 2
  Ticks = 2
  Accounts <- SomeAccounts
  MaxFaults = 1
  MaxCrashes = 1
SPECIFICATION Spec
INVARIANTS TypeOK SameIdentity PrefersLocal
PROPERTY SignInEnds
CHECK_DEADLOCK FALSE
