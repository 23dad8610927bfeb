CONSTANTS
  Browsers = {b1, b2}
  Keys = {k1, k2, k3, k4}
  k1 = k1
  NoKey = NoKey
  EnvKeys <- SomeEnvKey
  Secrets = {s1, s2}
  NoSecret = NoSecret
  Users = {alice}
  NoUser = NoUser
  Passwords = {short, long}
  TooLong = {long}
  NoPassword = NoPassword
  MaxFaults = 1
  MaxCrashes = 2
SPECIFICATION Spec
INVARIANTS TypeOK NoLockout KeyExpected SessionsKept
SYMMETRY Symmetry
