CONSTANTS
  Browsers = {b1}
  Keys = {k1, k2, k3}
  k1 = k1
  NoKey = NoKey
  EnvKeys <- NoEnvKey
  Secrets = {s1, s2}
  NoSecret = NoSecret
  Users = {alice}
  NoUser = NoUser
  Passwords = {short, long}
  TooLong = {long}
  NoPassword = NoPassword
  MaxFaults = 0
  MaxCrashes = 0
SPECIFICATION Spec
INVARIANT NeverLockedOut
