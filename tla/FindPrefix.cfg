CONSTANTS
  Requests = {r1}
  Workers = {w1}
  Ids = {i1}
  NoId = NoId
  Share <- MCShare
  Files <- MCFiles
  MaxFaults = 0
  MaxCrashes = 0
SPECIFICATION Spec
INVARIANT AdoptedPrefixWorks
