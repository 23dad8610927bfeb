CONSTANTS
  Requests = {r1, r2}
  Workers = {w1}
  Ids = {i1, i2}
  NoId = NoId
  Share <- MCShare
  Files <- OneFile
  MaxFaults = 1
  MaxCrashes = 1
SPECIFICATION Spec
INVARIANTS TypeOK UniqueIds OnlyVerified AddedStaysListed LearntHere
SYMMETRY Symmetry
