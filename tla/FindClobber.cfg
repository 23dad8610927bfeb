CONSTANTS
  Requests = {r1}
  Workers = {w1}
  Ids = {i1}
  NoId = NoId
  Share <- MCShare
  Files <- OneFile
  MaxFaults = 0
  MaxCrashes = 0
SPECIFICATION Spec
PROPERTY EditsSurvive
