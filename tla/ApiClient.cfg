CONSTANTS
  c1 = c1
  c2 = c2
  Captures = {c1, c2}
  Batch <- GoodBadGood
  Bad = Bad
  Posts = {p1, p2}
  Workers = {w1}
  Outcomes = {"done"}
  Watched <- AnyState
  NoJob = NoJob
  NoPost = NoPost
  NoAnswer = NoAnswer
  MaxLost = 1
  MaxUpsets = 1
SPECIFICATION Spec
INVARIANTS TypeOK KnownUpToCursor NoRedo
PROPERTY BatchDelivered
CHECK_DEADLOCK FALSE
