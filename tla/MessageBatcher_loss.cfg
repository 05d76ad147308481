SPECIFICATION Spec
CONSTANTS
  Clients = {c1}
  Ids = {i1, i2}
  NoId = NoId
  None = None
  Ranks = {1}
  BatchSize = 2
  MaxCalls = 3
  MaxEmissions = 0
  Ops = {"remove"}
INVARIANTS
  NoLoss
CHECK_DEADLOCK FALSE
