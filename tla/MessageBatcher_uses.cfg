SPECIFICATION Spec
CONSTANTS
  Clients = {c1}
  Ids = {i1, i2}
  NoId = NoId
  None = None
  Ranks = {1, 3}
  BatchSize = 2
  MaxCalls = 3
  MaxEmissions = 0
  Ops = {"remove", "flush", "stop"}
INVARIANTS
  BatchesGuarded
  FlushedOnceInOrder
  AcceptanceOrder
CHECK_DEADLOCK FALSE
