SPECIFICATION FairSpec
CONSTANTS
  Clients = {c1, c2}
  Ids = {i1, i2}
  NoId = NoId
  None = None
  Ranks = {1}
  BatchSize = 2
  MaxCalls = 2
  MaxEmissions = 1
  Ops = {"process", "remove", "flush", "stop"}
INVARIANTS
  RejectionHasCause
PROPERTIES
  EveryCallSettles
  AcceptedIsDelivered
  ImplementsChannel
CHECK_DEADLOCK FALSE
