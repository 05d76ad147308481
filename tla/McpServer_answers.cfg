SPECIFICATION FairSpec
CONSTANTS
  Clients = {c1}
  Calls = {k1}
  None = None
  MaxConnections = 1
PROPERTIES
  Answered
CHECK_DEADLOCK FALSE
