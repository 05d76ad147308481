SPECIFICATION Spec
CONSTANTS
  Calls = {k1}
  Asked = {"medium"}
  Conns = {d1}
  MaxFailoverAttempts = 2
  None = None
PROPERTY HealthCheckResets
CHECK_DEADLOCK FALSE
