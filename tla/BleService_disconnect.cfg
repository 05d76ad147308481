SPECIFICATION Spec
CONSTANTS
  Devices = {d1}
  Tasks = {t1}
  ScanCallers = {s1}
  None = None
  MaxRetries = 1
INVARIANTS
  DisconnectedStays
