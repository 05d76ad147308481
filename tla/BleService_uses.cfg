SPECIFICATION FairSpec
CONSTANTS
  Devices = {d1}
  Tasks = {t1, t2}
  ScanCallers = {s1}
  None = None
  MaxRetries = 2
INVARIANTS
  AgreesWithRadio
  ConnectedIsWatched
PROPERTIES
  ConnectSettles
