SPECIFICATION TelemetryFairSpec
CONSTANTS
  n1 = n1
  n2 = n2
  t1 = t1
  t2 = t2
  None = None
  Nodes = {n1, n2}
  Threads = {t1, t2}
  TTL = 0
  SvidTTL = 1
  MaxSkew = 0
  ClockOffset <- MCClockOffset
  NonceLimit = 1
  MaxTime = 1
  MaxSent = 2
  MaxWire = 1
  MaxFaults = 2
INVARIANTS TelemetryTypeOK ReplayStopped  OnlyOldProcessesBlock
PROPERTIES AdmitsOnlyNewer CurrentStreamAdvances AgentsReconnect
CHECK_DEADLOCK FALSE
