SPECIFICATION MCSpec
CONSTANTS
  EtcdKeys = {k1, k2}
  EtcdValues = {v1, v2}
  None = None
  TTLs <- MCTTLs
  MaxTime = 3
  MaxLeases = 3
INVARIANT EtcdTypeOK
PROPERTY LeaseNeverRevived
CHECK_DEADLOCK FALSE
