SPECIFICATION LeaderSpec
CONSTANTS
  s1 = s1
  s2 = s2
  s3 = s3
  default = default
  other = other
  Instances <- MCInstances
  SchedulerIds = {default, other}
  SchedulerId <- MCSchedulerId
  LeaseTTL = 1
  MaxTime = 3
  None = None

PROPERTY Failover
CHECK_DEADLOCK FALSE
