SPECIFICATION DispatchSpec
CONSTANTS
  s1 = s1
  s2 = s2
  n1 = n1
  n2 = n2
  c1 = c1
  c2 = c2
  default = default
  k = k
  None = None
  Instances = {s1, s2}
  SchedulerIds = {default}
  SchedulerId <- MCSchedulerId
  LeaseTTL = 0
  MaxTime = 1
  Nodes = {n1}
  Calls = {c1, c2}
  Decisions <- OneNode
  Keys = {k}
  IdempotencyKey <- MCKey
  EnvelopeTTL = 0
  Static <- MCStatic
INVARIANTS DispatchTypeOK OneAuthority
PROPERTY ElectionSpec
CHECK_DEADLOCK FALSE
