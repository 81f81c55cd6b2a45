SPECIFICATION DispatchSpec
CONSTANTS
  s1 = s1
  s2 = s2
  n1 = n1
  n2 = n2
  c1 = c1
  c2 = c2
  default = default
  k = k
  None = None
  Instances = {s1}
  SchedulerIds = {default}
  SchedulerId <- MCSchedulerId
  LeaseTTL = 1
  MaxTime = 2
  Nodes = {n1, n2}
  Calls = {c1}
  Decisions <- TwoNodes
  Keys = {k}
  IdempotencyKey <- MCKey
  EnvelopeTTL = 0
  Static <- MCStatic
INVARIANT OnlyDocumentedOutcomes
CHECK_DEADLOCK FALSE
