SPECIFICATION SupplyChainFairSpec
CONSTANTS
  m = m
  d1 = d1
  d2 = d2
  kid = kid
  s1 = s1
  s2 = s2
  ci = ci
  t1 = t1
  t2 = t2
  t3 = t3
  j1 = j1
  j2 = j2
  None = None
  Tag = Tag
  Models = {m}
  Digests = {d1, d2}
  KeyIds = {kid}
  Signers = {s1, s2}
  Builders = {ci}
  CiBuilders = {ci}
  Tasks = {t1, t2, t3}
  Jobs = {j1, j2}
  Approvals <- MCApprovals
  Policies <- MCPolicies
  TaskModel <- MCTaskModel
  TaskDigest <- MCTaskDigest
INVARIANTS SupplyChainTypeOK RunsWhatWasAsked QuietVerdict
PROPERTIES RevokedNotStarted PolicyTakesEffect
