SPECIFICATION FairGatewaySpec
CONSTANTS
  None = None
  CloudDefault = CloudDefault
  Nodes = {1, 2, 3, 4}
  Zones = {"eu", "us", "uk"}
  SLAClasses = {"real_time", "batch"}
  COST_CEILINGS_USD <- MCCeilings
  DEFAULT_SLA_PROFILES <- MCProfiles
  staleness_threshold_ms = 3000
  max_queue_depth = 50
  max_compute_pct = 98
  max_allowed_divergence_pct = 50
  challenger_margin = 10
  default_fallback_chain <- MCChain
  residency_overrides <- MCOverrides
  BandwidthUnit = 1000
  Scale = 180
  Requests = {r1}
  r1 = r1
  Tasks <- MCTasks
  StreamedReports <- MCStreamed
  PostedReports <- MCPostedReports
  PostedWeights <- MCPosted
  NodeZones <- MCZones
  AssuredNodes = {1}
INVARIANTS GatewayTypeOK RanksByMerit IncumbentWithinMargin ResidencyKept AssuranceKept
  ShadowOnlyWatches  FailsOpen
 
