------------------------------ MODULE MCGateway ------------------------------
(* Four nodes as in config/static_routing.yaml, numbered in the order of     *)
(* their ids: cloud-aws-eu-central, cloud-aws-us-east, edge-frankfurt-1 and  *)
(* edge-london-1, whose zone the policy does not list.  Cloud may claim high *)
(* assurance, over HTTP only; what is posted for Frankfurt diverges from the *)
(* gateway's measurement and for London is stale; CloudUS is beyond the cost *)
(* ceiling of batch tasks.  Money is in tenths of a dollar.                  *)
EXTENDS Gateway, TLC

CONSTANT r1

Cloud == 1
CloudUS == 2
Frankfurt == 3
London == 4

MCZones == Cloud :> {"eu", "us"} @@ CloudUS :> {"us"} @@ Frankfurt :> {"eu"} @@ London :> {"uk"}
MCChain == <<Frankfurt, London, Cloud>>
MCOverrides == "eu" :> <<Frankfurt, Cloud>> @@ "us" :> <<CloudUS>>

MCCeilings == "real_time" :> 100 @@ "batch" :> 5
Weighted(lat, bw, cmp, queue, cost) ==
    [latency |-> lat, bandwidth |-> bw, compute |-> cmp, queue |-> queue, cost |-> cost]
MCProfiles == "real_time" :> Weighted(50, 15, 15, 15, 5) @@ "batch" :> Weighted(10, 10, 20, 20, 40)
MCPosted == "real_time" :> {Weighted(100, 0, 0, 0, 0)} @@ "batch" :> {}

Measured(node, rtt, bw, compute, queue, cost) ==
    [health |-> "healthy", last_heartbeat_age_ms |-> 100, rtt_ms |-> rtt,
     gateway_observed_rtt_ms |-> None, bandwidth_available_mbps |-> bw,
     compute_utilization |-> compute, queue_depth |-> queue,
     cost_per_1k_inferences_usd |-> cost, data_residency_zones |-> MCZones[node],
     assurance_level |-> "standard"]

MCStreamed ==
    Cloud :> {Measured(Cloud, 40, 1000, 30, 0, 15)}
    @@ CloudUS :> {Measured(CloudUS, 100, 1000, 30, 0, 7)}
    @@ Frankfurt :> {Measured(Frankfurt, 10, 125, 60, 5, 3)}
    @@ London :> {Measured(London, 10, 100, 60, 5, 3)}

MCPostedReports ==
    Cloud :> {[Measured(Cloud, 40, 1000, 30, 0, 15) EXCEPT
                 !.assurance_level = "high_assurance", !.gateway_observed_rtt_ms = 60]}
    @@ CloudUS :> {}
    @@ Frankfurt :> {[Measured(Frankfurt, 10, 125, 60, 5, 3) EXCEPT
                        !.gateway_observed_rtt_ms = 16]}
    @@ London :> {[Measured(London, 10, 100, 60, 5, 3) EXCEPT
                     !.last_heartbeat_age_ms = 5000]}

Task(sla_class, zone, level) ==
    [sla_class |-> sla_class, data_residency |-> zone, required_assurance_level |-> level]
MCTasks == {Task("real_time", None, "standard"), Task("batch", "eu", "standard"),
            Task("real_time", "uk", "standard"), Task("real_time", None, "high_assurance")}

\* The fixed-point arithmetic of scores tells these measurements apart, and is exact.
ASSUME RankingHypothesis == UnitsResolve

ASSUME ExactShares ==
    LET reports == UNION {MCStreamed[n] : n \in Nodes}
    IN \A s, t, u \in reports : \A m \in Metrics :
         LET spread == Raw(s)[m] - Raw(t)[m]
             distance == Raw(u)[m] - Raw(t)[m]
         IN /\ BandwidthUnit % s.bandwidth_available_mbps = 0
            /\ spread > 0 /\ distance \in 0..spread => (Scale * distance) % spread = 0
=============================================================================
