------------------------------ MODULE Placement ------------------------------
(***************************************************************************)
(* The decision engine: DecisionEngine.evaluate_placement with its filter, *)
(* normalizer and scorer, the static routing policy it fails open to, and  *)
(* the two pieces of state a decision is made from, the telemetry store    *)
(* (one hash in Redis) and the weights set at run time (in the process).   *)
(*                                                                         *)
(* Nodes are numbers in the order of their ids.  Measurements are whole    *)
(* numbers, weights are hundredths, and a normalized metric is a share of  *)
(* Scale, so a score is an integer where the code rounds to six decimals.  *)
(***************************************************************************)
EXTENDS Integers, FiniteSetsExt, Functions, Sequences

CONSTANTS
    Nodes, Zones, SLAClasses,
    COST_CEILINGS_USD, DEFAULT_SLA_PROFILES,
    staleness_threshold_ms, max_queue_depth, max_compute_pct,
    max_allowed_divergence_pct,
    challenger_margin,     \* in percent
    default_fallback_chain, residency_overrides,
    CloudDefault,          \* "cloud-default-fallback"
    BandwidthUnit, Scale,  \* fixed-point units of 1 / bandwidth and of 1.0
    None

VARIABLES
    snapshots,             \* the hash telemetry:snapshots, node id -> snapshot
    custom_sla_profiles    \* SLA class -> weights

placementVars == <<snapshots, custom_sla_profiles>>

Metrics == {"latency", "bandwidth", "compute", "queue", "cost"}

\* compute_utilization stands for cpu_util_pct and gpu_util_pct, whose maximum it is.
Snapshot == [health : {"healthy", "degraded", "unreachable"},
             last_heartbeat_age_ms : Nat,
             rtt_ms : Nat,
             gateway_observed_rtt_ms : Nat \cup {None},
             bandwidth_available_mbps : Nat \ {0},
             compute_utilization : 0..100,
             queue_depth : Nat,
             cost_per_1k_inferences_usd : Nat,
             data_residency_zones : SUBSET Zones,
             assurance_level : {"standard", "high_assurance"}]

\* data_residency is None for "none", "any" and the empty string.
TaskRequest == [sla_class : SLAClasses,
                data_residency : Zones \cup {None},
                required_assurance_level : {"standard", "high_assurance"}]

\* Weights are shares that sum to one.
SLAWeights ==
    {w \in [Metrics -> 0..100] :
        w["latency"] + w["bandwidth"] + w["compute"] + w["queue"] + w["cost"] = 100}

\* Chains are those of the static policy and up to three ranked nodes.
FallbackChains == {default_fallback_chain} \cup Range(residency_overrides)
                    \cup UNION {[1..k -> Nodes] : k \in 0..3}

\* Of a decision, what the dispatch and the audit trail act on.
PlacementDecision == [chosen_node : Nodes \cup {CloudDefault},
                      fallback_chain : FallbackChains,
                      used_fallback_policy : BOOLEAN]

ASSUME PlacementAssumption ==
    /\ Nodes \subseteq Nat /\ IsFiniteSet(Nodes)
    /\ CloudDefault \notin Nodes
    /\ None \notin Nodes /\ None \notin Zones
    /\ COST_CEILINGS_USD \in [SLAClasses -> Nat]
    /\ DEFAULT_SLA_PROFILES \in [SLAClasses -> SLAWeights]
    /\ {staleness_threshold_ms, max_queue_depth, max_compute_pct, BandwidthUnit} \subseteq Nat
    /\ max_allowed_divergence_pct \in Nat /\ challenger_margin \in 1..100
    /\ Scale \in Nat \ {0}
    /\ default_fallback_chain \in Seq(Nodes)
    /\ DOMAIN residency_overrides \subseteq Zones
    /\ \A z \in DOMAIN residency_overrides : residency_overrides[z] \in Seq(Nodes)

----------------------------------------------------------------------------
(* Hard constraints: TelemetryValidator and ConstraintFilter.              *)

Stale(s) == s.last_heartbeat_age_ms > staleness_threshold_ms

\* Round trips are whole milliseconds, so max(reported, 1.0) is the one reported.
CrossValidates(s) ==
    LET observed == s.gateway_observed_rtt_ms
        reported == s.rtt_ms
        distance == IF observed < reported THEN reported - observed ELSE observed - reported
    IN observed # None =>
         reported > 0 /\ 100 * distance <= max_allowed_divergence_pct * reported

InResidencyZone(task, s) ==
    task.data_residency = None \/ task.data_residency \in s.data_residency_zones

HasHeadroom(task, s) ==
    /\ s.queue_depth < max_queue_depth
    /\ s.compute_utilization < max_compute_pct
    /\ s.cost_per_1k_inferences_usd <= COST_CEILINGS_USD[task.sla_class]

\* Fault: a node that says nothing against it is good enough.
SufficientAssurance_Healthy(task, s) ==
    task.required_assurance_level = "standard" \/ s.health = "healthy"

SufficientAssurance(task, s) ==
    task.required_assurance_level = "standard" \/ s.assurance_level = "high_assurance"

Passes(task, s) ==
    /\ s.health # "unreachable"
    /\ ~Stale(s)
    /\ CrossValidates(s)
    /\ InResidencyZone(task, s)
    /\ HasHeadroom(task, s)
    /\ SufficientAssurance(task, s)

\* The candidates that are left, a function on a part of the nodes like pool.
FilterCandidates(task, pool) ==
    Restrict(pool, {n \in DOMAIN pool : Passes(task, pool[n])})

----------------------------------------------------------------------------
(* Scores: CandidateNormalizer and WeightedScorer.                         *)

\* Fault: much bandwidth counts against a node.
Raw_PlainBandwidth(s) ==
    [latency |-> s.rtt_ms, bandwidth |-> s.bandwidth_available_mbps,
     compute |-> s.compute_utilization, queue |-> s.queue_depth,
     cost |-> s.cost_per_1k_inferences_usd]

Raw(s) == [latency |-> s.rtt_ms,
           bandwidth |-> BandwidthUnit \div s.bandwidth_available_mbps,
           compute |-> s.compute_utilization,
           queue |-> s.queue_depth,
           cost |-> s.cost_per_1k_inferences_usd]

\* Zero for all where all are equal; the code's threshold of 1e-9 on the spread is
\* less than one unit.
NormalizeMetric(values) ==
    LET low == Min(Range(values))
        spread == Max(Range(values)) - low
    IN [n \in DOMAIN values |->
          IF spread = 0 THEN 0 ELSE (Scale * (values[n] - low)) \div spread]

NormalizeCandidates(pool) ==
    [m \in Metrics |-> NormalizeMetric([n \in DOMAIN pool |-> Raw(pool[n])[m]])]

\* Composite scores of a pool, lower is better.
Scores(pool, weights) ==
    LET norm == NormalizeCandidates(pool)
    IN [n \in DOMAIN pool |->
          weights["latency"] * norm["latency"][n]
            + weights["bandwidth"] * norm["bandwidth"][n]
            + weights["compute"] * norm["compute"][n]
            + weights["queue"] * norm["queue"][n]
            + weights["cost"] * norm["cost"][n]]

\* Sorted by score, then by node id: a node's place is the number of better ones.
Better(scores, n) ==
    {m \in DOMAIN scores : scores[m] < scores[n] \/ (scores[m] = scores[n] /\ m < n)}

RankCandidates(scores) ==
    [i \in 1..Cardinality(DOMAIN scores) |->
        CHOOSE n \in DOMAIN scores : Cardinality(Better(scores, n)) = i - 1]

GetSLAWeights(sla_class) ==
    IF sla_class \in DOMAIN custom_sla_profiles THEN custom_sla_profiles[sla_class]
                                                ELSE DEFAULT_SLA_PROFILES[sla_class]

----------------------------------------------------------------------------
(* The decision.                                                           *)

\* Fault: residency is not looked at.
StaticChain_Default(task) == default_fallback_chain

StaticChain(task) ==
    IF task.data_residency \in DOMAIN residency_overrides
      THEN residency_overrides[task.data_residency]
      ELSE default_fallback_chain

GetStaticFallbackDecision(task) ==
    LET chain == StaticChain(task)
    IN [chosen_node |-> IF chain = <<>> THEN CloudDefault ELSE chain[1],
        fallback_chain |-> chain,
        used_fallback_policy |-> TRUE]

\* Fault: any incumbent with a score is kept.
Chosen_Sticky(best, scores, incumbent) ==
    IF incumbent \in DOMAIN scores THEN incumbent ELSE best

\* An incumbent among the candidates stays unless the best one's score is lower
\* by the margin.
Chosen(best, scores, incumbent) ==
    IF incumbent \in DOMAIN scores
         /\ 100 * scores[best] > (100 - challenger_margin) * scores[incumbent]
      THEN incumbent
      ELSE best

\* The moving averages of scores that the engine also keeps are never read.
EvaluatePlacement(task, candidates, incumbent) ==
    LET pool == FilterCandidates(task, candidates)
        scores == Scores(pool, GetSLAWeights(task.sla_class))
        ranked == RankCandidates(scores)
    IN IF DOMAIN pool = {}
         THEN GetStaticFallbackDecision(task)
         ELSE [chosen_node |-> Chosen(ranked[1], scores, incumbent),
               fallback_chain |-> SubSeq(ranked, 1, Min({3, Len(ranked)})),
               used_fallback_policy |-> FALSE]

----------------------------------------------------------------------------
PlacementInit ==
    /\ snapshots = <<>>
    /\ custom_sla_profiles = <<>>

\* hset replaces the node's snapshot as a whole.
RecordSnapshot(node, s) ==
    /\ snapshots' = [n \in DOMAIN snapshots \cup {node} |->
                       IF n = node THEN s ELSE snapshots[n]]
    /\ UNCHANGED custom_sla_profiles

\* Fault: the age is the time since the agent's timestamp, whose clock may be ahead.
Streamed_Skewed(s) == [s EXCEPT !.last_heartbeat_age_ms = -1,
                                !.gateway_observed_rtt_ms = None,
                                !.assurance_level = "standard"]

\* What StreamTelemetry makes of an agent's measurements: the age, the gateway's
\* own measurement and the assurance level take fixed values.
Streamed(s) == [s EXCEPT !.last_heartbeat_age_ms = 0,
                         !.gateway_observed_rtt_ms = None,
                         !.assurance_level = "standard"]

UpdateSLAProfiles(sla_class, weights) ==
    /\ custom_sla_profiles' = [c \in DOMAIN custom_sla_profiles \cup {sla_class} |->
                                 IF c = sla_class THEN weights ELSE custom_sla_profiles[c]]
    /\ UNCHANGED snapshots

\* The engine's process ends, and the profiles with it; Redis keeps the snapshots.
LoseEngine ==
    /\ custom_sla_profiles' = <<>>
    /\ UNCHANGED snapshots

PlacementTypeOK ==
    /\ DOMAIN snapshots \subseteq Nodes
    /\ snapshots \in [DOMAIN snapshots -> Snapshot]
    /\ DOMAIN custom_sla_profiles \subseteq SLAClasses
    /\ custom_sla_profiles \in [DOMAIN custom_sla_profiles -> SLAWeights]

----------------------------------------------------------------------------
(* What a decision promises, for a task and the candidates at hand.        *)

\* At least as good as t on all that is measured, and better on something the
\* weights count.
Dominates(s, t, weights) ==
    /\ s.rtt_ms <= t.rtt_ms
    /\ s.bandwidth_available_mbps >= t.bandwidth_available_mbps
    /\ s.compute_utilization <= t.compute_utilization
    /\ s.queue_depth <= t.queue_depth
    /\ s.cost_per_1k_inferences_usd <= t.cost_per_1k_inferences_usd
    /\ \/ weights["latency"] > 0 /\ s.rtt_ms < t.rtt_ms
       \/ weights["bandwidth"] > 0 /\ s.bandwidth_available_mbps > t.bandwidth_available_mbps
       \/ weights["compute"] > 0 /\ s.compute_utilization < t.compute_utilization
       \/ weights["queue"] > 0 /\ s.queue_depth < t.queue_depth
       \/ weights["cost"] > 0 /\ s.cost_per_1k_inferences_usd < t.cost_per_1k_inferences_usd

\* The units of scores tell two snapshots apart: a metric does not spread over more
\* than Scale, and of two bandwidths the larger has the smaller inverse.
Resolved(s, t) ==
    /\ s.rtt_ms - t.rtt_ms <= Scale
    /\ (BandwidthUnit \div s.bandwidth_available_mbps)
         - (BandwidthUnit \div t.bandwidth_available_mbps) <= Scale
    /\ s.compute_utilization - t.compute_utilization <= Scale
    /\ s.queue_depth - t.queue_depth <= Scale
    /\ s.cost_per_1k_inferences_usd - t.cost_per_1k_inferences_usd <= Scale
    /\ s.bandwidth_available_mbps > t.bandwidth_available_mbps =>
         BandwidthUnit \div s.bandwidth_available_mbps
           < BandwidthUnit \div t.bandwidth_available_mbps

\* A node stands in the chain of a scored decision before no other eligible node
\* that dominates it, and none outside the chain dominates one in it.
RankedByMerit(task, pool) ==
    LET d == EvaluatePlacement(task, pool, None)
        chain == d.fallback_chain
        weights == GetSLAWeights(task.sla_class)
    IN ~d.used_fallback_policy =>
         \A i \in 1..Len(chain), n \in DOMAIN pool :
            /\ Passes(task, pool[n])
            /\ \A j \in 1..i : chain[j] # n
            => ~Dominates(pool[n], pool[chain[i]], weights)

\* With an incumbent: the chosen node is eligible, its score is within the margin of
\* the best, and an eligible incumbent gave way only to a node that beats it by the
\* margin, or where both scores are zero.
IncumbentKept(task, pool, incumbent) ==
    LET d == EvaluatePlacement(task, pool, incumbent)
        scores == Scores(FilterCandidates(task, pool), GetSLAWeights(task.sla_class))
        margin == 100 - challenger_margin
        c == d.chosen_node
    IN ~d.used_fallback_policy =>
         /\ c \in DOMAIN pool /\ Passes(task, pool[c])
         /\ \A n \in DOMAIN scores : n = c \/ 100 * scores[n] >= margin * scores[c]
         /\ incumbent \in DOMAIN scores \ {c} =>
              \/ scores[c] < scores[incumbent]
                   /\ 100 * scores[c] <= margin * scores[incumbent]
              \/ scores[c] = 0 /\ scores[incumbent] = 0
=============================================================================
