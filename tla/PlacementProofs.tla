-------------------------- MODULE PlacementProofs --------------------------
(***************************************************************************)
(* Proofs about Placement: what a decision promises for any candidates,    *)
(* weights and policies.                                                   *)
(***************************************************************************)
EXTENDS Placement, TLAPS, FiniteSetTheorems, WellFoundedInduction

\* Every non-empty set of natural numbers has a smallest element.
LEMMA Smallest ==
    ASSUME NEW S \in SUBSET Nat, S # {}
    PROVE  \E x \in S : \A y \in S : x <= y
<1> DEFINE R == {p \in Nat \X Nat : p[1] < p[2]}
<1>1. IsWellFoundedOn(R, Nat)
  BY NatLessThanWellFounded DEF OpToRel
<1>2. \A x, y \in Nat : <<y, x>> \in R <=> y < x
  OBVIOUS
<1> HIDE DEF R
<1>3. \E x \in S : \A y \in S : ~ (<<y, x>> \in R)
  BY <1>1, WFMin
<1>4. \A x \in S : x \in Nat
  OBVIOUS
<1>5. \A x, y \in S : ~(y < x) => x <= y
  BY <1>4
<1> QED BY <1>2, <1>3, <1>4, <1>5

LEMMA MinIsSmallest ==
    ASSUME NEW S \in SUBSET Nat, S # {}
    PROVE  Min(S) \in S /\ \A y \in S : Min(S) <= y
BY Smallest DEF Min

\* A finite one has a largest element: one with the fewest elements above it.
LEMMA MaxIsLargest ==
    ASSUME NEW S \in SUBSET Nat, S # {}, IsFiniteSet(S)
    PROVE  Max(S) \in S /\ \A y \in S : y <= Max(S)
<1> DEFINE Above(x) == {y \in S : x < y}
           Counts == {Cardinality(Above(x)) : x \in S}
<1>1. \A x \in S : IsFiniteSet(Above(x)) /\ Cardinality(Above(x)) \in Nat
  BY FS_Subset, FS_CardinalityType
<1>2. PICK c \in Counts : \A d \in Counts : c <= d
  <2>1. Counts \in SUBSET Nat /\ Counts # {}
    BY <1>1
  <2> HIDE DEF Counts
  <2> QED BY <2>1, Smallest
<1>3. PICK x \in S : c = Cardinality(Above(x))
  OBVIOUS
<1>4. \A y \in S : y <= x
  <2> SUFFICES ASSUME NEW y \in S, x < y PROVE FALSE
    OBVIOUS
  <2>1. y \in Above(x) /\ y \notin Above(y)
    BY x \in Nat, y \in Nat
  <2>2. Above(y) \in SUBSET Above(x)
    <3>1. \A z \in S : z \in Nat /\ (y < z => x < z)
      BY x \in Nat, y \in Nat
    <3> QED BY <3>1
  <2>3. /\ Cardinality(Above(y)) <= Cardinality(Above(x))
        /\ Cardinality(Above(x)) # Cardinality(Above(y))
    BY <1>1, <2>1, <2>2, FS_Subset
  <2>4. Cardinality(Above(x)) <= Cardinality(Above(y))
    BY <1>2, <1>3
  <2> QED BY <1>1, <2>3, <2>4
<1> QED BY <1>4 DEF Max

----------------------------------------------------------------------------
\* Ranking.  The places of candidates are the numbers from 0, each taken once, so
\* that the CHOOSE in RankCandidates names the one candidate of its place.
LEMMA PlacesAreTaken ==
    ASSUME NEW D \in SUBSET Nat, IsFiniteSet(D), NEW scores \in [D -> Nat]
    PROVE  /\ \A n \in D : Cardinality(Better(scores, n)) \in 0..(Cardinality(D) - 1)
           /\ \A m, n \in D : m \in Better(scores, n) =>
                Cardinality(Better(scores, m)) < Cardinality(Better(scores, n))
           /\ \A i \in 0..(Cardinality(D) - 1) :
                \E n \in D : Cardinality(Better(scores, n)) = i
<1> DEFINE place == [n \in D |-> Cardinality(Better(scores, n))]
           places == 0..(Cardinality(D) - 1)
<1>0. Cardinality(D) \in Nat
  BY FS_CardinalityType
<1>1. \A n \in D : Better(scores, n) \in SUBSET D /\ n \notin Better(scores, n)
  BY DEF Better
<1>2. \A n \in D : IsFiniteSet(Better(scores, n)) /\ Cardinality(Better(scores, n)) \in Nat
  BY <1>1, FS_Subset, FS_CardinalityType
<1>3. \A m, n \in D : m \in Better(scores, n) =>
          Cardinality(Better(scores, m)) < Cardinality(Better(scores, n))
  <2> SUFFICES ASSUME NEW m \in D, NEW n \in D, m \in Better(scores, n)
      PROVE Cardinality(Better(scores, m)) < Cardinality(Better(scores, n))
    OBVIOUS
  <2>1. Better(scores, m) \in SUBSET Better(scores, n)
    <3>1. \A k \in D : k \in Nat /\ scores[k] \in Nat
      OBVIOUS
    <3>2. \A k \in D : k \in Better(scores, m) => k \in Better(scores, n)
      BY <3>1 DEF Better
    <3> QED BY <1>1, <3>2
  <2>2. Better(scores, m) # Better(scores, n)
    BY <1>1
  <2>3. Cardinality(Better(scores, m)) <= Cardinality(Better(scores, n))
        /\ Cardinality(Better(scores, m)) # Cardinality(Better(scores, n))
    BY <1>2, <2>1, <2>2, FS_Subset
  <2> QED BY <1>2, <2>3
<1>4. \A n \in D : Cardinality(Better(scores, n)) \in places
  <2> TAKE n \in D
  <2>1. Cardinality(Better(scores, n)) <= Cardinality(D)
        /\ Cardinality(Better(scores, n)) # Cardinality(D)
    BY <1>1, FS_Subset
  <2> QED BY <1>0, <1>2, <2>1
<1>5. \A m, n \in D : m # n => m \in Better(scores, n) \/ n \in Better(scores, m)
  BY DEF Better
<1>6. place \in Injection(D, places)
  <2>1. place \in [D -> places]
    BY <1>4
  <2>2. \A m, n \in D : place[m] = place[n] => m = n
    BY <1>2, <1>3, <1>5
  <2> QED BY <2>1, <2>2 DEF Injection, IsInjective
<1>7. IsFiniteSet(places) /\ Cardinality(places) = Cardinality(D)
  BY <1>0, FS_Interval
<1>8. place \in Surjection(D, places)
  <2> HIDE DEF place, places
  <2> QED BY <1>6, <1>7, FS_Injection
<1>9. \A i \in places : \E n \in D : Cardinality(Better(scores, n)) = i
  BY <1>8 DEF Surjection
<1> QED BY <1>3, <1>4, <1>9

\* The ranking lists the candidates, and nobody before who is better.
LEMMA Ranking ==
    ASSUME NEW D \in SUBSET Nat, IsFiniteSet(D), NEW scores \in [D -> Nat]
    PROVE  /\ RankCandidates(scores) \in [1..Cardinality(D) -> D]
           /\ RankCandidates(scores) \in Seq(D)
           /\ Len(RankCandidates(scores)) = Cardinality(D)
           /\ \A i \in 1..Cardinality(D) :
                Cardinality(Better(scores, RankCandidates(scores)[i])) = i - 1
<1> DEFINE r == RankCandidates(scores)
<1>0. Cardinality(D) \in Nat /\ DOMAIN scores = D
  BY FS_CardinalityType
<1>1. \A i \in 1..Cardinality(D) :
          r[i] \in D /\ Cardinality(Better(scores, r[i])) = i - 1
  <2> TAKE i \in 1..Cardinality(D)
  <2>1. \E n \in D : Cardinality(Better(scores, n)) = i - 1
    BY <1>0, PlacesAreTaken
  <2>2. r[i] = CHOOSE n \in D : Cardinality(Better(scores, n)) = i - 1
    BY <1>0 DEF RankCandidates
  <2> QED BY <2>1, <2>2
<1>2. r \in [1..Cardinality(D) -> D]
  BY <1>0, <1>1 DEF RankCandidates
<1> QED BY <1>0, <1>1, <1>2

\* The first has the lowest score.
LEMMA FirstIsBest ==
    ASSUME NEW D \in SUBSET Nat, IsFiniteSet(D), D # {}, NEW scores \in [D -> Nat]
    PROVE  /\ RankCandidates(scores)[1] \in D
           /\ \A n \in D : scores[RankCandidates(scores)[1]] <= scores[n]
<1> DEFINE best == RankCandidates(scores)[1]
<1>1. 1 \in 1..Cardinality(D)
  BY FS_CardinalityType, FS_EmptySet
<1>2. best \in D /\ Cardinality(Better(scores, best)) = 0
  BY <1>1, Ranking
<1>3. Better(scores, best) \in SUBSET D
  BY <1>2 DEF Better
<1>4. Better(scores, best) = {}
  BY <1>2, <1>3, FS_Subset, FS_EmptySet
<1>5. \A n \in D : n \in Nat /\ scores[n] \in Nat
  OBVIOUS
<1>6. \A n \in D : ~(scores[n] < scores[best])
  BY <1>4 DEF Better
<1>7. \A n \in D : scores[best] <= scores[n]
  <2> HIDE DEF best
  <2> QED BY <1>2, <1>5, <1>6
<1> QED BY <1>2, <1>7

----------------------------------------------------------------------------
\* Scores.  A candidate pool: snapshots of some nodes.
Pool == UNION {[D -> Snapshot] : D \in SUBSET Nodes}

LEMMA PoolIsFinite ==
    ASSUME NEW pool \in Pool
    PROVE  /\ DOMAIN pool \in SUBSET Nodes /\ DOMAIN pool \in SUBSET Nat
           /\ IsFiniteSet(DOMAIN pool)
           /\ \A n \in DOMAIN pool : pool[n] \in Snapshot
<1>1. PICK D \in SUBSET Nodes : pool \in [D -> Snapshot]
  BY DEF Pool
<1>2. DOMAIN pool = D
  BY <1>1
<1> QED BY <1>1, <1>2, PlacementAssumption, FS_Subset

\* A normalized metric is a number.
LEMMA NormalizedIsNat ==
    ASSUME NEW D, IsFiniteSet(D), NEW values \in [D -> Nat]
    PROVE  NormalizeMetric(values) \in [D -> Nat]
<1> DEFINE low == Min(Range(values))
           spread == Max(Range(values)) - low
<1>1. Scale \in Nat
  BY PlacementAssumption
<1>2. SUFFICES ASSUME NEW n \in D
               PROVE (IF spread = 0 THEN 0 ELSE (Scale * (values[n] - low)) \div spread) \in Nat
  BY DEF NormalizeMetric
<1>3. Range(values) \in SUBSET Nat /\ values[n] \in Range(values)
  BY DEF Range
<1>4. IsFiniteSet(Range(values))
  <2>1. values \in Surjection(D, Range(values))
    BY DEF Range, Surjection
  <2> QED BY <2>1, FS_Surjection
<1>5. low \in Nat /\ low <= values[n] /\ Max(Range(values)) \in Nat
      /\ values[n] <= Max(Range(values))
  BY <1>3, <1>4, MinIsSmallest, MaxIsLargest
<1>6. spread \in Nat /\ values[n] - low \in Nat
  BY <1>5
<1>7. Scale * (values[n] - low) \in Nat
  BY <1>1, <1>6
<1> HIDE DEF low, spread
<1> QED BY <1>6, <1>7

LEMMA RawIsNat ==
    ASSUME NEW s \in Snapshot, NEW m \in Metrics
    PROVE  Raw(s)[m] \in Nat
<1>1. BandwidthUnit \in Nat
  BY PlacementAssumption
<1>2. s.bandwidth_available_mbps \in Nat \ {0}
  BY DEF Snapshot
<1>3. BandwidthUnit \div s.bandwidth_available_mbps \in Nat
  BY <1>1, <1>2
<1> QED BY <1>3 DEF Raw, Metrics, Snapshot

LEMMA ScoresAreNat ==
    ASSUME NEW pool \in Pool, NEW weights \in SLAWeights
    PROVE  Scores(pool, weights) \in [DOMAIN pool -> Nat]
<1> DEFINE norm == NormalizeCandidates(pool)
<1>1. ASSUME NEW m \in Metrics PROVE norm[m] \in [DOMAIN pool -> Nat]
  <2>1. [n \in DOMAIN pool |-> Raw(pool[n])[m]] \in [DOMAIN pool -> Nat]
    BY PoolIsFinite, RawIsNat
  <2>2. norm[m] = NormalizeMetric([n \in DOMAIN pool |-> Raw(pool[n])[m]])
    BY DEF NormalizeCandidates
  <2> QED BY <2>1, <2>2, PoolIsFinite, NormalizedIsNat
<1>2. \A m \in Metrics : weights[m] \in Nat
  BY DEF SLAWeights
<1>3. ASSUME NEW m \in Metrics, NEW n \in DOMAIN pool
      PROVE  weights[m] * norm[m][n] \in Nat
  <2>1. weights[m] \in Nat /\ norm[m][n] \in Nat
    BY <1>1, <1>2
  <2> HIDE DEF norm
  <2> QED BY <2>1
<1>4. \A n \in DOMAIN pool :
        weights["latency"] * norm["latency"][n] + weights["bandwidth"] * norm["bandwidth"][n]
          + weights["compute"] * norm["compute"][n] + weights["queue"] * norm["queue"][n]
          + weights["cost"] * norm["cost"][n] \in Nat
  <2> HIDE DEF norm
  <2> TAKE n \in DOMAIN pool
  <2>1. {"latency", "bandwidth", "compute", "queue", "cost"} \subseteq Metrics
    BY DEF Metrics
  <2>2. /\ weights["latency"] * norm["latency"][n] \in Nat
        /\ weights["bandwidth"] * norm["bandwidth"][n] \in Nat
        /\ weights["compute"] * norm["compute"][n] \in Nat
        /\ weights["queue"] * norm["queue"][n] \in Nat
        /\ weights["cost"] * norm["cost"][n] \in Nat
    BY <1>3, <2>1
  <2> QED BY <2>2
<1> QED BY <1>4 DEF Scores

----------------------------------------------------------------------------
\* Decisions.
LEMMA FilterLeavesEligible ==
    ASSUME NEW task, NEW pool \in Pool
    PROVE  /\ FilterCandidates(task, pool) \in Pool
           /\ \A n \in DOMAIN FilterCandidates(task, pool) :
                 n \in DOMAIN pool /\ Passes(task, pool[n])
           /\ \A n \in DOMAIN pool :
                 Passes(task, pool[n]) => n \in DOMAIN FilterCandidates(task, pool)
<1> DEFINE left == {n \in DOMAIN pool : Passes(task, pool[n])}
<1>1. FilterCandidates(task, pool) = [n \in left |-> pool[n]]
  BY DEF FilterCandidates, Restrict
<1>2. left \in SUBSET Nodes /\ [n \in left |-> pool[n]] \in [left -> Snapshot]
  BY PoolIsFinite
<1>3. [n \in left |-> pool[n]] \in Pool
  <2> HIDE DEF left
  <2> QED BY <1>2 DEF Pool
<1> QED BY <1>1, <1>3

\* A node that satisfies the constraints of the task by what it reported.
Eligible(task, pool, n) == n \in DOMAIN pool /\ Passes(task, pool[n])

\* What the scores of eligible candidates are, and which of them comes first.
LEMMA BestCandidate ==
    ASSUME NEW task, NEW pool \in Pool, GetSLAWeights(task.sla_class) \in SLAWeights,
           DOMAIN FilterCandidates(task, pool) # {}
    PROVE  LET left == FilterCandidates(task, pool)
               scores == Scores(left, GetSLAWeights(task.sla_class))
               ranked == RankCandidates(scores)
           IN /\ scores \in [DOMAIN left -> Nat]
              /\ ranked \in Seq(DOMAIN left)
              /\ Len(ranked) \in Nat \ {0}
              /\ ranked[1] \in DOMAIN left
              /\ \A n \in DOMAIN left : scores[ranked[1]] <= scores[n]
<1> DEFINE left == FilterCandidates(task, pool)
           scores == Scores(left, GetSLAWeights(task.sla_class))
<1>1. left \in Pool /\ DOMAIN left \in SUBSET Nat /\ IsFiniteSet(DOMAIN left)
  BY FilterLeavesEligible, PoolIsFinite
<1>2. scores \in [DOMAIN left -> Nat]
  BY <1>1, ScoresAreNat
<1>3. Cardinality(DOMAIN left) \in Nat \ {0}
  BY <1>1, FS_CardinalityType, FS_EmptySet
<1> HIDE DEF left, scores
<1>4. /\ RankCandidates(scores) \in Seq(DOMAIN left)
      /\ Len(RankCandidates(scores)) = Cardinality(DOMAIN left)
  BY <1>1, <1>2, Ranking
<1>5. /\ RankCandidates(scores)[1] \in DOMAIN left
      /\ \A n \in DOMAIN left : scores[RankCandidates(scores)[1]] <= scores[n]
  BY <1>1, <1>2, <1>3, FS_EmptySet, FirstIsBest
<1> QED BY <1>2, <1>3, <1>4, <1>5 DEF left, scores

\* A decision is the static policy's, or it names eligible nodes only.
LEMMA DecisionKinds ==
    ASSUME NEW task, NEW pool \in Pool, GetSLAWeights(task.sla_class) \in SLAWeights,
           NEW incumbent
    PROVE  LET d == EvaluatePlacement(task, pool, incumbent)
           IN \/ d = GetStaticFallbackDecision(task)
              \/ /\ d.used_fallback_policy = FALSE
                 /\ d = [chosen_node |-> d.chosen_node, fallback_chain |-> d.fallback_chain,
                         used_fallback_policy |-> FALSE]
                 /\ Eligible(task, pool, d.chosen_node)
                 /\ d.fallback_chain \in FallbackChains
                 /\ \A i \in DOMAIN d.fallback_chain :
                      Eligible(task, pool, d.fallback_chain[i])
<1> DEFINE left == FilterCandidates(task, pool)
           scores == Scores(left, GetSLAWeights(task.sla_class))
           ranked == RankCandidates(scores)
           k == Min({3, Len(ranked)})
<1>0. CASE DOMAIN left = {}
  BY <1>0 DEF EvaluatePlacement
<1>1. CASE DOMAIN left # {}
  <2>1. /\ scores \in [DOMAIN left -> Nat]
        /\ ranked \in Seq(DOMAIN left) /\ Len(ranked) \in Nat \ {0}
        /\ ranked[1] \in DOMAIN left
    BY <1>1, BestCandidate
  <2>2. Chosen(ranked[1], scores, incumbent) \in DOMAIN left
    <3> HIDE DEF left, scores, ranked
    <3> QED BY <2>1 DEF Chosen
  <2>3. \A n \in DOMAIN left : n \in Nodes /\ Eligible(task, pool, n)
    BY FilterLeavesEligible, PoolIsFinite DEF Eligible
  <2>4. k \in 1..3 /\ k <= Len(ranked)
    <3>1. {3, Len(ranked)} \in SUBSET Nat /\ {3, Len(ranked)} # {}
      BY <2>1
    <3>2. k \in {3, Len(ranked)} /\ k <= 3 /\ k <= Len(ranked)
      <4> DEFINE S == {3, Len(ranked)}
      <4>1. Min(S) \in S /\ \A y \in S : Min(S) <= y
        <5> HIDE DEF S
        <5> QED BY <3>1, MinIsSmallest DEF S
      <4> QED BY <4>1
    <3> HIDE DEF ranked, k
    <3> QED BY <2>1, <3>2
  <2>5. /\ SubSeq(ranked, 1, k) \in [1..k -> DOMAIN left]
    <3> HIDE DEF left, scores, ranked, k
    <3>1. \A i \in 1..k : ranked[i] \in DOMAIN left
      BY <2>1, <2>4
    <3>2. SubSeq(ranked, 1, k) = [i \in 1..k |-> ranked[i]]
      BY <2>1, <2>4
    <3> QED BY <3>1, <3>2
  <2>6. SubSeq(ranked, 1, k) \in FallbackChains
    <3>1. SubSeq(ranked, 1, k) \in [1..k -> Nodes]
      <4> HIDE DEF left, ranked, k
      <4> QED BY <2>3, <2>5
    <3> HIDE DEF ranked, k
    <3> QED BY <2>4, <3>1 DEF FallbackChains
  <2>7. \A i \in DOMAIN SubSeq(ranked, 1, k) : Eligible(task, pool, SubSeq(ranked, 1, k)[i])
    <3> HIDE DEF left, ranked, k
    <3> QED BY <2>3, <2>5
  <2>8. EvaluatePlacement(task, pool, incumbent)
          = [chosen_node |-> Chosen(ranked[1], scores, incumbent),
             fallback_chain |-> SubSeq(ranked, 1, k), used_fallback_policy |-> FALSE]
    BY <1>1 DEF EvaluatePlacement
  <2> DEFINE c == Chosen(ranked[1], scores, incumbent)
             chain == SubSeq(ranked, 1, k)
  <2>9. /\ EvaluatePlacement(task, pool, incumbent)
              = [chosen_node |-> c, fallback_chain |-> chain, used_fallback_policy |-> FALSE]
        /\ Eligible(task, pool, c) /\ chain \in FallbackChains
        /\ \A i \in DOMAIN chain : Eligible(task, pool, chain[i])
    BY <2>2, <2>3, <2>6, <2>7, <2>8
  <2> HIDE DEF c, chain
  <2> QED BY <2>9
<1> QED BY <1>0, <1>1

\* With any incumbent, the hysteresis does what it is for.
LEMMA Hysteresis ==
    ASSUME NEW task, NEW pool \in Pool, GetSLAWeights(task.sla_class) \in SLAWeights,
           NEW incumbent
    PROVE  IncumbentKept(task, pool, incumbent)
<1> DEFINE left == FilterCandidates(task, pool)
           scores == Scores(left, GetSLAWeights(task.sla_class))
           best == RankCandidates(scores)[1]
           c == Chosen(best, scores, incumbent)
           margin == 100 - challenger_margin
<1>0. CASE DOMAIN left = {}
  <2>1. EvaluatePlacement(task, pool, incumbent).used_fallback_policy
    BY <1>0 DEF EvaluatePlacement, GetStaticFallbackDecision
  <2> QED BY <2>1 DEF IncumbentKept
<1>1. CASE DOMAIN left # {}
  <2>1. /\ DOMAIN scores = DOMAIN left
        /\ best \in DOMAIN scores
        /\ \A n \in DOMAIN scores : scores[n] \in Nat /\ scores[best] <= scores[n]
    BY <1>1, BestCandidate
  <2>2. \A n \in DOMAIN scores : n \in DOMAIN pool /\ Passes(task, pool[n])
    BY <2>1, FilterLeavesEligible
  <2>3. margin \in 0..99
    BY PlacementAssumption
  <2>4. EvaluatePlacement(task, pool, incumbent).chosen_node = c
    BY <1>1 DEF EvaluatePlacement
  <2> HIDE DEF scores, best, margin
  <2>5. c \in DOMAIN scores
    BY <2>1 DEF Chosen
  <2>6. \A s \in Nat : margin * s <= 100 * s /\ (100 * s <= margin * s => s = 0)
    BY <2>3
  <2>7. \A s, t \in Nat : s <= t => margin * s <= margin * t
    BY <2>3
  <2>8. ASSUME NEW n \in DOMAIN scores, n # c
        PROVE  100 * scores[n] >= margin * scores[c]
    <3>1. /\ scores[n] \in Nat /\ scores[best] \in Nat /\ scores[best] <= scores[n]
          /\ scores[c] \in Nat /\ margin * scores[c] \in Nat
      BY <2>1, <2>3, <2>5
    <3>2. CASE c = best
      <4>1. margin * scores[c] <= margin * scores[n] /\ margin * scores[n] <= 100 * scores[n]
        BY <2>6, <2>7, <3>1, <3>2
      <4>2. margin * scores[n] \in Nat
        BY <2>3, <3>1
      <4> QED BY <3>1, <4>1, <4>2
    <3>3. CASE c # best
      <4>1. 100 * scores[best] > margin * scores[c]
        BY <3>3 DEF Chosen, margin
      <4> QED BY <3>1, <4>1
    <3> QED BY <3>2, <3>3
  <2>9. ASSUME incumbent \in DOMAIN scores, incumbent # c
        PROVE  /\ 100 * scores[c] <= margin * scores[incumbent]
               /\ scores[c] < scores[incumbent] \/ (scores[c] = 0 /\ scores[incumbent] = 0)
    <3>1. c = best /\ ~(100 * scores[best] > margin * scores[incumbent])
      BY <2>9 DEF Chosen, margin
    <3>2. /\ scores[c] \in Nat /\ scores[incumbent] \in Nat /\ scores[c] <= scores[incumbent]
          /\ margin * scores[incumbent] \in Nat
      BY <2>1, <2>3, <2>9, <3>1
    <3>3. 100 * scores[c] <= margin * scores[incumbent]
      BY <3>1, <3>2
    <3>4. scores[c] = scores[incumbent] => scores[c] = 0
      BY <2>6, <3>2, <3>3
    <3> QED BY <3>2, <3>3, <3>4
  <2> HIDE DEF c
  <2>10. /\ c \in DOMAIN pool /\ Passes(task, pool[c])
         /\ \A n \in DOMAIN scores : n = c \/ 100 * scores[n] >= margin * scores[c]
         /\ incumbent \in DOMAIN scores \ {c} =>
              \/ scores[c] < scores[incumbent]
                   /\ 100 * scores[c] <= margin * scores[incumbent]
              \/ scores[c] = 0 /\ scores[incumbent] = 0
    BY <2>2, <2>5, <2>8, <2>9
  <2> QED BY <2>4, <2>10 DEF IncumbentKept, scores, margin
<1> QED BY <1>0, <1>1

----------------------------------------------------------------------------
\* Types.
LEMMA StaticDecision ==
    ASSUME NEW task
    PROVE  /\ StaticChain(task) \in FallbackChains /\ StaticChain(task) \in Seq(Nodes)
           /\ GetStaticFallbackDecision(task) \in PlacementDecision
           /\ GetStaticFallbackDecision(task).used_fallback_policy
           /\ GetStaticFallbackDecision(task).fallback_chain = StaticChain(task)
           /\ GetStaticFallbackDecision(task).chosen_node \in
                Range(StaticChain(task)) \cup {CloudDefault}
<1> DEFINE chain == StaticChain(task)
<1>1. chain \in FallbackChains /\ chain \in Seq(Nodes)
  BY PlacementAssumption DEF StaticChain, FallbackChains, Range
<1>2. chain # <<>> => chain[1] \in Nodes /\ chain[1] \in Range(chain)
  <2> HIDE DEF chain
  <2> QED BY <1>1 DEF Range
<1> HIDE DEF chain
<1>3. GetStaticFallbackDecision(task)
        = [chosen_node |-> IF chain = <<>> THEN CloudDefault ELSE chain[1],
           fallback_chain |-> chain, used_fallback_policy |-> TRUE]
  BY DEF GetStaticFallbackDecision, chain
<1>4. GetStaticFallbackDecision(task) \in PlacementDecision
  BY <1>1, <1>2, <1>3 DEF PlacementDecision
<1> QED BY <1>1, <1>2, <1>3, <1>4 DEF chain

LEMMA DecisionIsTyped ==
    ASSUME NEW task, NEW pool \in Pool, GetSLAWeights(task.sla_class) \in SLAWeights,
           NEW incumbent
    PROVE  EvaluatePlacement(task, pool, incumbent) \in PlacementDecision
<1> DEFINE d == EvaluatePlacement(task, pool, incumbent)
<1>1. CASE d = GetStaticFallbackDecision(task)
  BY <1>1, StaticDecision
<1>2. CASE /\ d = [chosen_node |-> d.chosen_node, fallback_chain |-> d.fallback_chain,
                   used_fallback_policy |-> FALSE]
           /\ Eligible(task, pool, d.chosen_node)
           /\ d.fallback_chain \in FallbackChains
  <2>1. d.chosen_node \in Nodes
    BY <1>2, PoolIsFinite DEF Eligible
  <2> DEFINE c == d.chosen_node
             chain == d.fallback_chain
  <2>2. /\ c \in Nodes /\ chain \in FallbackChains
        /\ d = [chosen_node |-> c, fallback_chain |-> chain, used_fallback_policy |-> FALSE]
    BY <1>2, <2>1
  <2> HIDE DEF d, c, chain
  <2>3. d \in PlacementDecision
    BY <2>2 DEF PlacementDecision
  <2> QED BY <2>3 DEF d
<1> QED BY <1>1, <1>2, DecisionKinds

LEMMA StoredIsPool == PlacementTypeOK => snapshots \in Pool
BY DEF PlacementTypeOK, Pool

LEMMA WeightsAreTyped ==
    ASSUME PlacementTypeOK, NEW c \in SLAClasses
    PROVE  GetSLAWeights(c) \in SLAWeights
BY PlacementAssumption DEF PlacementTypeOK, GetSLAWeights

LEMMA PlacementInitTyped == PlacementInit => PlacementTypeOK
BY DEF PlacementInit, PlacementTypeOK

LEMMA StreamedIsSnapshot ==
    ASSUME NEW s \in Snapshot
    PROVE  /\ Streamed(s) \in Snapshot
           /\ Streamed(s).data_residency_zones = s.data_residency_zones
           /\ Streamed(s).assurance_level = "standard"
BY DEF Streamed, Snapshot

LEMMA RecordKeepsTypes ==
    ASSUME PlacementTypeOK, NEW n \in Nodes, NEW s \in Snapshot, RecordSnapshot(n, s)
    PROVE  PlacementTypeOK'
BY DEF PlacementTypeOK, RecordSnapshot

LEMMA UpdateKeepsTypes ==
    ASSUME PlacementTypeOK, NEW c \in SLAClasses, NEW w \in SLAWeights, UpdateSLAProfiles(c, w)
    PROVE  PlacementTypeOK'
BY DEF PlacementTypeOK, UpdateSLAProfiles

LEMMA LoseKeepsTypes ==
    ASSUME PlacementTypeOK, LoseEngine
    PROVE  PlacementTypeOK'
BY DEF PlacementTypeOK, LoseEngine

----------------------------------------------------------------------------
(* Merit: who is better measured is better placed.                          *)

\* Quotients by the same number keep the order, and tell apart what is further apart
\* than that number.
LEMMA QuotientsOrdered ==
    ASSUME NEW a \in Nat, NEW b \in Nat, NEW k \in Nat \ {0}, a <= b
    PROVE  /\ a \div k \in Nat /\ b \div k \in Nat /\ a \div k <= b \div k
           /\ a + k <= b => a \div k < b \div k
<1> DEFINE p == a \div k
           q == b \div k
<1>1. p \in Nat /\ q \in Nat
  OBVIOUS
<1>2. k * p <= a /\ a < k * p + k /\ k * q <= b /\ b < k * q + k
  OBVIOUS
<1> HIDE DEF p, q
<1>3. \A x, y \in Nat : x <= y => k * x <= k * y
  OBVIOUS
<1>4. k * (q + 1) = k * q + k /\ k * p \in Nat /\ k * q \in Nat
  BY <1>1
<1>5. p <= q
  <2> SUFFICES ASSUME q + 1 <= p PROVE FALSE
    BY <1>1
  <2>1. k * (q + 1) <= k * p
    BY <1>1, <1>3
  <2> QED BY <1>2, <1>4, <2>1
<1>6. ASSUME a + k <= b PROVE p < q
  <2> SUFFICES ASSUME q <= p PROVE FALSE
    BY <1>1
  <2>1. k * q <= k * p
    BY <1>1, <1>3
  <2> QED BY <1>2, <1>4, <1>6, <2>1
<1> QED BY <1>1, <1>5, <1>6 DEF p, q

\* The inverses of two numbers are in the opposite order.
LEMMA InversesOrdered ==
    ASSUME NEW a \in Nat, NEW b \in Nat \ {0}, NEW c \in Nat \ {0}, b <= c
    PROVE  a \div c <= a \div b
<1> DEFINE p == a \div c
           q == a \div b
<1>1. p \in Nat /\ q \in Nat
  OBVIOUS
<1>2. c * p <= a /\ b * q <= a /\ a < b * q + b
  OBVIOUS
<1> HIDE DEF p, q
<1>3. b * (q + 1) = b * q + b /\ b * q \in Nat /\ b * p \in Nat /\ c * p \in Nat
  BY <1>1
<1>4. \A x, y \in Nat : x <= y => b * x <= b * y
  OBVIOUS
<1>5. b * p <= c * p
  BY <1>1
<1>6. p <= q
  <2> SUFFICES ASSUME q + 1 <= p PROVE FALSE
    BY <1>1
  <2>1. b * (q + 1) <= b * p
    BY <1>1, <1>4
  <2>2. b * (q + 1) \in Nat
    BY <1>1
  <2> QED BY <1>2, <1>3, <1>5, <2>1, <2>2
<1> QED BY <1>6 DEF p, q

\* The share of an offset in a spread that the scale resolves.
LEMMA SharesOrdered ==
    ASSUME NEW x \in Nat, NEW y \in Nat, x <= y, NEW k \in Nat \ {0}
    PROVE  /\ (Scale * x) \div k <= (Scale * y) \div k
           /\ x < y /\ k <= Scale => (Scale * x) \div k < (Scale * y) \div k
<1>1. Scale \in Nat
  BY PlacementAssumption
<1>2. PICK a \in Nat, b \in Nat : a = Scale * x /\ b = Scale * y
  BY <1>1
<1>3. a <= b
  BY <1>1, <1>2
<1>4. x < y => a + Scale <= b
  <2> SUFFICES ASSUME x < y PROVE a + Scale <= b
    OBVIOUS
  <2>1. Scale * (x + 1) = Scale * x + Scale
    BY <1>1
  <2>2. \A u, v \in Nat : u <= v => Scale * u <= Scale * v
    BY <1>1
  <2> QED BY <1>2, <2>1, <2>2
<1>5. x < y /\ k <= Scale => a + k <= b
  BY <1>1, <1>4
<1> QED BY <1>2, <1>3, <1>5, QuotientsOrdered

\* Normalizing keeps the order of a metric.
LEMMA NormalizedOrdered ==
    ASSUME NEW D, IsFiniteSet(D), NEW values \in [D -> Nat], NEW n \in D, NEW c \in D,
           values[n] <= values[c]
    PROVE  /\ NormalizeMetric(values)[n] <= NormalizeMetric(values)[c]
           /\ values[n] < values[c] /\ (\A x, y \in D : values[x] - values[y] <= Scale)
                => NormalizeMetric(values)[n] < NormalizeMetric(values)[c]
<1> DEFINE low == Min(Range(values))
           high == Max(Range(values))
           spread == high - low
<1>1. \A d \in D : NormalizeMetric(values)[d]
        = IF spread = 0 THEN 0 ELSE (Scale * (values[d] - low)) \div spread
  BY DEF NormalizeMetric
<1>2. Range(values) \in SUBSET Nat /\ \A d \in D : values[d] \in Range(values)
  BY DEF Range
<1>3. IsFiniteSet(Range(values))
  <2>1. values \in Surjection(D, Range(values))
    BY DEF Range, Surjection
  <2> QED BY <2>1, FS_Surjection
<1>4. /\ low \in Range(values) /\ high \in Range(values)
      /\ \A d \in D : low <= values[d] /\ values[d] <= high
  BY <1>2, <1>3, MinIsSmallest, MaxIsLargest
<1>5. low \in Nat /\ high \in Nat /\ spread \in Nat
  BY <1>2, <1>4
<1>6. ASSUME \A x, y \in D : values[x] - values[y] <= Scale
      PROVE  spread <= Scale
  <2>1. PICK x \in D, y \in D : high = values[x] /\ low = values[y]
    BY <1>4 DEF Range
  <2> QED BY <1>6, <2>1
<1> HIDE DEF low, high, spread
<1>7. PICK x \in Nat, y \in Nat : x = values[n] - low /\ y = values[c] - low
  BY <1>4, <1>5
<1>8. x <= y /\ (values[n] < values[c] => x < y)
  BY <1>5, <1>7
<1>9. CASE spread = 0
  <2>1. values[n] = low /\ values[c] = low
    BY <1>4, <1>5, <1>9 DEF spread
  <2> QED BY <1>1, <1>9, <2>1
<1>10. CASE spread # 0
  <2>1. /\ NormalizeMetric(values)[n] = (Scale * x) \div spread
        /\ NormalizeMetric(values)[c] = (Scale * y) \div spread
    BY <1>1, <1>7, <1>10
  <2> QED BY <1>5, <1>6, <1>8, <1>10, <2>1, SharesOrdered
<1> QED BY <1>9, <1>10

\* A node that dominates another is at least as good on every raw metric, and better
\* on one with a weight.
LEMMA RawDominates ==
    ASSUME NEW s \in Snapshot, NEW t \in Snapshot, NEW weights \in SLAWeights,
           Dominates(s, t, weights), Resolved(s, t)
    PROVE  /\ \A m \in Metrics : Raw(s)[m] <= Raw(t)[m]
           /\ \E m \in Metrics : weights[m] > 0 /\ Raw(s)[m] < Raw(t)[m]
<1>1. /\ BandwidthUnit \in Nat
      /\ s.bandwidth_available_mbps \in Nat \ {0} /\ t.bandwidth_available_mbps \in Nat \ {0}
  BY PlacementAssumption DEF Snapshot
<1>2. t.bandwidth_available_mbps <= s.bandwidth_available_mbps
  BY <1>1 DEF Dominates
<1>3. BandwidthUnit \div s.bandwidth_available_mbps
        <= BandwidthUnit \div t.bandwidth_available_mbps
  BY <1>1, <1>2, InversesOrdered
<1>4. \A m \in Metrics : Raw(s)[m] <= Raw(t)[m]
  BY <1>3 DEF Metrics, Raw, Dominates
<1>5. \E m \in Metrics : weights[m] > 0 /\ Raw(s)[m] < Raw(t)[m]
  <2>1. CASE weights["latency"] > 0 /\ s.rtt_ms < t.rtt_ms
    BY <2>1 DEF Metrics, Raw
  <2>2. CASE weights["bandwidth"] > 0
             /\ s.bandwidth_available_mbps > t.bandwidth_available_mbps
    BY <2>2 DEF Metrics, Raw, Resolved
  <2>3. CASE weights["compute"] > 0 /\ s.compute_utilization < t.compute_utilization
    BY <2>3 DEF Metrics, Raw
  <2>4. CASE weights["queue"] > 0 /\ s.queue_depth < t.queue_depth
    BY <2>4 DEF Metrics, Raw
  <2>5. CASE weights["cost"] > 0
             /\ s.cost_per_1k_inferences_usd < t.cost_per_1k_inferences_usd
    BY <2>5 DEF Metrics, Raw
  <2> QED BY <2>1, <2>2, <2>3, <2>4, <2>5 DEF Dominates
<1> QED BY <1>4, <1>5

\* Weighting keeps the order.
LEMMA WeightingOrdered ==
    ASSUME NEW w \in 0..100, NEW x \in Nat, NEW y \in Nat, x <= y
    PROVE  /\ w * x \in Nat /\ w * y \in Nat /\ w * x <= w * y
           /\ w > 0 /\ x < y => w * x < w * y
<1>1. w * x \in Nat /\ w * y \in Nat /\ w * x <= w * y
  OBVIOUS
<1>2. ASSUME w > 0, x < y PROVE w * x < w * y
  <2>1. w * (x + 1) = w * x + w
    OBVIOUS
  <2>2. w * (x + 1) <= w * y
    BY <1>2
  <2> QED BY <1>1, <1>2, <2>1, <2>2
<1> QED BY <1>1, <1>2

\* A node that dominates another has the lower score.
LEMMA DominatorScoresLower ==
    ASSUME NEW pool \in Pool, NEW weights \in SLAWeights,
           NEW n \in DOMAIN pool, NEW c \in DOMAIN pool,
           Dominates(pool[n], pool[c], weights),
           \A x, y \in DOMAIN pool : Resolved(pool[x], pool[y])
    PROVE  Scores(pool, weights)[n] < Scores(pool, weights)[c]
<1> DEFINE D == DOMAIN pool
           norm == NormalizeCandidates(pool)
           raw(m) == [d \in D |-> Raw(pool[d])[m]]
<1>1. /\ IsFiniteSet(D) /\ \A d \in D : pool[d] \in Snapshot
      /\ \A m \in Metrics : weights[m] \in 0..100
  BY PoolIsFinite DEF SLAWeights
<1>2. /\ \A m \in Metrics : Raw(pool[n])[m] <= Raw(pool[c])[m]
      /\ \E m \in Metrics : weights[m] > 0 /\ Raw(pool[n])[m] < Raw(pool[c])[m]
  BY <1>1, RawDominates
<1>3. ASSUME NEW m \in Metrics
      PROVE  /\ norm[m][n] \in Nat /\ norm[m][c] \in Nat /\ norm[m][n] <= norm[m][c]
             /\ Raw(pool[n])[m] < Raw(pool[c])[m] => norm[m][n] < norm[m][c]
  <2>1. PICK values \in [D -> Nat] : values = raw(m)
    BY <1>1, RawIsNat
  <2>2. norm[m] = NormalizeMetric(values)
    BY <2>1 DEF NormalizeCandidates
  <2>3. /\ values[n] = Raw(pool[n])[m] /\ values[c] = Raw(pool[c])[m]
        /\ \A x, y \in D : values[x] - values[y] <= Scale
    <3>1. \A x \in D : values[x] = Raw(pool[x])[m]
      BY <2>1
    <3>2. \A x, y \in D : Raw(pool[x])[m] - Raw(pool[y])[m] <= Scale
      BY <1>1 DEF Metrics, Raw, Resolved
    <3> QED BY <3>1, <3>2
  <2>4. values[n] <= values[c]
    BY <1>2, <2>3
  <2>5. NormalizeMetric(values) \in [D -> Nat]
    BY <1>1, NormalizedIsNat
  <2> HIDE DEF norm
  <2> QED BY <1>1, <2>2, <2>3, <2>4, <2>5, NormalizedOrdered
<1> DEFINE term(m, d) == weights[m] * norm[m][d]
<1>4. ASSUME NEW m \in Metrics
      PROVE  /\ term(m, n) \in Nat /\ term(m, c) \in Nat /\ term(m, n) <= term(m, c)
             /\ weights[m] > 0 /\ Raw(pool[n])[m] < Raw(pool[c])[m] => term(m, n) < term(m, c)
  <2> HIDE DEF norm
  <2> QED BY <1>1, <1>3, WeightingOrdered
<1>5. \A d \in D : Scores(pool, weights)[d]
        = term("latency", d) + term("bandwidth", d) + term("compute", d)
            + term("queue", d) + term("cost", d)
  BY DEF Scores
<1>6. \E m \in Metrics : term(m, n) < term(m, c)
  BY <1>2, <1>4
<1>7. Metrics = {"latency", "bandwidth", "compute", "queue", "cost"}
  BY DEF Metrics
<1> HIDE DEF term
<1> QED BY <1>4, <1>5, <1>6, <1>7

\* The chain of a decision is ranked by merit.
LEMMA RankingByMerit ==
    ASSUME NEW task, NEW pool \in Pool, GetSLAWeights(task.sla_class) \in SLAWeights,
           \A x, y \in DOMAIN pool : Resolved(pool[x], pool[y])
    PROVE  RankedByMerit(task, pool)
<1> DEFINE weights == GetSLAWeights(task.sla_class)
           left == FilterCandidates(task, pool)
           scores == Scores(left, weights)
           ranked == RankCandidates(scores)
           k == Min({3, Len(ranked)})
           d == EvaluatePlacement(task, pool, None)
<1>0. CASE DOMAIN left = {}
  <2>1. d.used_fallback_policy
    BY <1>0 DEF EvaluatePlacement, GetStaticFallbackDecision
  <2> QED BY <2>1 DEF RankedByMerit
<1>1. CASE DOMAIN left # {}
  <2>1. /\ left \in Pool /\ DOMAIN left \in SUBSET Nat /\ IsFiniteSet(DOMAIN left)
        /\ DOMAIN left \subseteq DOMAIN pool
        /\ \A n \in DOMAIN pool : Passes(task, pool[n]) => n \in DOMAIN left
        /\ \A n \in DOMAIN left : left[n] = pool[n]
    BY FilterLeavesEligible, PoolIsFinite DEF FilterCandidates, Restrict
  <2>2. scores \in [DOMAIN left -> Nat] /\ DOMAIN scores = DOMAIN left
    BY <2>1, ScoresAreNat
  <2>3. d.fallback_chain = SubSeq(ranked, 1, k)
    BY <1>1 DEF EvaluatePlacement
  <2>4. ASSUME NEW n \in DOMAIN left, NEW c \in DOMAIN left,
               Dominates(pool[n], pool[c], weights)
        PROVE  n \in Better(scores, c)
    <3>1. scores[n] < scores[c]
      <4>1. \A x, y \in DOMAIN left : Resolved(left[x], left[y])
        BY <2>1
      <4>2. Dominates(left[n], left[c], weights)
        BY <2>1, <2>4
      <4> HIDE DEF left
      <4> QED BY <2>1, <4>1, <4>2, DominatorScoresLower
    <3> QED BY <2>2, <3>1 DEF Better
  <2> HIDE DEF left, scores
  <2>5. /\ ranked \in Seq(DOMAIN left) /\ Len(ranked) = Cardinality(DOMAIN left)
        /\ Len(ranked) \in Nat \ {0}
        /\ \A i \in 1..Len(ranked) :
             ranked[i] \in DOMAIN left /\ Cardinality(Better(scores, ranked[i])) = i - 1
    BY <1>1, <2>1, <2>2, Ranking, FS_CardinalityType, FS_EmptySet
  <2>6. k \in Nat /\ k <= Len(ranked)
    <3> DEFINE S == {3, Len(ranked)}
    <3>1. S \in SUBSET Nat /\ S # {}
      BY <2>5
    <3>2. k = Min(S) /\ Len(ranked) \in S
      OBVIOUS
    <3> HIDE DEF S, k
    <3> QED BY <3>1, <3>2, MinIsSmallest
  <2> HIDE DEF ranked, k, d
  <2>7. /\ Len(SubSeq(ranked, 1, k)) = k
        /\ \A i \in 1..k : SubSeq(ranked, 1, k)[i] = ranked[i]
    BY <2>5, <2>6
  <2>8. ASSUME NEW i \in 1..k, NEW n \in DOMAIN pool, Passes(task, pool[n]),
               \A j \in 1..i : ranked[j] # n, Dominates(pool[n], pool[ranked[i]], weights)
        PROVE  FALSE
    <3>1. n \in DOMAIN left /\ ranked[i] \in DOMAIN left
      BY <2>1, <2>5, <2>6, <2>8
    <3>2. n \in Better(scores, ranked[i])
      BY <2>4, <2>8, <3>1
    <3>3. PICK p \in Nat : p = Cardinality(Better(scores, n)) /\ p < i - 1
      <4>1. Cardinality(Better(scores, n)) \in 0..(Cardinality(DOMAIN left) - 1)
        BY <2>1, <2>2, <3>1, PlacesAreTaken
      <4>2. Cardinality(Better(scores, n)) < Cardinality(Better(scores, ranked[i]))
        BY <2>1, <2>2, <3>1, <3>2, PlacesAreTaken
      <4>3. Cardinality(Better(scores, ranked[i])) = i - 1
        BY <2>5, <2>6
      <4> QED BY <2>5, <4>1, <4>2, <4>3
    <3>4. /\ p + 1 \in 1..i /\ p + 1 \in 1..Len(ranked) /\ ranked[p + 1] \in DOMAIN left
          /\ Cardinality(Better(scores, ranked[p + 1])) = p
      BY <2>5, <2>6, <3>3
    <3>5. ranked[p + 1] # n
      BY <2>8, <3>4
    <3>6. n \in Better(scores, ranked[p + 1]) \/ ranked[p + 1] \in Better(scores, n)
      <4>1. /\ ranked[p + 1] \in Nat /\ n \in Nat
            /\ scores[n] \in Nat /\ scores[ranked[p + 1]] \in Nat
        BY <2>1, <2>2, <3>1, <3>4
      <4> QED BY <2>2, <3>1, <3>4, <3>5, <4>1 DEF Better
    <3>7. Cardinality(Better(scores, n)) # Cardinality(Better(scores, ranked[p + 1]))
      <4>1. \A x, y \in DOMAIN left : x \in Better(scores, y) =>
              Cardinality(Better(scores, x)) < Cardinality(Better(scores, y))
        BY <2>1, <2>2, PlacesAreTaken
      <4> QED BY <3>1, <3>3, <3>4, <3>6, <4>1
    <3> QED BY <3>3, <3>4, <3>7
  <2>9. \A i \in 1..k, n \in DOMAIN pool :
          Passes(task, pool[n]) /\ (\A j \in 1..i : d.fallback_chain[j] # n)
            => ~Dominates(pool[n], pool[d.fallback_chain[i]], weights)
    <3> SUFFICES ASSUME NEW i \in 1..k, NEW n \in DOMAIN pool, Passes(task, pool[n]),
                        \A j \in 1..i : d.fallback_chain[j] # n,
                        Dominates(pool[n], pool[d.fallback_chain[i]], weights)
                 PROVE  FALSE
      OBVIOUS
    <3>1. \A j \in 1..i : j \in 1..k
      BY <2>6
    <3>2. i \in 1..i
      BY <2>6
    <3>3. \A j \in 1..i : d.fallback_chain[j] = ranked[j]
      BY <2>3, <2>7, <3>1
    <3>4. \A j \in 1..i : ranked[j] # n
      BY <3>3
    <3>5. Dominates(pool[n], pool[ranked[i]], weights)
      BY <3>2, <3>3
    <3> QED BY <2>8, <3>4, <3>5
  <2>10. Len(d.fallback_chain) = k
    BY <2>3, <2>7
  <2> QED BY <2>9, <2>10, Zenon DEF RankedByMerit, d, weights
<1> QED BY <1>0, <1>1
=============================================================================
