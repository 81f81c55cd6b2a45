--------------------------- MODULE GatewayProofs ---------------------------
(***************************************************************************)
(* Proofs about Gateway, for any nodes, reports, weights, policies and     *)
(* requests.                                                               *)
(*                                                                         *)
(* The invariant GatewayInv says of each request what its program counter  *)
(* presupposes, of its decision whom it may name, and of each event in the *)
(* audit trail how it agrees with the request it belongs to.               *)
(***************************************************************************)
EXTENDS Gateway, PlacementProofs

\* What the snapshots say of a node is what the node may report.
Honest ==
    \A n \in DOMAIN snapshots :
        /\ snapshots[n].data_residency_zones = NodeZones[n]
        /\ snapshots[n].assurance_level = "high_assurance" => n \in AssuredNodes

\* The node is in the zone of the task and may claim its level.
Admissible(task, n) ==
    /\ n \in Nodes
    /\ task.data_residency = None \/ task.data_residency \in NodeZones[n]
    /\ task.required_assurance_level = "high_assurance" => n \in AssuredNodes

DecisionOK(task, d) ==
    \/ d = GetStaticFallbackDecision(task)
    \/ \A n \in {d.chosen_node} \cup Range(d.fallback_chain) : Admissible(task, n)

\* Before a decision is acted on; a request that ends there has run nowhere.
Undispatched == {"new", "received", "no_telemetry", "shadowing", "shadow_unaudited",
                 "routed", "refused"}
Unrouted == {"new", "received", "no_telemetry", "shadowing", "shadow_unaudited"}

RequestOK(q) ==
    LET chain == Chain(q.decision) IN
    /\ q.pc # "new" => q.task \in Tasks
    /\ q.pc \in Undispatched => q.attempts = 0 /\ q.ran_on = {}
    /\ q.pc \in {"shadowing", "routed", "trying", "executed", "recorded"} \/ q.ran_on # {}
         => DecisionOK(q.task, q.decision)
    /\ q.pc = "shadowing" => q.decision = GetStaticFallbackDecision(q.task)
    /\ q.attempts <= Len(chain)
    /\ q.ran_on \subseteq Range(chain) \cap Nodes
    /\ q.pc \in {"executed", "recorded", "answered", "exhausted", "failed", "unaudited"}
         => q.attempts > 0
    /\ q.pc = "executed" => chain[q.attempts] \in q.ran_on

EventFits(e, q) ==
    IF e.is_shadow_mode
      THEN /\ q.pc \notin Unrouted
           /\ q.decision = GetStaticFallbackDecision(q.task)
      ELSE /\ q.pc \in {"recorded", "answered", "dead"}
           /\ e.decision = q.decision
           /\ e.attempts = q.attempts
           /\ e.node_id \in q.ran_on
           /\ e.node_id = Chain(q.decision)[q.attempts]

EventsFit == \A i \in DOMAIN events : EventFits(events[i], req[events[i].task_id])

\* A request has at most one event of each kind, the shadow's first.
EventsOnce ==
    \A i, j \in DOMAIN events :
        events[i].task_id = events[j].task_id =>
            /\ events[i].is_shadow_mode = events[j].is_shadow_mode => i = j
            /\ events[i].is_shadow_mode /\ ~events[j].is_shadow_mode => i < j

Recorded ==
    \A r \in Requests : req[r].pc \in {"recorded", "answered"} =>
        \E i \in DOMAIN events : events[i].task_id = r /\ ~events[i].is_shadow_mode

RequestsOK == \A r \in Requests : RequestOK(req[r])

\* What is said of requests and events alone.
TrailInv ==
    /\ req \in [Requests -> RequestType]
    /\ events \in Seq(EventType)
    /\ RequestsOK
    /\ EventsFit
    /\ EventsOnce
    /\ Recorded

GatewayInv ==
    /\ GatewayTypeOK
    /\ Honest
    /\ TrailInv

----------------------------------------------------------------------------
(* Chains.                                                                 *)

\* A decision's fallback chain is a sequence of nodes.
LEMMA FallbackChainsAreSequences ==
    ASSUME NEW d \in PlacementDecision
    PROVE  d.fallback_chain \in Seq(Nodes)
<1>1. d.fallback_chain \in FallbackChains
  BY DEF PlacementDecision
<1>2. CASE d.fallback_chain \in {default_fallback_chain} \cup Range(residency_overrides)
  BY <1>2, PlacementAssumption DEF Range
<1>3. ASSUME NEW k \in 0..3, d.fallback_chain \in [1..k -> Nodes]
      PROVE  d.fallback_chain \in Seq(Nodes)
  BY <1>3
<1> QED BY <1>1, <1>2, <1>3 DEF FallbackChains

\* A sequence of candidates that the decision names.
Named(d, q) ==
    /\ q \in Seq(Nodes \cup {CloudDefault})
    /\ q # <<>>
    /\ Range(q) \subseteq {d.chosen_node} \cup Range(d.fallback_chain)

LEMMA ExtendedIsNamed ==
    ASSUME NEW d, NEW q, Named(d, q), NEW n \in Nodes, n \in Range(d.fallback_chain)
    PROVE  Named(d, Extended(q, n))
<1>1. CASE n \in Range(q)
  BY <1>1 DEF Extended
<1>2. CASE n \notin Range(q)
  <2>1. PICK w : w = Append(q, n)
    OBVIOUS
  <2>2. q \in Seq(Nodes \cup {CloudDefault})
    BY DEF Named
  <2>3. /\ w \in Seq(Nodes \cup {CloudDefault}) /\ w # <<>>
        /\ \A i \in DOMAIN w : w[i] = n \/ (i \in DOMAIN q /\ w[i] = q[i])
    BY <2>1, <2>2
  <2>4. Range(w) \subseteq {n} \cup Range(q)
    BY <2>3 DEF Range
  <2>5. Named(d, w)
    BY <2>3, <2>4 DEF Named
  <2> QED BY <1>2, <2>1, <2>5 DEF Extended
<1> QED BY <1>1, <1>2

\* The loop that builds the chain comes to the end of any fallback chain.
LEMMA ChainIsNamed ==
    ASSUME NEW d \in PlacementDecision
    PROVE  Named(d, Chain(d))
<1> DEFINE f == d.fallback_chain
           Builds(g, k) == g = [i \in 0..k |-> IF i = 0 THEN <<d.chosen_node>>
                                             ELSE Extended(g[i - 1], f[i])]
           chain == CHOOSE g : Builds(g, Len(f))
<1>1. /\ d.chosen_node \in Nodes \cup {CloudDefault} /\ f \in Seq(Nodes) /\ Len(f) \in Nat
  BY FallbackChainsAreSequences DEF PlacementDecision
<1> HIDE DEF f
<1>2. \A k \in Nat : \E g : Builds(g, k)
  <2> DEFINE Stuck == {k \in Nat : ~\E g : Builds(g, k)}
  <2> SUFFICES ASSUME Stuck # {} PROVE FALSE
    OBVIOUS
  <2>1. PICK k \in Nat : k \in Stuck /\ \A j \in Stuck : k <= j
    <3>1. Stuck \in SUBSET Nat
      OBVIOUS
    <3> HIDE DEF Stuck
    <3> QED BY <3>1, Smallest
  <2>2. CASE k = 0
    <3>1. Builds([i \in 0..0 |-> <<d.chosen_node>>], 0)
      OBVIOUS
    <3> QED BY <2>1, <2>2, <3>1
  <2>3. CASE k # 0
    <3>1. k - 1 \in Nat /\ k - 1 \notin Stuck
      <4> HIDE DEF Stuck
      <4> QED BY <2>1, <2>3
    <3>2. PICK g : Builds(g, k - 1)
      <4> HIDE DEF Builds
      <4> QED BY <3>1
    <3> DEFINE h == [i \in 0..k |-> IF i = k THEN Extended(g[k - 1], f[k]) ELSE g[i]]
    <3>3. ASSUME NEW i \in 0..k
          PROVE  h[i] = IF i = 0 THEN <<d.chosen_node>> ELSE Extended(h[i - 1], f[i])
      BY <2>3, <3>2
    <3>4. Builds(h, k)
      BY <3>3
    <3> QED BY <2>1, <3>4
  <2> QED BY <2>2, <2>3
<1>3. Builds(chain, Len(f))
  <2>1. \E g : Builds(g, Len(f))
    BY <1>1, <1>2
  <2> HIDE DEF Builds
  <2> QED BY <2>1, Zenon
<1>4. Chain(d) = chain[Len(f)]
  BY DEF Chain, f
<1> HIDE DEF chain
<1>5. ASSUME NEW i \in 0..Len(f)
      PROVE  chain[i] = IF i = 0 THEN <<d.chosen_node>> ELSE Extended(chain[i - 1], f[i])
  BY <1>3
<1>6. \A i \in 0..Len(f) : Named(d, chain[i])
  <2> DEFINE Bad == {i \in 0..Len(f) : ~Named(d, chain[i])}
  <2> SUFFICES ASSUME Bad # {} PROVE FALSE
    OBVIOUS
  <2>1. PICK i \in Bad : \A j \in Bad : i <= j
    <3>1. Bad \in SUBSET Nat
      BY <1>1
    <3> HIDE DEF Bad
    <3> QED BY <3>1, Smallest
  <2>2. CASE i = 0
    <3>1. chain[0] = <<d.chosen_node>>
      BY <1>1, <1>5
    <3>2. Named(d, <<d.chosen_node>>)
      BY <1>1 DEF Named, Range
    <3> QED BY <2>1, <2>2, <3>1, <3>2
  <2>3. CASE i # 0
    <3>1. /\ i - 1 \in 0..Len(f) /\ i - 1 < i /\ f[i] \in Nodes /\ f[i] \in Range(f)
      BY <1>1, <2>1, <2>3 DEF Range
    <3>2. Named(d, chain[i - 1])
      BY <1>1, <2>1, <3>1
    <3>3. Named(d, Extended(chain[i - 1], f[i]))
      BY <3>1, <3>2, ExtendedIsNamed DEF f
    <3> QED BY <1>5, <2>1, <2>3, <3>3
  <2> QED BY <2>2, <2>3
<1> QED BY <1>1, <1>4, <1>6

LEMMA CandidatesAreNamed ==
    ASSUME NEW d \in PlacementDecision
    PROVE  /\ Chain(d) \in Seq(Nodes \cup {CloudDefault})
           /\ Len(Chain(d)) \in Nat \ {0}
           /\ Range(Chain(d)) \subseteq {d.chosen_node} \cup Range(d.fallback_chain)
<1>1. PICK chain : chain = Chain(d)
  OBVIOUS
<1>2. Named(d, chain)
  BY <1>1, ChainIsNamed
<1>3. Len(chain) \in Nat \ {0}
  BY <1>2 DEF Named
<1> QED BY <1>1, <1>2, <1>3 DEF Named

----------------------------------------------------------------------------
\* Whatever the engine decides is typed and names whom it may.
LEMMA EngineDecides ==
    ASSUME GatewayTypeOK, Honest, NEW task \in Tasks
    PROVE  /\ EvaluatePlacement(task, snapshots, None) \in PlacementDecision
           /\ DecisionOK(task, EvaluatePlacement(task, snapshots, None))
<1> DEFINE d == EvaluatePlacement(task, snapshots, None)
<1>1. task \in TaskRequest /\ PlacementTypeOK
  BY GatewayAssumption DEF GatewayTypeOK
<1>2. snapshots \in Pool /\ GetSLAWeights(task.sla_class) \in SLAWeights
  BY <1>1, StoredIsPool, WeightsAreTyped DEF TaskRequest
<1>3. \A n : Eligible(task, snapshots, n) => Admissible(task, n)
  <2> SUFFICES ASSUME NEW n, Eligible(task, snapshots, n) PROVE Admissible(task, n)
    OBVIOUS
  <2>1. n \in Nodes /\ n \in DOMAIN snapshots /\ snapshots[n] \in Snapshot
    BY <1>2, PoolIsFinite DEF Eligible
  <2>2. InResidencyZone(task, snapshots[n]) /\ SufficientAssurance(task, snapshots[n])
    BY DEF Eligible, Passes
  <2>3. task.required_assurance_level = "high_assurance" => n \in AssuredNodes
    BY <2>1, <2>2 DEF SufficientAssurance, Honest
  <2>4. task.data_residency = None \/ task.data_residency \in NodeZones[n]
    BY <2>1, <2>2 DEF InResidencyZone, Honest
  <2> QED BY <2>1, <2>3, <2>4 DEF Admissible
<1>4. d \in PlacementDecision
  BY <1>2, DecisionIsTyped
<1>5. \/ d = GetStaticFallbackDecision(task)
      \/ /\ Eligible(task, snapshots, d.chosen_node)
         /\ \A i \in DOMAIN d.fallback_chain : Eligible(task, snapshots, d.fallback_chain[i])
  BY <1>2, DecisionKinds
<1> HIDE DEF d
<1>6. DecisionOK(task, d)
  BY <1>3, <1>5 DEF DecisionOK, Range
<1> QED BY <1>4, <1>6 DEF d

----------------------------------------------------------------------------
\* The initial state satisfies the invariant.
LEMMA InitInv == GatewayInit => GatewayInv
<1> SUFFICES ASSUME GatewayInit PROVE GatewayInv
  OBVIOUS
<1>1. PlacementTypeOK /\ Honest
  BY PlacementInitTyped DEF GatewayInit, PlacementInit, Honest
<1>2. NoDecision \in PlacementDecision
  BY DEF NoDecision, PlacementDecision, FallbackChains
<1> DEFINE q == [pc |-> "new", task |-> None, decision |-> NoDecision,
                 shadow_decision |-> NoDecision, attempts |-> 0, ran_on |-> {}]
<1>3. req = [r \in Requests |-> q]
  BY DEF GatewayInit
<1>4. q \in RequestType
  BY <1>2 DEF RequestType
<1>5. RequestOK(q)
  <2>1. 0 <= Len(Chain(NoDecision))
    BY <1>2, CandidatesAreNamed
  <2> QED BY <2>1 DEF RequestOK
<1>6. q.pc = "new"
  OBVIOUS
<1> HIDE DEF q
<1>7. RequestsOK /\ req \in [Requests -> RequestType] /\ Recorded
  BY <1>3, <1>4, <1>5, <1>6 DEF RequestsOK, Recorded
<1>8. events = <<>> /\ events \in Seq(EventType) /\ DOMAIN events = {}
  BY DEF GatewayInit
<1>9. EventsFit /\ EventsOnce
  BY <1>8 DEF EventsFit, EventsOnce
<1>10. app \in [up : BOOLEAN, is_leader : BOOLEAN,
                shadow_mode_enabled : BOOLEAN, decision_engine_enabled : BOOLEAN]
  BY DEF GatewayInit, Down
<1> QED BY <1>1, <1>7, <1>8, <1>9, <1>10 DEF GatewayInv, GatewayTypeOK, TrailInv

----------------------------------------------------------------------------
\* A request goes on to q, the trail stays: the events of the request have to fit q.
LEMMA RequestGoesOn ==
    ASSUME TrailInv, NEW r \in Requests, NEW q,
           req' = [req EXCEPT ![r] = q], events' = events,
           q \in RequestType, RequestOK(q),
           \A e \in EventType : EventFits(e, req[r]) => EventFits(e, q),
           q.pc \in {"recorded", "answered"} => req[r].pc \in {"recorded", "answered"}
    PROVE  TrailInv'
<1>1. req' \in [Requests -> RequestType]
  BY DEF TrailInv
<1>2. RequestsOK'
  BY DEF TrailInv, RequestsOK
<1>3. EventsFit'
  <2>1. \A i \in DOMAIN events : events[i] \in EventType
    BY DEF TrailInv
  <2>2. \A i \in DOMAIN events : events[i].task_id \in Requests
    BY <2>1 DEF EventType
  <2>3. ASSUME NEW i \in DOMAIN events
        PROVE  EventFits(events[i], req'[events[i].task_id])
    <3>1. EventFits(events[i], req[events[i].task_id])
      BY DEF TrailInv, EventsFit
    <3>2. CASE events[i].task_id = r
      <4>1. EventFits(events[i], q)
        BY <2>1, <3>1, <3>2
      <4>2. req'[events[i].task_id] = q
        BY <3>2 DEF TrailInv
      <4> QED BY <4>1, <4>2
    <3>3. CASE events[i].task_id # r
      <4>1. req'[events[i].task_id] = req[events[i].task_id]
        BY <2>2, <3>3 DEF TrailInv
      <4> QED BY <3>1, <4>1
    <3> QED BY <3>2, <3>3
  <2> QED BY <2>3 DEF EventsFit
<1>4. EventsOnce'
  BY DEF TrailInv, EventsOnce
<1>5. Recorded'
  BY DEF TrailInv, Recorded
<1> QED BY <1>1, <1>2, <1>3, <1>4, <1>5 DEF TrailInv

\* A request goes on to q with a new event, which fits q, as the others of the request do.
LEMMA EventIsAppended ==
    ASSUME TrailInv, NEW r \in Requests, NEW q, NEW e \in EventType,
           req' = [req EXCEPT ![r] = q], events' = Append(events, e), e.task_id = r,
           q \in RequestType, RequestOK(q), EventFits(e, q),
           \A f \in EventType : EventFits(f, req[r]) =>
               /\ EventFits(f, q)
               /\ f.is_shadow_mode # e.is_shadow_mode
               /\ ~e.is_shadow_mode,
           q.pc \in {"recorded", "answered"} => ~e.is_shadow_mode
    PROVE  TrailInv'
<1>0. /\ events \in Seq(EventType) /\ Len(events) \in Nat
      /\ DOMAIN events = 1..Len(events)
      /\ \A i \in DOMAIN events : events[i] \in EventType /\ events[i].task_id \in Requests
  <2>1. events \in Seq(EventType)
    BY DEF TrailInv
  <2>2. \A i \in DOMAIN events : events[i] \in EventType
    BY <2>1
  <2>3. \A f \in EventType : f.task_id \in Requests
    BY DEF EventType
  <2> QED BY <2>1, <2>2, <2>3
<1>1. req' \in [Requests -> RequestType]
  BY DEF TrailInv
<1>2. RequestsOK'
  BY DEF TrailInv, RequestsOK
<1>3. /\ events' \in Seq(EventType)
      /\ DOMAIN events' = 1..(Len(events) + 1)
      /\ events'[Len(events) + 1] = e
      /\ \A i \in DOMAIN events : events'[i] = events[i]
  BY <1>0
<1>4. \A i \in DOMAIN events : EventFits(events[i], req[events[i].task_id])
  BY DEF TrailInv, EventsFit
<1>5. \A i \in DOMAIN events : events[i].task_id = r =>
        /\ EventFits(events[i], q)
        /\ events[i].is_shadow_mode # e.is_shadow_mode
        /\ ~e.is_shadow_mode
  BY <1>0, <1>4
<1>6. req'[r] = q /\ \A s \in Requests : s # r => req'[s] = req[s]
  BY DEF TrailInv
<1>7. EventsFit'
  <2> SUFFICES ASSUME NEW i \in DOMAIN events'
               PROVE  EventFits(events'[i], req'[events'[i].task_id])
    BY DEF EventsFit
  <2>1. CASE i = Len(events) + 1
    BY <1>3, <1>6, <2>1
  <2>2. CASE i \in DOMAIN events
    <3>1. CASE events[i].task_id = r
      BY <1>3, <1>5, <1>6, <2>2, <3>1
    <3>2. CASE events[i].task_id # r
      BY <1>0, <1>3, <1>4, <1>6, <2>2, <3>2
    <3> QED BY <3>1, <3>2
  <2> QED BY <1>0, <1>3, <2>1, <2>2
<1>8. EventsOnce'
  <2> SUFFICES ASSUME NEW i \in DOMAIN events', NEW j \in DOMAIN events',
                      events'[i].task_id = events'[j].task_id
               PROVE  /\ events'[i].is_shadow_mode = events'[j].is_shadow_mode => i = j
                      /\ events'[i].is_shadow_mode /\ ~events'[j].is_shadow_mode => i < j
    BY DEF EventsOnce
  <2>0. \A k \in DOMAIN events' : k \in DOMAIN events \/ k = Len(events) + 1
    BY <1>0, <1>3
  <2>1. CASE i \in DOMAIN events /\ j \in DOMAIN events
    BY <1>3, <2>1 DEF TrailInv, EventsOnce
  <2>2. CASE i \in DOMAIN events /\ j = Len(events) + 1
    <3>1. i < j
      BY <1>0, <2>2
    <3>2. events'[i].is_shadow_mode # events'[j].is_shadow_mode
      BY <1>3, <1>5, <2>2
    <3> QED BY <3>1, <3>2
  <2>3. CASE i = Len(events) + 1 /\ j \in DOMAIN events
    BY <1>3, <1>5, <2>3
  <2>4. CASE i = Len(events) + 1 /\ j = Len(events) + 1
    BY <2>4
  <2> QED BY <2>0, <2>1, <2>2, <2>3, <2>4
<1>9. Recorded'
  <2> SUFFICES ASSUME NEW s \in Requests, req'[s].pc \in {"recorded", "answered"}
               PROVE  \E i \in DOMAIN events' : events'[i].task_id = s
                                                  /\ ~events'[i].is_shadow_mode
    BY DEF Recorded
  <2>1. CASE s = r
    <3>1. Len(events) + 1 \in DOMAIN events'
      BY <1>0, <1>3
    <3> QED BY <1>3, <1>6, <2>1, <3>1
  <2>2. CASE s # r
    <3>1. PICK i \in DOMAIN events : events[i].task_id = s /\ ~events[i].is_shadow_mode
      BY <1>6, <2>2 DEF TrailInv, Recorded
    <3>2. i \in DOMAIN events'
      BY <1>0, <1>3
    <3> QED BY <1>3, <3>1, <3>2
  <2> QED BY <2>1, <2>2
<1> QED BY <1>1, <1>2, <1>3, <1>7, <1>8, <1>9 DEF TrailInv

----------------------------------------------------------------------------
\* The steps of a handler.
LEMMA RequestAt ==
    ASSUME TrailInv, NEW r \in Requests
    PROVE  /\ req[r] \in RequestType /\ RequestOK(req[r])
           /\ req[r].decision \in PlacementDecision
           /\ Len(Chain(req[r].decision)) \in Nat \ {0}
<1>1. req[r] \in RequestType /\ RequestOK(req[r])
  BY DEF TrailInv, RequestsOK
<1>2. req[r].decision \in PlacementDecision
  BY <1>1 DEF RequestType
<1> QED BY <1>1, <1>2, CandidatesAreNamed

\* Only the program counter moves: to a place that presupposes what the one before did.
LEMMA CounterMoves ==
    ASSUME TrailInv, NEW r \in Requests, NEW pc, Goto(r, pc), events' = events,
           <<req[r].pc, pc>> \in
             {<<"received", "no_telemetry">>, <<"shadowing", "shadow_unaudited">>,
              <<"routed", "trying">>, <<"routed", "refused">>, <<"executed", "unaudited">>,
              <<"recorded", "answered">>}
             \/ /\ req[r].pc = "trying" /\ pc = "exhausted" /\ req[r].attempts > 0
    PROVE  TrailInv'
<1> DEFINE q == [req[r] EXCEPT !.pc = pc]
<1>1. req[r] \in RequestType /\ RequestOK(req[r])
  BY RequestAt
<1>2. /\ q \in RequestType /\ q.pc = pc /\ q.task = req[r].task
      /\ q.decision = req[r].decision /\ q.attempts = req[r].attempts
      /\ q.ran_on = req[r].ran_on
  BY <1>1 DEF RequestType, Active, Ended
<1>3. req' = [req EXCEPT ![r] = q]
  BY DEF Goto
<1> HIDE DEF q
<1>4. RequestOK(q)
  BY <1>1, <1>2 DEF RequestOK, Undispatched
<1>5. \A e \in EventType : EventFits(e, req[r]) => EventFits(e, q)
  BY <1>2 DEF EventFits, Unrouted
<1>6. q.pc \in {"recorded", "answered"} => req[r].pc \in {"recorded", "answered"}
  BY <1>2
<1> QED BY <1>2, <1>3, <1>4, <1>5, <1>6, RequestGoesOn

\* The candidate loop: one more attempt, which may have executed the task.
LEMMA AttemptMade ==
    ASSUME TrailInv, NEW r \in Requests, req[r].pc = "trying", events' = events,
           req[r].attempts < Len(Chain(req[r].decision)),
           NEW pc \in {"trying", "executed", "failed"}, NEW ran \in SUBSET Nodes,
           ran \subseteq req[r].ran_on \cup {Candidate(r)},
           pc = "executed" => Candidate(r) \in ran,
           req' = [req EXCEPT ![r] = [req[r] EXCEPT !.pc = pc, !.attempts = @ + 1,
                                                    !.ran_on = ran]]
    PROVE  TrailInv'
<1> DEFINE chain == Chain(req[r].decision)
           q == [req[r] EXCEPT !.pc = pc, !.attempts = @ + 1, !.ran_on = ran]
<1>1. /\ req[r] \in RequestType /\ RequestOK(req[r])
      /\ req[r].attempts \in Nat
      /\ chain \in Seq(Nodes \cup {CloudDefault})
  BY RequestAt, CandidatesAreNamed DEF RequestType
<1>2. /\ q \in RequestType /\ q.pc = pc /\ q.task = req[r].task
      /\ q.decision = req[r].decision /\ q.attempts = req[r].attempts + 1
      /\ q.ran_on = ran
  <2>1. req[r].attempts + 1 \in Nat
    BY <1>1
  <2> HIDE DEF chain
  <2> QED BY <1>1, <2>1 DEF RequestType, Active, Ended
<1>3. req' = [req EXCEPT ![r] = q]
  OBVIOUS
<1> HIDE DEF q
<1>4. RequestOK(q)
  <2>1. /\ req[r].ran_on \subseteq Range(chain) \cap Nodes
        /\ req[r].task \in Tasks
        /\ DecisionOK(req[r].task, req[r].decision)
    BY <1>1 DEF RequestOK
  <2>2. Candidate(r) = chain[req[r].attempts + 1]
    BY DEF Candidate
  <2>3. Candidate(r) \in Range(chain)
    <3> HIDE DEF chain
    <3>1. req[r].attempts + 1 \in DOMAIN chain
      BY <1>1, req[r].attempts < Len(chain) DEF chain
    <3> QED BY <2>2, <3>1 DEF Range
  <2>4. q.attempts <= Len(chain) /\ q.attempts > 0
    <3> HIDE DEF chain
    <3> QED BY <1>1, <1>2, req[r].attempts < Len(chain) DEF chain
  <2>5. q.ran_on \subseteq Range(chain) \cap Nodes
    BY <1>2, <2>1, <2>3
  <2>6. q.pc = "executed" => chain[q.attempts] \in q.ran_on
    BY <1>2, <2>2
  <2> HIDE DEF chain
  <2>7. chain = Chain(q.decision)
    BY <1>2 DEF chain
  <2> QED BY <1>2, <2>1, <2>4, <2>5, <2>6, <2>7 DEF RequestOK, Undispatched
<1>5. \A e \in EventType : EventFits(e, req[r]) => EventFits(e, q)
  BY <1>2 DEF EventFits, Unrouted
<1>6. q.pc \notin {"recorded", "answered"}
  BY <1>2
<1> QED BY <1>2, <1>3, <1>4, <1>5, <1>6, RequestGoesOn

\* A decision is taken: nothing has been said of the request so far.
LEMMA DecisionTaken ==
    ASSUME TrailInv, NEW r \in Requests, req[r].pc = "received", events' = events,
           NEW d \in PlacementDecision, DecisionOK(req[r].task, d) \/ d = NoDecision,
           Route(r, d)
    PROVE  TrailInv'
<1>0. NoDecision \in PlacementDecision
  BY DEF NoDecision, PlacementDecision, FallbackChains
<1>1. /\ req[r] \in RequestType /\ RequestOK(req[r])
      /\ req[r].attempts = 0 /\ req[r].ran_on = {} /\ req[r].task \in Tasks
  BY RequestAt DEF RequestOK, Undispatched
<1> DEFINE pc == IF app.shadow_mode_enabled /\ d # NoDecision THEN "shadowing" ELSE "routed"
           shadow == IF app.shadow_mode_enabled THEN d ELSE NoDecision
           decision == IF d # NoDecision /\ ~app.shadow_mode_enabled
                          /\ app.decision_engine_enabled
                         THEN d ELSE GetStaticFallbackDecision(req[r].task)
           q == [req[r] EXCEPT !.pc = pc, !.shadow_decision = shadow, !.decision = decision]
<1>2. req' = [req EXCEPT ![r] = q]
  BY DEF Route
<1>3. /\ decision \in PlacementDecision /\ shadow \in PlacementDecision
      /\ DecisionOK(req[r].task, decision)
      /\ pc = "shadowing" => decision = GetStaticFallbackDecision(req[r].task)
      /\ pc \in {"shadowing", "routed"}
  BY <1>0, StaticDecision DEF DecisionOK
<1> HIDE DEF pc, shadow, decision
<1>4. /\ q \in RequestType /\ q.pc = pc /\ q.task = req[r].task
      /\ q.decision = decision /\ q.attempts = 0 /\ q.ran_on = {}
  BY <1>1, <1>3 DEF RequestType, Active
<1> HIDE DEF q
<1>5. RequestOK(q)
  <2>1. 0 <= Len(Chain(decision))
    BY <1>3, CandidatesAreNamed
  <2> QED BY <1>1, <1>3, <1>4, <2>1 DEF RequestOK
<1>6. \A e \in EventType : EventFits(e, req[r]) => EventFits(e, q)
  BY DEF EventFits, Unrouted
<1>7. q.pc \notin {"recorded", "answered"}
  BY <1>3, <1>4
<1> QED BY <1>2, <1>4, <1>5, <1>6, <1>7, RequestGoesOn

LEMMA HandlerStepKeeps ==
    ASSUME GatewayInv, NEW r \in Requests, HandlerStep(r)
    PROVE  TrailInv'
<1>0. /\ TrailInv /\ GatewayTypeOK /\ Honest
      /\ req[r] \in RequestType /\ RequestOK(req[r])
      /\ req[r].decision \in PlacementDecision
      /\ Len(Chain(req[r].decision)) \in Nat \ {0}
      /\ req \in [Requests -> RequestType]
  BY RequestAt DEF GatewayInv, TrailInv
<1>1. CASE TelemetryUnavailable(r)
  BY <1>0, <1>1, CounterMoves DEF TelemetryUnavailable, At
<1>2. CASE ShadowAppendFails(r)
  BY <1>0, <1>2, CounterMoves DEF ShadowAppendFails, At
<1>3. CASE Authorize(r)
  BY <1>0, <1>3, CounterMoves DEF Authorize, At
<1>4. CASE AggregateFails(r)
  BY <1>0, <1>4, CounterMoves DEF AggregateFails, At
<1>5. CASE Answer(r)
  BY <1>0, <1>5, CounterMoves DEF Answer, At
<1>6. CASE Exhaust(r)
  BY <1>0, <1>6, CounterMoves DEF Exhaust, At
<1>7. CASE Decide(r)
  <2>1. req[r].pc = "received" /\ req[r].task \in Tasks /\ events' = events
    BY <1>0, <1>7 DEF Decide, At, RequestOK
  <2>2. Route(r, EvaluatePlacement(req[r].task, snapshots, None))
    BY <1>7 DEF Decide
  <2> QED BY <1>0, <2>1, <2>2, EngineDecides, DecisionTaken
<1>8. CASE EvaluationRaises(r)
  <2>1. NoDecision \in PlacementDecision
    BY DEF NoDecision, PlacementDecision, FallbackChains
  <2> QED BY <1>0, <1>8, <2>1, DecisionTaken DEF EvaluationRaises, At
<1>9. CASE CandidateExecutes(r)
  <2> DEFINE ran == req[r].ran_on \cup {Candidate(r)}
  <2>1. PICK pc \in {"executed", "trying"} :
          req' = [req EXCEPT ![r].pc = pc, ![r].attempts = @ + 1,
                             ![r].ran_on = @ \cup {Candidate(r)}]
    BY <1>9 DEF CandidateExecutes
  <2>2. req' = [req EXCEPT ![r] = [req[r] EXCEPT !.pc = pc, !.attempts = @ + 1,
                                                 !.ran_on = ran]]
    BY <1>0, <2>1
  <2>3. ran \in SUBSET Nodes
    BY <1>0, <1>9 DEF CandidateExecutes, RequestType
  <2>4. req[r].pc = "trying" /\ events' = events
        /\ req[r].attempts < Len(Chain(req[r].decision))
    BY <1>9 DEF CandidateExecutes, At
  <2>5. Candidate(r) \in ran /\ ran \subseteq req[r].ran_on \cup {Candidate(r)}
    OBVIOUS
  <2> HIDE DEF ran
  <2> QED BY <1>0, <2>2, <2>3, <2>4, <2>5, AttemptMade
<1>10. ASSUME CandidateDeclines(r) \/ DispatchRaises(r) PROVE TrailInv'
  <2> DEFINE ran == req[r].ran_on
             pc == IF CandidateDeclines(r) THEN "trying" ELSE "failed"
  <2>1. req' = [req EXCEPT ![r] = [req[r] EXCEPT !.pc = pc, !.attempts = @ + 1,
                                                 !.ran_on = ran]]
    <3>1. CASE CandidateDeclines(r)
      <4>1. req[r] = [req[r] EXCEPT !.pc = "trying", !.ran_on = req[r].ran_on]
        BY <1>0, <3>1 DEF CandidateDeclines, At, RequestType
      <4>2. [req[r] EXCEPT !.attempts = @ + 1]
              = [req[r] EXCEPT !.pc = pc, !.attempts = @ + 1, !.ran_on = ran]
        BY <1>0, <3>1, <4>1 DEF RequestType
      <4> QED BY <1>0, <3>1, <4>2 DEF CandidateDeclines
    <3>2. CASE ~CandidateDeclines(r)
      <4>1. [req[r] EXCEPT !.pc = "failed", !.attempts = @ + 1]
              = [req[r] EXCEPT !.pc = pc, !.attempts = @ + 1, !.ran_on = ran]
        BY <1>0, <3>2 DEF RequestType
      <4> QED BY <1>0, <1>10, <3>2, <4>1 DEF DispatchRaises
    <3> QED BY <3>1, <3>2
  <2>2. ran \in SUBSET Nodes /\ ran \subseteq req[r].ran_on \cup {Candidate(r)}
    BY <1>0 DEF RequestType
  <2>3. req[r].pc = "trying" /\ events' = events
        /\ req[r].attempts < Len(Chain(req[r].decision))
    BY <1>10 DEF CandidateDeclines, DispatchRaises, At
  <2>4. pc \in {"trying", "failed"}
    OBVIOUS
  <2> HIDE DEF ran, pc
  <2> QED BY <1>0, <2>1, <2>2, <2>3, <2>4, AttemptMade
<1>11. CASE AppendShadowEvent(r)
  <2> DEFINE e == Event(r, TRUE, req[r].shadow_decision, None)
             q == [req[r] EXCEPT !.pc = "routed"]
  <2>1. /\ e \in EventType /\ e.task_id = r /\ e.is_shadow_mode = TRUE
    BY <1>0 DEF Event, EventType, RequestType
  <2>2. /\ q \in RequestType /\ q.pc = "routed" /\ q.task = req[r].task
        /\ q.decision = req[r].decision /\ q.attempts = req[r].attempts
        /\ q.ran_on = req[r].ran_on
    BY <1>0 DEF RequestType, Active
  <2>3. /\ req' = [req EXCEPT ![r] = q] /\ events' = Append(events, e)
        /\ req[r].pc = "shadowing"
    BY <1>11 DEF AppendShadowEvent, Goto, At
  <2> HIDE DEF e, q
  <2>4. RequestOK(q) /\ EventFits(e, q)
    BY <1>0, <2>1, <2>2, <2>3 DEF RequestOK, EventFits, Undispatched, Unrouted
  <2>5. \A f \in EventType : ~EventFits(f, req[r])
    BY <2>3 DEF EventFits, Unrouted
  <2> QED BY <1>0, <2>1, <2>2, <2>3, <2>4, <2>5, EventIsAppended
<1>12. CASE Aggregate(r)
  <2> DEFINE chain == Chain(req[r].decision)
             e == Event(r, FALSE, req[r].decision, chain[req[r].attempts])
             q == [req[r] EXCEPT !.pc = "recorded"]
  <2>0. /\ req' = [req EXCEPT ![r] = q] /\ events' = Append(events, e)
        /\ req[r].pc = "executed"
    BY <1>12 DEF Aggregate, Goto, At
  <2>1. chain[req[r].attempts] \in req[r].ran_on
    BY <1>0, <2>0 DEF RequestOK
  <2>2. /\ e \in EventType /\ e.task_id = r /\ e.is_shadow_mode = FALSE
        /\ e.decision = req[r].decision /\ e.attempts = req[r].attempts
        /\ e.node_id = chain[req[r].attempts]
    BY <1>0, <2>1 DEF Event, EventType, RequestType
  <2>3. /\ q \in RequestType /\ q.pc = "recorded" /\ q.task = req[r].task
        /\ q.decision = req[r].decision /\ q.attempts = req[r].attempts
        /\ q.ran_on = req[r].ran_on
    BY <1>0 DEF RequestType, Active
  <2> HIDE DEF e, q
  <2>4. RequestOK(q) /\ EventFits(e, q)
    BY <1>0, <2>0, <2>1, <2>2, <2>3 DEF RequestOK, EventFits, Undispatched
  <2>5. \A f \in EventType : EventFits(f, req[r]) => EventFits(f, q) /\ f.is_shadow_mode
    BY <2>0, <2>3 DEF EventFits, Unrouted
  <2>6. \A f \in EventType : EventFits(f, req[r]) =>
               /\ EventFits(f, q)
               /\ f.is_shadow_mode # e.is_shadow_mode
               /\ ~e.is_shadow_mode
    BY <2>2, <2>5
  <2> QED BY <1>0, <2>0, <2>2, <2>3, <2>4, <2>6, EventIsAppended
<1> QED BY <1>1, <1>2, <1>3, <1>4, <1>5, <1>6, <1>7, <1>8, <1>9, <1>10, <1>11, <1>12
        DEF HandlerStep

----------------------------------------------------------------------------
\* The other steps.
LEMMA ReceiveKeeps ==
    ASSUME GatewayInv, NEW r \in Requests, NEW task \in Tasks, Receive(r, task)
    PROVE  TrailInv'
<1> DEFINE q == [req[r] EXCEPT !.pc = "received", !.task = task]
<1>1. /\ TrailInv /\ req[r] \in RequestType /\ RequestOK(req[r])
      /\ req[r].pc = "new" /\ events' = events
  BY RequestAt DEF GatewayInv, Receive
<1>2. req' = [req EXCEPT ![r] = q]
  BY <1>1 DEF Receive, TrailInv
<1>3. /\ q \in RequestType /\ q.pc = "received" /\ q.task = task
      /\ q.decision = req[r].decision /\ q.attempts = req[r].attempts
      /\ q.ran_on = req[r].ran_on
  BY <1>1 DEF RequestType, Active
<1> HIDE DEF q
<1>4. RequestOK(q)
  BY <1>1, <1>3 DEF RequestOK, Undispatched
<1>5. \A e \in EventType : ~EventFits(e, req[r])
  BY <1>1 DEF EventFits, Unrouted
<1> QED BY <1>1, <1>2, <1>3, <1>4, <1>5, RequestGoesOn

LEMMA CrashKeeps ==
    ASSUME TrailInv, Crash
    PROVE  TrailInv'
<1> DEFINE dead(r) == [req[r] EXCEPT !.pc = "dead"]
<1>1. /\ \A r \in Requests : req[r] \in RequestType /\ RequestOK(req[r])
      /\ \A i \in DOMAIN events : events[i].task_id \in Requests
      /\ events' = events
  <2>1. \A i \in DOMAIN events : events[i] \in EventType
    BY DEF TrailInv
  <2> QED BY <2>1, RequestAt DEF Crash, EventType
<1>2. \A r \in Requests : req'[r] = IF r \in Loop THEN dead(r) ELSE req[r]
  BY DEF Crash
<1>3. \A r \in Requests :
        /\ dead(r) \in RequestType /\ dead(r).pc = "dead" /\ dead(r).task = req[r].task
        /\ dead(r).decision = req[r].decision /\ dead(r).attempts = req[r].attempts
        /\ dead(r).ran_on = req[r].ran_on
  BY <1>1 DEF RequestType, Ended
<1> HIDE DEF dead
<1>4. req' \in [Requests -> RequestType]
  BY <1>1, <1>3 DEF Crash, dead
<1>5. ASSUME NEW r \in Requests, r \in Loop
      PROVE  /\ RequestOK(dead(r))
             /\ \A e : EventFits(e, req[r]) => EventFits(e, dead(r))
  <2>1. req[r].pc # "new"
    BY <1>5 DEF Loop, Active
  <2>2. RequestOK(dead(r))
    BY <1>1, <1>3, <2>1 DEF RequestOK, Undispatched
  <2>3. \A e : EventFits(e, req[r]) => EventFits(e, dead(r))
    BY <1>3 DEF EventFits, Unrouted
  <2> QED BY <2>2, <2>3
<1>6. RequestsOK'
  BY <1>1, <1>2, <1>5 DEF RequestsOK
<1>7. EventsFit'
  BY <1>1, <1>2, <1>5 DEF EventsFit, TrailInv
<1>8. EventsOnce'
  BY <1>1 DEF EventsOnce, TrailInv
<1>9. Recorded'
  BY <1>1, <1>2, <1>3 DEF Recorded, TrailInv
<1> QED BY <1>1, <1>4, <1>6, <1>7, <1>8, <1>9 DEF TrailInv

LEMMA TrailUnchanged ==
    ASSUME TrailInv, UNCHANGED <<req, events>>
    PROVE  TrailInv'
BY DEF TrailInv, RequestsOK, EventsFit, EventsOnce, Recorded

\* A stored report is within what its node may report.
LEMMA ReportKept ==
    ASSUME PlacementTypeOK, Honest, NEW n \in Nodes, NEW s \in Snapshot,
           s.data_residency_zones = NodeZones[n],
           s.assurance_level = "high_assurance" => n \in AssuredNodes,
           RecordSnapshot(n, s)
    PROVE  PlacementTypeOK' /\ Honest'
<1>1. PlacementTypeOK'
  BY RecordKeepsTypes
<1>2. Honest'
  BY DEF Honest, RecordSnapshot
<1> QED BY <1>1, <1>2

AppType == [up : BOOLEAN, is_leader : BOOLEAN,
            shadow_mode_enabled : BOOLEAN, decision_engine_enabled : BOOLEAN]

\* What is said of the store, the weights and the process.
LEMMA StateKept ==
    ASSUME GatewayInv, [GatewayNext]_vars
    PROVE  PlacementTypeOK' /\ Honest' /\ app' \in AppType
<1>0. PlacementTypeOK /\ Honest /\ app \in AppType
  BY DEF GatewayInv, GatewayTypeOK, AppType
<1>1. CASE UNCHANGED <<app, placementVars>>
  BY <1>0, <1>1 DEF placementVars, PlacementTypeOK, Honest
<1>2. CASE Crash
  BY <1>0, <1>2, LoseKeepsTypes DEF Crash, LoseEngine, Honest, Down, AppType
<1>3. CASE (\E imported \in BOOLEAN : Start(imported)) \/ LoseLease \/ SwitchEngine
  <2>1. PlacementTypeOK' /\ Honest'
    BY <1>0, <1>3 DEF Start, LoseLease, SwitchEngine, placementVars, PlacementTypeOK, Honest
  <2>2. CASE \E imported \in BOOLEAN : Start(imported)
    BY <2>1, <2>2 DEF Start, AppType
  <2>3. CASE LoseLease
    BY <1>0, <2>1, <2>3 DEF LoseLease, AppType
  <2>4. CASE SwitchEngine
    BY <1>0, <2>1, <2>4 DEF SwitchEngine, AppType
  <2> QED BY <1>3, <2>2, <2>3, <2>4
<1>4. ASSUME NEW c \in SLAClasses, NEW w \in PostedWeights[c], UpdateWeights(c, w)
      PROVE  PlacementTypeOK' /\ Honest' /\ app' \in AppType
  <2>1. w \in SLAWeights
    BY GatewayAssumption
  <2> QED BY <1>0, <1>4, <2>1, UpdateKeepsTypes
          DEF UpdateWeights, UpdateSLAProfiles, gatewayVars, Honest
<1>5. ASSUME NEW n \in Nodes, NEW s \in StreamedReports[n], StreamTelemetry(n, s)
      PROVE  PlacementTypeOK' /\ Honest' /\ app' \in AppType
  <2>1. s \in Snapshot /\ s.data_residency_zones = NodeZones[n]
    BY GatewayAssumption
  <2> QED BY <1>0, <1>5, <2>1, StreamedIsSnapshot, ReportKept DEF StreamTelemetry, gatewayVars
<1>6. ASSUME NEW n \in Nodes, NEW s \in PostedReports[n], RecordTelemetry(n, s)
      PROVE  PlacementTypeOK' /\ Honest' /\ app' \in AppType
  <2>1. /\ s \in Snapshot /\ s.data_residency_zones = NodeZones[n]
        /\ s.assurance_level = "high_assurance" => n \in AssuredNodes
    BY GatewayAssumption
  <2> QED BY <1>0, <1>6, <2>1, ReportKept DEF RecordTelemetry, gatewayVars
<1>7. CASE ProcessStep
  BY <1>2, <1>3, <1>4, <1>5, <1>6, <1>7 DEF ProcessStep
<1>8. CASE \E r \in Requests : HandlerStep(r) \/ \E task \in Tasks : Receive(r, task)
  <2>1. UNCHANGED <<app, placementVars>>
    BY <1>8 DEF HandlerStep, Receive, TelemetryUnavailable, Decide, EvaluationRaises,
       AppendShadowEvent, ShadowAppendFails, Authorize, CandidateExecutes,
       CandidateDeclines, DispatchRaises, Exhaust, Aggregate, AggregateFails, Answer
  <2> QED BY <1>1, <2>1
<1>9. CASE UNCHANGED vars
  BY <1>1, <1>9 DEF vars, placementVars
<1> QED BY <1>7, <1>8, <1>9 DEF GatewayNext

LEMMA StepInv == GatewayInv /\ [GatewayNext]_vars => GatewayInv'
<1> SUFFICES ASSUME GatewayInv, [GatewayNext]_vars PROVE GatewayInv'
  OBVIOUS
<1>1. PlacementTypeOK' /\ Honest' /\ app' \in AppType
  BY StateKept
<1>2. TrailInv'
  <2>1. CASE UNCHANGED <<req, events>>
    BY <2>1, TrailUnchanged DEF GatewayInv
  <2>2. CASE ProcessStep
    <3>1. Crash \/ UNCHANGED <<req, events>>
      BY <2>2 DEF ProcessStep, Start, LoseLease, SwitchEngine, UpdateWeights,
         StreamTelemetry, RecordTelemetry, gatewayVars
    <3> QED BY <2>1, <3>1, CrashKeeps DEF GatewayInv
  <2>3. CASE \E r \in Requests : HandlerStep(r) \/ \E task \in Tasks : Receive(r, task)
    BY <2>3, HandlerStepKeeps, ReceiveKeeps
  <2>4. CASE UNCHANGED vars
    BY <2>1, <2>4 DEF vars
  <2> QED BY <2>2, <2>3, <2>4 DEF GatewayNext
<1> QED BY <1>1, <1>2 DEF GatewayInv, GatewayTypeOK, TrailInv, AppType

----------------------------------------------------------------------------
\* In every state, whatever has been reported, decided, lost and restarted.
THEOREM GatewayInvariant == GatewaySpec => []GatewayInv
<1>1. GatewayInit => GatewayInv
  BY InitInv
<1>2. GatewayInv /\ [GatewayNext]_vars => GatewayInv'
  BY StepInv
<1> QED BY <1>1, <1>2, PTL DEF GatewaySpec

\* The state of gateway, store and audit trail is well typed.
THEOREM GatewayTyping == GatewaySpec => []GatewayTypeOK
<1>1. GatewayInv => GatewayTypeOK
  BY DEF GatewayInv
<1> QED BY <1>1, GatewayInvariant, PTL

\* Who has run a task was named by its decision: by the static chain, or as a node
\* within the task's constraints.
LEMMA WhoHasRun ==
    ASSUME GatewayInv, NEW r \in Requests, NEW n \in req[r].ran_on
    PROVE  /\ n \in Nodes
           /\ \/ /\ req[r].decision = GetStaticFallbackDecision(req[r].task)
                 /\ n \in Range(StaticChain(req[r].task))
              \/ Admissible(req[r].task, n)
<1> DEFINE d == req[r].decision
<1>1. /\ RequestOK(req[r]) /\ d \in PlacementDecision
  BY RequestAt DEF GatewayInv
<1>2. n \in Range(Chain(d)) /\ n \in Nodes /\ DecisionOK(req[r].task, d)
  BY <1>1 DEF RequestOK
<1>3. n \in {d.chosen_node} \cup Range(d.fallback_chain)
  BY <1>1, <1>2, CandidatesAreNamed
<1>4. CASE d = GetStaticFallbackDecision(req[r].task)
  <2>1. n # CloudDefault
    BY <1>2, PlacementAssumption
  <2>2. n \in Range(StaticChain(req[r].task))
    BY <1>3, <1>4, <2>1, StaticDecision
  <2> QED BY <1>2, <1>4, <2>2
<1>5. CASE d # GetStaticFallbackDecision(req[r].task)
  BY <1>2, <1>3, <1>5 DEF DecisionOK
<1> QED BY <1>4, <1>5

\* A task with a residency zone runs in it, in whichever mode and after whatever
\* failures, unless the static policy routed it and does not list the zone.
THEOREM ResidencyIsKept == GatewaySpec => []ResidencyKept
<1>1. GatewayInv => ResidencyKept
  <2> SUFFICES ASSUME GatewayInv, NEW r \in Requests, NEW n \in req[r].ran_on,
                      req[r].task.data_residency # None
               PROVE  \/ req[r].task.data_residency \in NodeZones[n]
                      \/ /\ req[r].decision.used_fallback_policy
                         /\ req[r].task.data_residency \notin DOMAIN residency_overrides
    BY DEF ResidencyKept
  <2>1. CASE Admissible(req[r].task, n)
    BY <2>1 DEF Admissible
  <2>2. CASE /\ req[r].decision = GetStaticFallbackDecision(req[r].task)
             /\ n \in Range(StaticChain(req[r].task))
    <3>1. req[r].decision.used_fallback_policy
      BY <2>2, StaticDecision
    <3>2. ASSUME req[r].task.data_residency \in DOMAIN residency_overrides
          PROVE  req[r].task.data_residency \in NodeZones[n]
      BY <2>2, <3>2, PolicyAssumption DEF StaticChain
    <3> QED BY <3>1, <3>2
  <2> QED BY <2>1, <2>2, WhoHasRun
<1> QED BY <1>1, GatewayInvariant, PTL

\* A high-assurance task runs on a node that may claim the level, unless the static
\* policy routed it.
THEOREM AssuranceIsKept == GatewaySpec => []AssuranceKept
<1>1. GatewayInv => AssuranceKept
  <2> SUFFICES ASSUME GatewayInv, NEW r \in Requests, NEW n \in req[r].ran_on,
                      req[r].task.required_assurance_level = "high_assurance"
               PROVE  n \in AssuredNodes \/ req[r].decision.used_fallback_policy
    BY DEF AssuranceKept
  <2>1. CASE Admissible(req[r].task, n)
    BY <2>1 DEF Admissible
  <2>2. CASE req[r].decision = GetStaticFallbackDecision(req[r].task)
    BY <2>2, StaticDecision
  <2> QED BY <2>1, <2>2, WhoHasRun
<1> QED BY <1>1, GatewayInvariant, PTL

LEMMA EventAt ==
    ASSUME GatewayInv, NEW i \in DOMAIN events
    PROVE  /\ events[i].task_id \in Requests /\ events[i].is_shadow_mode \in BOOLEAN
           /\ EventFits(events[i], req[events[i].task_id])
<1>1. events[i] \in EventType
  BY DEF GatewayInv, TrailInv
<1> QED BY <1>1 DEF GatewayInv, TrailInv, EventsFit, EventType

\* A shadow decision neither chose a node nor is in the real audit event of its task.
THEOREM ShadowsOnlyWatch == GatewaySpec => []ShadowOnlyWatches
<1>1. GatewayInv => ShadowOnlyWatches
  <2> SUFFICES ASSUME GatewayInv, NEW i \in DOMAIN events, events[i].is_shadow_mode
               PROVE  LET r == events[i].task_id IN
                      /\ req[r].ran_on \subseteq Range(StaticChain(req[r].task))
                      /\ \A j \in DOMAIN events :
                           events[j].task_id = r /\ ~events[j].is_shadow_mode
                             => events[j].decision = GetStaticFallbackDecision(req[r].task)
    BY DEF ShadowOnlyWatches
  <2> DEFINE r == events[i].task_id
             d == req[r].decision
  <2>1. r \in Requests /\ d = GetStaticFallbackDecision(req[r].task)
    BY EventAt DEF EventFits
  <2>2. ASSUME NEW n \in req[r].ran_on PROVE n \in Range(StaticChain(req[r].task))
    <3>1. n \in Range(Chain(d)) /\ n \in Nodes /\ d \in PlacementDecision
      BY <2>1, RequestAt DEF GatewayInv, RequestOK
    <3>2. n \in {d.chosen_node} \cup Range(d.fallback_chain) /\ n # CloudDefault
      BY <3>1, CandidatesAreNamed, PlacementAssumption
    <3> QED BY <2>1, <3>2, StaticDecision
  <2>3. ASSUME NEW j \in DOMAIN events, events[j].task_id = r, ~events[j].is_shadow_mode
        PROVE  events[j].decision = GetStaticFallbackDecision(req[r].task)
    BY <2>1, <2>3, EventAt DEF EventFits
  <2> QED BY <2>2, <2>3
<1> QED BY <1>1, GatewayInvariant, PTL

\* The audit trail agrees with the work done, wherever the ledger fails or the
\* process dies.
THEOREM AuditAgrees == GatewaySpec => []AuditMatchesWork
<1>1. GatewayInv => AuditMatchesWork
  <2> SUFFICES ASSUME GatewayInv PROVE AuditMatchesWork
    OBVIOUS
  <2> DEFINE of(r, shadow) == {i \in DOMAIN events : events[i].task_id = r
                                                       /\ events[i].is_shadow_mode = shadow}
  <2>1. ASSUME NEW r \in Requests, req[r].pc = "answered" PROVE of(r, FALSE) # {}
    <3>1. PICK i \in DOMAIN events : events[i].task_id = r /\ ~events[i].is_shadow_mode
      BY <2>1 DEF GatewayInv, TrailInv, Recorded
    <3>2. events[i].is_shadow_mode = FALSE
      BY <3>1, EventAt
    <3> QED BY <3>1, <3>2
  <2>2. ASSUME NEW r \in Requests, NEW shadow \in BOOLEAN, NEW i \in of(r, shadow)
        PROVE  of(r, shadow) = {i}
    BY DEF GatewayInv, TrailInv, EventsOnce
  <2>3. ASSUME NEW r \in Requests, NEW i \in of(r, FALSE)
        PROVE  /\ req[r].pc \in {"recorded", "answered", "dead"}
               /\ events[i].node_id \in req[r].ran_on
               /\ events[i].node_id = Chain(events[i].decision)[events[i].attempts]
    BY EventAt DEF EventFits
  <2>4. ASSUME NEW r \in Requests, NEW i \in of(r, TRUE), NEW j \in of(r, FALSE)
        PROVE  i < j
    BY DEF GatewayInv, TrailInv, EventsOnce
  <2>5. AuditMatchesWork =
          \A r \in Requests :
             /\ req[r].pc = "answered" => of(r, FALSE) # {}
             /\ \A i \in of(r, FALSE) :
                  /\ of(r, FALSE) = {i}
                  /\ req[r].pc \in {"recorded", "answered", "dead"}
                  /\ events[i].node_id \in req[r].ran_on
                  /\ events[i].node_id
                       = Chain(events[i].decision)[events[i].attempts]
             /\ \A i \in of(r, TRUE) :
                  of(r, TRUE) = {i} /\ \A j \in of(r, FALSE) : i < j
    BY DEF AuditMatchesWork
  <2> HIDE DEF of
  <2> QED BY <2>1, <2>2, <2>3, <2>4, <2>5
<1> QED BY <1>1, GatewayInvariant, PTL

\* A request that ended in dispatch or after it has had a node tried.
THEOREM GatewayFailsOpen == GatewaySpec => []FailsOpen
<1>1. GatewayInv => FailsOpen
  BY RequestAt DEF FailsOpen, GatewayInv, RequestOK
<1> QED BY <1>1, GatewayInvariant, PTL

\* Whatever was reported and whichever weights are set, the hysteresis keeps an
\* incumbent within the margin and drops it only for a clear winner.
THEOREM IncumbentsWithinMargin == GatewaySpec => []IncumbentWithinMargin
<1>1. GatewayInv => IncumbentWithinMargin
  <2> SUFFICES ASSUME GatewayInv, NEW r \in Requests, At(r, "received"), NEW incumbent \in Nodes
               PROVE  IncumbentKept(req[r].task, snapshots, incumbent)
    BY DEF IncumbentWithinMargin
  <2>1. req[r].task \in TaskRequest
    BY RequestAt, GatewayAssumption DEF At, GatewayInv, RequestOK
  <2>2. snapshots \in Pool /\ GetSLAWeights(req[r].task.sla_class) \in SLAWeights
    BY <2>1, StoredIsPool, WeightsAreTyped DEF GatewayInv, GatewayTypeOK, TaskRequest
  <2> QED BY <2>2, Hysteresis
<1> QED BY <1>1, GatewayInvariant, PTL
----------------------------------------------------------------------------
(* Ranking by merit, over measurements that the units of scores tell apart. *)

SameMeasurements(s, t) ==
    /\ s.rtt_ms = t.rtt_ms
    /\ s.bandwidth_available_mbps = t.bandwidth_available_mbps
    /\ s.compute_utilization = t.compute_utilization
    /\ s.queue_depth = t.queue_depth
    /\ s.cost_per_1k_inferences_usd = t.cost_per_1k_inferences_usd

\* What is stored of a node was measured by some report.
Sourced == \A n \in DOMAIN snapshots : \E s \in Reports : SameMeasurements(snapshots[n], s)

LEMMA SourcedStep == GatewayInv /\ Sourced /\ [GatewayNext]_vars => Sourced'
<1> SUFFICES ASSUME GatewayInv, Sourced, [GatewayNext]_vars PROVE Sourced'
  OBVIOUS
<1>1. CASE UNCHANGED snapshots
  BY <1>1 DEF Sourced
<1>2. ASSUME NEW n \in Nodes, NEW s \in Reports, NEW t, RecordSnapshot(n, t),
             SameMeasurements(t, s)
      PROVE  Sourced'
  BY <1>2 DEF Sourced, RecordSnapshot
<1>3. ASSUME NEW n \in Nodes, NEW s \in StreamedReports[n], StreamTelemetry(n, s)
      PROVE  Sourced'
  <2>1. s \in Reports /\ s \in Snapshot
    BY GatewayAssumption DEF Reports
  <2>2. SameMeasurements(Streamed(s), s)
    BY <2>1 DEF SameMeasurements, Streamed, Snapshot
  <2> QED BY <1>2, <1>3, <2>1, <2>2 DEF StreamTelemetry
<1>4. ASSUME NEW n \in Nodes, NEW s \in PostedReports[n], RecordTelemetry(n, s)
      PROVE  Sourced'
  <2>1. s \in Reports /\ SameMeasurements(s, s)
    BY DEF Reports, SameMeasurements
  <2> QED BY <1>2, <1>4, <2>1 DEF RecordTelemetry
<1>5. CASE ProcessStep
  <2>1. ASSUME (\E imported \in BOOLEAN : Start(imported)) \/ Crash \/ LoseLease
               \/ SwitchEngine
               \/ \E c \in SLAClasses : \E w \in PostedWeights[c] : UpdateWeights(c, w)
        PROVE  UNCHANGED snapshots
    BY <2>1 DEF Start, Crash, LoseLease, SwitchEngine, UpdateWeights, LoseEngine,
       UpdateSLAProfiles, placementVars
  <2> QED BY <1>1, <1>3, <1>4, <1>5, <2>1 DEF ProcessStep
<1>6. CASE \E r \in Requests : HandlerStep(r) \/ \E task \in Tasks : Receive(r, task)
  <2>1. UNCHANGED placementVars
    BY <1>6 DEF HandlerStep, Receive, TelemetryUnavailable, Decide, EvaluationRaises,
       AppendShadowEvent, ShadowAppendFails, Authorize, CandidateExecutes,
       CandidateDeclines, DispatchRaises, Exhaust, Aggregate, AggregateFails, Answer
  <2> QED BY <1>1, <2>1 DEF placementVars
<1>7. CASE UNCHANGED vars
  BY <1>1, <1>7 DEF vars
<1> QED BY <1>5, <1>6, <1>7 DEF GatewayNext

\* Whatever is reported and whichever weights are set by the time a request is
\* decided, no candidate is ranked before an eligible one that is at least as good on
\* every measurement and better on one that counts (normalizer.py, scorer.py).
THEOREM RankingIsByMerit ==
    ASSUME UnitsResolve
    PROVE  GatewaySpec => []RanksByMerit
<1>1. GatewayInit => Sourced
  BY DEF GatewayInit, PlacementInit, Sourced
<1>2. GatewayInv /\ Sourced => RanksByMerit
  <2> SUFFICES ASSUME GatewayInv, Sourced, NEW r \in Requests, At(r, "received")
               PROVE  RankedByMerit(req[r].task, snapshots)
    BY DEF RanksByMerit
  <2>1. req[r].task \in TaskRequest
    BY RequestAt, GatewayAssumption DEF At, GatewayInv, RequestOK
  <2>2. snapshots \in Pool /\ GetSLAWeights(req[r].task.sla_class) \in SLAWeights
    BY <2>1, StoredIsPool, WeightsAreTyped DEF GatewayInv, GatewayTypeOK, TaskRequest
  <2>3. \A x, y \in DOMAIN snapshots : Resolved(snapshots[x], snapshots[y])
    BY DEF Sourced, SameMeasurements, UnitsResolve, Resolved
  <2> QED BY <2>2, <2>3, RankingByMerit
<1>3. GatewayInv /\ Sourced /\ [GatewayNext]_vars => Sourced'
  BY SourcedStep
<1> QED BY <1>1, <1>2, <1>3, GatewayInvariant, PTL DEF GatewaySpec
=============================================================================
