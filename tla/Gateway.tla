------------------------------- MODULE Gateway -------------------------------
(***************************************************************************)
(* The gateway process: POST /v1/tasks/infer from the placement decision   *)
(* through the dispatch to the audit event and the answer, with the other  *)
(* endpoints that change state, process deaths and restarts.               *)
(*                                                                         *)
(* The HTTP handlers are coroutines that await nothing, so the event loop  *)
(* runs one of them at a time, to its end; only the threads of the control *)
(* plane, which store telemetry, run beside it.  A request is one call of  *)
(* submit_inference_task, authenticated.  Dispatch and ledger are modelled *)
(* by what they do to the handler: TaskDispatch and AuditLedger open them. *)
(***************************************************************************)
EXTENDS Placement, FallbackChain

CONSTANTS
    Requests,
    Tasks,           \* what clients may ask for
    StreamedReports, \* [Nodes -> set of snapshots]: what agents may measure
    PostedReports,   \* the same for POST /v1/telemetry/snapshot
    PostedWeights,   \* [SLAClasses -> set of weights]: what an operator may set
    NodeZones,       \* [Nodes -> SUBSET Zones]: the zones nodes are configured with
    AssuredNodes     \* nodes that may report high assurance

ASSUME GatewayAssumption ==
    /\ Tasks \subseteq TaskRequest
    /\ StreamedReports \in [Nodes -> SUBSET Snapshot]
    /\ PostedReports \in [Nodes -> SUBSET Snapshot]
    /\ PostedWeights \in [SLAClasses -> SUBSET SLAWeights]
    /\ NodeZones \in [Nodes -> SUBSET Zones]
    /\ AssuredNodes \subseteq Nodes
    /\ \A n \in Nodes : \A s \in StreamedReports[n] \cup PostedReports[n] :
          /\ s.data_residency_zones = NodeZones[n]
          /\ s.assurance_level = "high_assurance" => n \in AssuredNodes

\* Where the policy lists a zone, it lists nodes that are in it, as
\* config/static_routing.yaml does.
ASSUME PolicyAssumption ==
    \A z \in DOMAIN residency_overrides : \A n \in Range(residency_overrides[z]) :
        z \in NodeZones[n]

VARIABLES
    app,     \* the process: up, app.state, and whether its scheduler leads
    req,     \* the local variables of each handler
    events   \* the audit trail that get_audit_trail returns

gatewayVars == <<app, req, events>>
vars == <<snapshots, custom_sla_profiles, app, req, events>>

\* received: before the telemetry is read.  shadowing: before the shadow event is
\* appended.  routed: before dispatch is called.  trying: in its candidate loop.
\* executed: it has returned a result.  recorded: the result is in the audit trail.
Active == {"received", "shadowing", "routed", "trying", "executed", "recorded"}

\* The answer 200; the 503 of an exhausted chain; the 500s of a scheduler that does
\* not lead, of another exception in dispatch, of the telemetry store, and of the
\* ledger before and after the execution; and no answer, the process died.
Ended == {"answered", "exhausted", "refused", "failed", "no_telemetry",
          "shadow_unaudited", "unaudited", "dead"}

Down == [up |-> FALSE, is_leader |-> FALSE, shadow_mode_enabled |-> FALSE,
         decision_engine_enabled |-> FALSE]

NoDecision == [chosen_node |-> CloudDefault, fallback_chain |-> <<>>,
               used_fallback_policy |-> FALSE]

Loop == {r \in Requests : req[r].pc \in Active}
EventLoopFree == app.up /\ Loop = {}
At(r, pc) == app.up /\ req[r].pc = pc
Goto(r, pc) == req' = [req EXCEPT ![r].pc = pc]

\* The candidate that dispatch() comes to next.
Candidate(r) == Chain(req[r].decision)[req[r].attempts + 1]

Event(r, shadow, d, node) ==
    [task_id |-> r, is_shadow_mode |-> shadow, decision |-> d, node_id |-> node,
     attempts |-> IF shadow THEN 1 ELSE req[r].attempts]

----------------------------------------------------------------------------
GatewayInit ==
    /\ PlacementInit
    /\ app = Down
    /\ req = [r \in Requests |->
                [pc |-> "new", task |-> None, decision |-> NoDecision,
                 shadow_decision |-> NoDecision, attempts |-> 0, ran_on |-> {}]]
    /\ events = <<>>

----------------------------------------------------------------------------
(* The process.                                                            *)

\* Loading server.py once makes one scheduler, which is elected.  Run as a script
\* it is loaded twice, by python and by uvicorn.run("server:app"), in one process
\* with one state store: the app that serves holds the second scheduler.
Start(imported) ==
    /\ ~app.up
    /\ \E shadow \in BOOLEAN :
         app' = [up |-> TRUE, is_leader |-> imported, shadow_mode_enabled |-> shadow,
                 decision_engine_enabled |-> TRUE]
    /\ UNCHANGED <<req, events, placementVars>>

\* The process dies, wherever its handler is.  The snapshots are in Redis, the
\* weights set at run time are not.
Crash ==
    /\ app.up
    /\ app' = Down
    /\ req' = [r \in Requests |-> IF r \in Loop THEN [req[r] EXCEPT !.pc = "dead"]
                                                ELSE req[r]]
    /\ LoseEngine
    /\ UNCHANGED events

\* Nothing renews the lease of the scheduler.
LoseLease ==
    /\ app.is_leader
    /\ app' = [app EXCEPT !.is_leader = FALSE]
    /\ UNCHANGED <<req, events, placementVars>>

\* app.state.decision_engine_enabled, which the demo and the tests set.
SwitchEngine ==
    /\ EventLoopFree
    /\ app' = [app EXCEPT !.decision_engine_enabled = ~@]
    /\ UNCHANGED <<req, events, placementVars>>

----------------------------------------------------------------------------
(* Telemetry and weights.                                                  *)

\* A thread of the control plane stores what an agent streams.
StreamTelemetry(n, s) ==
    /\ app.up
    /\ RecordSnapshot(n, Streamed(s))
    /\ UNCHANGED gatewayVars

RecordTelemetry(n, s) ==
    /\ EventLoopFree
    /\ RecordSnapshot(n, s)
    /\ UNCHANGED gatewayVars

UpdateWeights(sla_class, weights) ==
    /\ EventLoopFree
    /\ UpdateSLAProfiles(sla_class, weights)
    /\ UNCHANGED gatewayVars

----------------------------------------------------------------------------
(* submit_inference_task.                                                  *)

Receive(r, task) ==
    /\ EventLoopFree
    /\ req[r].pc = "new"
    /\ req' = [req EXCEPT ![r].pc = "received", ![r].task = task]
    /\ UNCHANGED <<app, events, placementVars>>

\* Redis does not answer, outside of every try.
TelemetryUnavailable(r) ==
    /\ At(r, "received")
    /\ Goto(r, "no_telemetry")
    /\ UNCHANGED <<app, events, placementVars>>

\* Fault: shadow mode routes by the decision it is meant to watch.
Route_Shadow(r, shadow) ==
    req' = [req EXCEPT
        ![r].pc = IF app.shadow_mode_enabled /\ shadow # NoDecision THEN "shadowing"
                                                                   ELSE "routed",
        ![r].shadow_decision = IF app.shadow_mode_enabled THEN shadow ELSE NoDecision,
        ![r].decision = IF shadow # NoDecision /\ app.decision_engine_enabled
                          THEN shadow ELSE GetStaticFallbackDecision(req[r].task)]

\* Which decision is acted on, given the engine's, if it made one.
Route(r, shadow) ==
    req' = [req EXCEPT
        ![r].pc = IF app.shadow_mode_enabled /\ shadow # NoDecision THEN "shadowing"
                                                                   ELSE "routed",
        ![r].shadow_decision = IF app.shadow_mode_enabled THEN shadow ELSE NoDecision,
        ![r].decision = IF /\ shadow # NoDecision
                           /\ ~app.shadow_mode_enabled
                           /\ app.decision_engine_enabled
                          THEN shadow ELSE GetStaticFallbackDecision(req[r].task)]

\* Read all snapshots, evaluate, choose.  The engine runs in every mode.
Decide(r) ==
    /\ At(r, "received")
    /\ Route(r, EvaluatePlacement(req[r].task, snapshots, None))
    /\ UNCHANGED <<app, events, placementVars>>

\* Fault: the exception is not caught.
EvaluationRaises_Uncaught(r) ==
    /\ At(r, "received")
    /\ Goto(r, "failed")
    /\ UNCHANGED <<app, events, placementVars>>

\* The engine raises instead.
EvaluationRaises(r) ==
    /\ At(r, "received")
    /\ Route(r, NoDecision)
    /\ UNCHANGED <<app, events, placementVars>>

\* The event says that the task has succeeded on node "none".
AppendShadowEvent(r) ==
    /\ At(r, "shadowing")
    /\ events' = Append(events, Event(r, TRUE, req[r].shadow_decision, None))
    /\ Goto(r, "routed")
    /\ UNCHANGED <<app, placementVars>>

ShadowAppendFails(r) ==
    /\ At(r, "shadowing")
    /\ Goto(r, "shadow_unaudited")
    /\ UNCHANGED <<app, events, placementVars>>

\* dispatch() begins with the lease check.
Authorize(r) ==
    /\ At(r, "routed")
    /\ Goto(r, IF app.is_leader THEN "trying" ELSE "refused")
    /\ UNCHANGED <<app, events, placementVars>>

\* The next candidate executes the task, and its answer arrives or is lost.
CandidateExecutes(r) ==
    /\ At(r, "trying")
    /\ req[r].attempts < Len(Chain(req[r].decision))
    /\ Candidate(r) \in Nodes
    /\ \E pc \in {"executed", "trying"} :
         req' = [req EXCEPT ![r].pc = pc, ![r].attempts = @ + 1,
                            ![r].ran_on = @ \cup {Candidate(r)}]
    /\ UNCHANGED <<app, events, placementVars>>

\* It has no address, cannot be reached, or turns the task down.
CandidateDeclines(r) ==
    /\ At(r, "trying")
    /\ req[r].attempts < Len(Chain(req[r].decision))
    /\ req' = [req EXCEPT ![r].attempts = @ + 1]
    /\ UNCHANGED <<app, events, placementVars>>

\* _get_stub loses its channel (TaskDispatch!SendTask).
DispatchRaises(r) ==
    /\ At(r, "trying")
    /\ req[r].attempts < Len(Chain(req[r].decision))
    /\ req' = [req EXCEPT ![r].pc = "failed", ![r].attempts = @ + 1]
    /\ UNCHANGED <<app, events, placementVars>>

\* Fault: the chain starts over.
Exhaust_StartsOver(r) ==
    /\ At(r, "trying")
    /\ req[r].attempts = Len(Chain(req[r].decision))
    /\ req' = [req EXCEPT ![r].attempts = 0]
    /\ UNCHANGED <<app, events, placementVars>>

Exhaust(r) ==
    /\ At(r, "trying")
    /\ req[r].attempts = Len(Chain(req[r].decision))
    /\ Goto(r, "exhausted")
    /\ UNCHANGED <<app, events, placementVars>>

Aggregate(r) ==
    /\ At(r, "executed")
    /\ LET node == Chain(req[r].decision)[req[r].attempts]
       IN events' = Append(events, Event(r, FALSE, req[r].decision, node))
    /\ Goto(r, "recorded")
    /\ UNCHANGED <<app, placementVars>>

Answer(r) ==
    /\ At(r, "recorded")
    /\ Goto(r, "answered")
    /\ UNCHANGED <<app, events, placementVars>>

\* Fault: the client gets its result without a record of it.
AggregateFails_Answers(r) ==
    /\ At(r, "executed")
    /\ Goto(r, "answered")
    /\ UNCHANGED <<app, events, placementVars>>

\* The ledger raises, outside of every try: the work is done, the answer is a 500.
AggregateFails(r) ==
    /\ At(r, "executed")
    /\ Goto(r, "unaudited")
    /\ UNCHANGED <<app, events, placementVars>>

----------------------------------------------------------------------------
ProcessStep ==
    \/ \E imported \in BOOLEAN : Start(imported)
    \/ Crash \/ LoseLease \/ SwitchEngine
    \/ \E c \in SLAClasses : \E w \in PostedWeights[c] : UpdateWeights(c, w)
    \/ \E n \in Nodes : \E s \in StreamedReports[n] : StreamTelemetry(n, s)
    \/ \E n \in Nodes : \E s \in PostedReports[n] : RecordTelemetry(n, s)

HandlerStep(r) ==
    \/ TelemetryUnavailable(r) \/ Decide(r) \/ EvaluationRaises(r)
    \/ AppendShadowEvent(r) \/ ShadowAppendFails(r)
    \/ Authorize(r) \/ CandidateExecutes(r) \/ CandidateDeclines(r)
    \/ DispatchRaises(r) \/ Exhaust(r)
    \/ Aggregate(r) \/ AggregateFails(r) \/ Answer(r)

GatewayNext ==
    \/ ProcessStep
    \/ \E r \in Requests : HandlerStep(r) \/ \E task \in Tasks : Receive(r, task)

GatewaySpec == GatewayInit /\ [][GatewayNext]_vars

\* A handler that runs goes on, since every RPC in it has a deadline.
FairGatewaySpec == GatewaySpec /\ \A r \in Requests : WF_vars(HandlerStep(r))

----------------------------------------------------------------------------
(* Properties.                                                             *)

RequestType == [pc : {"new"} \cup Active \cup Ended,
                task : Tasks \cup {None},
                decision : PlacementDecision,
                shadow_decision : PlacementDecision,
                attempts : Nat,
                ran_on : SUBSET Nodes]

EventType == [task_id : Requests,
              is_shadow_mode : BOOLEAN,
              decision : PlacementDecision,
              node_id : Nodes \cup {None},
              attempts : Nat]

GatewayTypeOK ==
    /\ PlacementTypeOK
    /\ app \in [up : BOOLEAN, is_leader : BOOLEAN,
                shadow_mode_enabled : BOOLEAN, decision_engine_enabled : BOOLEAN]
    /\ req \in [Requests -> RequestType]
    /\ events \in Seq(EventType)

Reports == UNION {StreamedReports[n] \cup PostedReports[n] : n \in Nodes}

\* The rounding of scores keeps what may be reported apart.
UnitsResolve == \A s, t \in Reports : Resolved(s, t)

\* Whatever was reported and whichever weights were set by the time a request is
\* decided, no candidate is ranked before one that is at least as good on every
\* measurement and better on one that counts, through normalization, inversion of
\* the bandwidth, weighting and sorting (normalizer.py, scorer.py).
RanksByMerit ==
    \A r \in Requests : At(r, "received") => RankedByMerit(req[r].task, snapshots)

\* Whichever incumbent the engine were given with these candidates, it keeps it
\* only within the margin of the best score and while it satisfies the task's
\* constraints, and drops it only for a node that beats it by the margin; but
\* where both score zero the smaller node id wins (engine.py:115-124).
IncumbentWithinMargin ==
    \A r \in Requests : At(r, "received") =>
        \A incumbent \in Nodes : IncumbentKept(req[r].task, snapshots, incumbent)

\* A task that must stay in a zone runs in it, in whichever mode, after whatever
\* reports, failures and fallbacks; the exception is the static chain for a zone
\* that the policy does not list (filter.py:60-69, engine.py:47-54).
ResidencyKept ==
    \A r \in Requests : \A n \in req[r].ran_on :
        LET zone == req[r].task.data_residency IN
        \/ zone = None
        \/ zone \in NodeZones[n]
        \/ req[r].decision.used_fallback_policy /\ zone \notin DOMAIN residency_overrides

\* A high-assurance task runs on a node that may claim that level, unless it was
\* routed by the static policy, which does not ask (filter.py:87-91).
AssuranceKept ==
    \A r \in Requests : \A n \in req[r].ran_on :
        req[r].task.required_assurance_level = "high_assurance"
          => n \in AssuredNodes \/ req[r].decision.used_fallback_policy

\* A task with a shadow event was routed by the static policy alone: what the
\* engine said of it neither chose a node nor appears in its real audit event
\* (app.py:162-175).
ShadowOnlyWatches ==
    \A i \in DOMAIN events :
        LET r == events[i].task_id IN
        events[i].is_shadow_mode =>
          /\ req[r].ran_on \subseteq Range(StaticChain(req[r].task))
          /\ \A j \in DOMAIN events : events[j].task_id = r /\ ~events[j].is_shadow_mode
               => events[j].decision = GetStaticFallbackDecision(req[r].task)

\* The audit trail agrees with what happened, wherever the ledger fails or the
\* process dies.  Who got an answer has one real event; a real event names a node
\* that executed the task, at the place in the chain that the attempts say, and its
\* request went on to the answer or died; a shadow event is the only one of its
\* kind and the first.  Work whose request ended otherwise, with an exhausted chain
\* or a 500, is in no real event (app.py:197-235).
AuditMatchesWork ==
    LET of(r, shadow) == {i \in DOMAIN events : events[i].task_id = r
                                                  /\ events[i].is_shadow_mode = shadow}
    IN \A r \in Requests :
         /\ req[r].pc = "answered" => of(r, FALSE) # {}
         /\ \A i \in of(r, FALSE) :
              /\ of(r, FALSE) = {i}
              /\ req[r].pc \in {"recorded", "answered", "dead"}
              /\ events[i].node_id \in req[r].ran_on
              /\ events[i].node_id = Chain(events[i].decision)[events[i].attempts]
         /\ \A i \in of(r, TRUE) :
              of(r, TRUE) = {i} /\ \A j \in of(r, FALSE) : i < j

\* No request is lost to the decision engine: whatever it does, off, failing or
\* without candidates, dispatch gets a chain and tries it.  What still stops a
\* request before any node is tried is the telemetry store, the ledger in shadow
\* mode, and a scheduler that does not lead (app.py:146-193).
FailsOpen ==
    \A r \in Requests :
        req[r].pc \in {"answered", "exhausted", "failed", "unaudited"}
            => req[r].attempts > 0

\* Every request that is taken up is answered, or its process dies.
RequestsEnd == \A r \in Requests : req[r].pc = "received" ~> req[r].pc \in Ended
=============================================================================
