--------------------------- MODULE TaskDispatch ---------------------------
(***************************************************************************)
(* A task on its way from TaskScheduler.dispatch() along the fallback      *)
(* chain to the nodes' ExecuteTask handlers and back, on top of the        *)
(* election of SchedulerLeader.                                            *)
(*                                                                         *)
(* A member of Calls is one call of dispatch(), with the thread that runs  *)
(* it.  A call sends at most one envelope to each node of its chain, so    *)
(* req[c][n] is the envelope call c sent to node n and the progress of the *)
(* handler thread that serves it.  Scheduler and node do not share fate:   *)
(* an RPC may fail for the caller at any time (deadline, broken or closed  *)
(* channel) while the handler goes on, and an envelope may be lost.        *)
(***************************************************************************)
EXTENDS SchedulerLeader, FallbackChain

CONSTANTS
    Nodes,
    Calls,
    Decisions,     \* PlacementDecisions: [chosen_node, fallback_chain]
    Keys,          \* idempotency keys
    IdempotencyKey,\* [Calls -> Keys]
    EnvelopeTTL,   \* expires_at - issue_time: max_latency plus 10 seconds, in ticks
    Static         \* [Instances -> SUBSET Nodes]: node_targets given to the constructor

ASSUME DispatchAssumption ==
    /\ Decisions \subseteq [chosen_node : Nodes, fallback_chain : Seq(Nodes)]
    /\ IdempotencyKey \in [Calls -> Keys]
    /\ EnvelopeTTL \in Nat
    /\ Static \in [Instances -> SUBSET Nodes]
    /\ None \notin Nodes

VARIABLES
    call,          \* the local variables of each call of dispatch()
    node_targets,  \* self.node_targets: nodes with a registered address
    channels,      \* self._channels: nodes with an open channel
    req,           \* progress of each envelope
    expires_at,    \* expiry of each envelope, 0 if never sent
    processed      \* worker._processed_idempotency_keys of each node

dispatchVars == <<call, node_targets, channels, req, expires_at, processed>>
vars == <<now, kv, leases, lease_id_counter, stage, lease_id, is_leader,
          call, node_targets, channels, req, expires_at, processed>>

\* next: at the head of the candidate loop.  stub: _get_stub has found or
\* opened the channel.  waiting: inside stub.ExecuteTask.  cancelled: the
\* channel was closed under it.  The rest are the ways the call can end:
\* result returned, FallbackExhaustionError, not the leader, another exception,
\* and the death of the scheduler.
Pending == {"next", "stub", "waiting", "cancelled"}
Ended == {"returned", "exhausted", "refused", "error", "dead"}

\* In flight; then the checks of ExecuteTask passed so far; then what became of
\* it.  executed and cached: a success was computed or found.  declined: the
\* handler aborted or answered failed or rejected.  dropped: it never will answer.
Finished == {"executed", "cached", "declined", "dropped"}
ReqStates == {"none", "sent", "verified", "admitted", "running"} \cup Finished
Ran == {"admitted", "running", "executed", "cached"}

Sched(c) == call[c].sched
Candidate(c) == call[c].chain[call[c].attempts]
Goto(c, pc) == call' = [call EXCEPT ![c].pc = pc]
Mark(c, n, st) == req' = [req EXCEPT ![c][n] = st]

----------------------------------------------------------------------------
DispatchInit ==
    /\ LeaderInit
    /\ call = [c \in Calls |->
                 [pc |-> "new", sched |-> None, chain |-> <<>>, attempts |-> 0,
                  fallback_activated |-> FALSE, unanswered |-> {}]]
    /\ node_targets = Static
    /\ channels = [s \in Instances |-> {}]
    /\ req = [c \in Calls |-> [n \in Nodes |-> "none"]]
    /\ expires_at = [c \in Calls |-> [n \in Nodes |-> 0]]
    /\ processed = [n \in Nodes |-> {}]

----------------------------------------------------------------------------
(* The scheduler's side: dispatch().                                       *)

Begin(c, s, d) ==
    /\ call[c].pc = "new"
    /\ AuthorizeDispatch(s)
    /\ call' = [call EXCEPT ![c].pc = IF MayDispatch(s) THEN "next" ELSE "refused",
                            ![c].sched = s,
                            ![c].chain = Chain(d)]
    /\ UNCHANGED <<node_targets, channels, req, expires_at, processed>>

\* The next iteration: count the attempt and look the channel up, or open one.
\* A candidate without an address is skipped.
TryCandidate(c) ==
    /\ call[c].pc = "next"
    /\ call[c].attempts < Len(call[c].chain)
    /\ LET s == Sched(c)
           n == call[c].chain[call[c].attempts + 1]
           reachable == n \in channels[s] \cup node_targets[s]
       IN /\ call' = [call EXCEPT ![c].pc = IF reachable THEN "stub" ELSE "next",
                                  ![c].attempts = @ + 1,
                                  ![c].fallback_activated = (call[c].attempts > 0)]
          /\ channels' = IF reachable
                           THEN [channels EXCEPT ![s] = @ \cup {n}]
                           ELSE channels
    /\ UNCHANGED <<leaderVars, node_targets, req, expires_at, processed>>

\* The chain is used up: FallbackExhaustionError.
Exhaust(c) ==
    /\ call[c].pc = "next"
    /\ call[c].attempts = Len(call[c].chain)
    /\ Goto(c, "exhausted")
    /\ UNCHANGED <<leaderVars, node_targets, channels, req, expires_at, processed>>

\* Read the channel back, build and sign the envelope, send it.  A channel
\* removed since TryCandidate is a KeyError, which dispatch does not catch.
SendTask(c) ==
    /\ call[c].pc = "stub"
    /\ LET n == Candidate(c) IN
       IF n \in channels[Sched(c)]
         THEN /\ Goto(c, "waiting")
              /\ Mark(c, n, "sent")
              /\ expires_at' = [expires_at EXCEPT ![c][n] = now + EnvelopeTTL]
         ELSE /\ Goto(c, "error")
              /\ UNCHANGED <<req, expires_at>>
    /\ UNCHANGED <<leaderVars, node_targets, channels, processed>>

\* Fault: the status inside the result is not looked at.
ReceiveSuccess_AnyStatus(c) ==
    /\ call[c].pc = "waiting"
    /\ req[c][Candidate(c)] \in {"executed", "cached", "declined"}
    /\ Goto(c, "returned")
    /\ UNCHANGED <<leaderVars, node_targets, channels, req, expires_at, processed>>

ReceiveSuccess(c) ==
    /\ call[c].pc = "waiting"
    /\ req[c][Candidate(c)] \in {"executed", "cached"}
    /\ Goto(c, "returned")
    /\ UNCHANGED <<leaderVars, node_targets, channels, req, expires_at, processed>>

\* The handler aborted, or the result says failed or rejected.
ReceiveDecline(c) ==
    /\ call[c].pc = "waiting"
    /\ req[c][Candidate(c)] = "declined"
    /\ Goto(c, "next")
    /\ UNCHANGED <<leaderVars, node_targets, channels, req, expires_at, processed>>

\* Fault: a failed attempt is not counted, the same candidate is tried again.
RpcFails_Retries(c) ==
    /\ call[c].pc \in {"waiting", "cancelled"}
    /\ call' = [call EXCEPT ![c].pc = "next",
                            ![c].attempts = @ - 1,
                            ![c].unanswered = @ \cup {Candidate(c)}]
    /\ UNCHANGED <<leaderVars, node_targets, channels, req, expires_at, processed>>

\* No usable answer: the deadline passed, the connection broke, the channel was
\* closed, or the result did not unpack.  The handler, if there is one, does not
\* notice.
RpcFails(c) ==
    /\ call[c].pc \in {"waiting", "cancelled"}
    /\ call' = [call EXCEPT ![c].pc = "next",
                            ![c].unanswered = @ \cup {Candidate(c)}]
    /\ UNCHANGED <<leaderVars, node_targets, channels, req, expires_at, processed>>

\* register_worker, called from the gateway's RegisterNode thread: store the
\* address, close and forget the old channel.  Calls waiting on it are cancelled.
RegisterWorker(s, n) ==
    /\ stage[s] = "ready"
    /\ node_targets' = [node_targets EXCEPT ![s] = @ \cup {n}]
    /\ channels' = [channels EXCEPT ![s] = @ \ {n}]
    /\ call' = [c \in Calls |->
                  IF call[c].pc = "waiting" /\ Sched(c) = s /\ Candidate(c) = n
                    THEN [call[c] EXCEPT !.pc = "cancelled"]
                    ELSE call[c]]
    /\ UNCHANGED <<leaderVars, req, expires_at, processed>>

StopScheduler(s) ==
    /\ Stop(s)
    /\ call' = [c \in Calls |-> IF call[c].pc \in Pending /\ Sched(c) = s
                                  THEN [call[c] EXCEPT !.pc = "dead"]
                                  ELSE call[c]]
    /\ UNCHANGED <<node_targets, channels, req, expires_at, processed>>

----------------------------------------------------------------------------
(* The node's side: ExecuteTask, each shared object it reads a step.       *)

\* Fault: a forged envelope ends in a state of its own that nobody answers.
VerifySignature_Unanswered(c, n) ==
    /\ req[c][n] = "sent"
    /\ LET genuine == kv[IdentityKey(SchedulerId[Sched(c)])] = Sched(c)
       IN Mark(c, n, IF genuine THEN "verified" ELSE "forged")
    /\ UNCHANGED <<leaderVars, call, node_targets, channels, expires_at, processed>>

\* The signature is checked against the key now published under key_id.
VerifySignature(c, n) ==
    /\ req[c][n] = "sent"
    /\ LET genuine == kv[IdentityKey(SchedulerId[Sched(c)])] = Sched(c)
       IN Mark(c, n, IF genuine THEN "verified" ELSE "declined")
    /\ UNCHANGED <<leaderVars, call, node_targets, channels, expires_at, processed>>

\* Fault: the envelope's own expiry is taken for the leader's.
CheckFreshness_NoLease(c, n) ==
    /\ req[c][n] = "verified"
    /\ Mark(c, n, IF now > expires_at[c][n] THEN "declined" ELSE "admitted")
    /\ UNCHANGED <<leaderVars, call, node_targets, channels, expires_at, processed>>

\* Fault: a task under a live lease keeps that lease alive.
CheckFreshness_Renews(c, n) ==
    /\ req[c][n] = "verified"
    /\ LET l == lease_id[Sched(c)] IN
       /\ Mark(c, n, IF Etcd!LeaseLive(l) THEN "admitted" ELSE "declined")
       /\ leases' = [m \in DOMAIN leases |-> IF m = l THEN now + LeaseTTL ELSE leases[m]]
    /\ UNCHANGED <<now, kv, lease_id_counter, stage, lease_id, is_leader>>
    /\ UNCHANGED <<call, node_targets, channels, expires_at, processed>>

\* expires_at, and only then the lease named in the envelope.
CheckFreshness(c, n) ==
    /\ req[c][n] = "verified"
    /\ LET l == lease_id[Sched(c)] IN
       IF now > expires_at[c][n]
         THEN Mark(c, n, "declined") /\ UNCHANGED etcdVars
         ELSE /\ Mark(c, n, IF Etcd!LeaseLive(l) THEN "admitted" ELSE "declined")
              /\ Etcd!IsLeaseValid(l)
    /\ UNCHANGED <<stage, lease_id, is_leader>>
    /\ UNCHANGED <<call, node_targets, channels, expires_at, processed>>

\* worker.execute: the cache first; on a miss the health flags and the artifact
\* checks, which may turn the task down.
LookUp(c, n) ==
    /\ req[c][n] = "admitted"
    /\ IF IdempotencyKey[c] \in processed[n]
         THEN Mark(c, n, "cached")
         ELSE \E st \in {"running", "declined"} : Mark(c, n, st)
    /\ UNCHANGED <<leaderVars, call, node_targets, channels, expires_at, processed>>

Complete(c, n) ==
    /\ req[c][n] = "running"
    /\ Mark(c, n, "executed")
    /\ processed' = [processed EXCEPT ![n] = @ \cup {IdempotencyKey[c]}]
    /\ UNCHANGED <<leaderVars, call, node_targets, channels, expires_at>>

\* The envelope is lost, or its handler never starts.
LoseEnvelope(c, n) ==
    /\ req[c][n] = "sent"
    /\ Mark(c, n, "dropped")
    /\ UNCHANGED <<leaderVars, call, node_targets, channels, expires_at, processed>>

\* The node agent restarts: handlers die, the idempotency cache is empty again.
RestartNode(n) ==
    /\ req' = [c \in Calls |->
                 [req[c] EXCEPT ![n] = IF @ \in {"verified", "admitted", "running"}
                                         THEN "dropped" ELSE @]]
    /\ processed' = [processed EXCEPT ![n] = {}]
    /\ UNCHANGED <<leaderVars, call, node_targets, channels, expires_at>>

----------------------------------------------------------------------------
ElectionStep ==
    /\ \/ Tick
       \/ \E s \in Instances :
            AcquireLease(s) \/ Campaign(s) \/ PublishIdentity(s) \/ RevokeLease(s)
    /\ UNCHANGED dispatchVars

DispatchStep(c) ==
    \/ TryCandidate(c) \/ Exhaust(c) \/ SendTask(c)
    \/ ReceiveSuccess(c) \/ ReceiveDecline(c) \/ RpcFails(c)

HandlerStep(c, n) ==
    VerifySignature(c, n) \/ CheckFreshness(c, n) \/ LookUp(c, n) \/ Complete(c, n)

DispatchNext ==
    \/ ElectionStep
    \/ \E c \in Calls, s \in Instances, d \in Decisions : Begin(c, s, d)
    \/ \E c \in Calls : DispatchStep(c)
    \/ \E s \in Instances, n \in Nodes : RegisterWorker(s, n)
    \/ \E s \in Instances : StopScheduler(s)
    \/ \E c \in Calls, n \in Nodes : HandlerStep(c, n) \/ LoseEnvelope(c, n)
    \/ \E n \in Nodes : RestartNode(n)

DispatchSpec == DispatchInit /\ [][DispatchNext]_vars

\* The thread of a call keeps running, and every RPC has a deadline, so it
\* answers or fails.  Nothing is assumed of the nodes.
FairDispatchSpec == DispatchSpec /\ \A c \in Calls : WF_vars(DispatchStep(c))

----------------------------------------------------------------------------
(* Properties.                                                             *)

CallType == [pc : {"new"} \cup Pending \cup Ended,
             sched : Instances \cup {None},
             chain : Seq(Nodes),
             attempts : Nat,
             fallback_activated : BOOLEAN,
             unanswered : SUBSET Nodes]

DispatchTypeOK ==
    /\ call \in [Calls -> CallType]
    /\ node_targets \in [Instances -> SUBSET Nodes]
    /\ channels \in [Instances -> SUBSET Nodes]
    /\ req \in [Calls -> [Nodes -> ReqStates]]
    /\ expires_at \in [Calls -> [Nodes -> Nat]]
    /\ processed \in [Nodes -> SUBSET Keys]

\* A call is past the leadership check.
Authorized(c) == call[c].pc \notin {"new", "refused"}

\* Every task envelope the nodes ever see comes from one scheduler object: no
\* interleaving of elections, lease losses, stops and dispatches lets two
\* objects authorize work, even one long after the other (dispatcher.py:107-112).
OneAuthority ==
    \A c, d \in Calls : Authorized(c) /\ Authorized(d) => Sched(c) = Sched(d)

\* A scheduler that has lost its lease cannot get work done any more: an
\* envelope that no node had admitted by then, sent before or after the loss,
\* is never admitted (grpc_server.py:76-78), for all that dispatch does not
\* look at the lease again between candidates.
StaleLeaderFenced ==
    \A c \in Calls, n \in Nodes :
        []( (Authorized(c) /\ ~Etcd!LeaseLive(lease_id[Sched(c)]) /\ req[c][n] \notin Ran)
             => [](req[c][n] \notin Ran) )

\* What dispatch reports agrees with what the nodes did.  A result comes from a
\* node that has it, after as many attempts as its position in the chain; and
\* when a call moves past a node that has the result, or ends without one, the
\* node's answer was lost to it: falling back after an answered failure never
\* follows a success.
OutcomeMatchesNodes ==
    \A c \in Calls :
      /\ call[c].pc = "returned" =>
           /\ req[c][Candidate(c)] \in {"executed", "cached"}
           /\ call[c].fallback_activated = (call[c].attempts > 1)
      /\ \A n \in Nodes : req[c][n] \in {"executed", "cached"} =>
           \/ n \in call[c].unanswered
           \/ call[c].pc \in {"waiting", "cancelled", "returned", "dead"}
                /\ n = Candidate(c)

\* No node gets the same task twice from one call, wherever the chosen node
\* also occurs in the fallback chain (dispatcher.py:114-119).
EachNodeTriedOnce ==
    [][\A c \in Calls : call[c].pc = "stub" /\ call'[c].pc = "waiting"
                           => req[c][Candidate(c)] = "none"]_vars

\* Every call of dispatch comes to an end: with a result, an exception, or its
\* process.
DispatchEnds == \A c \in Calls : call[c].pc \in Pending ~> call[c].pc \in Ended

\* One idempotency key, one execution (architecture document, 7.4).
AtMostOncePerKey ==
    \A c, d \in Calls, m, n \in Nodes :
        /\ IdempotencyKey[c] = IdempotencyKey[d]
        /\ req[c][m] = "executed"
        /\ req[d][n] = "executed"
        => c = d /\ m = n

\* dispatch returns a result or raises one of its two own exceptions, so a node
\* that cannot be reached means the next candidate (architecture document, 6.5).
OnlyDocumentedOutcomes == \A c \in Calls : call[c].pc # "error"

\* The scheduler's part of every step is a step of the election.
ElectionSpec == LeaderSpec
=============================================================================
