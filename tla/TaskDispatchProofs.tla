------------------------- MODULE TaskDispatchProofs -------------------------
(***************************************************************************)
(* Dispatch under leadership, for any number of schedulers, nodes, calls   *)
(* and fallback chains: the dispatch layer respects the election, one      *)
(* scheduler object is behind everything the nodes are sent, and a         *)
(* scheduler without its lease gets nothing done.                          *)
(***************************************************************************)
EXTENDS TaskDispatch, SchedulerLeaderProofs, WellFoundedInduction

----------------------------------------------------------------------------
(* The inductive invariant, without the election's own.                    *)

\* A call that waits on a candidate is inside its chain.
InChain ==
    \A c \in Calls : call[c].pc \in {"stub", "waiting", "cancelled"} =>
        call[c].attempts \in 1..Len(call[c].chain)

\* An envelope exists only for an authorized call, and an authorized call has a
\* scheduler whose constructor has finished.
CallsOK ==
    /\ \A c \in Calls : Authorized(c) =>
         Sched(c) \in Instances /\ stage[Sched(c)] \in {"ready", "stopped"}
    /\ \A c \in Calls, n \in Nodes : req[c][n] # "none" => Authorized(c)

\* Whoever authorized a call was elected: the leader key is taken for good and
\* nobody else leads.
Authority ==
    \A c \in Calls : Authorized(c) =>
        /\ kv[LeaderKey] # None
        /\ \A t \in Instances : is_leader[t] => t = Sched(c)

DispatchSafe ==
    /\ LeaderSafe
    /\ DispatchTypeOK
    /\ InChain
    /\ CallsOK
    /\ Authority
    /\ OneAuthority

\* A call that waits on a candidate waits on a node.
LEMMA CandidateInNodes ==
  ASSUME DispatchTypeOK, InChain, NEW c \in Calls,
         call[c].pc \in {"stub", "waiting", "cancelled"}
  PROVE  Candidate(c) \in Nodes
<1>1. call[c].chain \in Seq(Nodes) /\ call[c].attempts \in 1..Len(call[c].chain)
  BY DEF DispatchTypeOK, CallType, InChain
<1> QED
  BY <1>1 DEF Candidate

----------------------------------------------------------------------------
(* The fallback chain.                                                     *)

\* Every non-empty set of natural numbers has a smallest element.
LEMMA Smallest ==
  ASSUME NEW S \in SUBSET Nat, S # {}
  PROVE  \E x \in S : \A y \in S : x <= y
<1> DEFINE R == {p \in Nat \X Nat : p[1] < p[2]}
<1>1. IsWellFoundedOn(R, Nat)
  BY NatLessThanWellFounded DEF OpToRel
<1>2. \A x, y \in Nat : <<y, x>> \in R <=> y < x
  OBVIOUS
<1> HIDE DEF R
<1>3. \E x \in S : \A y \in S : ~ (<<y, x>> \in R)
  BY <1>1, WFMin
<1>4. \A x \in S : x \in Nat
  OBVIOUS
<1>5. \A x, y \in S : ~(y < x) => x <= y
  BY <1>4
<1> QED
  BY <1>2, <1>3, <1>4, <1>5

\* The sequences of nodes without repetition.
Distinct(q) == \A i, j \in 1..Len(q) : q[i] = q[j] => i = j
Routes == {q \in Seq(Nodes) : Distinct(q)}

\* Extending such a sequence gives one.
LEMMA ExtendedRoute ==
  ASSUME NEW q \in Routes, NEW n \in Nodes
  PROVE  Extended(q, n) \in Routes
<1>1. q \in Seq(Nodes) /\ Distinct(q)
  BY DEF Routes
<1>2. CASE n \in Range(q)
  BY <1>2 DEF Extended
<1>3. CASE n \notin Range(q)
  <2> DEFINE w == Append(q, n)
  <2>1. Extended(q, n) = w
    BY <1>3 DEF Extended
  <2>2. /\ w \in Seq(Nodes) /\ Len(w) = Len(q) + 1 /\ w[Len(q) + 1] = n
        /\ \A i \in 1..Len(q) : w[i] = q[i]
    BY <1>1
  <2>3. \A i \in 1..Len(q) : q[i] # n
    BY <1>1, <1>3 DEF Range
  <2> HIDE DEF w
  <2>4. ASSUME NEW i \in 1..Len(w), NEW j \in 1..Len(w), w[i] = w[j]
        PROVE  i = j
    <3>1. (i \in 1..Len(q) \/ i = Len(q) + 1) /\ (j \in 1..Len(q) \/ j = Len(q) + 1)
      BY <1>1, <2>2
    <3> QED
      BY <1>1, <2>2, <2>3, <2>4, <3>1 DEF Distinct
  <2> QED
    BY <2>1, <2>2, <2>4 DEF Routes, Distinct
<1> QED
  BY <1>2, <1>3

\* The loop over the fallback nodes: it gets as far as any k of them, and what it
\* has then is a sequence of nodes without repetition.
LEMMA ChainIsRoute ==
  ASSUME NEW d \in Decisions
  PROVE  Chain(d) \in Routes
<1> DEFINE f == d.fallback_chain
           Builds(g, k) == g = [i \in 0..k |-> IF i = 0 THEN <<d.chosen_node>>
                                             ELSE Extended(g[i - 1], f[i])]
           chain == CHOOSE g : Builds(g, Len(f))
<1>1. d.chosen_node \in Nodes /\ f \in Seq(Nodes) /\ Len(f) \in Nat
  BY DispatchAssumption
<1> HIDE DEF f
<1>2. \A k \in Nat : \E g : Builds(g, k)
  <2> DEFINE Stuck == {k \in Nat : ~\E g : Builds(g, k)}
  <2> SUFFICES ASSUME Stuck # {} PROVE FALSE
    OBVIOUS
  <2>1. PICK k \in Nat : (~\E g : Builds(g, k)) /\ \A j \in Nat : j < k => \E g : Builds(g, j)
    <3>1. PICK k \in Stuck : \A j \in Stuck : k <= j
      <4>1. Stuck \in SUBSET Nat
        OBVIOUS
      <4> HIDE DEF Stuck
      <4> QED
        BY <4>1, Smallest
    <3>2. ASSUME NEW j \in Nat, j < k PROVE \E g : Builds(g, j)
      <4>1. j \notin Stuck
        <5>1. k \in Nat
          OBVIOUS
        <5> HIDE DEF Stuck
        <5> QED
          BY <3>1, <3>2, <5>1
      <4> HIDE DEF Builds
      <4> QED
        BY <4>1
    <3> QED
      BY <3>1, <3>2
  <2>2. CASE k = 0
    <3>1. Builds([i \in 0..0 |-> <<d.chosen_node>>], 0)
      OBVIOUS
    <3> QED
      BY <2>1, <2>2, <3>1
  <2>3. CASE k # 0
    <3>1. PICK g : Builds(g, k - 1)
      <4>1. k - 1 \in Nat /\ k - 1 < k
        BY <2>3
      <4> HIDE DEF Builds
      <4> QED
        BY <2>1, <4>1
    <3> DEFINE h == [i \in 0..k |-> IF i = k THEN Extended(g[k - 1], f[k]) ELSE g[i]]
    <3>2. ASSUME NEW i \in 0..k
          PROVE  h[i] = IF i = 0 THEN <<d.chosen_node>> ELSE Extended(h[i - 1], f[i])
      BY <2>3, <3>1
    <3>3. Builds(h, k)
      BY <3>2
    <3> QED
      BY <2>1, <3>3
  <2> QED
    BY <2>2, <2>3
<1>3. Builds(chain, Len(f))
  <2>1. \E g : Builds(g, Len(f))
    BY <1>1, <1>2
  <2> HIDE DEF Builds
  <2> QED
    BY <2>1, Zenon
<1>4. Chain(d) = chain[Len(f)]
  BY DEF Chain, f
<1> HIDE DEF chain
<1>5. ASSUME NEW i \in 0..Len(f)
      PROVE  chain[i] = IF i = 0 THEN <<d.chosen_node>> ELSE Extended(chain[i - 1], f[i])
  BY <1>3
<1>6. \A i \in 0..Len(f) : chain[i] \in Routes
  <2> DEFINE Bad == {i \in 0..Len(f) : chain[i] \notin Routes}
  <2> SUFFICES ASSUME Bad # {} PROVE FALSE
    OBVIOUS
  <2>1. PICK i \in Bad : \A j \in Bad : i <= j
    <3>1. Bad \in SUBSET Nat
      BY <1>1
    <3> HIDE DEF Bad
    <3> QED
      BY <3>1, Smallest
  <2>2. CASE i = 0
    <3>1. chain[0] = <<d.chosen_node>>
      BY <1>1, <1>5
    <3>2. <<d.chosen_node>> \in Seq(Nodes) /\ Len(<<d.chosen_node>>) = 1
      BY <1>1
    <3>3. chain[0] \in Routes
      BY <3>1, <3>2 DEF Routes, Distinct
    <3> QED
      BY <2>1, <2>2, <3>3
  <2>3. CASE i # 0
    <3>1. i - 1 \in 0..Len(f) /\ f[i] \in Nodes /\ i - 1 < i
      BY <1>1, <2>1, <2>3
    <3>2. chain[i - 1] \in Routes
      BY <1>1, <2>1, <3>1
    <3> QED
      BY <1>5, <2>1, <2>3, <3>1, <3>2, ExtendedRoute
  <2> QED
    BY <2>2, <2>3
<1> QED
  BY <1>1, <1>4, <1>6

----------------------------------------------------------------------------
(* Every step of dispatch is a step of the election.                       *)

\* A node's lease check is no more to the election than the removal of an
\* expired lease, which RevokeLease allows at any time, or nothing.
LEMMA CheckFreshnessLeases ==
  ASSUME LeaderSafe, NEW c \in Calls, NEW n \in Nodes, CheckFreshness(c, n),
         Sched(c) \in Instances
  PROVE  [LeaderNext]_leaderVars
<1> DEFINE s == Sched(c)
<1>1. UNCHANGED <<now, kv, lease_id_counter, stage, lease_id, is_leader>>
  BY DEF CheckFreshness, Etcd!IsLeaseValid, etcdVars
<1>2. CASE UNCHANGED leases
  BY <1>1, <1>2 DEF leaderVars
<1>3. CASE leases' # leases
  <2>1. Etcd!Sweep(lease_id[s])
    BY <1>3 DEF CheckFreshness, Etcd!IsLeaseValid, etcdVars
  <2>2. lease_id[s] \in DOMAIN leases /\ ~Etcd!LeaseLive(lease_id[s])
    <3> SUFFICES ASSUME lease_id[s] \in DOMAIN leases => Etcd!LeaseLive(lease_id[s])
                 PROVE  FALSE
      OBVIOUS
    <3>1. {m \in DOMAIN leases : m = lease_id[s] => Etcd!LeaseLive(m)} = DOMAIN leases
      OBVIOUS
    <3>2. leases' = [m \in DOMAIN leases |-> leases[m]]
      BY <2>1, <3>1 DEF Etcd!Sweep
    <3> QED
      BY <3>2, <1>3 DEF LeaderSafe, Etcd!EtcdTypeOK
  <2>3. {m \in DOMAIN leases : m = lease_id[s] => Etcd!LeaseLive(m)}
          = DOMAIN leases \ {lease_id[s]}
    BY <2>2
  <2>4. Etcd!RevokeLease(lease_id[s])
    BY <2>1, <2>3, <1>1 DEF Etcd!Sweep, Etcd!RevokeLease
  <2>5. RevokeLease(s)
    BY <2>2, <2>4, <1>1 DEF RevokeLease
  <2> QED
    BY <2>5 DEF LeaderNext
<1> QED
  BY <1>2, <1>3

\* Every step of schedulers and nodes is a step of the election or leaves it alone.
LEMMA DispatchRespectsElection ==
  ASSUME LeaderSafe, CallsOK, DispatchTypeOK, [DispatchNext]_vars
  PROVE  [LeaderNext]_leaderVars
<1>1. CASE ElectionStep
  BY <1>1 DEF ElectionStep, LeaderNext
<1>2. ASSUME NEW c \in Calls, NEW s \in Instances, NEW d \in Decisions, Begin(c, s, d)
      PROVE  [LeaderNext]_leaderVars
  BY <1>2 DEF Begin, LeaderNext
<1>3. ASSUME NEW c \in Calls, DispatchStep(c)
      PROVE  UNCHANGED leaderVars
  BY <1>3 DEF DispatchStep, TryCandidate, Exhaust, SendTask, ReceiveSuccess,
              ReceiveDecline, RpcFails
<1>4. ASSUME NEW s \in Instances, NEW n \in Nodes, RegisterWorker(s, n)
      PROVE  UNCHANGED leaderVars
  BY <1>4 DEF RegisterWorker
<1>5. ASSUME NEW s \in Instances, StopScheduler(s)
      PROVE  [LeaderNext]_leaderVars
  BY <1>5 DEF StopScheduler, LeaderNext
<1>6. ASSUME NEW c \in Calls, NEW n \in Nodes, HandlerStep(c, n)
      PROVE  [LeaderNext]_leaderVars
  <2>1. CASE VerifySignature(c, n) \/ LookUp(c, n) \/ Complete(c, n)
    BY <2>1 DEF VerifySignature, LookUp, Complete
  <2>2. CASE CheckFreshness(c, n)
    <3>1. Sched(c) \in Instances
      BY <2>2 DEF CheckFreshness, CallsOK
    <3> QED
      BY <2>2, <3>1, CheckFreshnessLeases
  <2> QED
    BY <1>6, <2>1, <2>2 DEF HandlerStep
<1>7. ASSUME NEW c \in Calls, NEW n \in Nodes, LoseEnvelope(c, n)
      PROVE  UNCHANGED leaderVars
  BY <1>7 DEF LoseEnvelope
<1>8. ASSUME NEW n \in Nodes, RestartNode(n)
      PROVE  UNCHANGED leaderVars
  BY <1>8 DEF RestartNode
<1>9. CASE UNCHANGED vars
  BY <1>9 DEF vars, leaderVars
<1> QED
  BY <1>1, <1>2, <1>3, <1>4, <1>5, <1>6, <1>7, <1>8, <1>9 DEF DispatchNext

----------------------------------------------------------------------------
(* Typing of the dispatch layer, and the position in the chain.            *)

\* Replacing the record of one call by a well-typed one.
LEMMA CallUpdate ==
  ASSUME call \in [Calls -> CallType], NEW c \in Calls, NEW r \in CallType,
         call' = [call EXCEPT ![c] = r]
  PROVE  /\ call' \in [Calls -> CallType]
         /\ call'[c] = r
         /\ \A d \in Calls : d # c => call'[d] = call[d]
  OBVIOUS

\* Moving the program counter of a call keeps the rest of its record.
LEMMA PcUpdate ==
  ASSUME NEW r \in CallType, NEW p \in {"new"} \cup Pending \cup Ended
  PROVE  /\ [r EXCEPT !.pc = p] \in CallType
         /\ [r EXCEPT !.pc = p].pc = p
         /\ [r EXCEPT !.pc = p].sched = r.sched
         /\ [r EXCEPT !.pc = p].chain = r.chain
         /\ [r EXCEPT !.pc = p].attempts = r.attempts
         /\ [r EXCEPT !.pc = p].unanswered = r.unanswered
  BY DEF CallType

\* Marking one envelope keeps req well typed and the other envelopes as they are.
LEMMA ReqUpdate ==
  ASSUME req \in [Calls -> [Nodes -> ReqStates]], NEW c \in Calls, NEW n \in Nodes,
         NEW st \in ReqStates, Mark(c, n, st)
  PROVE  /\ req' \in [Calls -> [Nodes -> ReqStates]]
         /\ req'[c][n] = st
         /\ \A d \in Calls, m \in Nodes : d # c \/ m # n => req'[d][m] = req[d][m]
  BY DEF Mark

\* A step that only moves a call forward keeps the calls typed and in their chains.
LEMMA GotoTyping ==
  ASSUME DispatchTypeOK, InChain, NEW c \in Calls,
         NEW p \in {"new"} \cup Pending \cup Ended, Goto(c, p),
         p \in {"stub", "waiting", "cancelled"} =>
           call[c].pc \in {"stub", "waiting", "cancelled"}
  PROVE  call' \in [Calls -> CallType] /\ InChain'
<1> DEFINE r == [call[c] EXCEPT !.pc = p]
<1>1. call[c] \in CallType
  BY DEF DispatchTypeOK
<1>2. /\ r \in CallType
      /\ r.pc = p /\ r.chain = call[c].chain /\ r.attempts = call[c].attempts
  BY <1>1, PcUpdate
<1>3. call' = [call EXCEPT ![c] = r]
  BY DEF Goto
<1> HIDE DEF r
<1>4. /\ call' \in [Calls -> CallType]
      /\ call'[c] = r
      /\ \A d \in Calls : d # c => call'[d] = call[d]
  BY <1>2, <1>3, CallUpdate DEF DispatchTypeOK
<1> QED
  BY <1>2, <1>4 DEF InChain

\* The dispatch loop keeps the typing and the position in the chain.
LEMMA TypingSchedulerStep ==
  ASSUME DispatchTypeOK, InChain, Etcd!EtcdTypeOK, NEW c \in Calls, DispatchStep(c)
  PROVE  DispatchTypeOK' /\ InChain'
<1>0. call[c] \in CallType
  BY DEF DispatchTypeOK
<1>1. CASE TryCandidate(c)
  <2> DEFINE s == Sched(c)
             n == call[c].chain[call[c].attempts + 1]
             p == IF n \in channels[s] \cup node_targets[s] THEN "stub" ELSE "next"
             b == call[c].attempts > 0
             r == [call[c] EXCEPT !.pc = p, !.attempts = call[c].attempts + 1,
                                  !.fallback_activated = b]
  <2>1. call[c].attempts + 1 \in 1..Len(call[c].chain) /\ n \in Nodes
    BY <1>0, <1>1 DEF TryCandidate, CallType
  <2>2. /\ r \in CallType
        /\ r.attempts = call[c].attempts + 1 /\ r.chain = call[c].chain
    <3>1. p \in Pending /\ b \in BOOLEAN /\ call[c].attempts + 1 \in Nat
      BY <1>0 DEF CallType, Pending
    <3> HIDE DEF p, b
    <3>2. r.attempts = call[c].attempts + 1 /\ r.chain = call[c].chain
      BY <1>0 DEF CallType
    <3>3. r \in CallType
      BY <1>0, <3>1, Zenon DEF CallType
    <3> QED
      BY <3>2, <3>3
  <2>3. call' = [call EXCEPT ![c] = r]
    BY <1>1, Zenon DEF TryCandidate
  <2>4. channels' \in [Instances -> SUBSET Nodes]
    BY <1>1, <2>1 DEF TryCandidate, DispatchTypeOK
  <2> HIDE DEF r
  <2>5. /\ call' \in [Calls -> CallType]
        /\ call'[c] = r
        /\ \A d \in Calls : d # c => call'[d] = call[d]
    BY <2>2, <2>3, CallUpdate DEF DispatchTypeOK
  <2>6. InChain'
    BY <2>1, <2>2, <2>5 DEF InChain
  <2> QED
    BY <1>1, <2>4, <2>5, <2>6 DEF TryCandidate, DispatchTypeOK
<1>2. CASE Exhaust(c)
  BY <1>2, GotoTyping DEF Exhaust, DispatchTypeOK, Ended
<1>3. CASE SendTask(c)
  <2>1. Candidate(c) \in Nodes
    BY <1>3, CandidateInNodes DEF SendTask
  <2>2. CASE Candidate(c) \in channels[Sched(c)]
    <3>1. Goto(c, "waiting") /\ Mark(c, Candidate(c), "sent")
      BY <1>3, <2>2 DEF SendTask
    <3>2. call' \in [Calls -> CallType] /\ InChain'
      BY <1>3, <3>1, GotoTyping DEF SendTask, Pending
    <3>3. req' \in [Calls -> [Nodes -> ReqStates]]
      BY <2>1, <3>1, ReqUpdate DEF DispatchTypeOK, ReqStates
    <3>4. now + EnvelopeTTL \in Nat
      BY DispatchAssumption DEF Etcd!EtcdTypeOK
    <3>5. expires_at' \in [Calls -> [Nodes -> Nat]]
      BY <1>3, <2>1, <2>2, <3>4 DEF SendTask, DispatchTypeOK
    <3> QED
      BY <1>3, <3>2, <3>3, <3>5 DEF SendTask, DispatchTypeOK
  <2>3. CASE Candidate(c) \notin channels[Sched(c)]
    <3>1. Goto(c, "error") /\ UNCHANGED <<req, expires_at>>
      BY <1>3, <2>3 DEF SendTask
    <3>2. call' \in [Calls -> CallType] /\ InChain'
      BY <3>1, GotoTyping DEF Ended
    <3> QED
      BY <1>3, <3>1, <3>2 DEF SendTask, DispatchTypeOK
  <2> QED
    BY <2>2, <2>3
<1>4. CASE ReceiveSuccess(c)
  BY <1>4, GotoTyping DEF ReceiveSuccess, DispatchTypeOK, Ended
<1>5. CASE ReceiveDecline(c)
  BY <1>5, GotoTyping DEF ReceiveDecline, DispatchTypeOK, Pending
<1>6. CASE RpcFails(c)
  <2> DEFINE r == [call[c] EXCEPT !.pc = "next",
                                  !.unanswered = call[c].unanswered \cup {Candidate(c)}]
  <2>1. Candidate(c) \in Nodes
    BY <1>6, CandidateInNodes DEF RpcFails
  <2>2. r \in CallType /\ r.pc = "next"
    BY <1>0, <2>1 DEF CallType, Pending
  <2>3. call' = [call EXCEPT ![c] = r]
    BY <1>6 DEF RpcFails
  <2> HIDE DEF r
  <2>4. /\ call' \in [Calls -> CallType]
        /\ call'[c] = r
        /\ \A d \in Calls : d # c => call'[d] = call[d]
    BY <2>2, <2>3, CallUpdate DEF DispatchTypeOK
  <2>5. InChain'
    BY <2>2, <2>4 DEF InChain
  <2> QED
    BY <1>6, <2>4, <2>5 DEF RpcFails, DispatchTypeOK
<1> QED
  BY <1>1, <1>2, <1>3, <1>4, <1>5, <1>6 DEF DispatchStep

\* So do the handlers on the nodes.
LEMMA TypingHandlerStep ==
  ASSUME DispatchTypeOK, InChain, NEW c \in Calls, NEW n \in Nodes,
         HandlerStep(c, n) \/ LoseEnvelope(c, n)
  PROVE  DispatchTypeOK' /\ InChain'
<1>1. \E st \in ReqStates : Mark(c, n, st)
  BY DEF HandlerStep, VerifySignature, CheckFreshness, LookUp, Complete, LoseEnvelope,
         ReqStates, Finished
<1>2. req' \in [Calls -> [Nodes -> ReqStates]]
  BY <1>1, ReqUpdate DEF DispatchTypeOK
<1>3. UNCHANGED <<call, node_targets, channels, expires_at>>
  BY DEF HandlerStep, VerifySignature, CheckFreshness, LookUp, Complete, LoseEnvelope
<1>4. processed' \in [Nodes -> SUBSET Keys]
  BY DispatchAssumption
     DEF HandlerStep, VerifySignature, CheckFreshness, LookUp, Complete, LoseEnvelope,
         DispatchTypeOK
<1> QED
  BY <1>2, <1>3, <1>4 DEF DispatchTypeOK, InChain

\* So does every step.
LEMMA TypingStep ==
  ASSUME DispatchTypeOK, InChain, Etcd!EtcdTypeOK, [DispatchNext]_vars
  PROVE  DispatchTypeOK' /\ InChain'
<1>0. \A c \in Calls : call[c] \in CallType
  BY DEF DispatchTypeOK
<1>1. CASE ElectionStep
  BY <1>1 DEF ElectionStep, dispatchVars, DispatchTypeOK, InChain
<1>2. ASSUME NEW c \in Calls, NEW s \in Instances, NEW d \in Decisions, Begin(c, s, d)
      PROVE  DispatchTypeOK' /\ InChain'
  <2> DEFINE r == [call[c] EXCEPT !.pc = IF MayDispatch(s) THEN "next" ELSE "refused",
                                  !.sched = s, !.chain = Chain(d)]
  <2>1. r \in CallType /\ r.pc \in {"next", "refused"}
    <3>1. Chain(d) \in Seq(Nodes)
      BY ChainIsRoute DEF Routes
    <3> QED
      BY <1>0, <3>1 DEF CallType, Pending, Ended
  <2>2. call' = [call EXCEPT ![c] = r]
    BY <1>2 DEF Begin
  <2> HIDE DEF r
  <2>3. /\ call' \in [Calls -> CallType]
        /\ call'[c] = r
        /\ \A e \in Calls : e # c => call'[e] = call[e]
    BY <2>1, <2>2, CallUpdate DEF DispatchTypeOK
  <2>4. InChain'
    BY <2>1, <2>3 DEF InChain
  <2> QED
    BY <1>2, <2>3, <2>4 DEF Begin, DispatchTypeOK
<1>3. ASSUME NEW c \in Calls, DispatchStep(c)
      PROVE  DispatchTypeOK' /\ InChain'
  BY <1>3, TypingSchedulerStep
<1>4. ASSUME NEW s \in Instances, NEW n \in Nodes, RegisterWorker(s, n)
      PROVE  DispatchTypeOK' /\ InChain'
  <2>1. \A c \in Calls : /\ [call[c] EXCEPT !.pc = "cancelled"] \in CallType
                         /\ [call[c] EXCEPT !.pc = "cancelled"].chain = call[c].chain
                         /\ [call[c] EXCEPT !.pc = "cancelled"].attempts = call[c].attempts
    BY <1>0, PcUpdate DEF Pending
  <2>2. call' \in [Calls -> CallType]
    BY <1>0, <1>4, <2>1 DEF RegisterWorker
  <2>3. InChain'
    BY <1>4, <2>1 DEF RegisterWorker, InChain
  <2>4. /\ node_targets' \in [Instances -> SUBSET Nodes]
        /\ channels' \in [Instances -> SUBSET Nodes]
    BY <1>4 DEF RegisterWorker, DispatchTypeOK
  <2> QED
    BY <1>4, <2>2, <2>3, <2>4 DEF RegisterWorker, DispatchTypeOK
<1>5. ASSUME NEW s \in Instances, StopScheduler(s)
      PROVE  DispatchTypeOK' /\ InChain'
  <2>1. \A c \in Calls : /\ [call[c] EXCEPT !.pc = "dead"] \in CallType
                         /\ [call[c] EXCEPT !.pc = "dead"].pc = "dead"
    BY <1>0, PcUpdate DEF Ended
  <2>2. call' \in [Calls -> CallType]
    BY <1>0, <1>5, <2>1 DEF StopScheduler
  <2>3. InChain'
    BY <1>5, <2>1 DEF StopScheduler, InChain
  <2> QED
    BY <1>5, <2>2, <2>3 DEF StopScheduler, DispatchTypeOK
<1>6. ASSUME NEW c \in Calls, NEW n \in Nodes, HandlerStep(c, n) \/ LoseEnvelope(c, n)
      PROVE  DispatchTypeOK' /\ InChain'
  BY <1>6, TypingHandlerStep
<1>7. ASSUME NEW n \in Nodes, RestartNode(n)
      PROVE  DispatchTypeOK' /\ InChain'
  BY <1>7 DEF RestartNode, DispatchTypeOK, InChain, ReqStates, Finished
<1>8. CASE UNCHANGED vars
  BY <1>8 DEF vars, DispatchTypeOK, InChain
<1> QED
  BY <1>1, <1>2, <1>3, <1>4, <1>5, <1>6, <1>7, <1>8 DEF DispatchNext

----------------------------------------------------------------------------
(* Who may be behind an envelope.                                          *)

\* What an election step leaves alone once somebody has been elected: the leader
\* key stays, nobody new leads, and an object past its constructor stays there
\* with its lease id.
LEMMA ElectionAfterwards ==
  ASSUME LeaderSafe, [LeaderNext]_leaderVars
  PROVE  /\ kv[LeaderKey] # None =>
              /\ kv'[LeaderKey] # None
              /\ \A t \in Instances : is_leader'[t] => is_leader[t]
         /\ \A s \in Instances : stage[s] \in {"ready", "stopped"} =>
              stage'[s] \in {"ready", "stopped"} /\ lease_id'[s] = lease_id[s]
<1>0. /\ stage \in [Instances -> Stages]
      /\ lease_id \in [Instances -> Nat]
      /\ is_leader \in [Instances -> BOOLEAN]
      /\ kv \in [EtcdKeys -> SchedulerIds \cup Instances \cup {None}]
  BY DEF LeaderSafe, LeaderInv, LeaseIdsOK
<1>1. CASE Tick
  BY <1>1 DEF Tick, Etcd!Tick
<1>2. ASSUME NEW s \in Instances, AcquireLease(s)
      PROVE  /\ UNCHANGED <<kv, is_leader>>
             /\ \A t \in Instances : stage[t] \in {"ready", "stopped"} =>
                  stage'[t] = stage[t] /\ lease_id'[t] = lease_id[t]
  BY <1>0, <1>2 DEF AcquireLease, Etcd!GrantLease
<1>3. ASSUME NEW s \in Instances, Campaign(s)
      PROVE  /\ kv[LeaderKey] # None =>
                  /\ kv' = kv
                  /\ \A t \in Instances : is_leader'[t] => is_leader[t]
             /\ \A t \in Instances : stage[t] \in {"ready", "stopped"} =>
                  stage'[t] = stage[t] /\ lease_id'[t] = lease_id[t]
  <2>1. kv[LeaderKey] # None => ~Etcd!CasSucceeds(LeaderKey, None, lease_id[s])
    BY DEF Etcd!CasSucceeds
  <2>2. kv[LeaderKey] # None => kv' = kv
    BY <1>3, <2>1 DEF Campaign, Etcd!CompareAndSwap
  <2>3. kv[LeaderKey] # None => \A t \in Instances : is_leader'[t] => is_leader[t]
    BY <1>0, <1>3, <2>1 DEF Campaign
  <2>4. \A t \in Instances : stage[t] \in {"ready", "stopped"} =>
          stage'[t] = stage[t] /\ lease_id'[t] = lease_id[t]
    BY <1>0, <1>3 DEF Campaign
  <2> QED
    BY <2>2, <2>3, <2>4
<1>4. ASSUME NEW s \in Instances, PublishIdentity(s)
      PROVE  /\ UNCHANGED <<lease_id, is_leader>>
             /\ kv'[LeaderKey] = kv[LeaderKey]
             /\ \A t \in Instances : stage[t] \in {"ready", "stopped"} =>
                  stage'[t] = stage[t]
  BY <1>0, <1>4, KeysDistinct, InstancesAssumption DEF PublishIdentity, Etcd!Put
<1>5. ASSUME NEW s \in Instances, AuthorizeDispatch(s)
      PROVE  /\ UNCHANGED <<kv, stage, lease_id>>
             /\ \A t \in Instances : is_leader'[t] => is_leader[t]
  <2>1. UNCHANGED <<kv, stage, lease_id>>
    BY <1>5 DEF AuthorizeDispatch, Etcd!IsLeaseValid, etcdVars
  <2>2. \A t \in Instances : is_leader'[t] => is_leader[t]
    BY <1>0, <1>5 DEF AuthorizeDispatch, MayDispatch
  <2> QED
    BY <2>1, <2>2
<1>6. ASSUME NEW s \in Instances, Stop(s)
      PROVE  /\ UNCHANGED <<kv, lease_id>>
             /\ \A t \in Instances : is_leader'[t] => is_leader[t]
             /\ \A t \in Instances : stage[t] \in {"ready", "stopped"} =>
                  stage'[t] \in {"ready", "stopped"}
  BY <1>0, <1>6 DEF Stop
<1>7. ASSUME NEW s \in Instances, RevokeLease(s)
      PROVE  UNCHANGED <<kv, stage, lease_id, is_leader>>
  BY <1>7 DEF RevokeLease, Etcd!RevokeLease
<1>8. CASE UNCHANGED leaderVars
  BY <1>8 DEF leaderVars
<1>9. CASE \E s \in Instances : AcquireLease(s) \/ Campaign(s) \/ PublishIdentity(s)
  BY <1>2, <1>3, <1>4, <1>9
<1>10. CASE \E s \in Instances : AuthorizeDispatch(s) \/ Stop(s) \/ RevokeLease(s)
  BY <1>5, <1>6, <1>7, <1>10
<1> QED
  BY <1>1, <1>8, <1>9, <1>10 DEF LeaderNext

\* What every step but Begin leaves alone: who is authorized and by whom, and
\* that envelopes are for authorized calls.
SameCallers ==
    /\ \A c \in Calls : /\ Authorized(c)' <=> Authorized(c)
                        /\ Sched(c)' = Sched(c)
    /\ \A c \in Calls, n \in Nodes :
         req'[c][n] # "none" => req[c][n] # "none" \/ Authorized(c)

\* The dispatch loop moves one call forward and sends for that call only.
LEMMA SchedulerKeepsCallers ==
  ASSUME DispatchTypeOK, InChain, NEW c \in Calls, DispatchStep(c)
  PROVE  SameCallers
<1>0. call \in [Calls -> CallType] /\ req \in [Calls -> [Nodes -> ReqStates]]
  BY DEF DispatchTypeOK
<1>1. /\ \A d \in Calls : call'[d].sched = call[d].sched
      /\ \A d \in Calls : d # c => call'[d] = call[d]
      /\ call'[c].pc \notin {"new", "refused"}
      /\ call[c].pc \notin {"new", "refused"}
  <2>0. call[c] \in [pc : {"new"} \cup Pending \cup Ended,
             sched : Instances \cup {None}, chain : Seq(Nodes), attempts : Nat,
             fallback_activated : BOOLEAN, unanswered : SUBSET Nodes]
    BY <1>0 DEF CallType
  <2>1. CASE TryCandidate(c)
    BY <1>0, <2>0, <2>1 DEF TryCandidate
  <2>2. CASE Exhaust(c)
    BY <1>0, <2>0, <2>2 DEF Exhaust, Goto
  <2>3. CASE SendTask(c)
    BY <1>0, <2>0, <2>3 DEF SendTask, Goto
  <2>4. CASE ReceiveSuccess(c)
    BY <1>0, <2>0, <2>4 DEF ReceiveSuccess, Goto
  <2>5. CASE ReceiveDecline(c)
    BY <1>0, <2>0, <2>5 DEF ReceiveDecline, Goto
  <2>6. CASE RpcFails(c)
    BY <1>0, <2>0, <2>6 DEF RpcFails
  <2> QED
    BY <2>1, <2>2, <2>3, <2>4, <2>5, <2>6 DEF DispatchStep
<1>2. \A d \in Calls, n \in Nodes : req'[d][n] # "none" => req[d][n] # "none" \/ d = c
  <2>1. CASE SendTask(c)
    BY <1>0, <2>1 DEF SendTask, Mark
  <2>2. CASE ~SendTask(c)
    BY <2>2 DEF DispatchStep, TryCandidate, Exhaust, ReceiveSuccess, ReceiveDecline, RpcFails
  <2> QED
    BY <2>1, <2>2
<1> QED
  BY <1>1, <1>2 DEF SameCallers, Authorized, Sched

\* The other steps of schedulers and nodes.
LEMMA OthersKeepCallers ==
  ASSUME DispatchTypeOK, InChain, [DispatchNext]_vars,
         \A c \in Calls, s \in Instances, d \in Decisions : ~Begin(c, s, d)
  PROVE  SameCallers
<1>0. call \in [Calls -> CallType] /\ req \in [Calls -> [Nodes -> ReqStates]]
  BY DEF DispatchTypeOK
<1>1. CASE ElectionStep
  BY <1>1 DEF ElectionStep, dispatchVars, SameCallers, Authorized, Sched
<1>2. ASSUME NEW c \in Calls, DispatchStep(c)
      PROVE  SameCallers
  BY <1>2, SchedulerKeepsCallers
<1>3. ASSUME NEW s \in Instances, NEW n \in Nodes, RegisterWorker(s, n)
      PROVE  SameCallers
  <2>1. \A c \in Calls : [call[c] EXCEPT !.pc = "cancelled"].pc = "cancelled"
                           /\ [call[c] EXCEPT !.pc = "cancelled"].sched = call[c].sched
    BY <1>0, PcUpdate DEF Pending
  <2> QED
    BY <1>0, <1>3, <2>1 DEF RegisterWorker, SameCallers, Authorized, Sched
<1>4. ASSUME NEW s \in Instances, StopScheduler(s)
      PROVE  SameCallers
  <2>1. \A c \in Calls : [call[c] EXCEPT !.pc = "dead"].pc = "dead"
                           /\ [call[c] EXCEPT !.pc = "dead"].sched = call[c].sched
    BY <1>0, PcUpdate DEF Ended
  <2> QED
    BY <1>0, <1>4, <2>1 DEF StopScheduler, SameCallers, Authorized, Sched, Pending
<1>5. ASSUME NEW c \in Calls, NEW n \in Nodes, HandlerStep(c, n) \/ LoseEnvelope(c, n)
      PROVE  SameCallers
  <2>1. UNCHANGED call
    BY <1>5 DEF HandlerStep, VerifySignature, CheckFreshness, LookUp, Complete, LoseEnvelope
  <2>2. req[c][n] # "none"
    BY <1>5 DEF HandlerStep, VerifySignature, CheckFreshness, LookUp, Complete, LoseEnvelope
  <2>3. \E st \in ReqStates : Mark(c, n, st)
    BY <1>5 DEF HandlerStep, VerifySignature, CheckFreshness, LookUp, Complete, LoseEnvelope,
           ReqStates, Finished
  <2>4. \A d \in Calls, m \in Nodes : d # c \/ m # n => req'[d][m] = req[d][m]
    BY <1>0, <2>3, ReqUpdate
  <2> QED
    BY <2>1, <2>2, <2>4 DEF SameCallers, Authorized, Sched
<1>6. ASSUME NEW n \in Nodes, RestartNode(n)
      PROVE  SameCallers
  BY <1>0, <1>6 DEF RestartNode, SameCallers, Authorized, Sched
<1>7. CASE UNCHANGED vars
  BY <1>7 DEF vars, SameCallers, Authorized, Sched
<1> QED
  BY <1>1, <1>2, <1>3, <1>4, <1>5, <1>6, <1>7 DEF DispatchNext

\* Steps that authorize nobody preserve what is known of the authorized.
LEMMA AuthorityKept ==
  ASSUME DispatchSafe, [LeaderNext]_leaderVars, SameCallers
  PROVE  CallsOK' /\ Authority' /\ OneAuthority'
<1>1. \A c \in Calls : Authorized(c)' => Authorized(c) /\ Sched(c)' = Sched(c)
  BY DEF SameCallers
<1>2. CallsOK'
  <2>1. \A c \in Calls : Authorized(c)' =>
          Sched(c)' \in Instances /\ stage'[Sched(c)'] \in {"ready", "stopped"}
    BY <1>1, ElectionAfterwards DEF DispatchSafe, CallsOK
  <2>2. \A c \in Calls, n \in Nodes : req'[c][n] # "none" => Authorized(c)'
    BY DEF DispatchSafe, CallsOK, SameCallers
  <2> QED
    BY <2>1, <2>2 DEF CallsOK
<1>3. Authority'
  BY <1>1, ElectionAfterwards DEF DispatchSafe, Authority
<1>4. OneAuthority'
  BY <1>1 DEF DispatchSafe, OneAuthority
<1> QED
  BY <1>2, <1>3, <1>4

\* Begin authorizes a call only for the one object that leads; whoever was
\* authorized before was authorized by the same object.
LEMMA BeginKeepsAuthority ==
  ASSUME DispatchSafe, NEW c \in Calls, NEW s \in Instances, NEW d \in Decisions,
         Begin(c, s, d)
  PROVE  CallsOK' /\ Authority' /\ OneAuthority'
<1>0. /\ call \in [Calls -> CallType]
      /\ is_leader \in [Instances -> BOOLEAN]
  BY DEF DispatchSafe, DispatchTypeOK, LeaderSafe, LeaderInv
<1>1. /\ AuthorizeDispatch(s)
      /\ stage[s] = "ready"
      /\ UNCHANGED <<kv, stage, req>>
  BY DEF Begin, AuthorizeDispatch, Etcd!IsLeaseValid, etcdVars
<1>2. \A t \in Instances : is_leader'[t] => is_leader[t]
  BY <1>0, <1>1 DEF AuthorizeDispatch, MayDispatch
<1>3. /\ \A e \in Calls : e # c => call'[e] = call[e]
      /\ call'[c].sched = s
      /\ call'[c].pc = IF MayDispatch(s) THEN "next" ELSE "refused"
  BY <1>0 DEF Begin, CallType
<1>4. ~Authorized(c) /\ \A n \in Nodes : req[c][n] = "none"
  BY DEF Begin, Authorized, DispatchSafe, CallsOK
<1>5. CASE MayDispatch(s)
  <2>1. is_leader[s]
    BY <1>5 DEF MayDispatch
  <2>2. kv[LeaderKey] # None /\ \A t \in Instances : is_leader[t] => t = s
    BY <2>1, InstancesAssumption, NoneAssumption
       DEF DispatchSafe, LeaderSafe, LeaderInv, AtMostOneLeader
  <2>3. \A e \in Calls : Authorized(e) => Sched(e) = s
    BY <2>1 DEF DispatchSafe, Authority
  <2>4. \A e \in Calls : Authorized(e)' => Sched(e)' = s
    BY <1>3, <2>3 DEF Authorized, Sched
  <2>5. CallsOK'
    BY <1>1, <1>3, <1>4, <1>5, <2>4 DEF DispatchSafe, CallsOK, Authorized
  <2>6. Authority'
    BY <1>1, <1>2, <2>2, <2>4 DEF Authority
  <2>7. OneAuthority'
    BY <2>4 DEF OneAuthority
  <2> QED
    BY <2>5, <2>6, <2>7
<1>6. CASE ~MayDispatch(s)
  <2>1. \A e \in Calls : /\ Authorized(e)' <=> Authorized(e)
                         /\ Authorized(e) => Sched(e)' = Sched(e)
    BY <1>3, <1>4, <1>6 DEF Authorized, Sched
  <2>2. CallsOK'
    BY <1>1, <2>1 DEF DispatchSafe, CallsOK
  <2>3. Authority'
    BY <1>1, <1>2, <2>1 DEF DispatchSafe, Authority
  <2>4. OneAuthority'
    BY <2>1 DEF DispatchSafe, OneAuthority
  <2> QED
    BY <2>2, <2>3, <2>4
<1> QED
  BY <1>5, <1>6

----------------------------------------------------------------------------
(* The invariant, and what follows from it.                                *)

\* The whole invariant is inductive.
LEMMA DispatchSafeStep ==
  ASSUME DispatchSafe, [DispatchNext]_vars
  PROVE  DispatchSafe'
<1>1. [LeaderNext]_leaderVars
  BY DispatchRespectsElection DEF DispatchSafe
<1>2. LeaderSafe'
  BY <1>1, LeaderSafeStep DEF DispatchSafe
<1>3. DispatchTypeOK' /\ InChain'
  BY TypingStep DEF DispatchSafe, LeaderSafe
<1>4. CASE \E c \in Calls, s \in Instances, d \in Decisions : Begin(c, s, d)
  BY <1>2, <1>3, <1>4, BeginKeepsAuthority DEF DispatchSafe
<1>5. CASE \A c \in Calls, s \in Instances, d \in Decisions : ~Begin(c, s, d)
  <2>1. SameCallers
    BY <1>5, OthersKeepCallers DEF DispatchSafe
  <2> QED
    BY <1>1, <1>2, <1>3, <2>1, AuthorityKept DEF DispatchSafe
<1> QED
  BY <1>4, <1>5

\* Dispatch starts in the invariant.
LEMMA DispatchSafeInit == DispatchInit => DispatchSafe
<1> SUFFICES ASSUME DispatchInit PROVE DispatchSafe
  OBVIOUS
<1>1. LeaderSafe
  BY LeaderSafeInit DEF DispatchInit
<1>2. \A c \in Calls : call[c].pc = "new"
  BY DEF DispatchInit
<1>3. call \in [Calls -> CallType]
  BY DEF DispatchInit, CallType
<1>4. DispatchTypeOK
  BY <1>3, DispatchAssumption DEF DispatchInit, DispatchTypeOK, ReqStates
<1>5. InChain /\ CallsOK /\ Authority /\ OneAuthority
  BY <1>2 DEF DispatchInit, InChain, CallsOK, Authority, OneAuthority, Authorized
<1> QED
  BY <1>1, <1>4, <1>5 DEF DispatchSafe

\* The invariant holds in every reachable state.
LEMMA DispatchSafety == DispatchSpec => []DispatchSafe
<1>1. DispatchSafe /\ [DispatchNext]_vars => DispatchSafe'
  BY DispatchSafeStep
<1> QED
  BY <1>1, DispatchSafeInit, PTL DEF DispatchSpec

\* Type correctness of the dispatch layer: in particular a candidate that is
\* being waited on is a node of the chain and no handler's outcome is lost.
THEOREM DispatchTyping == DispatchSpec => []DispatchTypeOK
BY DispatchSafety, PTL DEF DispatchSafe

\* The dispatch layer implements the election: whatever calls, registrations,
\* handlers and restarts do, schedulers see nothing but steps of SchedulerLeader
\* (a node's lease check is a sweep of an expired lease or changes nothing).
THEOREM DispatchImplementsElection == DispatchSpec => ElectionSpec
<1>1. DispatchInit => LeaderInit
  BY DEF DispatchInit
<1>2. DispatchSafe /\ [DispatchNext]_vars => [LeaderNext]_leaderVars
  BY DispatchRespectsElection DEF DispatchSafe
<1> QED
  BY <1>1, <1>2, DispatchSafety, PTL DEF DispatchSpec, ElectionSpec, LeaderSpec

\* One scheduler object is behind all the work the nodes are ever sent, however
\* elections, lease losses, stops and calls of dispatch interleave
\* (dispatcher.py:107-112).
THEOREM OneAuthorityForever == DispatchSpec => []OneAuthority
BY DispatchSafety, PTL DEF DispatchSafe

\* The envelope of an authorized call whose scheduler lost its lease before the
\* node admitted it.
Fenced(c, n) ==
    Authorized(c) /\ ~Etcd!LeaseLive(lease_id[Sched(c)]) /\ req[c][n] \notin Ran

\* Fenced once, fenced for good: the lease id stays dead, the call keeps its
\* scheduler, and a handler admits only under a live lease.
LEMMA FencedStep ==
  ASSUME DispatchSafe, [DispatchNext]_vars, NEW c \in Calls, NEW n \in Nodes,
         Fenced(c, n)
  PROVE  Fenced(c, n)'
<1> DEFINE s == Sched(c)
<1>0. /\ call \in [Calls -> CallType]
      /\ req \in [Calls -> [Nodes -> ReqStates]]
      /\ s \in Instances
      /\ stage[s] \in {"ready", "stopped"}
  BY DEF DispatchSafe, DispatchTypeOK, CallsOK, Fenced
<1>1. [LeaderNext]_leaderVars
  BY DispatchRespectsElection DEF DispatchSafe
<1>2. lease_id'[s] = lease_id[s] /\ lease_id[s] \in Etcd!LeaseIds
  BY <1>0, <1>1, ElectionAfterwards
     DEF DispatchSafe, LeaderSafe, LeaseIdsOK, Etcd!LeaseIds
<1>3. Authorized(c)' /\ Sched(c)' = s
  <2>1. CASE \E d \in Calls, t \in Instances, e \in Decisions : Begin(d, t, e)
    BY <1>0, <2>1 DEF Begin, Fenced, Authorized, Sched
  <2>2. CASE \A d \in Calls, t \in Instances, e \in Decisions : ~Begin(d, t, e)
    BY <2>2, OthersKeepCallers DEF DispatchSafe, SameCallers, Fenced
  <2> QED
    BY <2>1, <2>2
<1>4. ~Etcd!LeaseLive(lease_id[Sched(c)])'
  <2>1. \A l \in Etcd!LeaseIds : ~Etcd!LeaseLive(l) => ~Etcd!LeaseLive(l)'
    BY <1>1, LeaseStaysDeadStep DEF DispatchSafe
  <2>2. lease_id'[Sched(c)'] = lease_id[s]
    BY <1>2, <1>3
  <2> QED
    BY <1>2, <2>1, <2>2 DEF Fenced, Etcd!LeaseLive
<1>5. req'[c][n] \notin Ran
  <2>0. req[c][n] \notin Ran
    BY DEF Fenced
  <2>1. CASE UNCHANGED req
    BY <2>0, <2>1
  <2>2. ASSUME NEW d \in Calls, DispatchStep(d), req' # req
        PROVE  req'[c][n] \notin Ran
    BY <1>0, <2>0, <2>2 DEF DispatchStep, TryCandidate, Exhaust, SendTask,
         ReceiveSuccess, ReceiveDecline, RpcFails, Mark, Ran
  <2>3. ASSUME NEW d \in Calls, NEW m \in Nodes, HandlerStep(d, m) \/ LoseEnvelope(d, m)
        PROVE  req'[c][n] \notin Ran
    <3>1. \E st \in ReqStates : Mark(d, m, st)
      BY <2>3 DEF HandlerStep, VerifySignature, CheckFreshness, LookUp, Complete,
              LoseEnvelope, ReqStates, Finished
    <3>2. CASE d # c \/ m # n
      BY <1>0, <2>0, <3>1, <3>2, ReqUpdate
    <3>3. CASE d = c /\ m = n
      <4>1. CASE CheckFreshness(c, n)
        BY <1>0, <4>1, ReqUpdate DEF CheckFreshness, Fenced, Mark, Ran
      <4>2. CASE VerifySignature(c, n)
        BY <1>0, <4>2 DEF VerifySignature, Mark, Ran
      <4>3. CASE LoseEnvelope(c, n)
        BY <1>0, <4>3 DEF LoseEnvelope, Mark, Ran
      <4>4. ~LookUp(c, n) /\ ~Complete(c, n)
        BY <2>0 DEF LookUp, Complete, Ran
      <4> QED
        BY <2>3, <3>3, <4>1, <4>2, <4>3, <4>4 DEF HandlerStep
    <3> QED
      BY <3>2, <3>3
  <2>4. ASSUME NEW m \in Nodes, RestartNode(m)
        PROVE  req'[c][n] \notin Ran
    BY <1>0, <2>0, <2>4 DEF RestartNode, Ran
  <2>5. CASE ElectionStep \/ UNCHANGED vars
    BY <2>0, <2>5 DEF ElectionStep, dispatchVars, vars
  <2>6. ASSUME NEW d \in Calls, NEW t \in Instances, NEW e \in Decisions, Begin(d, t, e)
        PROVE  UNCHANGED req
    BY <2>6 DEF Begin
  <2>7. ASSUME NEW t \in Instances, NEW m \in Nodes, RegisterWorker(t, m)
        PROVE  UNCHANGED req
    BY <2>7 DEF RegisterWorker
  <2>8. ASSUME NEW t \in Instances, StopScheduler(t)
        PROVE  UNCHANGED req
    BY <2>8 DEF StopScheduler
  <2> QED
    BY <2>1, <2>2, <2>3, <2>4, <2>5, <2>6, <2>7, <2>8 DEF DispatchNext
<1> QED
  BY <1>3, <1>4, <1>5 DEF Fenced

\* A scheduler without its lease gets nothing more done: no node admits an
\* envelope of it that was not admitted when the lease died, whether it was on
\* its way, still being checked, or had not been sent (grpc_server.py:76-78).
THEOREM StaleLeadersAreFenced == DispatchSpec => StaleLeaderFenced
<1> SUFFICES ASSUME NEW c \in Calls, NEW n \in Nodes
             PROVE  DispatchSpec => [](Fenced(c, n) => [](req[c][n] \notin Ran))
  BY DEF StaleLeaderFenced, Fenced
<1>1. DispatchSafe /\ Fenced(c, n) /\ [DispatchNext]_vars => Fenced(c, n)'
  BY FencedStep
<1>2. Fenced(c, n) => req[c][n] \notin Ran
  BY DEF Fenced
<1> QED
  BY <1>1, <1>2, DispatchSafety, PTL DEF DispatchSpec

----------------------------------------------------------------------------
(* What dispatch reports and what the nodes did.                            *)

Answered == {"executed", "cached"}
Holding == {"waiting", "cancelled", "returned", "dead"}

\* What the variables r of a call and the progress q of its envelopes have to do
\* with each other: envelopes went to the nodes the loop has come to, and unless the
\* loop is still with a node, it has that node's failure or has lost its answer.
CallOutcome(r, q) ==
    /\ Distinct(r.chain)
    /\ r.fallback_activated = (r.attempts > 1)
    /\ r.pc = "returned" =>
         r.attempts \in 1..Len(r.chain) /\ q[r.chain[r.attempts]] \in Answered
    /\ \A n \in Nodes :
         /\ q[n] # "none" =>
              \E i \in 1..Len(r.chain) :
                r.chain[i] = n /\ i <= r.attempts /\ (r.pc = "stub" => i < r.attempts)
         /\ \/ q[n] \in {"none", "declined"}
            \/ n \in r.unanswered
            \/ r.pc \in Holding /\ n = r.chain[r.attempts]

OutcomeInv == \A c \in Calls : CallOutcome(call[c], req[c])

\* Handlers on the nodes go on: what they have answered stands.
LEMMA ProgressKeepsOutcome ==
  ASSUME NEW r \in CallType, NEW q, NEW p, CallOutcome(r, q),
         \A n \in Nodes :
           \/ p[n] = q[n]
           \/ q[n] \notin {"none", "declined"} \cup Answered /\ p[n] # "none"
  PROVE  CallOutcome(r, p)
<1>1. r.pc = "returned" => r.chain[r.attempts] \in Nodes
  BY DEF CallOutcome, CallType
<1> QED
  BY <1>1 DEF CallOutcome, Answered

\* The loop moves on from a candidate that failed, did not answer or did.
LEMMA MoveKeepsOutcome ==
  ASSUME NEW r, NEW s, NEW q, CallOutcome(r, q),
         s.chain = r.chain, s.attempts = r.attempts,
         s.fallback_activated = r.fallback_activated,
         r.unanswered \subseteq s.unanswered,
         s.pc # "stub",
         s.pc = "returned" =>
           r.attempts \in 1..Len(r.chain) /\ q[r.chain[r.attempts]] \in Answered,
         r.pc \in Holding =>
           \/ s.pc \in Holding
           \/ q[r.chain[r.attempts]] \in {"none", "declined"}
           \/ r.chain[r.attempts] \in s.unanswered
  PROVE  CallOutcome(s, q)
  BY DEF CallOutcome

\* So does a call that only changes its program counter.
LEMMA GotoKeepsOutcome ==
  ASSUME NEW r \in CallType, NEW p \in {"new"} \cup Pending \cup Ended, NEW q,
         CallOutcome(r, q), p # "stub",
         p = "returned" =>
           r.attempts \in 1..Len(r.chain) /\ q[r.chain[r.attempts]] \in Answered,
         r.pc \in Holding => p \in Holding \/ q[r.chain[r.attempts]] \in {"none", "declined"}
  PROVE  CallOutcome([r EXCEPT !.pc = p], q)
<1>1. PICK s : s = [r EXCEPT !.pc = p]
  OBVIOUS
<1>2. /\ s.pc = p /\ s.chain = r.chain /\ s.attempts = r.attempts
      /\ s.unanswered = r.unanswered /\ s.fallback_activated = r.fallback_activated
  BY <1>1 DEF CallType
<1>3. CallOutcome(s, q)
  BY <1>2, MoveKeepsOutcome
<1> QED
  BY <1>1, <1>3

\* The dispatch loop keeps the account of its call.
LEMMA SchedulerKeepsOutcome ==
  ASSUME DispatchSafe, OutcomeInv, NEW c \in Calls, DispatchStep(c)
  PROVE  OutcomeInv'
<1>0. /\ call \in [Calls -> CallType] /\ call[c] \in CallType
      /\ req \in [Calls -> [Nodes -> ReqStates]]
      /\ \A d \in Calls : CallOutcome(call[d], req[d])
  BY DEF DispatchSafe, DispatchTypeOK, OutcomeInv
<1>1. PICK r \in CallType : r = call[c]
  BY <1>0
<1>2. CallOutcome(r, req[c])
  BY <1>0, <1>1
<1>3. r.pc \in {"stub", "waiting", "cancelled"} =>
        r.attempts \in 1..Len(r.chain) /\ Candidate(c) = r.chain[r.attempts]
                                       /\ Candidate(c) \in Nodes
  BY <1>1, CandidateInNodes DEF DispatchSafe, InChain, Candidate
<1>4. ASSUME UNCHANGED req, NEW s, call' = [call EXCEPT ![c] = s], CallOutcome(s, req[c])
      PROVE  OutcomeInv'
  BY <1>0, <1>4 DEF OutcomeInv
<1>5. ASSUME UNCHANGED req, NEW p \in {"new"} \cup Pending \cup Ended, Goto(c, p),
             CallOutcome([r EXCEPT !.pc = p], req[c])
      PROVE  OutcomeInv'
  BY <1>1, <1>4, <1>5 DEF Goto
<1>6. CASE TryCandidate(c)
  <2>0. PICK p \in {"stub", "next"} :
          call' = [call EXCEPT ![c] = [r EXCEPT !.pc = p, !.attempts = r.attempts + 1,
                                                !.fallback_activated = (r.attempts > 0)]]
    BY <1>1, <1>6, Zenon DEF TryCandidate
  <2>1. PICK s : /\ s = [r EXCEPT !.pc = p, !.attempts = r.attempts + 1,
                                  !.fallback_activated = (r.attempts > 0)]
                 /\ call' = [call EXCEPT ![c] = s]
    BY <2>0
  <2>2. /\ r.pc = "next" /\ r.attempts \in Nat /\ s.pc = p /\ s.attempts = r.attempts + 1
        /\ s.chain = r.chain /\ s.unanswered = r.unanswered
        /\ s.fallback_activated = (r.attempts > 0) /\ UNCHANGED req
    BY <1>1, <1>6, <2>1 DEF TryCandidate, CallType
  <2>3. CallOutcome(s, req[c])
    BY <1>2, <2>2 DEF CallOutcome, Holding
  <2> QED
    BY <1>4, <2>1, <2>2, <2>3
<1>7. CASE Exhaust(c)
  <2>1. CallOutcome([r EXCEPT !.pc = "exhausted"], req[c])
    <3>1. r.pc \notin Holding
      BY <1>1, <1>7 DEF Exhaust, Holding
    <3>2. PICK p \in Ended : p = "exhausted" /\ p # "stub" /\ p # "returned"
      BY DEF Ended
    <3>3. CallOutcome([r EXCEPT !.pc = p], req[c])
      BY <1>2, <3>1, <3>2, GotoKeepsOutcome
    <3> QED
      BY <3>2, <3>3
  <2> QED
    BY <1>5, <1>7, <2>1 DEF Exhaust, Ended
<1>8. CASE SendTask(c)
  <2>1. CASE Candidate(c) \notin channels[Sched(c)]
    <3>1. CallOutcome([r EXCEPT !.pc = "error"], req[c])
      <4>1. r.pc \notin Holding /\ "error" \in Ended
        BY <1>1, <1>8 DEF SendTask, Holding, Ended
      <4> QED
        BY <1>2, <4>1, GotoKeepsOutcome
    <3> QED
      BY <1>5, <1>8, <2>1, <3>1 DEF SendTask, Ended
  <2>2. CASE Candidate(c) \in channels[Sched(c)]
    <3>1. PICK s : s = [r EXCEPT !.pc = "waiting"]
      OBVIOUS
    <3>2. /\ r.pc = "stub" /\ s.pc = "waiting" /\ s.attempts = r.attempts
          /\ s.chain = r.chain /\ s.unanswered = r.unanswered
          /\ s.fallback_activated = r.fallback_activated
          /\ call' = [call EXCEPT ![c] = s]
          /\ req' = [req EXCEPT ![c][Candidate(c)] = "sent"]
      BY <1>1, <1>8, <2>2, <3>1 DEF SendTask, CallType, Goto, Mark
    <3>3. /\ req'[c][Candidate(c)] = "sent"
          /\ \A n \in Nodes \ {Candidate(c)} : req'[c][n] = req[c][n]
          /\ \A d \in Calls \ {c} : req'[d] = req[d] /\ call'[d] = call[d]
          /\ call'[c] = s
      BY <1>0, <1>3, <3>2
    <3>4. CallOutcome(s, req'[c])
      BY <1>2, <1>3, <3>2, <3>3 DEF CallOutcome, Holding
    <3> QED
      BY <1>0, <3>3, <3>4 DEF OutcomeInv
  <2> QED
    BY <2>1, <2>2
<1>9. CASE ReceiveSuccess(c)
  <2>1. CallOutcome([r EXCEPT !.pc = "returned"], req[c])
    BY <1>1, <1>2, <1>3, <1>9, GotoKeepsOutcome DEF ReceiveSuccess, Holding, Ended, Answered
  <2> QED
    BY <1>5, <1>9, <2>1 DEF ReceiveSuccess, Ended
<1>10. CASE ReceiveDecline(c)
  <2>1. CallOutcome([r EXCEPT !.pc = "next"], req[c])
    <3>1. req[c][r.chain[r.attempts]] \in {"none", "declined"} /\ "next" \in Pending
      BY <1>1, <1>3, <1>10 DEF ReceiveDecline, Pending
    <3> QED
      BY <1>2, <3>1, GotoKeepsOutcome
  <2> QED
    BY <1>5, <1>10, <2>1 DEF ReceiveDecline, Pending
<1>11. CASE RpcFails(c)
  <2>1. PICK s : s = [r EXCEPT !.pc = "next",
                               !.unanswered = r.unanswered \cup {Candidate(c)}]
    OBVIOUS
  <2>2. /\ r.pc \in {"waiting", "cancelled"} /\ s.pc = "next" /\ s.attempts = r.attempts
        /\ s.chain = r.chain /\ s.unanswered = r.unanswered \cup {Candidate(c)}
        /\ s.fallback_activated = r.fallback_activated
        /\ call' = [call EXCEPT ![c] = s] /\ UNCHANGED req
    BY <1>1, <1>11, <2>1 DEF RpcFails, CallType
  <2>3. CallOutcome(s, req[c])
    BY <1>2, <1>3, <2>2, MoveKeepsOutcome
  <2> QED
    BY <1>4, <2>2, <2>3
<1> QED
  BY <1>6, <1>7, <1>8, <1>9, <1>10, <1>11 DEF DispatchStep

\* Every step keeps the account of every call.
LEMMA OutcomeStep ==
  ASSUME DispatchSafe, OutcomeInv, [DispatchNext]_vars
  PROVE  OutcomeInv'
<1>0. /\ call \in [Calls -> CallType] /\ \A c \in Calls : call[c] \in CallType
      /\ req \in [Calls -> [Nodes -> ReqStates]]
      /\ \A d \in Calls : CallOutcome(call[d], req[d])
  BY DEF DispatchSafe, DispatchTypeOK, OutcomeInv
<1>1. CASE ElectionStep \/ UNCHANGED vars
  <2>1. UNCHANGED <<call, req>>
    BY <1>1 DEF ElectionStep, dispatchVars, vars
  <2> QED
    BY <1>0, <2>1 DEF OutcomeInv
<1>2. ASSUME NEW c \in Calls, NEW s \in Instances, NEW d \in Decisions, Begin(c, s, d)
      PROVE  OutcomeInv'
  <2>1. PICK r \in CallType : r = call[c] /\ r.pc = "new"
    BY <1>0, <1>2 DEF Begin
  <2>0. PICK p \in {"next", "refused"} :
          call' = [call EXCEPT ![c] = [r EXCEPT !.pc = p, !.sched = s, !.chain = Chain(d)]]
    BY <1>2, <2>1, Zenon DEF Begin
  <2>2. PICK w : /\ w = [r EXCEPT !.pc = p, !.sched = s, !.chain = Chain(d)]
                 /\ call' = [call EXCEPT ![c] = w]
    BY <2>0
  <2>3. /\ w.pc = p /\ w.chain = Chain(d) /\ w.attempts = r.attempts
        /\ w.fallback_activated = r.fallback_activated /\ UNCHANGED req
    BY <1>2, <2>1, <2>2 DEF CallType, Begin
  <2>4. \A n \in Nodes : req[c][n] = "none"
    BY <2>1 DEF DispatchSafe, CallsOK, Authorized
  <2>5. Distinct(Chain(d))
    BY ChainIsRoute DEF Routes
  <2>6. CallOutcome(w, req[c])
    BY <1>0, <2>1, <2>3, <2>4, <2>5 DEF CallOutcome
  <2> QED
    BY <1>0, <2>2, <2>3, <2>6 DEF OutcomeInv
<1>3. ASSUME NEW c \in Calls, DispatchStep(c) PROVE OutcomeInv'
  BY <1>3, SchedulerKeepsOutcome
<1>4. ASSUME NEW s \in Instances, NEW n \in Nodes, RegisterWorker(s, n) PROVE OutcomeInv'
  <2> SUFFICES ASSUME NEW c \in Calls PROVE CallOutcome(call[c], req[c])'
    BY DEF OutcomeInv
  <2>1. /\ UNCHANGED req
        /\ \/ call'[c] = call[c]
           \/ call[c].pc = "waiting" /\ call'[c] = [call[c] EXCEPT !.pc = "cancelled"]
    BY <1>4 DEF RegisterWorker
  <2>2. CASE call'[c] = call[c]
    BY <1>0, <2>1, <2>2
  <2>3. CASE call[c].pc = "waiting" /\ call'[c] = [call[c] EXCEPT !.pc = "cancelled"]
    <3>1. CallOutcome([call[c] EXCEPT !.pc = "cancelled"], req[c])
      <4>1. "cancelled" \in Holding /\ "cancelled" \in Pending
        BY DEF Holding, Pending
      <4> QED
        BY <1>0, <4>1, GotoKeepsOutcome
    <3> QED
      BY <2>1, <2>3, <3>1
  <2> QED
    BY <2>1, <2>2, <2>3
<1>5. ASSUME NEW s \in Instances, StopScheduler(s) PROVE OutcomeInv'
  <2> SUFFICES ASSUME NEW c \in Calls PROVE CallOutcome(call[c], req[c])'
    BY DEF OutcomeInv
  <2>1. /\ UNCHANGED req
        /\ call'[c] = call[c] \/ call'[c] = [call[c] EXCEPT !.pc = "dead"]
    BY <1>5 DEF StopScheduler
  <2>2. CASE call'[c] = call[c]
    BY <1>0, <2>1, <2>2
  <2>3. CASE call'[c] = [call[c] EXCEPT !.pc = "dead"]
    <3>1. CallOutcome([call[c] EXCEPT !.pc = "dead"], req[c])
      <4>1. "dead" \in Holding /\ "dead" \in Ended
        BY DEF Holding, Ended
      <4> QED
        BY <1>0, <4>1, GotoKeepsOutcome
    <3> QED
      BY <2>1, <2>3, <3>1
  <2> QED
    BY <2>1, <2>2, <2>3
<1>6. ASSUME UNCHANGED call,
             \A c \in Calls, n \in Nodes :
               \/ req'[c][n] = req[c][n]
               \/ req[c][n] \notin {"none", "declined"} \cup Answered /\ req'[c][n] # "none"
      PROVE  OutcomeInv'
  <2> SUFFICES ASSUME NEW c \in Calls PROVE CallOutcome(call[c], req'[c])
    BY <1>6 DEF OutcomeInv
  <2> QED
    BY <1>0, <1>6, ProgressKeepsOutcome
<1>7. ASSUME NEW c \in Calls, NEW n \in Nodes, HandlerStep(c, n) \/ LoseEnvelope(c, n)
      PROVE  OutcomeInv'
  <2>1. /\ UNCHANGED call /\ req[c][n] \in {"sent", "verified", "admitted", "running"}
        /\ \E st \in ReqStates : Mark(c, n, st) /\ st # "none"
    BY <1>7 DEF HandlerStep, VerifySignature, CheckFreshness, LookUp, Complete, LoseEnvelope,
           ReqStates, Finished
  <2>2. /\ req'[c][n] # "none"
        /\ \A d \in Calls, m \in Nodes : d # c \/ m # n => req'[d][m] = req[d][m]
    BY <1>0, <2>1, ReqUpdate
  <2> QED
    BY <1>6, <2>1, <2>2 DEF Answered
<1>8. ASSUME NEW n \in Nodes, RestartNode(n) PROVE OutcomeInv'
  <2>1. UNCHANGED call /\ \A c \in Calls, m \in Nodes :
          \/ req'[c][m] = req[c][m]
          \/ req[c][m] \in {"verified", "admitted", "running"} /\ req'[c][m] = "dropped"
    BY <1>0, <1>8 DEF RestartNode
  <2> QED
    BY <1>6, <2>1 DEF Answered
<1> QED
  BY <1>1, <1>2, <1>3, <1>4, <1>5, <1>7, <1>8 DEF DispatchNext

\* The account of every call is right in every reachable state.
LEMMA OutcomeInvariant == DispatchSpec => []OutcomeInv
<1>1. DispatchInit => OutcomeInv
  <2> SUFFICES ASSUME DispatchInit, NEW c \in Calls PROVE CallOutcome(call[c], req[c])
    BY DEF OutcomeInv
  <2>1. /\ call[c].pc = "new" /\ call[c].chain = <<>> /\ call[c].attempts = 0
        /\ call[c].fallback_activated = FALSE /\ \A n \in Nodes : req[c][n] = "none"
    BY DEF DispatchInit
  <2>2. Distinct(call[c].chain)
    <3>1. Len(<<>>) = 0
      OBVIOUS
    <3> QED
      BY <2>1, <3>1 DEF Distinct
  <2>3. call[c].fallback_activated = (call[c].attempts > 1)
    <3>1. (0 > 1) = FALSE
      OBVIOUS
    <3> QED
      BY <2>1, <3>1, Zenon
  <2> QED
    BY <2>1, <2>2, <2>3 DEF CallOutcome
<1>2. DispatchSafe /\ OutcomeInv /\ [DispatchNext]_vars => OutcomeInv'
  BY OutcomeStep
<1> QED
  BY <1>1, <1>2, DispatchSafety, PTL DEF DispatchSpec

\* What dispatch reports agrees with what the nodes did: a result is that of the node
\* it names, and the loop goes on from a node that has the result only when the
\* answer was lost (dispatcher.py:130-261).
THEOREM OutcomesMatchNodes == DispatchSpec => []OutcomeMatchesNodes
<1>1. OutcomeInv => OutcomeMatchesNodes
  BY DEF OutcomeInv, CallOutcome, OutcomeMatchesNodes, Candidate, Answered, Holding
<1> QED
  BY <1>1, OutcomeInvariant, PTL

\* No node gets the same task twice from one call, whatever the decision's chain
\* repeats (dispatcher.py:114-119).
THEOREM NodesTriedOnce == DispatchSpec => EachNodeTriedOnce
<1> DEFINE Step == \A c \in Calls : call[c].pc = "stub" /\ call'[c].pc = "waiting"
                                      => req[c][Candidate(c)] = "none"
<1>1. DispatchSafe /\ OutcomeInv => Step
  <2> SUFFICES ASSUME DispatchSafe, OutcomeInv, NEW c \in Calls, call[c].pc = "stub"
               PROVE  req[c][Candidate(c)] = "none"
    OBVIOUS
  <2>1. /\ call[c].attempts \in 1..Len(call[c].chain)
        /\ Candidate(c) = call[c].chain[call[c].attempts] /\ Candidate(c) \in Nodes
        /\ call[c].chain \in Seq(Nodes)
    BY CandidateInNodes DEF DispatchSafe, InChain, Candidate, DispatchTypeOK, CallType
  <2>2. CallOutcome(call[c], req[c])
    BY DEF OutcomeInv
  <2>3. \A i \in 1..Len(call[c].chain) : i < call[c].attempts => call[c].chain[i] # Candidate(c)
    BY <2>1, <2>2 DEF CallOutcome, Distinct
  <2> QED
    BY <2>1, <2>2, <2>3 DEF CallOutcome
<1>2. DispatchSafe /\ OutcomeInv => [Step]_vars
  BY <1>1
<1> QED
  BY <1>2, DispatchSafety, OutcomeInvariant, PTL DEF DispatchSpec, EachNodeTriedOnce
=============================================================================
