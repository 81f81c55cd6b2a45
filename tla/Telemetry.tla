----------------------------- MODULE Telemetry -----------------------------
(***************************************************************************)
(* Registration and telemetry ingestion: the streamer of every node agent  *)
(* (node_agent/grpc_client.py), the control plane's two services           *)
(* (gateway/grpc_server.py), the replay guard (telemetry/replay_state.py)  *)
(* and the snapshot store (telemetry/redis_store.py).                      *)
(*                                                                         *)
(* A stream occupies one thread of the server's pool for as long as it     *)
(* lasts.  The server may still be working on a stream that its node has   *)
(* left, so that two threads handle messages of one node; the guard's      *)
(* check is atomic (its lock), the steps of the handler around it are not. *)
(*                                                                         *)
(* Signing keys are made when an agent starts: incarnation i signs with    *)
(* key i.  An agent's restart loses its counter and its key, the server's  *)
(* restart loses the registered keys, the guard and the dispatch targets,  *)
(* and the snapshots stay in Redis.  A nonce is fresh in every message,    *)
(* and stands here for the message: <<incarnation, sequence number>>.      *)
(* Metrics are left out of messages; agents are honest and their SPIFFE    *)
(* identity is their own.                                                  *)
(***************************************************************************)
EXTENDS Integers, Sequences, FiniteSets

CONSTANTS
    Nodes,        \* node ids
    Threads,      \* the threads of the server's pool (max_workers)
    None,         \* no key, no snapshot, no message
    TTL,          \* lifetime of a message
    SvidTTL,      \* lifetime of a certificate
    MaxSkew,      \* max_clock_skew_seconds
    ClockOffset,  \* node -> how far its clock is ahead of the server's
    NonceLimit,   \* size at which the nonces of a node are forgotten
    MaxTime,      \* bound: the clock stops here
    MaxSent,      \* bound: messages of one incarnation
    MaxWire,      \* bound: messages in flight on one stream
    MaxFaults     \* bound: broken connections, restarts and failed calls

ASSUME TelemetryAssumption ==
    /\ TTL \in Nat /\ SvidTTL \in Nat /\ MaxSkew \in Nat /\ NonceLimit \in Nat /\ MaxTime \in Nat
    /\ MaxSent \in Nat /\ MaxWire \in Nat /\ MaxFaults \in Nat
    /\ ClockOffset \in [Nodes -> Int]
    /\ None \notin Nodes /\ None \notin Nat

VARIABLES
    now,          \* the server's time.time()
    agent,        \* node -> connecting, registered or streaming
    incarnation,  \* node -> number of the agent's process, and its key
    seq,          \* node -> self._sequence_number
    identity,     \* node -> the key registered in the state store
    node_targets, \* nodes the scheduler has an address for
    thread,       \* thread -> what it is doing (Idle or a stream)
    highest,      \* node -> _highest_sequence
    nonces,       \* node -> _seen_nonces
    snapshots,    \* node -> its snapshot in Redis
    admitted,     \* history: messages the guard let pass since the server started
    not_after,    \* the end of the server's certificate
    accepted,     \* history: node -> the last of them whose signature held, -1
    faults        \* faults so far

agentVars  == <<agent, incarnation, seq>>
serverVars == <<identity, node_targets, highest, nonces, admitted, accepted, not_after>>
vars == <<now, agentVars, serverVars, thread, snapshots, faults>>

Idle == [at |-> "idle", node |-> None, open |-> FALSE, wire |-> <<>>,
         env |-> None, key |-> None]
NewStream(n) == [at |-> "read", node |-> n, open |-> TRUE, wire |-> <<>>,
                 env |-> None, key |-> None]
IdleThreads == {t \in Threads : thread[t].at = "idle"}
\* The stream that node n is sending on; one at most.
StreamsOf(n) == {t \in Threads : thread[t].node = n /\ thread[t].open}

Nonce(e) == <<e.incarnation, e.seq>>

----------------------------------------------------------------------------
\* get_svid: the end of a certificate that is minted now.
MintSvid == now + SvidTTL

\* An agent connects anew, with a certificate minted for the attempt, before it
\* registers; it refuses a server whose own certificate, minted at the server's
\* start and never again, has expired.
CertificateValid == now <= not_after

\* The server has been up for some of its certificate's life when agents come.
TelemetryInit ==
    /\ now = 0
    /\ agent = [n \in Nodes |-> "connecting"]
    /\ incarnation = [n \in Nodes |-> 0]
    /\ seq = [n \in Nodes |-> 0]
    /\ identity = [n \in Nodes |-> None]
    /\ node_targets = {}
    /\ thread = [t \in Threads |-> Idle]
    /\ highest = [n \in Nodes |-> -1]
    /\ nonces = [n \in Nodes |-> {}]
    /\ snapshots = [n \in Nodes |-> None]
    /\ admitted = [n \in Nodes |-> {}]
    /\ accepted = [n \in Nodes |-> -1]
    /\ not_after \in now..MintSvid
    /\ faults = 0

Fault == faults < MaxFaults /\ faults' = faults + 1

----------------------------------------------------------------------------
(* Registration.                                                           *)

\* Fault: the dispatch target is not recorded.
ServeRegistration_KeyOnly(n) ==
    /\ agent[n] = "connecting"
    /\ CertificateValid
    /\ IdleThreads # {}
    /\ identity' = [identity EXCEPT ![n] = incarnation[n]]
    /\ UNCHANGED <<now, incarnation, seq, thread, highest, nonces, snapshots,
                   admitted, accepted, node_targets, not_after>>

\* RegisterNode, over a new connection, on a thread that is free: store the key,
\* then the address.
ServeRegistration(n) ==
    /\ agent[n] = "connecting"
    /\ CertificateValid
    /\ IdleThreads # {}
    /\ identity' = [identity EXCEPT ![n] = incarnation[n]]
    /\ node_targets' = node_targets \cup {n}
    /\ UNCHANGED <<now, incarnation, seq, thread, highest, nonces, snapshots,
                   admitted, accepted, not_after>>

RegisterNode(n) ==
    /\ ServeRegistration(n)
    /\ agent' = [agent EXCEPT ![n] = "registered"]
    /\ UNCHANGED faults

\* The answer is lost: RpcError, and the agent tries again.
RegistrationLost(n) ==
    /\ ServeRegistration(n)
    /\ Fault
    /\ UNCHANGED agent

----------------------------------------------------------------------------
(* The agent's end of a stream.                                            *)

\* Fault: a new stream counts its messages from the start.
OpenStream_NewCount(n) ==
    /\ agent[n] = "registered"
    /\ \E t \in IdleThreads : thread' = [thread EXCEPT ![t] = NewStream(n)]
    /\ agent' = [agent EXCEPT ![n] = "streaming"]
    /\ seq' = [seq EXCEPT ![n] = 0]
    /\ UNCHANGED <<now, incarnation, serverVars, snapshots, faults>>

\* Fault: the agent streams without registering its new key.
OpenStream_Unregistered(n) ==
    /\ agent[n] \in {"connecting", "registered"}
    /\ \E t \in IdleThreads : thread' = [thread EXCEPT ![t] = NewStream(n)]
    /\ agent' = [agent EXCEPT ![n] = "streaming"]
    /\ UNCHANGED <<now, incarnation, seq, serverVars, snapshots, faults>>

\* The call is taken up by a free thread; a node's key is not looked for yet.
OpenStream(n) ==
    /\ agent[n] = "registered"
    /\ \E t \in IdleThreads : thread' = [thread EXCEPT ![t] = NewStream(n)]
    /\ agent' = [agent EXCEPT ![n] = "streaming"]
    /\ UNCHANGED <<now, incarnation, seq, serverVars, snapshots, faults>>

\* _sign_telemetry; the generator's next message goes into the stream.
SignTelemetry(n) ==
    [node |-> n, incarnation |-> incarnation[n], seq |-> seq[n] + 1,
     timestamp |-> now + ClockOffset[n], expires_at |-> now + ClockOffset[n] + TTL]

Send(n) ==
    /\ agent[n] = "streaming"
    /\ seq[n] < MaxSent
    /\ \E t \in StreamsOf(n) :
         /\ Len(thread[t].wire) < MaxWire
         /\ thread' = [thread EXCEPT ![t].wire = Append(@, SignTelemetry(n))]
    /\ seq' = [seq EXCEPT ![n] = @ + 1]
    /\ UNCHANGED <<now, agent, incarnation, serverVars, snapshots, faults>>

\* The node leaves its stream; the server has yet to find out.
LeaveStream(n) ==
    thread' = [t \in Threads |-> IF t \in StreamsOf(n)
                                 THEN [thread[t] EXCEPT !.open = FALSE] ELSE thread[t]]

BreakConnection(n) ==
    /\ agent[n] # "connecting"
    /\ Fault
    /\ LeaveStream(n)
    /\ agent' = [agent EXCEPT ![n] = "connecting"]
    /\ UNCHANGED <<now, incarnation, seq, serverVars, snapshots>>

\* The agent's process dies and is started again: new counter, new key.
RestartAgent(n) ==
    /\ Fault
    /\ LeaveStream(n)
    /\ agent' = [agent EXCEPT ![n] = "connecting"]
    /\ incarnation' = [incarnation EXCEPT ![n] = @ + 1]
    /\ seq' = [seq EXCEPT ![n] = 0]
    /\ UNCHANGED <<now, serverVars, snapshots>>

----------------------------------------------------------------------------
(* The server's end: StreamTelemetry, one message at a time.               *)

\* Take the next message and fetch the key of its node; without one the
\* message is passed over.
Receive(t) ==
    LET s == thread[t] IN
    /\ s.at = "read"
    /\ s.wire # <<>>
    /\ thread' = [thread EXCEPT ![t] =
         IF identity[s.node] = None
         THEN [s EXCEPT !.wire = Tail(@)]
         ELSE [s EXCEPT !.at = "check", !.wire = Tail(@), !.env = Head(s.wire),
                        !.key = identity[s.node]]]
    /\ UNCHANGED <<now, agentVars, serverVars, snapshots, faults>>

\* Fault: the guard trusts its nonces alone.
Admits_NonceOnly(e) ==
    /\ now <= e.expires_at
    /\ e.timestamp <= now + MaxSkew
    /\ Nonce(e) \notin nonces[e.node]

\* validate_and_record: what it lets pass.
Admits(e) ==
    /\ now <= e.expires_at
    /\ e.timestamp <= now + MaxSkew
    /\ e.seq > highest[e.node]
    /\ Nonce(e) \notin nonces[e.node]

\* Fault: the number after the message's is recorded.
Remember_Next(e) ==
    /\ highest' = [highest EXCEPT ![e.node] = e.seq + 1]
    /\ nonces' = [nonces EXCEPT ![e.node] = @ \cup {Nonce(e)}]
    /\ admitted' = [admitted EXCEPT ![e.node] = @ \cup {e}]

\* validate_and_record: what it then remembers.
Remember(e) ==
    /\ highest' = [highest EXCEPT ![e.node] = e.seq]
    /\ nonces' = [nonces EXCEPT ![e.node] =
                    LET seen == @ \cup {Nonce(e)}
                    IN IF Cardinality(seen) > NonceLimit THEN {Nonce(e)} ELSE seen]
    /\ admitted' = [admitted EXCEPT ![e.node] = @ \cup {e}]

Verified(e, key) == key = e.incarnation

NextMessage(s) == [s EXCEPT !.at = "read", !.env = None, !.key = None]

\* The guard first, then the signature, with the key fetched before.
Check(t) ==
    LET s == thread[t] IN
    /\ s.at = "check"
    /\ IF Admits(s.env) THEN Remember(s.env) ELSE UNCHANGED <<highest, nonces, admitted>>
    /\ IF Admits(s.env) /\ Verified(s.env, s.key)
         THEN /\ thread' = [thread EXCEPT ![t].at = "store"]
              /\ accepted' = [accepted EXCEPT ![s.node] = s.env.seq]
         ELSE /\ thread' = [thread EXCEPT ![t] = NextMessage(s)]
              /\ UNCHANGED accepted
    /\ UNCHANGED <<now, agentVars, identity, node_targets, not_after, snapshots, faults>>

\* record_snapshot.
Store(t) ==
    LET s == thread[t] IN
    /\ s.at = "store"
    /\ snapshots' = [snapshots EXCEPT ![s.node] =
         [incarnation |-> s.env.incarnation, seq |-> s.env.seq,
          timestamp |-> s.env.timestamp]]
    /\ thread' = [thread EXCEPT ![t] = NextMessage(s)]
    /\ UNCHANGED <<now, agentVars, serverVars, faults>>

\* The store raises: the handler answers "error", and a node that is still on
\* the stream connects again.
StoreFails(t) ==
    LET s == thread[t] IN
    /\ s.at = "store"
    /\ Fault
    /\ thread' = [thread EXCEPT ![t] = Idle]
    /\ agent' = [agent EXCEPT ![s.node] = IF s.open THEN "connecting" ELSE @]
    /\ UNCHANGED <<now, incarnation, seq, serverVars, snapshots>>

\* Fault: a handler ends only when it has nothing left to read.
EndStream_Drains(t) ==
    /\ thread[t].at = "read"
    /\ thread[t].wire # <<>>
    /\ ~thread[t].open
    /\ thread' = [thread EXCEPT ![t] = Idle]
    /\ UNCHANGED <<now, agentVars, serverVars, snapshots, faults>>

\* The server finds out that the node has left, and drops what is unread.
EndStream(t) ==
    /\ thread[t].at = "read"
    /\ ~thread[t].open
    /\ thread' = [thread EXCEPT ![t] = Idle]
    /\ UNCHANGED <<now, agentVars, serverVars, snapshots, faults>>

----------------------------------------------------------------------------
\* The control plane's process dies and is started again.  An agent that is
\* between its two calls may find the new process behind the same channel.
RestartServer ==
    /\ Fault
    /\ thread' = [t \in Threads |-> Idle]
    /\ identity' = [n \in Nodes |-> None]
    /\ node_targets' = {}
    /\ highest' = [n \in Nodes |-> -1]
    /\ nonces' = [n \in Nodes |-> {}]
    /\ admitted' = [n \in Nodes |-> {}]
    /\ accepted' = [n \in Nodes |-> -1]
    /\ not_after' = MintSvid
    /\ \E unaware \in SUBSET {n \in Nodes : agent[n] = "registered"} :
         agent' = [n \in Nodes |-> IF n \in unaware THEN "registered" ELSE "connecting"]
    /\ UNCHANGED <<now, incarnation, seq, snapshots>>

Tick ==
    /\ now < MaxTime
    /\ now' = now + 1
    /\ UNCHANGED <<agentVars, serverVars, thread, snapshots, faults>>

TelemetryNext ==
    \/ \E n \in Nodes :
         \/ RegisterNode(n) \/ RegistrationLost(n) \/ OpenStream(n) \/ Send(n)
         \/ BreakConnection(n) \/ RestartAgent(n)
    \/ \E t \in Threads :
         Receive(t) \/ Check(t) \/ Store(t) \/ StoreFails(t) \/ EndStream(t)
    \/ RestartServer
    \/ Tick

\* The streamer's loop tries for ever; the pool's queue is served in order; a
\* thread goes on with its message, and learns in the end that its peer has gone.
TelemetryFairness ==
    /\ \A n \in Nodes : WF_vars(RegisterNode(n)) /\ WF_vars(OpenStream(n))
    /\ \A t \in Threads :
         /\ WF_vars(Receive(t)) /\ WF_vars(Check(t)) /\ WF_vars(Store(t))
         /\ WF_vars(EndStream(t))

TelemetrySpec == TelemetryInit /\ [][TelemetryNext]_vars
TelemetryFairSpec == TelemetrySpec /\ TelemetryFairness

----------------------------------------------------------------------------
(* Properties.                                                             *)

Messages(n) ==
    [node : {n}, incarnation : 0..incarnation[n], seq : 1..MaxSent,
     timestamp : {i + ClockOffset[n] : i \in 0..now},
     expires_at : {i + ClockOffset[n] + TTL : i \in 0..now}]

StreamTypeOK(s) ==
    /\ s.node \in Nodes
    /\ s.open \in BOOLEAN
    /\ s.wire \in Seq(Messages(s.node))
    /\ s.at \in {"read", "check", "store"}
    /\ IF s.at = "read" THEN s.env = None /\ s.key = None
                       ELSE s.env \in Messages(s.node) /\ s.key \in 0..incarnation[s.node]

TelemetryTypeOK ==
    /\ now \in 0..MaxTime
    /\ agent \in [Nodes -> {"connecting", "registered", "streaming"}]
    /\ incarnation \in [Nodes -> Nat]
    /\ seq \in [Nodes -> 0..MaxSent]
    /\ node_targets \subseteq Nodes
    /\ DOMAIN thread = Threads
    /\ \A t \in Threads : thread[t] = Idle \/ StreamTypeOK(thread[t])
    /\ highest \in [Nodes -> -1..MaxSent]
    /\ accepted \in [Nodes -> -1..MaxSent]
    /\ \A n \in Nodes :
         /\ identity[n] \in 0..incarnation[n] \cup {None}
         /\ nonces[n] \subseteq (0..incarnation[n]) \X (1..MaxSent)
         /\ admitted[n] \subseteq Messages(n)
         /\ snapshots[n] = None \/
              \E e \in Messages(n) :
                 snapshots[n] = [incarnation |-> e.incarnation, seq |-> e.seq,
                                 timestamp |-> e.timestamp]
    /\ not_after \in 0..(now + SvidTTL)
    /\ faults \in 0..MaxFaults

\* A message that the guard let pass is refused from then on, also after its nonce
\* was forgotten with the others when the cache was full (replay_state.py:31-50).
ReplayStopped == \A n \in Nodes : \A e \in admitted[n] : ~Admits(e)

\* Whatever the guard lets pass is newer than what Redis holds of the same agent
\* process: on streams the node has left, on new ones, and after the server lost
\* the guard's memory (replay_state.py:31, grpc_client.py:44, redis_store.py:32).
AdmitsOnlyNewer ==
    [][\A n \in Nodes : \A e \in admitted'[n] \ admitted[n] :
         snapshots[n] # None /\ snapshots[n].incarnation = e.incarnation
            => snapshots[n].seq < e.seq]_vars

Newer(s, than) ==
    \/ s.incarnation > than.incarnation
    \/ s.incarnation = than.incarnation /\ s.seq > than.seq

\* The stream a node is on never takes its snapshot back; only the thread of a
\* stream it has left, overtaken between the guard and the store, can.
CurrentStreamAdvances ==
    [][\A t \in Threads :
         thread[t].at = "store" /\ thread[t].open /\ thread'[t].at = "read"
         /\ snapshots[thread[t].node] # None
            => Newer(thread[t].env, snapshots[thread[t].node])]_vars

\* A node whose telemetry is let in has its key in the state store and an address
\* in the scheduler, in the server's present life (gateway/grpc_server.py:50-64).
HeardNodesReachable ==
    \A n \in Nodes : admitted[n] # {} => identity[n] # None /\ n \in node_targets

\* After connections break and processes die, every agent is on a stream again, for
\* the streams its node has left give their threads back (gateway/grpc_server.py:78-135);
\* or else the server has outlived its certificate, and then no agent that is off
\* its stream comes back before the server's restart (common/tls.py:4-15).
AgentsReconnect ==
    \A n \in Nodes :
        agent[n] # "streaming" ~> agent[n] = "streaming" \/ ~CertificateValid

\* A number that was never accepted bars later messages only if it came from an
\* earlier process of the agent: the guard counts a message before its signature
\* is checked, with a key that may have been replaced (gateway/grpc_server.py:84-106).
OnlyOldProcessesBlock ==
    \A n \in Nodes : highest[n] # accepted[n] =>
        \E e \in admitted[n] : e.seq = highest[n] /\ e.incarnation < incarnation[n]
=============================================================================
