-------------------------- MODULE TelemetryProofs --------------------------
(***************************************************************************)
(* Proofs about Telemetry, for any nodes, threads, clocks and bounds.      *)
(*                                                                         *)
(* The invariant TelemetryInv says, of every message in flight or in a     *)
(* handler's hands, how its process, its number and its key relate to the  *)
(* agent's, to the registered key, to the guard and to the store.          *)
(***************************************************************************)
EXTENDS Telemetry, TLAPS, SequenceTheorems

Message == [node : Nodes, incarnation : Nat, seq : Nat, timestamp : Int,
            expires_at : Int]
Snapshot == [incarnation : Nat, seq : Nat, timestamp : Int]

\* The fields of a thread.
ThreadState ==
    [at : {"idle", "read", "check", "store"}, node : Nodes \cup {None}, open : BOOLEAN,
     wire : Seq(Message), env : Message \cup {None}, key : Nat \cup {None}]

Shape ==
    /\ now \in Int
    /\ agent \in [Nodes -> {"connecting", "registered", "streaming"}]
    /\ incarnation \in [Nodes -> Nat]
    /\ seq \in [Nodes -> Nat]
    /\ identity \in [Nodes -> Nat \cup {None}]
    /\ thread \in [Threads -> ThreadState]
    /\ highest \in [Nodes -> Int]
    /\ accepted \in [Nodes -> Int]
    /\ nonces \in [Nodes -> SUBSET (Nat \X Nat)]
    /\ snapshots \in [Nodes -> Snapshot \cup {None}]
    /\ admitted \in [Nodes -> SUBSET Message]

\* A registered key is the agent's, or that of an earlier process of an agent
\* which has not registered again.
KeysOK ==
    \A n \in Nodes : identity[n] # None =>
        /\ n \in node_targets
        /\ identity[n] <= incarnation[n]
        /\ agent[n] # "connecting" => identity[n] = incarnation[n]

\* A message or snapshot m of node n: sent by a process the node has had.
SentBy(n, m) ==
    /\ m.incarnation <= incarnation[n]
    /\ m.incarnation = incarnation[n] => m.seq <= seq[n]

\* A message that is not past the guard is newer than the snapshot of its process,
\* unless the guard knows of a message at least as new as that snapshot.
NewerOrBarred(n, e) ==
    snapshots[n] # None /\ snapshots[n].incarnation = e.incarnation =>
        snapshots[n].seq <= highest[n] \/ snapshots[n].seq < e.seq

Waiting(n, e) ==
    /\ e.node = n
    /\ SentBy(n, e)
    /\ identity[n] # None => e.incarnation <= identity[n]
    /\ NewerOrBarred(n, e)

StreamOK(s) ==
    /\ s.node \in Nodes
    /\ \A i \in DOMAIN s.wire : Waiting(s.node, s.wire[i])
    /\ s.at = "check" =>
         /\ s.env \in Message /\ s.key \in Nat
         /\ Waiting(s.node, s.env)
         /\ identity[s.node] # None
         /\ s.env.incarnation <= s.key /\ s.key <= incarnation[s.node]
    /\ s.at = "store" =>
         /\ s.env \in Message
         /\ s.env.node = s.node
         /\ SentBy(s.node, s.env)
         /\ s.env.seq <= highest[s.node]

ThreadsOK == \A t \in Threads : thread[t].at # "idle" => StreamOK(thread[t])

IdleOK == \A t \in Threads : thread[t].at = "idle" => thread[t] = Idle

SnapshotsOK == \A n \in Nodes : snapshots[n] # None => SentBy(n, snapshots[n])

AdmittedOK ==
    \A n \in Nodes :
        /\ \A e \in admitted[n] : e.node = n /\ e.seq <= highest[n]
        /\ admitted[n] # {} => identity[n] # None

TelemetryInv ==
    /\ Shape
    /\ KeysOK
    /\ IdleOK
    /\ ThreadsOK
    /\ SnapshotsOK
    /\ AdmittedOK
    /\ OnlyOldProcessesBlock

----------------------------------------------------------------------------
\* The initial state satisfies the invariant.
LEMMA InitInv == TelemetryInit => TelemetryInv
<1> SUFFICES ASSUME TelemetryInit PROVE TelemetryInv OBVIOUS
<1>1. Idle \in ThreadState
  BY DEF Idle, ThreadState
<1>2. Shape
  BY <1>1 DEF TelemetryInit, Shape
<1>3. ThreadsOK /\ IdleOK
  BY DEF TelemetryInit, ThreadsOK, IdleOK, Idle
<1>4. KeysOK /\ SnapshotsOK /\ AdmittedOK /\ OnlyOldProcessesBlock
  BY DEF TelemetryInit, KeysOK, SnapshotsOK, AdmittedOK, OnlyOldProcessesBlock
<1> QED BY <1>2, <1>3, <1>4 DEF TelemetryInv

----------------------------------------------------------------------------
\* What the steps of a server that stays up have in common.
Grows ==
    \A n \in Nodes :
        /\ incarnation[n] <= incarnation'[n]
        /\ incarnation'[n] = incarnation[n] => seq[n] <= seq'[n]
        /\ identity'[n] \in {identity[n], incarnation'[n]}
        /\ highest[n] <= highest'[n]
        /\ \/ snapshots'[n] = snapshots[n]
           \/ snapshots'[n] \in Snapshot /\ snapshots'[n].seq <= highest'[n]

\* A message that waits goes on waiting properly.
LEMMA WaitingKept ==
    ASSUME Shape, Shape', Grows
    PROVE  \A n \in Nodes : \A e \in Message : Waiting(n, e) => Waiting(n, e)'
<1> SUFFICES ASSUME NEW n \in Nodes, NEW e \in Message, Waiting(n, e)
             PROVE  Waiting(n, e)'
  OBVIOUS
<1> USE DEF Message
<1>1. SentBy(n, e)'
  BY DEF Waiting, SentBy, Shape, Grows
<1>2. identity'[n] # None => e.incarnation <= identity'[n]
  BY DEF Waiting, SentBy, Shape, Grows
<1>3. NewerOrBarred(n, e)'
  BY DEF Waiting, NewerOrBarred, Shape, Grows, Snapshot
<1> QED BY <1>1, <1>2, <1>3 DEF Waiting

\* A stream that a step leaves as it is stays as the invariant says.
LEMMA StreamKept ==
    ASSUME Shape, Shape', Grows
    PROVE  \A s \in ThreadState : s.at # "idle" /\ StreamOK(s) => StreamOK(s)'
<1> SUFFICES ASSUME NEW s \in ThreadState, StreamOK(s)
             PROVE  StreamOK(s)'
  OBVIOUS
<1>1. s.node \in Nodes
  BY DEF StreamOK
<1>2. \A i \in DOMAIN s.wire : Waiting(s.node, s.wire[i])'
  <2>1. s.wire \in Seq(Message)
    BY DEF ThreadState
  <2> QED BY <1>1, <2>1, WaitingKept DEF StreamOK
<1>3. s.at = "check" =>
        /\ s.env \in Message /\ s.key \in Nat
        /\ Waiting(s.node, s.env)'
        /\ identity'[s.node] # None
        /\ s.env.incarnation <= s.key /\ s.key <= incarnation'[s.node]
  <2> SUFFICES ASSUME s.at = "check"
               PROVE /\ s.env \in Message /\ s.key \in Nat
                     /\ Waiting(s.node, s.env)'
                     /\ identity'[s.node] # None
                     /\ s.env.incarnation <= s.key /\ s.key <= incarnation'[s.node]
    OBVIOUS
  <2>1. /\ s.env \in Message /\ s.key \in Nat
        /\ Waiting(s.node, s.env)
        /\ identity[s.node] # None
        /\ s.env.incarnation <= s.key /\ s.key <= incarnation[s.node]
    BY DEF StreamOK
  <2>2. Waiting(s.node, s.env)'
    BY <1>1, <2>1, WaitingKept
  <2>3. identity'[s.node] # None
    BY <1>1, <2>1, TelemetryAssumption DEF Grows, Shape
  <2>4. s.key <= incarnation'[s.node]
    BY <1>1, <2>1 DEF Grows, Shape
  <2> QED BY <2>1, <2>2, <2>3, <2>4
<1>4. s.at = "store" =>
        /\ s.env \in Message
        /\ s.env.node = s.node
        /\ SentBy(s.node, s.env)'
        /\ s.env.seq <= highest'[s.node]
  <2> SUFFICES ASSUME s.at = "store"
               PROVE /\ s.env \in Message
                     /\ s.env.node = s.node
                     /\ SentBy(s.node, s.env)'
                     /\ s.env.seq <= highest'[s.node]
    OBVIOUS
  <2>1. /\ s.env \in Message
        /\ s.env.node = s.node
        /\ SentBy(s.node, s.env)
        /\ s.env.seq <= highest[s.node]
    BY DEF StreamOK
  <2>2. s.env.incarnation \in Nat /\ s.env.seq \in Nat
    BY <2>1 DEF Message
  <2>3. SentBy(s.node, s.env)'
    <3>1. /\ incarnation[s.node] <= incarnation'[s.node]
          /\ incarnation'[s.node] = incarnation[s.node] => seq[s.node] <= seq'[s.node]
          /\ incarnation[s.node] \in Nat /\ incarnation'[s.node] \in Nat
          /\ seq[s.node] \in Nat /\ seq'[s.node] \in Nat
      BY <1>1 DEF Grows, Shape
    <3> QED BY <2>1, <2>2, <3>1 DEF SentBy
  <2>4. s.env.seq <= highest'[s.node]
    BY <1>1, <2>1, <2>2 DEF Grows, Shape
  <2> QED BY <2>1, <2>3, <2>4
<1> QED BY <1>1, <1>2, <1>3, <1>4 DEF StreamOK

----------------------------------------------------------------------------
\* The invariant of all threads: it remains to show it for those that a step does
\* more with than to close their stream or to end it.
LEMMA ThreadsKept ==
    ASSUME TelemetryInv, Shape', Grows,
           \A t \in Threads :
               \/ thread'[t] = thread[t]
               \/ thread'[t] = [thread[t] EXCEPT !.open = FALSE] /\ thread[t].at # "idle"
               \/ thread'[t] = Idle
               \/ thread'[t].at # "idle" /\ StreamOK(thread[t])'
    PROVE  ThreadsOK' /\ IdleOK'
<1> SUFFICES ASSUME NEW t \in Threads
             PROVE  /\ thread'[t].at # "idle" => StreamOK(thread[t])'
                    /\ thread'[t].at = "idle" => thread'[t] = Idle
  BY DEF ThreadsOK, IdleOK
<1>a. /\ thread[t] \in ThreadState
      /\ thread[t].at # "idle" => StreamOK(thread[t])
      /\ thread[t].at = "idle" => thread[t] = Idle
  BY DEF TelemetryInv, Shape, ThreadsOK, IdleOK
<1>1. CASE thread'[t] = thread[t]
  <2>1. ASSUME thread[t].at # "idle" PROVE StreamOK(thread[t])'
    <3>1. \A r \in ThreadState : r.at # "idle" /\ StreamOK(r) => StreamOK(r)'
      BY StreamKept DEF TelemetryInv
    <3> QED BY <1>a, <1>1, <2>1, <3>1 DEF StreamOK, Waiting, SentBy, NewerOrBarred
  <2> QED BY <1>a, <1>1, <2>1
<1>2. CASE thread'[t] = [thread[t] EXCEPT !.open = FALSE] /\ thread[t].at # "idle"
  <2>1. /\ thread'[t].at = thread[t].at /\ thread'[t].node = thread[t].node
        /\ thread'[t].wire = thread[t].wire /\ thread'[t].env = thread[t].env
        /\ thread'[t].key = thread[t].key
    BY <1>a, <1>2 DEF ThreadState
  <2>2. \A r \in ThreadState : r.at # "idle" /\ StreamOK(r) => StreamOK(r)'
    BY StreamKept DEF TelemetryInv
  <2>3. StreamOK(thread[t])'
    BY <1>a, <1>2, <2>1, <2>2 DEF StreamOK, Waiting, SentBy, NewerOrBarred
  <2> QED BY <1>2, <2>1, <2>3
<1>3. CASE thread'[t] = Idle
  BY <1>3 DEF Idle
<1>4. CASE thread'[t].at # "idle" /\ StreamOK(thread[t])'
  BY <1>4
<1> QED BY <1>1, <1>2, <1>3, <1>4

----------------------------------------------------------------------------
(* The actions.                                                            *)

\* Registration, whether or not its answer arrives.
LEMMA RegistrationStep ==
    ASSUME TelemetryInv, NEW n \in Nodes, ServeRegistration(n),
           \/ agent' = [agent EXCEPT ![n] = "registered"]
           \/ agent' = agent
    PROVE  TelemetryInv'
<1>1. Shape'
  BY DEF TelemetryInv, Shape, ServeRegistration
<1>2. Grows
  BY DEF TelemetryInv, Shape, ServeRegistration, Grows
<1>3. ThreadsOK' /\ IdleOK'
  BY <1>1, <1>2, ThreadsKept DEF ServeRegistration
<1>4. KeysOK'
  BY DEF TelemetryInv, Shape, KeysOK, ServeRegistration
<1>5. SnapshotsOK'
  BY DEF TelemetryInv, SnapshotsOK, SentBy, ServeRegistration
<1>6. AdmittedOK'
  BY TelemetryAssumption DEF TelemetryInv, Shape, AdmittedOK, ServeRegistration
<1>7. OnlyOldProcessesBlock'
  BY DEF TelemetryInv, OnlyOldProcessesBlock, ServeRegistration
<1> QED BY <1>1, <1>3, <1>4, <1>5, <1>6, <1>7 DEF TelemetryInv

\* A registered agent's call is taken up.
LEMMA OpenStreamStep ==
    ASSUME TelemetryInv, NEW n \in Nodes, OpenStream(n)
    PROVE  TelemetryInv'
<1>1. PICK t \in IdleThreads : thread' = [thread EXCEPT ![t] = NewStream(n)]
  BY DEF OpenStream
<1>2. NewStream(n) \in ThreadState
  BY DEF NewStream, ThreadState
<1>3. Shape'
  BY <1>1, <1>2 DEF TelemetryInv, Shape, OpenStream, serverVars
<1>4. Grows
  BY DEF TelemetryInv, Shape, OpenStream, serverVars, Grows
<1>5. ThreadsOK' /\ IdleOK'
  <2>1. thread'[t] = NewStream(n)
    BY <1>1 DEF TelemetryInv, Shape, IdleThreads
  <2>2. thread'[t].at # "idle" /\ StreamOK(thread[t])'
    BY <1>2, <2>1 DEF NewStream, StreamOK
  <2>3. \A u \in Threads \ {t} : thread'[u] = thread[u]
    BY <1>1 DEF TelemetryInv, Shape
  <2> QED BY <1>3, <1>4, <2>2, <2>3, ThreadsKept
<1>6. KeysOK'
  BY DEF TelemetryInv, Shape, KeysOK, OpenStream, serverVars
<1>7. SnapshotsOK' /\ AdmittedOK' /\ OnlyOldProcessesBlock'
  BY DEF TelemetryInv, SnapshotsOK, SentBy, AdmittedOK, OnlyOldProcessesBlock,
         OpenStream, serverVars
<1> QED BY <1>3, <1>5, <1>6, <1>7 DEF TelemetryInv

\* The agent sends: its new message is the newest of its process.
LEMMA SendStep ==
    ASSUME TelemetryInv, NEW n \in Nodes, Send(n)
    PROVE  TelemetryInv'
<1>1. PICK t \in StreamsOf(n) :
        thread' = [thread EXCEPT ![t].wire = Append(@, SignTelemetry(n))]
  BY DEF Send
<1>2. /\ t \in Threads /\ thread[t].node = n /\ thread[t] \in ThreadState
      /\ thread[t].at # "idle" /\ StreamOK(thread[t])
  BY TelemetryAssumption DEF StreamsOf, TelemetryInv, Shape, IdleOK, ThreadsOK, Idle
<1>3. SignTelemetry(n) \in Message
  BY TelemetryAssumption DEF TelemetryInv, Shape, SignTelemetry, Message
<1>a. PICK e \in Message : e = SignTelemetry(n)
  BY <1>3
<1>b. PICK s \in ThreadState : s = thread[t]
  BY <1>2
<1>4. thread'[t] = [s EXCEPT !.wire = Append(s.wire, e)]
  BY <1>1, <1>2, <1>a, <1>b DEF TelemetryInv, Shape
<1>5. /\ thread'[t] \in ThreadState
      /\ thread'[t].at = s.at /\ thread'[t].node = n
      /\ thread'[t].wire = Append(s.wire, e)
      /\ thread'[t].env = s.env /\ thread'[t].key = s.key
  BY <1>2, <1>b, <1>4 DEF ThreadState
<1>6. Shape'
  <2>1. thread' = [thread EXCEPT ![t] = [s EXCEPT !.wire = Append(s.wire, e)]]
    BY <1>1, <1>a, <1>b
  <2>2. thread' \in [Threads -> ThreadState]
    BY <1>4, <1>5, <2>1 DEF TelemetryInv, Shape
  <2> QED BY <2>2 DEF TelemetryInv, Shape, Send, serverVars
<1>7. Grows
  BY DEF TelemetryInv, Shape, Send, serverVars, Grows
<1>8. ThreadsOK' /\ IdleOK'
  <2>1. \A r \in ThreadState : r.at # "idle" /\ StreamOK(r) => StreamOK(r)'
    BY <1>6, <1>7, StreamKept DEF TelemetryInv
  <2>2. Waiting(n, e)'
    <3>1. e.node = n /\ e.incarnation = incarnation[n] /\ e.seq = seq[n] + 1
      BY <1>a DEF SignTelemetry
    <3>2. SentBy(n, e)'
      BY <3>1 DEF Send, SentBy, TelemetryInv, Shape
    <3>3. identity'[n] # None => e.incarnation <= identity'[n]
      BY <3>1 DEF Send, serverVars, TelemetryInv, Shape, KeysOK
    <3>4. NewerOrBarred(n, e)'
      BY <3>1 DEF Send, serverVars, TelemetryInv, Shape, SnapshotsOK, SentBy,
                  NewerOrBarred, Snapshot
    <3> QED BY <3>1, <3>2, <3>3, <3>4 DEF Waiting
  <2>3. StreamOK(s)'
    BY <1>2, <1>b, <2>1
  <2>4. PICK w \in ThreadState : w = thread'[t]
    BY <1>5
  <2>5. s.wire \in Seq(Message)
    BY DEF ThreadState
  <2>6. \A i \in DOMAIN w.wire : Waiting(n, w.wire[i])'
    <3>1. \A i \in DOMAIN s.wire : Waiting(n, s.wire[i])'
      BY <1>2, <1>b, <2>3 DEF StreamOK
    <3>2. \A i \in DOMAIN w.wire :
            \/ w.wire[i] = e
            \/ i \in DOMAIN s.wire /\ w.wire[i] = s.wire[i]
      <4>1. w.wire = Append(s.wire, e)
        BY <1>5, <2>4
      <4>2. \A q \in Seq(Message) : \A i \in DOMAIN Append(q, e) :
              \/ Append(q, e)[i] = e
              \/ i \in DOMAIN q /\ Append(q, e)[i] = q[i]
        OBVIOUS
      <4> QED BY <2>5, <4>1, <4>2
    <3> QED BY <2>2, <3>1, <3>2
  <2>7. StreamOK(w)'
    BY <1>2, <1>5, <1>b, <2>3, <2>4, <2>6 DEF StreamOK
  <2>8. thread'[t].at # "idle" /\ StreamOK(thread[t])'
    BY <1>2, <1>5, <1>b, <2>4, <2>7 DEF StreamOK, Waiting, SentBy, NewerOrBarred
  <2>9. \A u \in Threads \ {t} : thread'[u] = thread[u]
    BY <1>1, <1>2 DEF TelemetryInv, Shape
  <2> QED BY <1>2, <1>6, <1>7, <2>8, <2>9, ThreadsKept
<1>9. KeysOK'
  BY DEF TelemetryInv, Shape, KeysOK, Send, serverVars
<1>10. SnapshotsOK'
  BY DEF TelemetryInv, Shape, SnapshotsOK, Snapshot, SentBy, Send
<1>11. AdmittedOK' /\ OnlyOldProcessesBlock'
  BY DEF TelemetryInv, AdmittedOK, OnlyOldProcessesBlock, Send, serverVars
<1> QED BY <1>6, <1>8, <1>9, <1>10, <1>11 DEF TelemetryInv

\* The agent leaves its stream, dead or alive.
LEMMA LeaveStep ==
    ASSUME TelemetryInv, NEW n \in Nodes, BreakConnection(n) \/ RestartAgent(n)
    PROVE  TelemetryInv'
<1>0. \A t \in Threads : thread'[t] = IF t \in StreamsOf(n)
                                     THEN [thread[t] EXCEPT !.open = FALSE] ELSE thread[t]
  BY DEF BreakConnection, RestartAgent, LeaveStream
<1>a. \A t \in StreamsOf(n) : thread[t].at # "idle"
  BY TelemetryAssumption DEF StreamsOf, TelemetryInv, IdleOK, Idle
<1>1. \A t \in Threads :
        \/ thread'[t] = thread[t]
        \/ thread'[t] = [thread[t] EXCEPT !.open = FALSE] /\ thread[t].at # "idle"
  BY <1>0, <1>a
<1>2. thread' \in [Threads -> ThreadState]
  <2>1. \A t \in Threads : thread[t] \in ThreadState
    BY DEF TelemetryInv, Shape
  <2>2. \A s \in ThreadState : [s EXCEPT !.open = FALSE] \in ThreadState
    BY DEF ThreadState
  <2>3. \A t \in Threads : thread'[t] \in ThreadState
    BY <1>1, <2>1, <2>2
  <2>4. thread' = [t \in Threads |-> thread'[t]]
    BY DEF BreakConnection, RestartAgent, LeaveStream
  <2> QED BY <2>3, <2>4
<1>3. Shape'
  BY <1>2 DEF TelemetryInv, Shape, BreakConnection, RestartAgent, serverVars
<1>4. Grows
  BY DEF TelemetryInv, Shape, BreakConnection, RestartAgent, serverVars, Grows
<1>5. ThreadsOK' /\ IdleOK'
  BY <1>1, <1>3, <1>4, ThreadsKept
<1>6. KeysOK'
  BY DEF TelemetryInv, Shape, KeysOK, BreakConnection, RestartAgent, serverVars
<1>7. SnapshotsOK'
  BY DEF TelemetryInv, Shape, SnapshotsOK, Snapshot, SentBy, BreakConnection, RestartAgent
<1>8. AdmittedOK'
  BY DEF TelemetryInv, AdmittedOK, BreakConnection, RestartAgent, serverVars
<1>9. OnlyOldProcessesBlock'
  BY DEF TelemetryInv, Shape, OnlyOldProcessesBlock, Message, BreakConnection,
         RestartAgent, serverVars
<1> QED BY <1>3, <1>5, <1>6, <1>7, <1>8, <1>9 DEF TelemetryInv

\* The handler takes a message: its process is no later than the key's.
LEMMA ReceiveStep ==
    ASSUME TelemetryInv, NEW t \in Threads, Receive(t)
    PROVE  TelemetryInv'
<1>1. /\ thread[t] \in ThreadState /\ StreamOK(thread[t])
      /\ thread[t].at = "read" /\ thread[t].wire # <<>>
  BY DEF Receive, TelemetryInv, Shape, ThreadsOK
<1>2. PICK s \in ThreadState : s = thread[t]
  BY <1>1
<1>3. /\ s.at = "read" /\ s.wire \in Seq(Message) /\ s.wire # <<>>
      /\ s.node \in Nodes /\ StreamOK(s)
  BY <1>1, <1>2 DEF ThreadState, StreamOK
<1>4. /\ Head(s.wire) \in Message /\ Waiting(s.node, Head(s.wire))
      /\ Tail(s.wire) \in Seq(Message)
      /\ \A i \in DOMAIN Tail(s.wire) : Waiting(s.node, Tail(s.wire)[i])
  <2>1. /\ 1 \in DOMAIN s.wire /\ Head(s.wire) = s.wire[1]
        /\ Head(s.wire) \in Message /\ Tail(s.wire) \in Seq(Message)
        /\ \A i \in DOMAIN Tail(s.wire) :
             i + 1 \in DOMAIN s.wire /\ Tail(s.wire)[i] = s.wire[i + 1]
    BY <1>3
  <2>2. \A i \in DOMAIN s.wire : Waiting(s.node, s.wire[i])
    BY <1>3 DEF StreamOK
  <2> QED BY <2>1, <2>2
<1>5. thread'[t] = IF identity[s.node] = None
                   THEN [s EXCEPT !.wire = Tail(s.wire)]
                   ELSE [s EXCEPT !.at = "check", !.wire = Tail(s.wire),
                                  !.env = Head(s.wire), !.key = identity[s.node]]
  BY <1>2 DEF Receive, TelemetryInv, Shape
<1>6. PICK w \in ThreadState :
        /\ w = thread'[t]
        /\ w.node = s.node /\ w.wire = Tail(s.wire)
        /\ IF identity[s.node] = None THEN w.at = "read"
           ELSE w.at = "check" /\ w.env = Head(s.wire) /\ w.key = identity[s.node]
  <2>1. identity[s.node] \in Nat \cup {None}
    BY <1>3 DEF TelemetryInv, Shape
  <2>2. CASE identity[s.node] = None
    BY <1>3, <1>4, <1>5, <2>2 DEF ThreadState
  <2>3. CASE identity[s.node] # None
    BY <1>3, <1>4, <1>5, <2>1, <2>3 DEF ThreadState
  <2> QED BY <2>2, <2>3
<1>7. Shape'
  <2>1. thread' = [thread EXCEPT ![t] = w]
    BY <1>2, <1>5, <1>6 DEF Receive
  <2>2. thread' \in [Threads -> ThreadState]
    BY <2>1 DEF TelemetryInv, Shape
  <2> QED BY <2>2 DEF TelemetryInv, Shape, Receive, agentVars, serverVars
<1>8. Grows
  BY DEF TelemetryInv, Shape, Receive, agentVars, serverVars, Grows
<1>9. ThreadsOK' /\ IdleOK'
  <2>1. StreamOK(w)
    <3>1. \A i \in DOMAIN w.wire : Waiting(w.node, w.wire[i])
      BY <1>4, <1>6
    <3>2. w.at = "check" => /\ w.env = Head(s.wire) /\ w.key = identity[s.node]
                            /\ identity[s.node] # None
      BY <1>6
    <3>3. w.at = "check" =>
            /\ w.env \in Message /\ w.key \in Nat
            /\ Waiting(w.node, w.env)
            /\ identity[w.node] # None
            /\ w.env.incarnation <= w.key /\ w.key <= incarnation[w.node]
      BY <1>3, <1>4, <1>6, <3>2 DEF TelemetryInv, Shape, KeysOK, Waiting
    <3>4. w.at # "store"
      BY <1>6
    <3> QED BY <1>3, <1>6, <3>1, <3>3, <3>4 DEF StreamOK
  <2>2. StreamOK(w)'
    BY <1>6, <1>7, <1>8, <2>1, StreamKept DEF TelemetryInv
  <2>3. thread'[t].at # "idle" /\ StreamOK(thread[t])'
    BY <1>6, <2>2 DEF StreamOK, Waiting, SentBy, NewerOrBarred
  <2>4. \A u \in Threads \ {t} : thread'[u] = thread[u]
    BY DEF Receive, TelemetryInv, Shape
  <2> QED BY <1>7, <1>8, <2>3, <2>4, ThreadsKept
<1>10. KeysOK' /\ SnapshotsOK' /\ AdmittedOK' /\ OnlyOldProcessesBlock'
  BY DEF TelemetryInv, KeysOK, SnapshotsOK, SentBy, AdmittedOK, OnlyOldProcessesBlock,
         Receive, agentVars, serverVars
<1> QED BY <1>7, <1>9, <1>10 DEF TelemetryInv

\* What the guard's memory does with a message e it may let pass.
LEMMA GuardSteps ==
    ASSUME TelemetryInv, NEW e \in Message,
           \/ Admits(e) /\ Remember(e)
           \/ UNCHANGED <<highest, nonces, admitted>>
    PROVE  /\ highest' \in [Nodes -> Int] /\ \A n \in Nodes : highest[n] <= highest'[n]
           /\ nonces' \in [Nodes -> SUBSET (Nat \X Nat)]
           /\ admitted' \in [Nodes -> SUBSET Message]
           /\ \A n \in Nodes : \A m \in admitted'[n] : m.node = n /\ m.seq <= highest'[n]
<1>1. CASE UNCHANGED <<highest, nonces, admitted>>
  BY <1>1 DEF TelemetryInv, Shape, AdmittedOK
<1>2. CASE Admits(e) /\ Remember(e)
  <2>1. /\ e.node \in Nodes /\ e.seq \in Nat /\ e.incarnation \in Nat
        /\ e.seq > highest[e.node]
    BY <1>2 DEF Message, Admits
  <2>2. highest' \in [Nodes -> Int] /\ \A n \in Nodes : highest[n] <= highest'[n]
    BY <1>2, <2>1 DEF TelemetryInv, Shape, Remember
  <2>3. nonces' \in [Nodes -> SUBSET (Nat \X Nat)]
    <3>1. Nonce(e) \in Nat \X Nat
      BY <2>1 DEF Nonce
    <3>2. nonces'[e.node] \in SUBSET (Nat \X Nat)
      BY <1>2, <2>1, <3>1 DEF TelemetryInv, Shape, Remember
    <3>3. nonces' = [nonces EXCEPT ![e.node] = nonces'[e.node]]
      BY <1>2, <2>1 DEF TelemetryInv, Shape, Remember
    <3> QED BY <2>1, <3>2, <3>3 DEF TelemetryInv, Shape
  <2>4. admitted' \in [Nodes -> SUBSET Message]
    BY <1>2, <2>1 DEF TelemetryInv, Shape, Remember
  <2>5. ASSUME NEW n \in Nodes, NEW m \in admitted'[n]
        PROVE  m.node = n /\ m.seq <= highest'[n]
    <3>1. CASE m \in admitted[n]
      <4>1. m \in Message /\ m.node = n /\ m.seq <= highest[n]
        BY <3>1 DEF TelemetryInv, Shape, AdmittedOK
      <4> QED BY <2>2, <4>1 DEF Message, TelemetryInv, Shape
    <3>2. CASE m \notin admitted[n]
      <4>1. m = e /\ n = e.node
        BY <1>2, <2>1, <2>5, <3>2 DEF TelemetryInv, Shape, Remember
      <4> QED BY <1>2, <2>1, <4>1 DEF TelemetryInv, Shape, Remember
    <3> QED BY <3>1, <3>2
  <2> QED BY <2>2, <2>3, <2>4, <2>5
<1> QED BY <1>1, <1>2

\* The guard and the signature: a number is spent in vain only on a message whose
\* process is older than the key the handler fetched.
LEMMA CheckStep ==
    ASSUME TelemetryInv, NEW t \in Threads, Check(t)
    PROVE  TelemetryInv'
<1>1. PICK s \in ThreadState :
        /\ s = thread[t] /\ s.at = "check" /\ StreamOK(s)
  BY DEF Check, TelemetryInv, Shape, ThreadsOK
<1>2. /\ s.node \in Nodes /\ s.env \in Message /\ s.key \in Nat
      /\ Waiting(s.node, s.env) /\ identity[s.node] # None
      /\ s.env.incarnation <= s.key /\ s.key <= incarnation[s.node]
      /\ s.env.node = s.node /\ s.env.seq \in Nat /\ s.env.incarnation \in Nat
  BY <1>1 DEF StreamOK, Waiting, Message
<1>3. /\ IF Admits(s.env) THEN Remember(s.env) ELSE UNCHANGED <<highest, nonces, admitted>>
      /\ IF Admits(s.env) /\ Verified(s.env, s.key)
           THEN /\ thread' = [thread EXCEPT ![t] = [s EXCEPT !.at = "store"]]
                /\ accepted' = [accepted EXCEPT ![s.node] = s.env.seq]
           ELSE /\ thread' = [thread EXCEPT ![t] = NextMessage(s)]
                /\ UNCHANGED accepted
      /\ UNCHANGED <<now, agentVars, identity, node_targets, snapshots, faults>>
  BY <1>1 DEF Check
<1>4. /\ highest' \in [Nodes -> Int] /\ \A n \in Nodes : highest[n] <= highest'[n]
      /\ nonces' \in [Nodes -> SUBSET (Nat \X Nat)]
      /\ admitted' \in [Nodes -> SUBSET Message]
      /\ \A n \in Nodes : \A m \in admitted'[n] : m.node = n /\ m.seq <= highest'[n]
  BY <1>2, <1>3, GuardSteps
<1>5. PICK w \in ThreadState :
        /\ thread' = [thread EXCEPT ![t] = w]
        /\ w.node = s.node /\ w.wire = s.wire
        /\ IF Admits(s.env) /\ Verified(s.env, s.key)
             THEN w.at = "store" /\ w.env = s.env ELSE w.at = "read"
  <2>1. CASE Admits(s.env) /\ Verified(s.env, s.key)
    <3>1. [s EXCEPT !.at = "store"] \in ThreadState
      BY DEF ThreadState
    <3> QED BY <1>3, <2>1, <3>1 DEF ThreadState
  <2>2. CASE ~(Admits(s.env) /\ Verified(s.env, s.key))
    <3>1. NextMessage(s) \in ThreadState
      BY DEF ThreadState, NextMessage
    <3> QED BY <1>3, <2>2, <3>1 DEF ThreadState, NextMessage
  <2> QED BY <2>1, <2>2
<1>6. Shape'
  <2>1. thread' \in [Threads -> ThreadState] /\ accepted' \in [Nodes -> Int]
    BY <1>2, <1>3, <1>5 DEF TelemetryInv, Shape
  <2> QED BY <1>3, <1>4, <2>1 DEF TelemetryInv, Shape, agentVars
<1>7. Grows
  BY <1>3, <1>4 DEF TelemetryInv, Shape, Grows, agentVars
<1>8. ThreadsOK' /\ IdleOK'
  <2>1. StreamOK(s)'
    BY <1>1, <1>6, <1>7, StreamKept DEF TelemetryInv
  <2>2. w.at = "store" => SentBy(w.node, w.env)' /\ w.env.seq <= highest'[w.node]
    <3> SUFFICES ASSUME w.at = "store"
                 PROVE  SentBy(s.node, s.env)' /\ s.env.seq <= highest'[s.node]
      BY <1>5
    <3>1. Admits(s.env) /\ w.env = s.env
      BY <1>5
    <3>2. highest'[s.node] = s.env.seq
      BY <1>2, <1>3, <3>1 DEF Remember, TelemetryInv, Shape
    <3>3. SentBy(s.node, s.env)'
      BY <1>2, <1>3 DEF Waiting, SentBy, agentVars
    <3> QED BY <1>2, <3>2, <3>3
  <2>3. StreamOK(w)'
    <3>1. /\ w.node \in Nodes /\ \A i \in DOMAIN w.wire : Waiting(w.node, w.wire[i])'
          /\ w.at # "check"
      BY <1>2, <1>5, <2>1 DEF StreamOK
    <3>2. w.at = "store" => w.env \in Message /\ w.env.node = w.node
      BY <1>2, <1>5
    <3> QED BY <2>2, <3>1, <3>2 DEF StreamOK
  <2>4. w = thread'[t] /\ w.at # "idle"
    BY <1>5 DEF TelemetryInv, Shape
  <2>5. thread'[t].at # "idle" /\ StreamOK(thread[t])'
    BY <2>3, <2>4 DEF StreamOK, Waiting, SentBy, NewerOrBarred
  <2>6. \A u \in Threads \ {t} : thread'[u] = thread[u]
    BY <1>5 DEF TelemetryInv, Shape
  <2> QED BY <1>6, <1>7, <2>5, <2>6, ThreadsKept
<1>9. KeysOK' /\ SnapshotsOK'
  BY <1>3 DEF TelemetryInv, KeysOK, SnapshotsOK, SentBy, agentVars
<1>10. AdmittedOK'
  <2>1. ASSUME NEW n \in Nodes, admitted'[n] # {} PROVE identity'[n] # None
    <3>1. admitted'[n] = admitted[n] \/ n = s.node
      BY <1>2, <1>3 DEF Remember, TelemetryInv, Shape
    <3> QED BY <1>2, <1>3, <2>1, <3>1 DEF TelemetryInv, AdmittedOK
  <2> QED BY <1>4, <2>1 DEF AdmittedOK
<1>11. OnlyOldProcessesBlock'
  <2> SUFFICES ASSUME NEW n \in Nodes, highest'[n] # accepted'[n]
               PROVE  \E e \in admitted'[n] :
                        e.seq = highest'[n] /\ e.incarnation < incarnation'[n]
    BY DEF OnlyOldProcessesBlock
  <2>1. CASE n = s.node /\ Admits(s.env)
    <3>1. s.env \in admitted'[n] /\ highest'[n] = s.env.seq
      BY <1>2, <1>3, <2>1 DEF Remember, TelemetryInv, Shape
    <3>2. ~Verified(s.env, s.key)
      BY <1>2, <1>3, <2>1, <3>1 DEF TelemetryInv, Shape
    <3>3. s.env.incarnation < incarnation'[n]
      BY <1>2, <1>3, <2>1, <3>2 DEF Verified, TelemetryInv, Shape, agentVars
    <3> QED BY <3>1, <3>3
  <2>2. CASE ~(n = s.node /\ Admits(s.env))
    <3>1. /\ highest'[n] = highest[n] /\ admitted'[n] = admitted[n]
          /\ accepted'[n] = accepted[n] /\ incarnation' = incarnation
      BY <1>2, <1>3, <2>2 DEF Remember, TelemetryInv, Shape, agentVars
    <3> QED BY <3>1 DEF TelemetryInv, OnlyOldProcessesBlock
  <2> QED BY <2>1, <2>2
<1> QED BY <1>6, <1>8, <1>9, <1>10, <1>11 DEF TelemetryInv

\* record_snapshot: the snapshot is one the guard has let pass.
LEMMA StoreStep ==
    ASSUME TelemetryInv, NEW t \in Threads, Store(t)
    PROVE  TelemetryInv'
<1>1. PICK s \in ThreadState :
        /\ s = thread[t] /\ s.at = "store" /\ StreamOK(s)
  BY DEF Store, TelemetryInv, Shape, ThreadsOK
<1>2. /\ s.node \in Nodes /\ s.env \in Message /\ SentBy(s.node, s.env)
      /\ s.env.seq <= highest[s.node]
  BY <1>1 DEF StreamOK
<1>3. PICK snap \in Snapshot :
        /\ snapshots' = [snapshots EXCEPT ![s.node] = snap]
        /\ snap.incarnation = s.env.incarnation /\ snap.seq = s.env.seq
  <2>1. s.env.incarnation \in Nat /\ s.env.seq \in Nat /\ s.env.timestamp \in Int
    BY <1>2 DEF Message
  <2>2. [incarnation |-> s.env.incarnation, seq |-> s.env.seq,
         timestamp |-> s.env.timestamp] \in Snapshot
    BY <2>1 DEF Snapshot
  <2>3. snapshots' = [snapshots EXCEPT ![s.node] =
          [incarnation |-> s.env.incarnation, seq |-> s.env.seq,
           timestamp |-> s.env.timestamp]]
    BY <1>1 DEF Store
  <2> QED BY <2>2, <2>3
<1>4. NextMessage(s) \in ThreadState
  BY DEF ThreadState, NextMessage
<1>5. PICK w \in ThreadState :
        /\ thread' = [thread EXCEPT ![t] = w]
        /\ w.at = "read" /\ w.node = s.node /\ w.wire = s.wire
  BY <1>1, <1>4 DEF Store, NextMessage, ThreadState
<1>6. Shape'
  <2>1. snapshots' \in [Nodes -> Snapshot \cup {None}]
    BY <1>3 DEF TelemetryInv, Shape
  <2>2. thread' \in [Threads -> ThreadState]
    BY <1>5 DEF TelemetryInv, Shape
  <2> QED BY <2>1, <2>2 DEF TelemetryInv, Shape, Store, agentVars, serverVars
<1>7. Grows
  BY <1>2, <1>3 DEF TelemetryInv, Shape, Grows, Store, agentVars, serverVars
<1>8. ThreadsOK' /\ IdleOK'
  <2>1. StreamOK(s)'
    BY <1>1, <1>6, <1>7, StreamKept DEF TelemetryInv
  <2>2. StreamOK(w)'
    BY <1>5, <2>1 DEF StreamOK
  <2>3. w = thread'[t]
    BY <1>5 DEF TelemetryInv, Shape
  <2>4. thread'[t].at # "idle" /\ StreamOK(thread[t])'
    BY <1>5, <2>2, <2>3 DEF StreamOK, Waiting, SentBy, NewerOrBarred
  <2>5. \A u \in Threads \ {t} : thread'[u] = thread[u]
    BY <1>5 DEF TelemetryInv, Shape
  <2> QED BY <1>6, <1>7, <2>4, <2>5, ThreadsKept
<1>9. SnapshotsOK'
  BY <1>2, <1>3 DEF TelemetryInv, Shape, SnapshotsOK, SentBy, Store, agentVars
<1>10. KeysOK' /\ AdmittedOK' /\ OnlyOldProcessesBlock'
  BY DEF TelemetryInv, KeysOK, AdmittedOK, OnlyOldProcessesBlock, Store, agentVars, serverVars
<1> QED BY <1>6, <1>8, <1>9, <1>10 DEF TelemetryInv

\* A stream ends, by a failure of the store or because its node has left.
LEMMA EndStep ==
    ASSUME TelemetryInv, NEW t \in Threads, StoreFails(t) \/ EndStream(t)
    PROVE  TelemetryInv'
<1>1. Idle \in ThreadState
  BY DEF Idle, ThreadState
<1>2. /\ thread' = [thread EXCEPT ![t] = Idle]
      /\ agent' \in [Nodes -> {"connecting", "registered", "streaming"}]
      /\ \A n \in Nodes : agent'[n] = agent[n] \/ agent'[n] = "connecting"
      /\ UNCHANGED <<now, incarnation, seq, serverVars, snapshots>>
  BY DEF StoreFails, EndStream, agentVars, TelemetryInv, Shape
<1>3. Shape'
  BY <1>1, <1>2 DEF TelemetryInv, Shape, serverVars
<1>4. Grows
  BY <1>2 DEF TelemetryInv, Shape, Grows, serverVars
<1>5. ThreadsOK' /\ IdleOK'
  <2>1. \A u \in Threads : thread'[u] = thread[u] \/ thread'[u] = Idle
    BY <1>2 DEF TelemetryInv, Shape
  <2> QED BY <1>3, <1>4, <2>1, ThreadsKept
<1>6. KeysOK' /\ SnapshotsOK' /\ AdmittedOK' /\ OnlyOldProcessesBlock'
  BY <1>2 DEF TelemetryInv, KeysOK, SnapshotsOK, SentBy, AdmittedOK,
              OnlyOldProcessesBlock, serverVars
<1> QED BY <1>3, <1>5, <1>6 DEF TelemetryInv

\* The server restarts: no threads, keys or memory.
LEMMA RestartServerStep ==
    ASSUME TelemetryInv, RestartServer
    PROVE  TelemetryInv'
<1>1. Idle \in ThreadState
  BY DEF Idle, ThreadState
<1>2. Shape'
  BY <1>1 DEF TelemetryInv, Shape, RestartServer
<1>3. ThreadsOK' /\ IdleOK'
  BY DEF ThreadsOK, IdleOK, RestartServer, Idle
<1>4. KeysOK' /\ AdmittedOK' /\ OnlyOldProcessesBlock'
  BY DEF KeysOK, AdmittedOK, OnlyOldProcessesBlock, RestartServer
<1>5. SnapshotsOK'
  BY DEF TelemetryInv, SnapshotsOK, SentBy, RestartServer
<1> QED BY <1>2, <1>3, <1>4, <1>5 DEF TelemetryInv

\* The clock ticks, or nothing happens.
LEMMA TickStep ==
    ASSUME TelemetryInv, Tick \/ UNCHANGED vars
    PROVE  TelemetryInv'
<1>1. /\ now' \in Int
      /\ UNCHANGED <<agentVars, serverVars, thread, snapshots>>
  BY DEF Tick, vars, TelemetryInv, Shape
<1>2. Shape'
  BY <1>1 DEF TelemetryInv, Shape, agentVars, serverVars
<1>3. Grows
  BY <1>1 DEF TelemetryInv, Shape, Grows, agentVars, serverVars
<1>4. ThreadsOK' /\ IdleOK'
  BY <1>1, <1>2, <1>3, ThreadsKept
<1>5. KeysOK' /\ SnapshotsOK' /\ AdmittedOK' /\ OnlyOldProcessesBlock'
  BY <1>1 DEF TelemetryInv, KeysOK, SnapshotsOK, SentBy, AdmittedOK,
              OnlyOldProcessesBlock, agentVars, serverVars
<1> QED BY <1>2, <1>4, <1>5 DEF TelemetryInv

\* Every step preserves the invariant.
LEMMA NextInv == TelemetryInv /\ [TelemetryNext]_vars => TelemetryInv'
<1> SUFFICES ASSUME TelemetryInv, [TelemetryNext]_vars PROVE TelemetryInv'
  OBVIOUS
<1>1. ASSUME NEW n \in Nodes, RegisterNode(n) \/ RegistrationLost(n) PROVE TelemetryInv'
  BY <1>1, RegistrationStep DEF RegisterNode, RegistrationLost
<1>2. ASSUME NEW n \in Nodes, OpenStream(n) PROVE TelemetryInv'
  BY <1>2, OpenStreamStep
<1>3. ASSUME NEW n \in Nodes, Send(n) PROVE TelemetryInv'
  BY <1>3, SendStep
<1>4. ASSUME NEW n \in Nodes, BreakConnection(n) \/ RestartAgent(n) PROVE TelemetryInv'
  BY <1>4, LeaveStep
<1>5. ASSUME NEW t \in Threads, Receive(t) PROVE TelemetryInv'
  BY <1>5, ReceiveStep
<1>6. ASSUME NEW t \in Threads, Check(t) PROVE TelemetryInv'
  BY <1>6, CheckStep
<1>7. ASSUME NEW t \in Threads, Store(t) PROVE TelemetryInv'
  BY <1>7, StoreStep
<1>8. ASSUME NEW t \in Threads, StoreFails(t) \/ EndStream(t) PROVE TelemetryInv'
  BY <1>8, EndStep
<1>9. CASE RestartServer
  BY <1>9, RestartServerStep
<1>10. CASE Tick \/ UNCHANGED vars
  BY <1>10, TickStep
<1> QED BY <1>1, <1>2, <1>3, <1>4, <1>5, <1>6, <1>7, <1>8, <1>9, <1>10 DEF TelemetryNext

----------------------------------------------------------------------------
(* The types, with the bounds of clocks, counters and certificates.  They   *)
(* refer to the state: a message is one its agent can have signed by now.   *)

\* What an agent can have signed, it can have signed later.
LEMMA MessagesGrow ==
    ASSUME NEW n \in Nodes, now \in Nat, now' \in Nat, now <= now',
           incarnation[n] \in Nat, incarnation'[n] \in Nat, incarnation[n] <= incarnation'[n]
    PROVE  Messages(n) \subseteq Messages(n)'
<1>1. 0..now \subseteq 0..now' /\ 0..incarnation[n] \subseteq 0..incarnation'[n]
  OBVIOUS
<1>2. /\ {i + ClockOffset[n] : i \in 0..now} \subseteq {i + ClockOffset[n] : i \in 0..now'}
      /\ {i + ClockOffset[n] + TTL : i \in 0..now}
           \subseteq {i + ClockOffset[n] + TTL : i \in 0..now'}
  BY <1>1
<1> QED BY <1>1, <1>2 DEF Messages

\* A stream that a step leaves as it is keeps its type.
LEMMA StreamTypeKept ==
    ASSUME \A n \in Nodes : /\ Messages(n) \subseteq Messages(n)'
                            /\ incarnation[n] \in Nat /\ incarnation'[n] \in Nat
                            /\ incarnation[n] <= incarnation'[n],
           NEW s, StreamTypeOK(s)
    PROVE  StreamTypeOK(s)'
<1>1. s.node \in Nodes /\ s.wire \in Seq(Messages(s.node))
  BY DEF StreamTypeOK
<1>2. s.wire \in Seq(Messages(s.node)')
  BY <1>1, SeqMonotonic
<1>3. s.at # "read" => s.env \in Messages(s.node)' /\ s.key \in 0..incarnation'[s.node]
  <2>1. s.at # "read" => s.env \in Messages(s.node) /\ s.key \in 0..incarnation[s.node]
    BY DEF StreamTypeOK
  <2> QED BY <1>1, <2>1
<1> QED BY <1>1, <1>2, <1>3 DEF StreamTypeOK

\* It remains to show the types of what a step adds.
LEMMA TypeKept ==
    ASSUME Shape, Shape', TelemetryTypeOK,
           now' \in now..MaxTime, faults' \in 0..MaxFaults, node_targets' \subseteq Nodes,
           not_after' \in {not_after, now + SvidTTL}, seq' \in [Nodes -> 0..MaxSent],
           \A n \in Nodes :
             /\ incarnation[n] <= incarnation'[n]
             /\ identity'[n] \in {identity[n], incarnation'[n], None}
             /\ highest'[n] \in {highest[n], -1} \cup 1..MaxSent
             /\ accepted'[n] \in {accepted[n], -1} \cup 1..MaxSent
             /\ admitted'[n] \subseteq admitted[n] \cup Messages(n)
             /\ nonces'[n] \subseteq nonces[n] \cup {Nonce(e) : e \in Messages(n)}
             /\ snapshots'[n] = snapshots[n] \/
                  \E e \in Messages(n) :
                     snapshots'[n] = [incarnation |-> e.incarnation, seq |-> e.seq,
                                      timestamp |-> e.timestamp],
           \A t \in Threads :
             thread'[t] = thread[t] \/ thread'[t] = Idle \/ StreamTypeOK(thread[t])'
    PROVE  TelemetryTypeOK'
<1>1. /\ now \in Nat /\ now' \in Nat /\ now <= now' /\ MaxSent \in Nat /\ SvidTTL \in Nat
      /\ MaxTime \in Nat
      /\ \A n \in Nodes : incarnation[n] \in Nat /\ incarnation'[n] \in Nat
  BY TelemetryAssumption DEF TelemetryTypeOK, Shape
<1>2. \A n \in Nodes : Messages(n) \subseteq Messages(n)'
  BY <1>1, MessagesGrow
<1>3. ASSUME NEW t \in Threads PROVE thread'[t] = Idle \/ StreamTypeOK(thread[t])'
  <2>1. CASE thread'[t] = thread[t] /\ thread[t] # Idle
    <3>1. PICK s \in ThreadState : s = thread[t]
      BY DEF Shape
    <3>2. StreamTypeOK(s)
      BY <2>1, <3>1 DEF TelemetryTypeOK
    <3>3. StreamTypeOK(s)'
      BY <1>1, <1>2, <3>2, StreamTypeKept
    <3> QED BY <2>1, <3>1, <3>3 DEF StreamTypeOK, Messages
  <2> QED BY <2>1
<1>4. ASSUME NEW n \in Nodes
      PROVE  /\ identity'[n] \in 0..incarnation'[n] \cup {None}
             /\ highest'[n] \in -1..MaxSent /\ accepted'[n] \in -1..MaxSent
             /\ admitted'[n] \subseteq Messages(n)'
  <2>1. /\ identity[n] \in 0..incarnation[n] \cup {None}
        /\ highest[n] \in -1..MaxSent /\ accepted[n] \in -1..MaxSent
        /\ admitted[n] \subseteq Messages(n)
    BY DEF TelemetryTypeOK
  <2>2. identity'[n] \in {identity[n], incarnation'[n], None} /\ incarnation[n] <= incarnation'[n]
    OBVIOUS
  <2> QED BY <1>1, <1>2, <2>1, <2>2
<1>5. ASSUME NEW n \in Nodes
      PROVE  nonces'[n] \subseteq (0..incarnation'[n]) \X (1..MaxSent)
  <2>1. nonces[n] \subseteq (0..incarnation[n]) \X (1..MaxSent)
    BY DEF TelemetryTypeOK
  <2>2. \A e \in Messages(n) : Nonce(e) \in (0..incarnation[n]) \X (1..MaxSent)
    BY DEF Messages, Nonce
  <2>3. 0..incarnation[n] \subseteq 0..incarnation'[n]
    BY <1>1
  <2> QED BY <2>1, <2>2, <2>3
<1>6. ASSUME NEW n \in Nodes, snapshots'[n] # None
      PROVE  \E e \in Messages(n)' :
               snapshots'[n] = [incarnation |-> e.incarnation, seq |-> e.seq,
                                timestamp |-> e.timestamp]
  <2>1. \E e \in Messages(n) :
           snapshots'[n] = [incarnation |-> e.incarnation, seq |-> e.seq,
                            timestamp |-> e.timestamp]
    BY <1>6 DEF TelemetryTypeOK
  <2> QED BY <1>2, <2>1
<1>7. not_after' \in 0..(now' + SvidTTL)
  <2>1. not_after \in 0..(now + SvidTTL)
    BY DEF TelemetryTypeOK
  <2>2. not_after' \in 0..(now + SvidTTL)
    BY <1>1, <2>1
  <2>3. \A i, j, k \in Nat : i <= j => \A x \in 0..(i + k) : x \in 0..(j + k)
    OBVIOUS
  <2> QED BY <1>1, <2>2, <2>3
<1>8. highest' \in [Nodes -> -1..MaxSent] /\ accepted' \in [Nodes -> -1..MaxSent]
  BY <1>4 DEF Shape
<1>9. now' \in 0..MaxTime
  BY <1>1
<1>10. /\ agent' \in [Nodes -> {"connecting", "registered", "streaming"}]
       /\ incarnation' \in [Nodes -> Nat] /\ DOMAIN thread' = Threads
  BY DEF Shape
<1>11. \A n \in Nodes :
         /\ identity'[n] \in 0..incarnation'[n] \cup {None}
         /\ nonces'[n] \subseteq (0..incarnation'[n]) \X (1..MaxSent)
         /\ admitted'[n] \subseteq Messages(n)'
         /\ snapshots'[n] = None \/
              \E e \in Messages(n)' :
                 snapshots'[n] = [incarnation |-> e.incarnation, seq |-> e.seq,
                                  timestamp |-> e.timestamp]
  BY <1>4, <1>5, <1>6
<1>12. \A t \in Threads : thread'[t] = Idle \/ StreamTypeOK(thread[t])'
  BY <1>3
<1> QED BY <1>7, <1>8, <1>9, <1>10, <1>11, <1>12 DEF TelemetryTypeOK

\* The initial types.
LEMMA InitTypes == TelemetryInit => TelemetryTypeOK
<1> SUFFICES ASSUME TelemetryInit PROVE TelemetryTypeOK
  OBVIOUS
<1>1. not_after \in 0..(now + SvidTTL) /\ now \in 0..MaxTime /\ faults \in 0..MaxFaults
  BY TelemetryAssumption DEF TelemetryInit, MintSvid
<1>2. /\ seq \in [Nodes -> 0..MaxSent]
      /\ highest \in [Nodes -> -1..MaxSent] /\ accepted \in [Nodes -> -1..MaxSent]
  BY TelemetryAssumption DEF TelemetryInit
<1>3. \A n \in Nodes : identity[n] = None /\ snapshots[n] = None
                       /\ nonces[n] = {} /\ admitted[n] = {}
  BY DEF TelemetryInit
<1> QED BY <1>1, <1>2, <1>3 DEF TelemetryInit, TelemetryTypeOK

\* The type of a thread's stream, of its state as a value.
LEMMA Retyped ==
    ASSUME NEW t \in Threads, NEW w, w = thread'[t], StreamTypeOK(w)'
    PROVE  StreamTypeOK(thread[t])'
BY DEF StreamTypeOK, Messages

\* A step that adds nothing but the state of one thread.
LEMMA OneThreadRetyped ==
    ASSUME Shape, Shape', TelemetryTypeOK,
           UNCHANGED <<now, incarnation, serverVars, snapshots>>,
           faults' \in 0..MaxFaults, seq' \in [Nodes -> 0..MaxSent],
           NEW t \in Threads, NEW w, thread' = [thread EXCEPT ![t] = w],
           w = Idle \/ StreamTypeOK(w)'
    PROVE  TelemetryTypeOK'
<1>1. /\ thread'[t] = w /\ \A u \in Threads \ {t} : thread'[u] = thread[u]
  BY DEF Shape
<1>2. \A u \in Threads :
        thread'[u] = thread[u] \/ thread'[u] = Idle \/ StreamTypeOK(thread[u])'
  BY <1>1, Retyped
<1>3. now' \in now..MaxTime /\ node_targets' \subseteq Nodes /\ not_after' = not_after
  BY TelemetryAssumption DEF TelemetryTypeOK, serverVars
<1>4. \A n \in Nodes :
        /\ incarnation[n] <= incarnation'[n] /\ identity'[n] = identity[n]
        /\ highest'[n] = highest[n] /\ accepted'[n] = accepted[n]
        /\ admitted'[n] = admitted[n] /\ nonces'[n] = nonces[n] /\ snapshots'[n] = snapshots[n]
  BY DEF serverVars, Shape
<1> QED BY <1>2, <1>3, <1>4, TypeKept

\* Every step keeps the types.
LEMMA NextTypes ==
    ASSUME TelemetryInv, TelemetryInv', TelemetryTypeOK, [TelemetryNext]_vars
    PROVE  TelemetryTypeOK'
<1> USE DEF TelemetryInv
<1>1. /\ now \in Nat /\ now <= MaxTime /\ now \in now..MaxTime /\ faults \in 0..MaxFaults
      /\ node_targets \subseteq Nodes /\ seq \in [Nodes -> 0..MaxSent] /\ MaxSent \in Nat
      /\ MaxFaults \in Nat /\ \A n \in Nodes : incarnation[n] \in Nat
  BY TelemetryAssumption DEF TelemetryTypeOK
<1>2. \A t \in Threads : thread[t].at # "idle" => StreamTypeOK(thread[t])
  BY DEF TelemetryTypeOK, Idle
<1>3. Fault => faults' \in 0..MaxFaults
  BY <1>1 DEF Fault
<1>4. \A t \in Threads : thread[t] \in ThreadState
  BY DEF Shape
<1>5. ASSUME NEW n \in Nodes, RegisterNode(n) \/ RegistrationLost(n) PROVE TelemetryTypeOK'
  <2>1. /\ ServeRegistration(n) /\ faults' \in 0..MaxFaults
        /\ UNCHANGED <<now, incarnation, seq, thread, highest, nonces, snapshots, admitted,
                       accepted, not_after>>
    BY <1>1, <1>3, <1>5 DEF RegisterNode, RegistrationLost, ServeRegistration
  <2>2. /\ identity' = [identity EXCEPT ![n] = incarnation[n]]
        /\ node_targets' \subseteq Nodes
    BY <1>1, <2>1 DEF ServeRegistration
  <2>3. \A m \in Nodes : /\ identity'[m] \in {identity[m], incarnation'[m]}
                         /\ incarnation[m] <= incarnation'[m]
    BY <1>1, <2>1, <2>2 DEF Shape
  <2> QED BY <1>1, <2>1, <2>2, <2>3, TypeKept
<1>6. ASSUME NEW n \in Nodes, OpenStream(n) PROVE TelemetryTypeOK'
  <2>1. PICK t \in Threads : thread' = [thread EXCEPT ![t] = NewStream(n)]
    BY <1>6 DEF OpenStream, IdleThreads
  <2>2. PICK w : w = NewStream(n)
    OBVIOUS
  <2>3. StreamTypeOK(w)'
    BY <2>2, EmptySeq DEF StreamTypeOK, NewStream
  <2>4. UNCHANGED <<now, incarnation, seq, serverVars, snapshots, faults>>
    BY <1>6 DEF OpenStream
  <2> QED BY <1>1, <2>1, <2>2, <2>3, <2>4, OneThreadRetyped
<1>7. ASSUME NEW n \in Nodes, Send(n) PROVE TelemetryTypeOK'
  <2>1. PICK t \in StreamsOf(n) :
          thread' = [thread EXCEPT ![t].wire = Append(@, SignTelemetry(n))]
    BY <1>7 DEF Send
  <2>2. PICK s \in ThreadState : s = thread[t] /\ t \in Threads /\ s.node = n /\ s.at # "idle"
    BY <1>4, TelemetryAssumption DEF StreamsOf, IdleOK, Idle
  <2>3. PICK e \in Messages(n) : e = SignTelemetry(n)
    <3>1. SignTelemetry(n) \in Messages(n)
      <4>1. seq[n] + 1 \in 1..MaxSent /\ incarnation[n] \in 0..incarnation[n] /\ now \in 0..now
        BY <1>1, <1>7 DEF Send
      <4> QED BY <4>1 DEF SignTelemetry, Messages
    <3> QED BY <3>1
  <2>4. /\ UNCHANGED <<now, incarnation, serverVars, snapshots, faults>>
        /\ seq' = [seq EXCEPT ![n] = @ + 1] /\ seq[n] < MaxSent
    BY <1>7 DEF Send
  <2>5. PICK w : w = [s EXCEPT !.wire = Append(s.wire, e)]
    OBVIOUS
  <2>6. StreamTypeOK(w)'
    <3>1. StreamTypeOK(s)
      BY <1>2, <2>2
    <3>2. Append(s.wire, e) \in Seq(Messages(n))
      BY <2>2, <3>1, AppendProperties DEF StreamTypeOK
    <3>3. /\ w.node = s.node /\ w.open = s.open /\ w.at = s.at /\ w.env = s.env
          /\ w.key = s.key /\ w.wire = Append(s.wire, e)
      BY <2>5 DEF ThreadState
    <3> QED BY <2>2, <2>4, <3>1, <3>2, <3>3 DEF StreamTypeOK, Messages
  <2>7. thread' = [thread EXCEPT ![t] = w]
    BY <2>1, <2>2, <2>3, <2>5
  <2>8. seq' \in [Nodes -> 0..MaxSent]
    BY <1>1, <2>4
  <2> QED BY <1>1, <2>2, <2>4, <2>6, <2>7, <2>8, OneThreadRetyped
<1>8. ASSUME NEW n \in Nodes, BreakConnection(n) \/ RestartAgent(n) PROVE TelemetryTypeOK'
  <2>1. /\ LeaveStream(n) /\ faults' \in 0..MaxFaults /\ UNCHANGED <<now, serverVars, snapshots>>
        /\ seq' \in [Nodes -> 0..MaxSent]
        /\ \A m \in Nodes : incarnation[m] <= incarnation'[m]
    BY <1>1, <1>3, <1>8 DEF BreakConnection, RestartAgent, Shape
  <2>2. ASSUME NEW t \in Threads
        PROVE  thread'[t] = thread[t] \/ StreamTypeOK(thread[t])'
    <3>1. CASE t \in StreamsOf(n)
      <4>1. PICK s \in ThreadState : s = thread[t] /\ s.at # "idle"
        BY <1>4, <3>1, TelemetryAssumption DEF StreamsOf, IdleOK, Idle
      <4>2. PICK w : w = thread'[t] /\ w = [s EXCEPT !.open = FALSE]
        BY <2>1, <3>1, <4>1 DEF LeaveStream
      <4>3. StreamTypeOK(s)'
        <5>1. \A m \in Nodes : /\ Messages(m) \subseteq Messages(m)'
                               /\ incarnation[m] \in Nat /\ incarnation'[m] \in Nat
                               /\ incarnation[m] <= incarnation'[m]
          BY <1>1, <2>1, MessagesGrow DEF Shape
        <5>2. StreamTypeOK(s)
          BY <1>2, <4>1
        <5> QED BY <5>1, <5>2, StreamTypeKept
      <4>4. /\ w.node = s.node /\ w.open = FALSE /\ w.at = s.at /\ w.env = s.env
            /\ w.key = s.key /\ w.wire = s.wire
        BY <4>2 DEF ThreadState
      <4>5. StreamTypeOK(w)'
        BY <4>3, <4>4 DEF StreamTypeOK
      <4> QED BY <4>2, <4>5, Retyped
    <3>2. CASE t \notin StreamsOf(n)
      BY <2>1, <3>2 DEF LeaveStream
    <3> QED BY <3>1, <3>2
  <2>3. /\ now' \in now..MaxTime /\ node_targets' \subseteq Nodes /\ not_after' = not_after
        /\ \A m \in Nodes :
             /\ identity'[m] = identity[m] /\ highest'[m] = highest[m]
             /\ accepted'[m] = accepted[m] /\ admitted'[m] = admitted[m]
             /\ nonces'[m] = nonces[m] /\ snapshots'[m] = snapshots[m]
    BY <1>1, <2>1 DEF serverVars
  <2> QED BY <2>1, <2>2, <2>3, TypeKept
<1>9. ASSUME NEW t \in Threads, Receive(t) PROVE TelemetryTypeOK'
  <2>1. PICK s \in ThreadState : s = thread[t] /\ s.at = "read" /\ s.wire # <<>>
    BY <1>4, <1>9 DEF Receive
  <2>2. /\ s.node \in Nodes /\ s.open \in BOOLEAN /\ s.env = None /\ s.key = None
        /\ s.wire \in Seq(Messages(s.node))
    BY <1>2, <2>1 DEF StreamTypeOK
  <2>3. Head(s.wire) \in Messages(s.node) /\ Tail(s.wire) \in Seq(Messages(s.node))
    BY <2>1, <2>2, HeadTailProperties
  <2>4. UNCHANGED <<now, incarnation, seq, serverVars, snapshots, faults>>
    BY <1>9 DEF Receive, agentVars
  <2>5. PICK w : /\ thread' = [thread EXCEPT ![t] = w]
                 /\ w = IF identity[s.node] = None
                        THEN [s EXCEPT !.wire = Tail(s.wire)]
                        ELSE [s EXCEPT !.at = "check", !.wire = Tail(s.wire),
                                       !.env = Head(s.wire), !.key = identity[s.node]]
    BY <1>9, <2>1 DEF Receive
  <2>6. StreamTypeOK(w)'
    <3>1. CASE identity[s.node] = None
      <4>1. /\ w.node = s.node /\ w.open = s.open /\ w.at = s.at /\ w.env = s.env
            /\ w.key = s.key /\ w.wire = Tail(s.wire)
        BY <2>5, <3>1 DEF ThreadState
      <4> QED BY <2>1, <2>2, <2>3, <2>4, <4>1 DEF StreamTypeOK, Messages
    <3>2. CASE identity[s.node] # None
      <4>1. /\ w.node = s.node /\ w.open = s.open /\ w.at = "check" /\ w.env = Head(s.wire)
            /\ w.key = identity[s.node] /\ w.wire = Tail(s.wire)
        BY <2>5, <3>2 DEF ThreadState
      <4>2. identity[s.node] \in 0..incarnation[s.node]
        BY <2>2, <3>2 DEF TelemetryTypeOK
      <4> QED BY <2>2, <2>3, <2>4, <4>1, <4>2 DEF StreamTypeOK, Messages
    <3> QED BY <3>1, <3>2
  <2> QED BY <1>1, <2>4, <2>5, <2>6, OneThreadRetyped
<1>10. ASSUME NEW t \in Threads, Check(t) PROVE TelemetryTypeOK'
  <2>1. PICK s \in ThreadState : s = thread[t] /\ s.at = "check"
    BY <1>4, <1>10 DEF Check
  <2>2. PICK e \in Messages(s.node) : e = s.env /\ s.node \in Nodes /\ StreamTypeOK(s)
    BY <1>2, <2>1 DEF StreamTypeOK
  <2>3. e.node = s.node /\ e.seq \in 1..MaxSent
    BY <2>2 DEF Messages
  <2>4. /\ UNCHANGED <<now, incarnation, seq, identity, node_targets, not_after, snapshots, faults>>
        /\ Remember(e) \/ UNCHANGED <<highest, nonces, admitted>>
        /\ accepted' = [accepted EXCEPT ![s.node] = e.seq] \/ UNCHANGED accepted
    BY <1>10, <2>1, <2>2 DEF Check, agentVars
  <2>5. PICK w : /\ thread' = [thread EXCEPT ![t] = w]
                 /\ w = [s EXCEPT !.at = "store"] \/ w = NextMessage(s)
    BY <1>10, <2>1 DEF Check
  <2>6. StreamTypeOK(w)'
    <3>1. \/ /\ w.node = s.node /\ w.open = s.open /\ w.wire = s.wire
             /\ w.at = "store" /\ w.env = s.env /\ w.key = s.key
          \/ /\ w.node = s.node /\ w.open = s.open /\ w.wire = s.wire
             /\ w.at = "read" /\ w.env = None /\ w.key = None
      BY <2>5 DEF ThreadState, NextMessage
    <3>2. Messages(s.node)' = Messages(s.node) /\ incarnation' = incarnation
      BY <2>4 DEF Messages
    <3>3. /\ s.node \in Nodes /\ s.open \in BOOLEAN /\ s.wire \in Seq(Messages(s.node))
          /\ s.env \in Messages(s.node) /\ s.key \in 0..incarnation[s.node]
      BY <2>1, <2>2 DEF StreamTypeOK
    <3> QED BY <3>1, <3>2, <3>3 DEF StreamTypeOK
  <2>7. ASSUME NEW n \in Nodes
        PROVE  /\ highest'[n] \in {highest[n], -1} \cup 1..MaxSent
               /\ accepted'[n] \in {accepted[n], -1} \cup 1..MaxSent
               /\ admitted'[n] \subseteq admitted[n] \cup Messages(n)
               /\ nonces'[n] \subseteq nonces[n] \cup {Nonce(m) : m \in Messages(n)}
    <3>1. accepted'[n] \in {accepted[n], -1} \cup 1..MaxSent
      BY <2>2, <2>3, <2>4 DEF Shape
    <3>2. CASE Remember(e)
      <4>1. highest'[n] \in {highest[n], -1} \cup 1..MaxSent
        BY <2>3, <3>2 DEF Remember, Shape
      <4>2. admitted'[n] \subseteq admitted[n] \cup Messages(n)
        BY <2>3, <3>2 DEF Remember, Shape
      <4>3. CASE n = s.node
        <5>1. nonces'[n] \subseteq nonces[n] \cup {Nonce(e)}
          BY <2>2, <2>3, <3>2, <4>3 DEF Remember, Shape
        <5> QED BY <3>1, <4>1, <4>2, <4>3, <5>1
      <4>4. CASE n # s.node
        <5>1. nonces'[n] = nonces[n]
          BY <2>2, <2>3, <3>2, <4>4 DEF Remember, Shape
        <5> QED BY <3>1, <4>1, <4>2, <5>1
      <4> QED BY <4>3, <4>4
    <3>3. CASE UNCHANGED <<highest, nonces, admitted>>
      BY <3>1, <3>3
    <3> QED BY <2>4, <3>2, <3>3
  <2>8. \A u \in Threads : thread'[u] = thread[u] \/ StreamTypeOK(thread[u])'
    <3>1. thread'[t] = w /\ \A u \in Threads \ {t} : thread'[u] = thread[u]
      BY <2>5 DEF Shape
    <3> QED BY <2>6, <3>1, Retyped
  <2>9. \A n \in Nodes : incarnation[n] <= incarnation'[n] /\ identity'[n] = identity[n]
                         /\ snapshots'[n] = snapshots[n]
    BY <1>1, <2>4
  <2> QED BY <1>1, <2>4, <2>7, <2>8, <2>9, TypeKept
<1>11. ASSUME NEW t \in Threads, Store(t) PROVE TelemetryTypeOK'
  <2>1. PICK s \in ThreadState : s = thread[t] /\ s.at = "store"
    BY <1>4, <1>11 DEF Store
  <2>2. PICK e \in Messages(s.node) : e = s.env /\ s.node \in Nodes /\ StreamTypeOK(s)
    BY <1>2, <2>1 DEF StreamTypeOK
  <2>3. /\ UNCHANGED <<now, incarnation, seq, serverVars, faults>>
        /\ thread' = [thread EXCEPT ![t] = NextMessage(s)]
        /\ snapshots' = [snapshots EXCEPT ![s.node] =
             [incarnation |-> e.incarnation, seq |-> e.seq, timestamp |-> e.timestamp]]
    BY <1>11, <2>1, <2>2 DEF Store, agentVars
  <2>4. PICK w : /\ w = NextMessage(s)
                 /\ w.node = s.node /\ w.open = s.open /\ w.wire = s.wire
                 /\ w.at = "read" /\ w.env = None /\ w.key = None
    <3>1. /\ NextMessage(s).node = s.node /\ NextMessage(s).open = s.open
          /\ NextMessage(s).wire = s.wire /\ NextMessage(s).at = "read"
          /\ NextMessage(s).env = None /\ NextMessage(s).key = None
      BY DEF ThreadState, NextMessage
    <3> QED BY <3>1
  <2>5. StreamTypeOK(w)'
    BY <2>2, <2>3, <2>4 DEF StreamTypeOK, Messages
  <2>6. \A u \in Threads : thread'[u] = thread[u] \/ StreamTypeOK(thread[u])'
    <3>1. thread'[t] = w /\ \A u \in Threads \ {t} : thread'[u] = thread[u]
      BY <2>3, <2>4 DEF Shape
    <3> QED BY <2>5, <3>1, Retyped
  <2>7. \A n \in Nodes :
          snapshots'[n] = snapshots[n] \/
            \E m \in Messages(n) :
               snapshots'[n] = [incarnation |-> m.incarnation, seq |-> m.seq,
                                timestamp |-> m.timestamp]
    BY <2>2, <2>3 DEF Shape
  <2>8. /\ node_targets' \subseteq Nodes /\ not_after' = not_after
        /\ \A n \in Nodes :
             /\ incarnation[n] <= incarnation'[n] /\ identity'[n] = identity[n]
             /\ highest'[n] = highest[n] /\ accepted'[n] = accepted[n]
             /\ admitted'[n] = admitted[n] /\ nonces'[n] = nonces[n]
    BY <1>1, <2>3 DEF serverVars
  <2> QED BY <1>1, <2>3, <2>6, <2>7, <2>8, TypeKept
<1>12. ASSUME NEW t \in Threads, StoreFails(t) \/ EndStream(t) PROVE TelemetryTypeOK'
  <2>1. /\ UNCHANGED <<now, incarnation, seq, serverVars, snapshots>> /\ faults' \in 0..MaxFaults
        /\ thread' = [thread EXCEPT ![t] = Idle]
    BY <1>1, <1>3, <1>12 DEF StoreFails, EndStream, agentVars
  <2> QED BY <1>1, <2>1, OneThreadRetyped
<1>13. CASE RestartServer
  <2>1. /\ UNCHANGED <<now, incarnation, seq, snapshots>> /\ faults' \in 0..MaxFaults
        /\ \A t \in Threads : thread'[t] = Idle
        /\ node_targets' = {} /\ not_after' = now + SvidTTL
    BY <1>3, <1>13 DEF RestartServer, MintSvid
  <2>2. \A n \in Nodes :
          /\ incarnation[n] <= incarnation'[n] /\ identity'[n] = None
          /\ highest'[n] = -1 /\ accepted'[n] = -1
          /\ admitted'[n] = {} /\ nonces'[n] = {} /\ snapshots'[n] = snapshots[n]
    BY <1>1, <1>13, <2>1 DEF RestartServer
  <2> QED BY <1>1, <2>1, <2>2, TypeKept
<1>14. CASE Tick \/ UNCHANGED vars
  <2>1. /\ UNCHANGED <<agentVars, serverVars, thread, snapshots, faults>> /\ now' \in now..MaxTime
    BY <1>1, <1>14, TelemetryAssumption DEF Tick, vars
  <2>2. /\ seq' = seq /\ node_targets' = node_targets /\ not_after' = not_after
        /\ \A n \in Nodes :
             /\ incarnation[n] <= incarnation'[n] /\ identity'[n] = identity[n]
             /\ highest'[n] = highest[n] /\ accepted'[n] = accepted[n]
             /\ admitted'[n] = admitted[n] /\ nonces'[n] = nonces[n]
             /\ snapshots'[n] = snapshots[n]
    BY <1>1, <2>1 DEF agentVars, serverVars
  <2> QED BY <1>1, <2>1, <2>2, TypeKept
<1> QED BY <1>5, <1>6, <1>7, <1>8, <1>9, <1>10, <1>11, <1>12, <1>13, <1>14 DEF TelemetryNext

----------------------------------------------------------------------------
(* The current stream of a node: what it carries is newer than all else.    *)

\* The messages that a thread has received or is going to.
InHand(s) ==
    {s.wire[i] : i \in DOMAIN s.wire} \cup (IF s.at \in {"check", "store"} THEN {s.env} ELSE {})

\* A stream hands its messages over in the order of their numbers.
Ordered(s) ==
    /\ \A i, j \in DOMAIN s.wire : i < j => s.wire[i].seq < s.wire[j].seq
    /\ s.at \in {"check", "store"} => \A i \in DOMAIN s.wire : s.env.seq < s.wire[i].seq

\* A node is on one stream at most, and knows when it is on none.
OneStream ==
    \A t \in Threads : thread[t].open =>
        /\ agent[thread[t].node] = "streaming"
        /\ \A u \in Threads : thread[u].open /\ thread[u].node = thread[t].node => u = t

\* Message m of node n is newer than the snapshot that n's process has in Redis.
Unstored(n, m) ==
    snapshots[n] # None /\ snapshots[n].incarnation = m.incarnation => snapshots[n].seq < m.seq

\* Two threads' messages: those of the first are newer than those of the second
\* that the same process sent.
Ahead(s, r) ==
    s.node = r.node =>
        \A m \in InHand(s), k \in InHand(r) : k.incarnation = m.incarnation => k.seq < m.seq

CurrentOK ==
    \A t \in Threads : thread[t].open =>
        /\ Ordered(thread[t])
        /\ \A m \in InHand(thread[t]) :
             m.incarnation = incarnation[thread[t].node] /\ Unstored(thread[t].node, m)
        /\ \A u \in Threads \ {t} : Ahead(thread[t], thread[u])

CurrentInv == OneStream /\ CurrentOK

\* A thread goes on with what it had in its hands: none of it is new, and it stays
\* on the stream it was on.
Shrinks(w, s) ==
    /\ w.open => s.open
    /\ w.open \/ InHand(w) # {} => w.node = s.node
    /\ InHand(w) \subseteq InHand(s)
    /\ w.open /\ Ordered(s) => Ordered(w)

\* The threads that a step closes, ends or leaves alone.
LEMMA PlainShrinks ==
    ASSUME NEW s \in ThreadState
    PROVE  Shrinks(s, s) /\ Shrinks([s EXCEPT !.open = FALSE], s) /\ Shrinks(Idle, s)
<1>1. Shrinks(s, s)
  BY DEF Shrinks
<1>2. Shrinks([s EXCEPT !.open = FALSE], s)
  <2>1. PICK w : w = [s EXCEPT !.open = FALSE]
    OBVIOUS
  <2>2. /\ w.node = s.node /\ w.open = FALSE /\ w.at = s.at /\ w.env = s.env
        /\ w.wire = s.wire
    BY <2>1 DEF ThreadState
  <2>3. InHand(w) = InHand(s)
    BY <2>2 DEF InHand
  <2>4. Shrinks(w, s)
    BY <2>2, <2>3 DEF Shrinks
  <2> QED BY <2>1, <2>4
<1>3. Shrinks(Idle, s)
  <2>1. DOMAIN Idle.wire = {} /\ Idle.at = "idle" /\ Idle.open = FALSE
    BY EmptySeq DEF Idle
  <2>2. InHand(Idle) = {}
    BY <2>1 DEF InHand
  <2> QED BY <2>1, <2>2 DEF Shrinks
<1> QED BY <1>1, <1>2, <1>3

\* The thread that is done with its message, or passes it on to the store.
LEMMA HandlerShrinks ==
    ASSUME NEW s \in ThreadState
    PROVE  /\ Shrinks(NextMessage(s), s)
           /\ s.at = "check" => Shrinks([s EXCEPT !.at = "store"], s)
<1>1. Shrinks(NextMessage(s), s)
  <2>1. PICK w : w = NextMessage(s)
    OBVIOUS
  <2>2. w.node = s.node /\ w.open = s.open /\ w.at = "read" /\ w.wire = s.wire
    BY <2>1 DEF ThreadState, NextMessage
  <2>3. InHand(w) \subseteq InHand(s)
    BY <2>2 DEF InHand
  <2>4. Ordered(s) => Ordered(w)
    BY <2>2 DEF Ordered
  <2>5. Shrinks(w, s)
    BY <2>2, <2>3, <2>4 DEF Shrinks
  <2> QED BY <2>1, <2>5
<1>2. ASSUME s.at = "check" PROVE Shrinks([s EXCEPT !.at = "store"], s)
  <2>1. PICK w : w = [s EXCEPT !.at = "store"]
    OBVIOUS
  <2>2. /\ w.node = s.node /\ w.open = s.open /\ w.at = "store" /\ w.env = s.env
        /\ w.wire = s.wire
    BY <2>1 DEF ThreadState
  <2>3. InHand(w) = InHand(s)
    BY <1>2, <2>2 DEF InHand
  <2>4. Ordered(s) => Ordered(w)
    BY <1>2, <2>2 DEF Ordered
  <2>5. Shrinks(w, s)
    BY <2>2, <2>3, <2>4 DEF Shrinks
  <2> QED BY <2>1, <2>5
<1> QED BY <1>1, <1>2

\* The thread that takes the first message of its stream, or passes it over.
LEMMA ReceiveShrinks ==
    ASSUME NEW s \in ThreadState, s.at = "read", s.wire # <<>>, NEW k,
           NEW w, w = [s EXCEPT !.wire = Tail(s.wire)] \/
                  w = [s EXCEPT !.at = "check", !.wire = Tail(s.wire),
                                !.env = Head(s.wire), !.key = k]
    PROVE  Shrinks(w, s)
<1>1. /\ w.node = s.node /\ w.open = s.open /\ w.wire = Tail(s.wire)
      /\ w.at = "read" \/ (w.at = "check" /\ w.env = Head(s.wire))
  BY DEF ThreadState
<1>2. /\ s.wire \in Seq(Message) /\ 1 \in DOMAIN s.wire /\ Head(s.wire) = s.wire[1]
      /\ \A i \in DOMAIN Tail(s.wire) :
           /\ i + 1 \in DOMAIN s.wire /\ Tail(s.wire)[i] = s.wire[i + 1]
           /\ i \in Nat /\ i > 0
  BY DEF ThreadState
<1>3. InHand(w) \subseteq InHand(s)
  <2> SUFFICES ASSUME NEW m \in InHand(w) PROVE m \in {s.wire[i] : i \in DOMAIN s.wire}
    BY DEF InHand
  <2>1. (\E i \in DOMAIN w.wire : m = w.wire[i]) \/ (w.at = "check" /\ m = w.env)
    BY <1>1 DEF InHand
  <2> QED BY <1>1, <1>2, <2>1
<1>4. ASSUME Ordered(s) PROVE Ordered(w)
  <2>1. \A i, j \in DOMAIN s.wire : i < j => s.wire[i].seq < s.wire[j].seq
    BY <1>4 DEF Ordered
  <2>2. ASSUME NEW i \in DOMAIN w.wire, NEW j \in DOMAIN w.wire, i < j
        PROVE  w.wire[i].seq < w.wire[j].seq
    <3>1. /\ i + 1 \in DOMAIN s.wire /\ w.wire[i] = s.wire[i + 1]
          /\ j + 1 \in DOMAIN s.wire /\ w.wire[j] = s.wire[j + 1] /\ i + 1 < j + 1
      BY <1>1, <1>2, <2>2
    <3> QED BY <2>1, <3>1
  <2>3. w.at = "check" => \A i \in DOMAIN w.wire : w.env.seq < w.wire[i].seq
    BY <1>1, <1>2, <2>1
  <2> QED BY <1>1, <2>2, <2>3 DEF Ordered
<1> QED BY <1>1, <1>3, <1>4 DEF Shrinks

\* A step in which no thread gets anything new keeps the order, if it stores nothing
\* that an open stream still has to deliver.
LEMMA CurrentKept ==
    ASSUME Shape, Shape', CurrentInv,
           \A t \in Threads : Shrinks(thread'[t], thread[t]),
           \A t \in Threads : thread'[t].open =>
               /\ agent'[thread[t].node] = "streaming"
               /\ incarnation'[thread[t].node] = incarnation[thread[t].node]
               /\ \A m \in InHand(thread'[t]) :
                    Unstored(thread[t].node, m) => Unstored(thread[t].node, m)'
    PROVE  CurrentInv'
<1>1. \A t \in Threads : thread'[t].open => thread[t].open /\ thread'[t].node = thread[t].node
  BY DEF Shrinks
<1>2. OneStream'
  BY <1>1 DEF CurrentInv, OneStream
<1>3. ASSUME NEW t \in Threads, thread'[t].open
      PROVE  /\ Ordered(thread'[t])
             /\ \A m \in InHand(thread'[t]) :
                  /\ m.incarnation = incarnation'[thread'[t].node]
                  /\ Unstored(thread[t].node, m)'
             /\ \A u \in Threads \ {t} : Ahead(thread'[t], thread'[u])
  <2>1. /\ Ordered(thread[t])
        /\ \A m \in InHand(thread[t]) :
             m.incarnation = incarnation[thread[t].node] /\ Unstored(thread[t].node, m)
        /\ \A u \in Threads \ {t} : Ahead(thread[t], thread[u])
    BY <1>1, <1>3 DEF CurrentInv, CurrentOK
  <2>2. Ordered(thread'[t]) /\ InHand(thread'[t]) \subseteq InHand(thread[t])
    BY <1>3, <2>1 DEF Shrinks
  <2>3. \A u \in Threads \ {t} : Ahead(thread'[t], thread'[u])
    <3> SUFFICES ASSUME NEW u \in Threads \ {t}, thread'[t].node = thread'[u].node,
                        NEW m \in InHand(thread'[t]), NEW k \in InHand(thread'[u]),
                        k.incarnation = m.incarnation
                 PROVE  k.seq < m.seq
      BY DEF Ahead
    <3>1. thread'[u].node = thread[u].node /\ k \in InHand(thread[u]) /\ m \in InHand(thread[t])
      BY <2>2 DEF Shrinks
    <3>2. Ahead(thread[t], thread[u])
      BY <2>1
    <3> QED BY <1>1, <1>3, <3>1, <3>2 DEF Ahead
  <2> QED BY <1>1, <1>3, <2>1, <2>2, <2>3
<1>4. CurrentOK'
  <2> SUFFICES ASSUME NEW t \in Threads, thread'[t].open
               PROVE  (/\ Ordered(thread[t])
                       /\ \A m \in InHand(thread[t]) :
                            m.incarnation = incarnation[thread[t].node]
                            /\ Unstored(thread[t].node, m)
                       /\ \A u \in Threads \ {t} : Ahead(thread[t], thread[u]))'
    BY DEF CurrentOK
  <2>1. \A m : Unstored(thread[t].node, m)' =>
          (snapshots'[thread'[t].node] # None
             /\ snapshots'[thread'[t].node].incarnation = m.incarnation
               => snapshots'[thread'[t].node].seq < m.seq)
    BY <1>1 DEF Unstored
  <2> QED BY <1>3, <2>1 DEF Unstored
<1> QED BY <1>2, <1>4 DEF CurrentInv

\* The same when the step stores nothing.
LEMMA CurrentKeptPlain ==
    ASSUME Shape, Shape', CurrentInv, snapshots' = snapshots,
           \A t \in Threads : Shrinks(thread'[t], thread[t]),
           \A t \in Threads : thread'[t].open =>
               /\ agent'[thread[t].node] = "streaming"
               /\ incarnation'[thread[t].node] = incarnation[thread[t].node]
    PROVE  CurrentInv'
<1>1. ASSUME NEW t \in Threads, thread'[t].open, NEW m, Unstored(thread[t].node, m)
      PROVE  Unstored(thread[t].node, m)'
  <2>1. thread'[t].node = thread[t].node
    BY <1>1 DEF Shrinks
  <2> QED BY <1>1, <2>1 DEF Unstored
<1> QED BY <1>1, CurrentKept

\* An open stream is that of a node.
LEMMA OpenThreads ==
    ASSUME IdleOK, ThreadsOK, NEW t \in Threads, thread[t].open
    PROVE  thread[t].at # "idle" /\ StreamOK(thread[t]) /\ thread[t].node \in Nodes
<1>1. Idle.open = FALSE
  BY DEF Idle
<1>2. thread[t].at # "idle"
  BY <1>1 DEF IdleOK
<1>3. StreamOK(thread[t])
  BY <1>2 DEF ThreadsOK
<1> QED BY <1>2, <1>3 DEF StreamOK

\* A new stream carries nothing yet, and the agent was on no other.
LEMMA OpenStreamCurrent ==
    ASSUME Shape, Shape', IdleOK, ThreadsOK, CurrentInv, NEW n \in Nodes, OpenStream(n)
    PROVE  CurrentInv'
<1>1. PICK t \in Threads : thread' = [thread EXCEPT ![t] = NewStream(n)]
  BY DEF OpenStream, IdleThreads
<1>2. /\ agent[n] = "registered" /\ agent'[n] = "streaming"
      /\ \A m \in Nodes \ {n} : agent'[m] = agent[m]
      /\ UNCHANGED <<incarnation, snapshots>>
  BY DEF OpenStream, Shape
<1>3. thread'[t] = NewStream(n) /\ \A u \in Threads \ {t} : thread'[u] = thread[u]
  BY <1>1 DEF Shape
<1>4. NewStream(n).node = n /\ InHand(NewStream(n)) = {} /\ Ordered(NewStream(n))
  <2>1. NewStream(n).node = n /\ NewStream(n).wire = <<>> /\ NewStream(n).at = "read"
    BY DEF NewStream
  <2>2. DOMAIN NewStream(n).wire = {}
    BY <2>1, EmptySeq
  <2> QED BY <2>1, <2>2 DEF InHand, Ordered
<1>5. \A u \in Threads : thread[u].open => thread[u].node # n
  BY <1>2 DEF CurrentInv, OneStream
<1>6. \A u \in Threads : thread[u].open => thread[u].node \in Nodes
  BY OpenThreads
<1>7. OneStream'
  BY <1>2, <1>3, <1>4, <1>5, <1>6 DEF CurrentInv, OneStream
<1>8. CurrentOK'
  <2> SUFFICES ASSUME NEW u \in Threads, thread'[u].open
               PROVE  /\ Ordered(thread'[u])
                      /\ \A m \in InHand(thread'[u]) :
                           /\ m.incarnation = incarnation'[thread'[u].node]
                           /\ Unstored(thread[u].node, m)'
                      /\ \A v \in Threads \ {u} : Ahead(thread'[u], thread'[v])
    BY DEF CurrentOK, Unstored
  <2>1. CASE u = t
    BY <1>3, <1>4, <2>1 DEF Ahead
  <2>2. CASE u # t
    <3>1. thread'[u] = thread[u]
      BY <1>3, <2>2
    <3>2. /\ Ordered(thread[u])
          /\ \A m \in InHand(thread[u]) :
               m.incarnation = incarnation[thread[u].node] /\ Unstored(thread[u].node, m)
          /\ \A v \in Threads \ {u} : Ahead(thread[u], thread[v])
      BY <3>1 DEF CurrentInv, CurrentOK
    <3>3. \A v \in Threads \ {u} : Ahead(thread'[u], thread'[v])
      BY <1>3, <1>4, <3>1, <3>2 DEF Ahead
    <3> QED BY <1>2, <3>1, <3>2, <3>3 DEF Unstored
  <2> QED BY <2>1, <2>2
<1> QED BY <1>7, <1>8 DEF CurrentInv

\* The message an agent sends is newer than all that its process has sent before.
LEMMA SendCurrent ==
    ASSUME TelemetryInv, TelemetryInv', CurrentInv, NEW n \in Nodes, Send(n)
    PROVE  CurrentInv'
<1> USE DEF TelemetryInv
<1>1. PICK t \in StreamsOf(n) :
        thread' = [thread EXCEPT ![t].wire = Append(@, SignTelemetry(n))]
  BY DEF Send
<1>2. PICK s \in ThreadState :
        s = thread[t] /\ t \in Threads /\ s.node = n /\ s.open /\ s.at # "idle" /\ StreamOK(s)
  BY TelemetryAssumption DEF StreamsOf, Shape, IdleOK, ThreadsOK, Idle
<1>3. PICK e : e = SignTelemetry(n)
  OBVIOUS
<1>4. /\ e.incarnation = incarnation[n] /\ e.seq = seq[n] + 1 /\ e \in Message
      /\ UNCHANGED <<agent, incarnation, snapshots>>
  <2>1. e.incarnation = incarnation[n] /\ e.seq = seq[n] + 1
    BY <1>3 DEF SignTelemetry
  <2>2. e \in Message
    BY <1>3, TelemetryAssumption DEF SignTelemetry, Message, Shape
  <2> QED BY <2>1, <2>2 DEF Send
<1>5. PICK w : w = [s EXCEPT !.wire = Append(s.wire, e)]
  OBVIOUS
<1>6. /\ w.node = n /\ w.open = s.open /\ w.at = s.at /\ w.env = s.env
      /\ w.wire = Append(s.wire, e) /\ s.wire \in Seq(Message)
  BY <1>2, <1>5 DEF ThreadState
<1>7. thread'[t] = w /\ \A u \in Threads \ {t} : thread'[u] = thread[u]
  BY <1>1, <1>2, <1>3, <1>5 DEF Shape
<1>8. \A i \in DOMAIN w.wire :
        (w.wire[i] = e /\ i = Len(s.wire) + 1) \/ (i \in DOMAIN s.wire /\ w.wire[i] = s.wire[i])
  <2>1. \A q \in Seq(Message) : \A i \in DOMAIN Append(q, e) :
          (Append(q, e)[i] = e /\ i = Len(q) + 1) \/ (i \in DOMAIN q /\ Append(q, e)[i] = q[i])
    BY <1>4
  <2> QED BY <1>6, <2>1
<1>9. InHand(w) \subseteq InHand(s) \cup {e}
  BY <1>6, <1>8 DEF InHand
<1>10. ASSUME NEW u \in Threads, NEW k \in InHand(thread[u]), thread[u].node = n,
              k.incarnation = incarnation[n]
       PROVE  k.seq < e.seq
  <2>1. PICK r \in ThreadState : r = thread[u] /\ r.node = n /\ (r.at # "idle" => StreamOK(r))
    BY <1>10 DEF Shape, ThreadsOK
  <2>2. r.at # "idle"
    BY <2>1, TelemetryAssumption DEF IdleOK, Idle
  <2>3. SentBy(n, k) /\ k \in Message
    <3>1. CASE k \in {r.wire[i] : i \in DOMAIN r.wire}
      BY <2>1, <2>2, <3>1 DEF StreamOK, Waiting, ThreadState
    <3>2. CASE r.at \in {"check", "store"} /\ k = r.env
      BY <2>1, <3>2 DEF StreamOK, Waiting
    <3> QED BY <1>10, <2>1, <3>1, <3>2 DEF InHand
  <2>4. k.seq \in Nat /\ seq[n] \in Nat
    BY <2>3 DEF Message, Shape
  <2> QED BY <1>4, <1>10, <2>3, <2>4 DEF SentBy
<1>11. /\ Ordered(s)
       /\ \A m \in InHand(s) : m.incarnation = incarnation[n] /\ Unstored(n, m)
       /\ \A u \in Threads \ {t} : Ahead(s, thread[u])
  BY <1>2 DEF CurrentInv, CurrentOK
<1>12. \A k \in InHand(s) : k.seq < e.seq
  BY <1>2, <1>10, <1>11
<1>13. Ordered(w)
  <2>1. \A i \in DOMAIN s.wire : s.wire[i].seq < e.seq /\ i < Len(s.wire) + 1
    BY <1>6, <1>12 DEF InHand
  <2>2. s.at \in {"check", "store"} => s.env.seq < e.seq
    BY <1>12 DEF InHand
  <2>3. ASSUME NEW i \in DOMAIN w.wire, NEW j \in DOMAIN w.wire, i < j
        PROVE  w.wire[i].seq < w.wire[j].seq
    <3>1. i \in DOMAIN s.wire /\ w.wire[i] = s.wire[i]
      BY <1>6, <1>8, <2>1, <2>3
    <3> QED BY <1>8, <1>11, <2>1, <2>3, <3>1 DEF Ordered
  <2>4. w.at \in {"check", "store"} => \A i \in DOMAIN w.wire : w.env.seq < w.wire[i].seq
    BY <1>6, <1>8, <1>11, <2>2 DEF Ordered
  <2> QED BY <2>3, <2>4 DEF Ordered
<1>14. Unstored(n, e)
  BY <1>4 DEF Unstored, SnapshotsOK, SentBy, Shape, Snapshot
<1>15. OneStream'
  BY <1>2, <1>4, <1>6, <1>7 DEF CurrentInv, OneStream
<1>16. CurrentOK'
  <2> SUFFICES ASSUME NEW u \in Threads, thread'[u].open
               PROVE  /\ Ordered(thread'[u])
                      /\ \A m \in InHand(thread'[u]) :
                           /\ m.incarnation = incarnation'[thread'[u].node]
                           /\ Unstored(thread'[u].node, m)
                      /\ \A v \in Threads \ {u} : Ahead(thread'[u], thread'[v])
    BY <1>4 DEF CurrentOK, Unstored
  <2>1. CASE u = t
    <3>1. \A v \in Threads \ {t} : Ahead(w, thread[v])
      BY <1>2, <1>4, <1>6, <1>9, <1>10, <1>11 DEF Ahead
    <3>2. \A m \in InHand(w) : m.incarnation = incarnation[n] /\ Unstored(n, m)
      BY <1>4, <1>9, <1>11, <1>14
    <3> QED BY <1>4, <1>6, <1>7, <1>13, <2>1, <3>1, <3>2
  <2>2. CASE u # t
    <3>1. thread'[u] = thread[u] /\ thread[u].node # n
      BY <1>2, <1>7, <2>2 DEF CurrentInv, OneStream
    <3>2. /\ Ordered(thread[u])
          /\ \A m \in InHand(thread[u]) :
               m.incarnation = incarnation[thread[u].node] /\ Unstored(thread[u].node, m)
          /\ \A v \in Threads \ {u} : Ahead(thread[u], thread[v])
      BY <3>1 DEF CurrentInv, CurrentOK
    <3>3. \A v \in Threads \ {u} : Ahead(thread'[u], thread'[v])
      BY <1>6, <1>7, <3>1, <3>2 DEF Ahead
    <3> QED BY <1>4, <3>1, <3>2, <3>3
  <2> QED BY <2>1, <2>2
<1> QED BY <1>15, <1>16 DEF CurrentInv

\* Every step keeps the current streams ahead.
LEMMA NextCurrent ==
    ASSUME TelemetryInv, TelemetryInv', CurrentInv, [TelemetryNext]_vars
    PROVE  CurrentInv'
<1> USE DEF TelemetryInv
<1>1. \A t \in Threads : thread[t] \in ThreadState /\ Shrinks(thread[t], thread[t])
                         /\ Shrinks(Idle, thread[t])
  BY PlainShrinks DEF Shape
<1>2. \A t \in Threads : thread[t].open => agent[thread[t].node] = "streaming"
  BY DEF CurrentInv, OneStream
<1>a. Idle.open = FALSE
  BY DEF Idle
<1>3. ASSUME NEW n \in Nodes, RegisterNode(n) \/ RegistrationLost(n) PROVE CurrentInv'
  <2>1. /\ agent[n] = "connecting" /\ UNCHANGED <<incarnation, thread, snapshots>>
        /\ \A m \in Nodes \ {n} : agent'[m] = agent[m]
    BY <1>3 DEF RegisterNode, RegistrationLost, ServeRegistration, Shape
  <2>2. \A t \in Threads : thread[t].open => thread[t].node \in Nodes \ {n}
    BY <1>1, <1>2, <2>1, TelemetryAssumption
       DEF ThreadState, IdleOK, Idle, ThreadsOK, StreamOK
  <2>3. \A t \in Threads : thread[t].open => agent'[thread[t].node] = "streaming"
    BY <1>2, <2>1, <2>2
  <2> QED BY <1>1, <2>1, <2>3, CurrentKeptPlain
<1>4. ASSUME NEW n \in Nodes, OpenStream(n) PROVE CurrentInv'
  BY <1>4, OpenStreamCurrent
<1>5. ASSUME NEW n \in Nodes, Send(n) PROVE CurrentInv'
  BY <1>5, SendCurrent
<1>6. ASSUME NEW n \in Nodes, BreakConnection(n) \/ RestartAgent(n) PROVE CurrentInv'
  <2>1. /\ LeaveStream(n) /\ snapshots' = snapshots
        /\ \A m \in Nodes \ {n} : agent'[m] = agent[m] /\ incarnation'[m] = incarnation[m]
    BY <1>6 DEF BreakConnection, RestartAgent, Shape
  <2>2. ASSUME NEW t \in Threads
        PROVE  /\ Shrinks(thread'[t], thread[t])
               /\ thread'[t].open => thread[t].node \in Nodes \ {n} /\ thread[t].open
    <3>1. CASE t \in StreamsOf(n)
      <4>1. thread'[t] = [thread[t] EXCEPT !.open = FALSE]
        BY <2>1, <3>1 DEF LeaveStream
      <4>2. thread'[t].open = FALSE
        BY <1>1, <4>1 DEF ThreadState
      <4> QED BY <1>1, <4>1, <4>2, PlainShrinks
    <3>2. CASE t \notin StreamsOf(n)
      <4>1. thread'[t] = thread[t]
        BY <2>1, <3>2 DEF LeaveStream
      <4>2. thread[t].open => thread[t].node \in Nodes /\ thread[t].node # n
        BY <1>1, <3>2 DEF StreamsOf, ThreadState, IdleOK, Idle, ThreadsOK, StreamOK
      <4> QED BY <1>1, <4>1, <4>2
    <3> QED BY <3>1, <3>2
  <2>3. \A t \in Threads : thread'[t].open =>
          /\ agent'[thread[t].node] = "streaming"
          /\ incarnation'[thread[t].node] = incarnation[thread[t].node]
    BY <1>2, <2>1, <2>2
  <2> QED BY <2>1, <2>2, <2>3, CurrentKeptPlain
<1>7. ASSUME NEW t \in Threads, Receive(t) PROVE CurrentInv'
  <2>1. PICK s \in ThreadState : s = thread[t] /\ s.at = "read" /\ s.wire # <<>>
    BY <1>1, <1>7 DEF Receive
  <2>2. PICK w : /\ thread' = [thread EXCEPT ![t] = w]
                 /\ w = [s EXCEPT !.wire = Tail(s.wire)] \/
                    w = [s EXCEPT !.at = "check", !.wire = Tail(s.wire),
                                  !.env = Head(s.wire), !.key = identity[s.node]]
    BY <1>7, <2>1 DEF Receive
  <2>3. Shrinks(w, s)
    BY <2>1, <2>2, ReceiveShrinks
  <2>4. \A u \in Threads : Shrinks(thread'[u], thread[u])
    BY <1>1, <2>1, <2>2, <2>3 DEF Shape
  <2>5. UNCHANGED <<agent, incarnation, snapshots>>
    BY <1>7 DEF Receive, agentVars
  <2>6. \A u \in Threads : thread'[u].open => agent[thread[u].node] = "streaming"
    BY <1>2, <2>4 DEF Shrinks
  <2> QED BY <2>4, <2>5, <2>6, CurrentKeptPlain
<1>8. ASSUME NEW t \in Threads, Check(t) PROVE CurrentInv'
  <2>1. PICK s \in ThreadState : s = thread[t] /\ s.at = "check"
    BY <1>1, <1>8 DEF Check
  <2>2. PICK w : /\ thread' = [thread EXCEPT ![t] = w]
                 /\ w = [s EXCEPT !.at = "store"] \/ w = NextMessage(s)
    BY <1>8, <2>1 DEF Check
  <2>3. Shrinks(w, s)
    BY <2>1, <2>2, HandlerShrinks
  <2>4. \A u \in Threads : Shrinks(thread'[u], thread[u])
    BY <1>1, <2>1, <2>2, <2>3 DEF Shape
  <2>5. UNCHANGED <<agent, incarnation, snapshots>>
    BY <1>8 DEF Check, agentVars
  <2>6. \A u \in Threads : thread'[u].open => agent[thread[u].node] = "streaming"
    BY <1>2, <2>4 DEF Shrinks
  <2> QED BY <2>4, <2>5, <2>6, CurrentKeptPlain
<1>9. ASSUME NEW t \in Threads, Store(t) PROVE CurrentInv'
  <2>1. PICK s \in ThreadState : s = thread[t] /\ s.at = "store" /\ StreamOK(s)
    BY <1>1, <1>9 DEF Store, ThreadsOK
  <2>2. /\ thread' = [thread EXCEPT ![t] = NextMessage(s)]
        /\ snapshots' = [snapshots EXCEPT ![s.node] =
             [incarnation |-> s.env.incarnation, seq |-> s.env.seq,
              timestamp |-> s.env.timestamp]]
        /\ UNCHANGED <<agent, incarnation>>
    BY <1>9, <2>1 DEF Store, agentVars
  <2>3. \A u \in Threads : Shrinks(thread'[u], thread[u])
    BY <1>1, <2>1, <2>2, HandlerShrinks DEF Shape
  <2>4. \A u \in Threads : thread'[u].open => agent[thread[u].node] = "streaming"
    BY <1>2, <2>3 DEF Shrinks
  <2>5. ASSUME NEW u \in Threads, thread'[u].open, NEW m \in InHand(thread'[u]),
               Unstored(thread[u].node, m)
        PROVE  Unstored(thread[u].node, m)'
    <3>1. thread[u].open /\ thread'[u].node = thread[u].node /\ m \in InHand(thread[u])
      BY <2>3, <2>5 DEF Shrinks
    <3>2. CASE thread[u].node # s.node
      <4>1. snapshots'[thread[u].node] = snapshots[thread[u].node]
        BY <2>2, <3>2 DEF Shape
      <4>2. thread'[u].node = thread[u].node
        BY <3>1
      <4> QED BY <2>5, <4>1, <4>2 DEF Unstored
    <3>3. CASE thread[u].node = s.node
      <4>1. s.env \in InHand(s) /\ s.node \in Nodes
        BY <2>1 DEF InHand, StreamOK
      <4>2. m.incarnation = s.env.incarnation => s.env.seq < m.seq
        <5>1. CASE u # t
          <6>1. Ahead(thread[u], s)
            BY <2>1, <3>1, <5>1 DEF CurrentInv, CurrentOK
          <6> QED BY <3>1, <3>3, <4>1, <6>1 DEF Ahead
        <5>2. CASE u = t
          <6>1. NextMessage(s).wire = s.wire /\ NextMessage(s).at = "read"
            BY DEF NextMessage, ThreadState
          <6>2. thread'[u] = NextMessage(s)
            BY <2>2, <5>2 DEF Shape
          <6>3. PICK i \in DOMAIN s.wire : m = s.wire[i]
            BY <2>5, <6>1, <6>2 DEF InHand
          <6>4. Ordered(s)
            BY <2>1, <3>1, <5>2 DEF CurrentInv, CurrentOK
          <6> QED BY <2>1, <6>3, <6>4 DEF Ordered
        <5> QED BY <5>1, <5>2
      <4>3. snapshots'[s.node].incarnation = s.env.incarnation
            /\ snapshots'[s.node].seq = s.env.seq
        BY <2>2, <4>1 DEF Shape
      <4>4. thread'[u].node = s.node
        BY <3>1, <3>3
      <4> QED BY <3>3, <4>2, <4>3, <4>4 DEF Unstored
    <3> QED BY <3>2, <3>3
  <2> QED BY <2>2, <2>3, <2>4, <2>5, CurrentKept
<1>10. ASSUME NEW t \in Threads, StoreFails(t) \/ EndStream(t) PROVE CurrentInv'
  <2>1. /\ thread' = [thread EXCEPT ![t] = Idle] /\ UNCHANGED <<incarnation, snapshots>>
        /\ agent' = agent \/ agent' = [agent EXCEPT ![thread[t].node] =
                                         IF thread[t].open THEN "connecting" ELSE @]
    BY <1>10 DEF StoreFails, EndStream, agentVars
  <2>2. \A u \in Threads : Shrinks(thread'[u], thread[u])
    BY <1>1, <2>1 DEF Shape
  <2>3. ASSUME NEW u \in Threads, thread'[u].open
        PROVE  agent'[thread[u].node] = "streaming"
    <3>1. u # t /\ thread[u].open
      BY <1>a, <2>1, <2>3 DEF Shape
    <3>2. thread[u].node \in Nodes /\ agent[thread[u].node] = "streaming"
      BY <1>2, <3>1, OpenThreads
    <3>3. thread[t].open => thread[u].node # thread[t].node
      BY <3>1 DEF CurrentInv, OneStream
    <3>4. CASE thread[t].open
      <4>1. thread[t].node \in Nodes
        BY <3>4, OpenThreads
      <4> QED BY <2>1, <3>2, <3>3, <3>4, <4>1 DEF Shape
    <3>5. CASE ~thread[t].open
      <4>1. agent' = agent \/ agent' = [agent EXCEPT ![thread[t].node] = @]
        BY <2>1, <3>5
      <4> QED BY <3>2, <4>1 DEF Shape
    <3> QED BY <3>4, <3>5
  <2> QED BY <2>1, <2>2, <2>3, CurrentKeptPlain
<1>11. CASE RestartServer
  <2>1. \A t \in Threads : thread'[t] = Idle
    BY <1>11 DEF RestartServer
  <2> QED BY <1>1, <1>a, <2>1, CurrentKept
<1>12. CASE Tick \/ UNCHANGED vars
  <2>1. UNCHANGED <<agentVars, thread, snapshots>>
    BY <1>12 DEF Tick, vars
  <2>2. UNCHANGED <<agent, incarnation>> /\ \A t \in Threads : thread'[t] = thread[t]
    BY <2>1 DEF agentVars
  <2> QED BY <1>1, <1>2, <2>1, <2>2, CurrentKeptPlain
<1> QED BY <1>3, <1>4, <1>5, <1>6, <1>7, <1>8, <1>9, <1>10, <1>11, <1>12 DEF TelemetryNext

----------------------------------------------------------------------------
\* The state of the telemetry path is always as the invariant says.
THEOREM TelemetryInvariant == TelemetrySpec => []TelemetryInv
<1> QED BY InitInv, NextInv, PTL DEF TelemetrySpec

\* Messages that the guard let pass stay barred, for any number of nonces it keeps.
THEOREM ReplaysStayBarred == TelemetrySpec => []ReplayStopped
<1>1. TelemetryInv => ReplayStopped
  <2> SUFFICES ASSUME TelemetryInv, NEW n \in Nodes, NEW e \in admitted[n]
               PROVE  ~Admits(e)
    BY DEF ReplayStopped
  <2>1. e \in Message /\ e.node = n /\ e.seq <= highest[n]
    BY DEF TelemetryInv, Shape, AdmittedOK
  <2> QED BY <2>1 DEF TelemetryInv, Shape, Message, Admits
<1> QED BY <1>1, TelemetryInvariant, PTL

\* A node that is heard can be reached and its messages can be verified.
THEOREM HeardNodesAreReachable == TelemetrySpec => []HeardNodesReachable
<1>1. TelemetryInv => HeardNodesReachable
  BY DEF TelemetryInv, AdmittedOK, KeysOK, HeardNodesReachable
<1> QED BY <1>1, TelemetryInvariant, PTL

\* Only messages of an agent's earlier processes spend numbers in vain.
THEOREM OldProcessesBlock == TelemetrySpec => []OnlyOldProcessesBlock
<1>1. TelemetryInv => OnlyOldProcessesBlock
  BY DEF TelemetryInv
<1> QED BY <1>1, TelemetryInvariant, PTL

\* What the guard lets pass is newer than the snapshot of the same process.
THEOREM AdmissionsAreNewer == TelemetrySpec => AdmitsOnlyNewer
<1> DEFINE Step == \A n \in Nodes : \A e \in admitted'[n] \ admitted[n] :
         snapshots[n] # None /\ snapshots[n].incarnation = e.incarnation
            => snapshots[n].seq < e.seq
<1>1. TelemetryInv /\ [TelemetryNext]_vars => [Step]_vars
  <2> SUFFICES ASSUME TelemetryInv, TelemetryNext,
                      NEW n \in Nodes, NEW e \in admitted'[n] \ admitted[n],
                      snapshots[n] # None, snapshots[n].incarnation = e.incarnation
               PROVE  snapshots[n].seq < e.seq
    OBVIOUS
  <2>1. ASSUME NEW t \in Threads, Check(t) PROVE snapshots[n].seq < e.seq
    <3>1. PICK s \in ThreadState :
            /\ s = thread[t] /\ s.at = "check" /\ StreamOK(s)
      BY <2>1 DEF Check, TelemetryInv, Shape, ThreadsOK
    <3>2. /\ s.env \in Message /\ s.env.node = s.node /\ s.node \in Nodes
          /\ NewerOrBarred(s.node, s.env)
      BY <3>1 DEF StreamOK, Waiting
    <3>3. Admits(s.env) /\ e = s.env /\ n = s.node
      BY <2>1, <3>1, <3>2 DEF Check, Remember, TelemetryInv, Shape
    <3> QED BY <3>2, <3>3 DEF NewerOrBarred, Admits, TelemetryInv, Shape, Snapshot, Message
  <2>2. ASSUME UNCHANGED admitted \/ (RestartServer /\ admitted' = [m \in Nodes |-> {}])
        PROVE  FALSE
    BY <2>2
  <2> QED BY <2>1, <2>2
     DEF TelemetryNext, RegisterNode, RegistrationLost, ServeRegistration, OpenStream, Send,
         BreakConnection, RestartAgent, Receive, Store, StoreFails, EndStream,
         RestartServer, Tick, serverVars
<1> QED BY <1>1, TelemetryInvariant, PTL DEF TelemetrySpec, AdmitsOnlyNewer

\* Type correctness: in particular the guard, Redis and every stream hold only what
\* the agents have sent, under numbers and with times they may have.
THEOREM TelemetryTyping == TelemetrySpec => []TelemetryTypeOK
<1>1. TelemetryInv /\ TelemetryInv' /\ TelemetryTypeOK /\ [TelemetryNext]_vars
        => TelemetryTypeOK'
  BY NextTypes
<1> QED BY <1>1, InitTypes, TelemetryInvariant, PTL DEF TelemetrySpec

\* The stream a node is on carries only what is newer than its snapshot and than all
\* that the streams it has left still carry.
LEMMA CurrentInvariant == TelemetrySpec => []CurrentInv
<1>1. TelemetryInit => CurrentInv
  <2> SUFFICES ASSUME TelemetryInit PROVE \A t \in Threads : thread[t].open = FALSE
    BY DEF CurrentInv, OneStream, CurrentOK
  <2> QED BY DEF TelemetryInit, Idle
<1>2. TelemetryInv /\ TelemetryInv' /\ CurrentInv /\ [TelemetryNext]_vars => CurrentInv'
  BY NextCurrent
<1> QED BY <1>1, <1>2, TelemetryInvariant, PTL DEF TelemetrySpec

\* The stream a node is on never takes its snapshot back, whatever the streams it has
\* left still store (gateway/grpc_server.py:78-135, telemetry/redis_store.py:32).
THEOREM CurrentStreamsAdvance == TelemetrySpec => CurrentStreamAdvances
<1> DEFINE Step == \A t \in Threads :
         thread[t].at = "store" /\ thread[t].open /\ thread'[t].at = "read"
         /\ snapshots[thread[t].node] # None
            => Newer(thread[t].env, snapshots[thread[t].node])
<1>1. TelemetryInv /\ CurrentInv => Step
  <2> SUFFICES ASSUME TelemetryInv, CurrentInv, NEW t \in Threads,
                      thread[t].at = "store", thread[t].open,
                      snapshots[thread[t].node] # None
               PROVE  Newer(thread[t].env, snapshots[thread[t].node])
    OBVIOUS
  <2>1. PICK s \in ThreadState : s = thread[t] /\ s.node \in Nodes /\ s.env \in Message
    BY OpenThreads DEF TelemetryInv, Shape, StreamOK
  <2>2. s.env.incarnation = incarnation[s.node] /\ Unstored(s.node, s.env)
    BY <2>1 DEF CurrentInv, CurrentOK, InHand
  <2>3. snapshots[s.node] \in Snapshot /\ snapshots[s.node].incarnation <= incarnation[s.node]
    BY <2>1 DEF TelemetryInv, Shape, SnapshotsOK, SentBy
  <2>4. Newer(s.env, snapshots[s.node])
    BY <2>1, <2>2, <2>3 DEF Unstored, Newer, Message, Snapshot
  <2> QED BY <2>1, <2>4
<1>2. TelemetryInv /\ CurrentInv => [Step]_vars
  BY <1>1
<1> QED BY <1>2, TelemetryInvariant, CurrentInvariant, PTL
   DEF TelemetrySpec, CurrentStreamAdvances
=============================================================================
