-------------------------- MODULE SchedulerLeader --------------------------
(***************************************************************************)
(* Leadership among TaskScheduler objects (scheduler/dispatcher.py) over   *)
(* the state store of EtcdState.  A scheduler takes part in one election,  *)
(* in its constructor: it is granted a lease, tries to create the leader   *)
(* key under it, and publishes its fresh signing key under its             *)
(* scheduler_id whether it was elected or not.  Each of the three is a     *)
(* call of its own, so candidates and the clock interleave between them.   *)
(* From then on dispatch() checks the lease first and gives leadership up  *)
(* for good when it is dead.                                               *)
(*                                                                         *)
(* A member of Instances is one object and its signing key; a restarted    *)
(* scheduler is another member with the same scheduler_id.                 *)
(***************************************************************************)
EXTENDS Integers

CONSTANTS
    Instances,      \* TaskScheduler objects
    SchedulerIds,   \* values of the scheduler_id argument
    SchedulerId,    \* [Instances -> SchedulerIds]
    LeaseTTL,       \* grant_lease(ttl=30), in ticks
    MaxTime,        \* bound on the clock
    None

ASSUME InstancesAssumption == SchedulerId \in [Instances -> SchedulerIds]

ASSUME LeaseAssumption == LeaseTTL \in Nat /\ MaxTime \in Nat

ASSUME NoneAssumption == None \notin SchedulerIds /\ None \notin Instances

\* /distributed-ai/scheduler/leader and /distributed-ai/scheduler/{id}/identity
LeaderKey == [kind |-> "leader", of |-> None]
IdentityKey(id) == [kind |-> "identity", of |-> id]

EtcdKeys == {LeaderKey} \cup {IdentityKey(id) : id \in SchedulerIds}

VARIABLES
    now, kv, leases, lease_id_counter,   \* EtcdState
    stage,       \* how far an object has got: constructor steps, ready, stopped
    lease_id,    \* self.lease_id, 0 before it is granted
    is_leader    \* self.is_leader

etcdVars == <<now, kv, leases, lease_id_counter>>
leaderVars == <<now, kv, leases, lease_id_counter, stage, lease_id, is_leader>>

Etcd == INSTANCE EtcdState WITH EtcdKeys <- EtcdKeys,
                                EtcdValues <- SchedulerIds \cup Instances,
                                TTLs <- {LeaseTTL}

Stages == {"absent", "granted", "elected", "ready", "stopped"}

----------------------------------------------------------------------------
LeaderInit ==
    /\ Etcd!EtcdInit
    /\ stage = [s \in Instances |-> "absent"]
    /\ lease_id = [s \in Instances |-> 0]
    /\ is_leader = [s \in Instances |-> FALSE]

\* Fault: each scheduler_id uses a lease id of its own instead of a new one.
AcquireLease_PerId(s) ==
    /\ stage[s] = "absent"
    /\ IF \E t \in Instances : lease_id[t] # 0 /\ SchedulerId[t] = SchedulerId[s]
         THEN /\ lease_id' = [lease_id EXCEPT ![s] =
                   CHOOSE l \in 1..(lease_id_counter - 1) : \E t \in Instances :
                     lease_id[t] = l /\ SchedulerId[t] = SchedulerId[s]]
              /\ UNCHANGED etcdVars
         ELSE /\ Etcd!GrantLease(LeaseTTL)
              /\ lease_id' = [lease_id EXCEPT ![s] = lease_id_counter]
    /\ stage' = [stage EXCEPT ![s] = "granted"]
    /\ UNCHANGED is_leader

\* Fault: the lease is not recorded in the object.
AcquireLease_Unrecorded(s) ==
    /\ stage[s] = "absent"
    /\ Etcd!GrantLease(LeaseTTL)
    /\ lease_id' = [lease_id EXCEPT ![s] = None]
    /\ stage' = [stage EXCEPT ![s] = "granted"]
    /\ UNCHANGED is_leader

\* self.lease_id = self.etcd.grant_lease(ttl=30)
AcquireLease(s) ==
    /\ stage[s] = "absent"
    /\ Etcd!GrantLease(LeaseTTL)
    /\ lease_id' = [lease_id EXCEPT ![s] = lease_id_counter]
    /\ stage' = [stage EXCEPT ![s] = "granted"]
    /\ UNCHANGED is_leader

\* Fault: a candidate takes the key over when its holder carries the same id.
Campaign_Reentrant(s) ==
    /\ stage[s] = "granted"
    /\ LET expected == IF kv[LeaderKey] = SchedulerId[s] THEN SchedulerId[s] ELSE None
       IN /\ Etcd!CompareAndSwap(LeaderKey, expected, SchedulerId[s], lease_id[s])
          /\ is_leader' = [is_leader EXCEPT ![s] =
                             Etcd!CasSucceeds(LeaderKey, expected, lease_id[s])]
    /\ stage' = [stage EXCEPT ![s] = "elected"]
    /\ UNCHANGED lease_id

\* self.is_leader = self.etcd.compare_and_swap(leader key, None, scheduler_id)
Campaign(s) ==
    /\ stage[s] = "granted"
    /\ Etcd!CompareAndSwap(LeaderKey, None, SchedulerId[s], lease_id[s])
    /\ is_leader' = [is_leader EXCEPT ![s] =
                       Etcd!CasSucceeds(LeaderKey, None, lease_id[s])]
    /\ stage' = [stage EXCEPT ![s] = "elected"]
    /\ UNCHANGED lease_id

\* Fault: all schedulers publish under one key.
PublishIdentity_OneKey(s) ==
    /\ stage[s] = "elected"
    /\ Etcd!Put(IdentityKey(CHOOSE id \in SchedulerIds : TRUE), s)
    /\ stage' = [stage EXCEPT ![s] = "ready"]
    /\ UNCHANGED <<lease_id, is_leader>>

\* The object's public key replaces whatever its scheduler_id had published.
PublishIdentity(s) ==
    /\ stage[s] = "elected"
    /\ Etcd!Put(IdentityKey(SchedulerId[s]), s)
    /\ stage' = [stage EXCEPT ![s] = "ready"]
    /\ UNCHANGED <<lease_id, is_leader>>

\* Fault: whoever holds a live lease may dispatch; every scheduler holds one.
MayDispatch_AnyLease(s) == Etcd!LeaseLive(lease_id[s])

MayDispatch(s) == is_leader[s] /\ Etcd!LeaseLive(lease_id[s])

\* Fault: the halting leader also clears the leader key, in the same step.
AuthorizeDispatch_Resigns(s) ==
    /\ stage[s] = "ready"
    /\ IF is_leader[s] /\ ~MayDispatch(s)
         THEN /\ Etcd!Sweep(lease_id[s])
              /\ kv' = [kv EXCEPT ![LeaderKey] = None]
              /\ UNCHANGED <<now, lease_id_counter>>
         ELSE UNCHANGED etcdVars
    /\ is_leader' = [is_leader EXCEPT ![s] = MayDispatch(s)]
    /\ UNCHANGED <<stage, lease_id>>

\* The head of dispatch(): a leader looks at its lease and halts when it is
\* dead; the call goes on only if MayDispatch(s).
AuthorizeDispatch(s) ==
    /\ stage[s] = "ready"
    /\ IF is_leader[s]
         THEN Etcd!IsLeaseValid(lease_id[s])
         ELSE UNCHANGED etcdVars
    /\ is_leader' = [is_leader EXCEPT ![s] = MayDispatch(s)]
    /\ UNCHANGED <<stage, lease_id>>

\* The object goes away and the store, which stands for an etcd cluster, keeps
\* its keys.
Stop(s) ==
    /\ stage[s] \notin {"absent", "stopped"}
    /\ stage' = [stage EXCEPT ![s] = "stopped"]
    /\ is_leader' = [is_leader EXCEPT ![s] = FALSE]
    /\ UNCHANGED <<now, kv, leases, lease_id_counter, lease_id>>

\* An operator takes a scheduler's lease away (revoke_lease).
RevokeLease(s) ==
    /\ lease_id[s] \in DOMAIN leases
    /\ Etcd!RevokeLease(lease_id[s])
    /\ UNCHANGED <<stage, lease_id, is_leader>>

Tick == Etcd!Tick /\ UNCHANGED <<stage, lease_id, is_leader>>

LeaderNext ==
    \/ Tick
    \/ \E s \in Instances :
         \/ AcquireLease(s) \/ Campaign(s) \/ PublishIdentity(s)
         \/ AuthorizeDispatch(s) \/ Stop(s) \/ RevokeLease(s)

LeaderSpec == LeaderInit /\ [][LeaderNext]_leaderVars

----------------------------------------------------------------------------
(* Properties.                                                             *)

LeaderTypeOK ==
    /\ Etcd!EtcdTypeOK
    /\ stage \in [Instances -> Stages]
    /\ lease_id \in [Instances -> Nat]
    /\ is_leader \in [Instances -> BOOLEAN]

\* At most one TaskScheduler object ever believes it leads, live lease or not,
\* however candidates interleave between grant, CAS and publication and
\* whatever scheduler_ids they carry (dispatcher.py:41-47).
AtMostOneLeader ==
    \A s, t \in Instances : is_leader[s] /\ is_leader[t] => s = t

\* The lease id in a task envelope names one object: no two objects were ever
\* granted the same id, so a node that finds the id alive has the lease of the
\* scheduler that signed.
LeaseIdsDistinct ==
    \A s, t \in Instances : s # t /\ lease_id[s] # 0 => lease_id[s] # lease_id[t]

\* While no other object carries its scheduler_id, the signing key of a leader
\* that can dispatch is the published one, so no node turns its envelopes away as
\* forged (dispatcher.py:54-61, grpc_server.py:51-57).
LeaderKeyPublished ==
    \A s \in Instances :
      /\ is_leader[s]
      /\ stage[s] = "ready"
      /\ \A t \in Instances \ {s} : SchedulerId[t] # SchedulerId[s]
      => kv[IdentityKey(SchedulerId[s])] = s

\* A replica that campaigns under a live lease when the leader's lease is dead
\* is elected (security blueprint, 6.4: another replica acquires leadership
\* after the lease expires).
Lost(s) == is_leader[s] /\ ~Etcd!LeaseLive(lease_id[s])

Failover ==
    [][\A s, t \in Instances :
         Lost(s) /\ Etcd!LeaseLive(lease_id[t])
           /\ stage[t] = "granted" /\ stage'[t] = "elected"
         => is_leader'[t]]_leaderVars

\* Schedulers reach the store through its methods alone: every step of the
\* election and of the lease checks is one method call or leaves it as it is.
StoreSpec == Etcd!EtcdSpec
=============================================================================
