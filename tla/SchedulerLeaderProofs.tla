----------------------- MODULE SchedulerLeaderProofs -----------------------
(***************************************************************************)
(* The election of SchedulerLeader for any number of scheduler objects,    *)
(* any assignment of scheduler_ids to them and any lease lifetime.         *)
(***************************************************************************)
EXTENDS SchedulerLeader, TLAPS

StoreProofs == INSTANCE EtcdStateProofs WITH EtcdKeys <- EtcdKeys,
                                             EtcdValues <- SchedulerIds \cup Instances,
                                             TTLs <- {LeaseTTL}

----------------------------------------------------------------------------
(* The election uses the store through its methods.                        *)

\* The election's keys exist in the store and no identity key is the leader key.
LEMMA KeysDistinct ==
  /\ LeaderKey \in EtcdKeys
  /\ \A s \in Instances : IdentityKey(SchedulerId[s]) \in EtcdKeys
  /\ \A id \in SchedulerIds : IdentityKey(id) # LeaderKey
  BY InstancesAssumption DEF EtcdKeys, LeaderKey, IdentityKey

\* What ties an object to the lease table: it holds an id once it was granted
\* one, and never somebody else's.
LeaseIdsOK ==
    /\ lease_id_counter \in Nat \ {0}
    /\ lease_id \in [Instances -> Nat]
    /\ \A s \in Instances : lease_id[s] < lease_id_counter
    /\ \A s \in Instances : lease_id[s] = 0 <=> stage[s] = "absent"
    /\ LeaseIdsDistinct
    /\ DOMAIN leases \subseteq Etcd!LeaseIds

\* Every step of the election preserves the lease bookkeeping.
LEMMA LeaseIdsStep ==
  ASSUME LeaseIdsOK, stage \in [Instances -> Stages], [LeaderNext]_leaderVars
  PROVE  LeaseIdsOK'
<1>1. CASE Tick
  BY <1>1 DEF Tick, Etcd!Tick, LeaseIdsOK, LeaseIdsDistinct, Etcd!LeaseIds
<1>2. ASSUME NEW s \in Instances, AcquireLease(s)
      PROVE  LeaseIdsOK'
  BY <1>2 DEF AcquireLease, Etcd!GrantLease, LeaseIdsOK, LeaseIdsDistinct,
              Etcd!LeaseIds, Stages
<1>3. ASSUME NEW s \in Instances, Campaign(s)
      PROVE  LeaseIdsOK'
  BY <1>3 DEF Campaign, Etcd!CompareAndSwap, Etcd!Sweep, LeaseIdsOK,
              LeaseIdsDistinct, Etcd!LeaseIds, Stages
<1>4. ASSUME NEW s \in Instances, PublishIdentity(s)
      PROVE  LeaseIdsOK'
  BY <1>4 DEF PublishIdentity, Etcd!Put, LeaseIdsOK, LeaseIdsDistinct,
              Etcd!LeaseIds, Stages
<1>5. ASSUME NEW s \in Instances, AuthorizeDispatch(s)
      PROVE  LeaseIdsOK'
  BY <1>5 DEF AuthorizeDispatch, Etcd!IsLeaseValid, Etcd!Sweep, etcdVars,
              LeaseIdsOK, LeaseIdsDistinct, Etcd!LeaseIds
<1>6. ASSUME NEW s \in Instances, Stop(s)
      PROVE  LeaseIdsOK'
  BY <1>6 DEF Stop, LeaseIdsOK, LeaseIdsDistinct, Etcd!LeaseIds, Stages
<1>7. ASSUME NEW s \in Instances, RevokeLease(s)
      PROVE  LeaseIdsOK'
  BY <1>7 DEF RevokeLease, Etcd!RevokeLease, LeaseIdsOK, LeaseIdsDistinct,
              Etcd!LeaseIds
<1>8. CASE UNCHANGED leaderVars
  BY <1>8 DEF leaderVars, LeaseIdsOK, LeaseIdsDistinct, Etcd!LeaseIds
<1> QED
  BY <1>1, <1>2, <1>3, <1>4, <1>5, <1>6, <1>7, <1>8 DEF LeaderNext

\* Every step of the election is a step of the store or leaves it as it is.
LEMMA StoreStep ==
  ASSUME LeaseIdsOK, stage \in [Instances -> Stages], [LeaderNext]_leaderVars
  PROVE  [Etcd!EtcdNext]_etcdVars
<1>1. CASE Tick
  BY <1>1 DEF Tick, Etcd!EtcdNext
<1>2. ASSUME NEW s \in Instances, AcquireLease(s)
      PROVE  Etcd!EtcdNext
  BY <1>2 DEF AcquireLease, Etcd!EtcdNext
<1>3. ASSUME NEW s \in Instances, Campaign(s)
      PROVE  Etcd!EtcdNext
  <2>1. lease_id[s] \in Etcd!LeaseIds
    BY <1>3 DEF LeaseIdsOK, Etcd!LeaseIds, Campaign
  <2>2. /\ LeaderKey \in EtcdKeys
        /\ SchedulerId[s] \in SchedulerIds \cup Instances
    BY KeysDistinct, InstancesAssumption
  <2> QED
    BY <1>3, <2>1, <2>2 DEF Campaign, Etcd!EtcdNext
<1>4. ASSUME NEW s \in Instances, PublishIdentity(s)
      PROVE  Etcd!EtcdNext
  BY <1>4, KeysDistinct DEF PublishIdentity, Etcd!EtcdNext
<1>5. ASSUME NEW s \in Instances, AuthorizeDispatch(s)
      PROVE  [Etcd!EtcdNext]_etcdVars
  <2>1. lease_id[s] \in Etcd!LeaseIds
    BY <1>5 DEF LeaseIdsOK, Etcd!LeaseIds, AuthorizeDispatch
  <2> QED
    BY <1>5, <2>1 DEF AuthorizeDispatch, Etcd!EtcdNext
<1>6. ASSUME NEW s \in Instances, Stop(s)
      PROVE  UNCHANGED etcdVars
  BY <1>6 DEF Stop, etcdVars
<1>7. ASSUME NEW s \in Instances, RevokeLease(s)
      PROVE  Etcd!EtcdNext
  BY <1>7 DEF RevokeLease, LeaseIdsOK, Etcd!EtcdNext
<1>8. CASE UNCHANGED leaderVars
  BY <1>8 DEF leaderVars, etcdVars
<1> QED
  BY <1>1, <1>2, <1>3, <1>4, <1>5, <1>6, <1>7, <1>8 DEF LeaderNext

\* Every step of the election keeps the stages well typed.
LEMMA StageStep ==
  ASSUME stage \in [Instances -> Stages], [LeaderNext]_leaderVars
  PROVE  stage' \in [Instances -> Stages]
  BY DEF LeaderNext, leaderVars, Tick, AcquireLease, Campaign, PublishIdentity,
         AuthorizeDispatch, Stop, RevokeLease, Stages

\* The lease bookkeeping holds in every reachable state.
LEMMA LeaseIdsInvariant == LeaderSpec => [](LeaseIdsOK /\ stage \in [Instances -> Stages])
<1>1. LeaderInit => LeaseIdsOK /\ stage \in [Instances -> Stages]
  BY DEF LeaderInit, Etcd!EtcdInit, LeaseIdsOK, LeaseIdsDistinct, Etcd!LeaseIds, Stages
<1>2. (LeaseIdsOK /\ stage \in [Instances -> Stages]) /\ [LeaderNext]_leaderVars
        => (LeaseIdsOK /\ stage \in [Instances -> Stages])'
  BY LeaseIdsStep, StageStep
<1> QED
  BY <1>1, <1>2, PTL DEF LeaderSpec

\* The election implements the store's specification: every step of every
\* scheduler is one method call of SimulatedEtcdProvider, or leaves it alone.
THEOREM ElectionUsesStore == LeaderSpec => StoreSpec
<1>1. LeaderInit => Etcd!EtcdInit
  BY DEF LeaderInit
<1>2. LeaseIdsOK /\ stage \in [Instances -> Stages] /\ [LeaderNext]_leaderVars
        => [Etcd!EtcdNext]_(Etcd!etcdVars)
  BY StoreStep DEF etcdVars, Etcd!etcdVars
<1> QED
  BY <1>1, <1>2, LeaseIdsInvariant, PTL DEF LeaderSpec, StoreSpec, Etcd!EtcdSpec

\* The store's definitions mean here what they mean in its own proofs.
LEMMA SameStore ==
  /\ Etcd!EtcdInit <=> StoreProofs!EtcdInit
  /\ Etcd!EtcdTypeOK <=> StoreProofs!EtcdTypeOK
  /\ [Etcd!EtcdNext]_(Etcd!etcdVars) <=> [StoreProofs!EtcdNext]_(StoreProofs!etcdVars)
<1>1. Etcd!EtcdInit <=> StoreProofs!EtcdInit
  BY DEF Etcd!EtcdInit, StoreProofs!EtcdInit
<1>2. Etcd!EtcdTypeOK <=> StoreProofs!EtcdTypeOK
  BY DEF Etcd!EtcdTypeOK, StoreProofs!EtcdTypeOK, Etcd!LeaseIds, StoreProofs!LeaseIds
<1>3. Etcd!EtcdNext <=> StoreProofs!EtcdNext
  BY Zenon DEF Etcd!EtcdNext, StoreProofs!EtcdNext, Etcd!LeaseIds, StoreProofs!LeaseIds,
         Etcd!Tick, StoreProofs!Tick, Etcd!Put, StoreProofs!Put,
         Etcd!Delete, StoreProofs!Delete, Etcd!GrantLease, StoreProofs!GrantLease,
         Etcd!RevokeLease, StoreProofs!RevokeLease,
         Etcd!IsLeaseValid, StoreProofs!IsLeaseValid,
         Etcd!PutWithLease, StoreProofs!PutWithLease,
         Etcd!CompareAndSwap, StoreProofs!CompareAndSwap,
         Etcd!CasSucceeds, StoreProofs!CasSucceeds,
         Etcd!Sweep, StoreProofs!Sweep, Etcd!LeaseLive, StoreProofs!LeaseLive
<1> QED
  BY <1>1, <1>2, <1>3 DEF Etcd!etcdVars, StoreProofs!etcdVars

\* No two scheduler objects are ever granted the same lease id, however their
\* constructors interleave (dispatcher.py:41, state.py:42-49).
THEOREM LeaseIdsAreDistinct == LeaderSpec => []LeaseIdsDistinct
BY LeaseIdsInvariant, PTL DEF LeaseIdsOK

----------------------------------------------------------------------------
(* The election has one winner.                                            *)

\* Inductive strengthening of AtMostOneLeader: a leader is an object whose id
\* is under the leader key, so the key is there, and a key that is there lets
\* no None-expecting CAS succeed.
LeaderInv ==
    /\ kv \in [EtcdKeys -> SchedulerIds \cup Instances \cup {None}]
    /\ stage \in [Instances -> Stages]
    /\ is_leader \in [Instances -> BOOLEAN]
    /\ \A s \in Instances : is_leader[s] => kv[LeaderKey] = SchedulerId[s]
    /\ AtMostOneLeader

\* The CAS preserves the invariant: won, the key was missing, so nobody led;
\* lost, nobody becomes a leader.
LEMMA CampaignStep ==
  ASSUME LeaderInv, NEW s \in Instances, Campaign(s)
  PROVE  LeaderInv'
<1>1. /\ kv' \in [EtcdKeys -> SchedulerIds \cup Instances \cup {None}]
      /\ stage' \in [Instances -> Stages]
  BY KeysDistinct, InstancesAssumption
     DEF LeaderInv, Campaign, Etcd!CompareAndSwap, Stages
<1>2. CASE Etcd!CasSucceeds(LeaderKey, None, lease_id[s])
  <2>1. \A t \in Instances : ~is_leader[t]
    BY <1>2, InstancesAssumption, NoneAssumption DEF LeaderInv, Etcd!CasSucceeds
  <2>2. kv'[LeaderKey] = SchedulerId[s]
    BY <1>2, KeysDistinct DEF LeaderInv, Campaign, Etcd!CompareAndSwap
  <2>3. is_leader' = [is_leader EXCEPT ![s] = TRUE]
    BY <1>2, Zenon DEF Campaign
  <2> QED
    BY <1>1, <2>1, <2>2, <2>3 DEF LeaderInv, AtMostOneLeader
<1>3. CASE ~Etcd!CasSucceeds(LeaderKey, None, lease_id[s])
  <2>1. kv' = kv
    BY <1>3 DEF Campaign, Etcd!CompareAndSwap
  <2>2. \A t \in Instances : is_leader'[t] => is_leader[t]
    BY <1>3 DEF Campaign, LeaderInv
  <2>3. is_leader' \in [Instances -> BOOLEAN]
    BY Zenon DEF Campaign, Etcd!CasSucceeds, LeaderInv
  <2> QED
    BY <1>1, <2>1, <2>2, <2>3 DEF LeaderInv, AtMostOneLeader
<1> QED
  BY <1>2, <1>3

\* Every step of the election preserves the strengthened invariant.
LEMMA LeaderInvStep ==
  ASSUME LeaderInv, [LeaderNext]_leaderVars
  PROVE  LeaderInv'
<1>1. CASE Tick
  BY <1>1 DEF Tick, Etcd!Tick, LeaderInv, AtMostOneLeader
<1>2. ASSUME NEW s \in Instances, AcquireLease(s)
      PROVE  LeaderInv'
  BY <1>2 DEF AcquireLease, Etcd!GrantLease, LeaderInv, AtMostOneLeader, Stages
<1>3. ASSUME NEW s \in Instances, Campaign(s)
      PROVE  LeaderInv'
  BY <1>3, CampaignStep
<1>4. ASSUME NEW s \in Instances, PublishIdentity(s)
      PROVE  LeaderInv'
  BY <1>4, KeysDistinct, InstancesAssumption
     DEF PublishIdentity, Etcd!Put, LeaderInv, AtMostOneLeader, Stages
<1>5. ASSUME NEW s \in Instances, AuthorizeDispatch(s)
      PROVE  LeaderInv'
  <2>1. kv' = kv /\ stage' = stage
    BY <1>5 DEF AuthorizeDispatch, Etcd!IsLeaseValid, etcdVars
  <2>2. \A t \in Instances : is_leader'[t] => is_leader[t]
    BY <1>5 DEF AuthorizeDispatch, MayDispatch, LeaderInv
  <2>3. is_leader' \in [Instances -> BOOLEAN]
    BY <1>5, Zenon DEF AuthorizeDispatch, MayDispatch, LeaderInv, Etcd!LeaseLive
  <2> QED
    BY <2>1, <2>2, <2>3 DEF LeaderInv, AtMostOneLeader
<1>6. ASSUME NEW s \in Instances, Stop(s)
      PROVE  LeaderInv'
  BY <1>6 DEF Stop, LeaderInv, AtMostOneLeader, Stages
<1>7. ASSUME NEW s \in Instances, RevokeLease(s)
      PROVE  LeaderInv'
  BY <1>7 DEF RevokeLease, Etcd!RevokeLease, LeaderInv, AtMostOneLeader
<1>8. CASE UNCHANGED leaderVars
  BY <1>8 DEF leaderVars, LeaderInv, AtMostOneLeader
<1> QED
  BY <1>1, <1>2, <1>3, <1>4, <1>5, <1>6, <1>7, <1>8 DEF LeaderNext

\* All that is needed of the election's state, in one inductive invariant.
LeaderSafe == LeaseIdsOK /\ LeaderInv /\ Etcd!EtcdTypeOK

\* Every step of the election preserves it.
LEMMA LeaderSafeStep ==
  ASSUME LeaderSafe, [LeaderNext]_leaderVars
  PROVE  LeaderSafe'
<1>1. stage \in [Instances -> Stages]
  BY DEF LeaderSafe, LeaderInv
<1>2. LeaseIdsOK' /\ LeaderInv'
  BY <1>1, LeaseIdsStep, LeaderInvStep DEF LeaderSafe
<1>3. [StoreProofs!EtcdNext]_(StoreProofs!etcdVars)
  BY <1>1, StoreStep, SameStore DEF LeaderSafe, etcdVars, Etcd!etcdVars
<1>4. {LeaseTTL} \subseteq Nat
  BY LeaseAssumption
<1>5. StoreProofs!EtcdTypeOK'
  BY <1>3, <1>4, SameStore, StoreProofs!EtcdTypingStep DEF LeaderSafe
<1>6. Etcd!EtcdTypeOK'
  BY <1>5 DEF Etcd!EtcdTypeOK, StoreProofs!EtcdTypeOK, Etcd!LeaseIds, StoreProofs!LeaseIds
<1> QED
  BY <1>2, <1>6 DEF LeaderSafe

\* The election starts in it.
LEMMA LeaderSafeInit == LeaderInit => LeaderSafe
  BY DEF LeaderInit, Etcd!EtcdInit, LeaderSafe, LeaseIdsOK, LeaseIdsDistinct,
         Etcd!LeaseIds, LeaderInv, AtMostOneLeader, Stages, Etcd!EtcdTypeOK

\* It holds in every reachable state.
LEMMA LeaderSafety == LeaderSpec => []LeaderSafe
<1>1. LeaderSafe /\ [LeaderNext]_leaderVars => LeaderSafe'
  BY LeaderSafeStep
<1> QED
  BY <1>1, LeaderSafeInit, PTL DEF LeaderSpec

\* A lease of a scheduler that is dead before a step is dead after it.
LEMMA LeaseStaysDeadStep ==
  ASSUME LeaderSafe, [LeaderNext]_leaderVars,
         NEW l \in Etcd!LeaseIds, ~Etcd!LeaseLive(l)
  PROVE  ~Etcd!LeaseLive(l)'
<1>1. [StoreProofs!EtcdNext]_(StoreProofs!etcdVars)
  BY StoreStep, SameStore DEF LeaderSafe, LeaderInv, etcdVars, Etcd!etcdVars
<1>2. {LeaseTTL} \subseteq Nat
  BY LeaseAssumption
<1>3. StoreProofs!EtcdTypeOK /\ l \in StoreProofs!LeaseIds /\ ~StoreProofs!LeaseLive(l)
  BY SameStore DEF LeaderSafe, Etcd!LeaseIds, StoreProofs!LeaseIds,
                   Etcd!LeaseLive, StoreProofs!LeaseLive
<1>4. ~StoreProofs!LeaseLive(l)'
  BY <1>1, <1>2, <1>3, StoreProofs!NoRevivalStep
<1> QED
  BY <1>4 DEF Etcd!LeaseLive, StoreProofs!LeaseLive

\* At most one scheduler object ever believes it leads: two constructors that
\* race, with equal or different scheduler_ids, cannot both win the CAS, and
\* no later call makes a loser a leader (dispatcher.py:41-47, 107-109).
THEOREM OneLeader == LeaderSpec => []AtMostOneLeader
BY LeaderSafety, PTL DEF LeaderSafe, LeaderInv

\* Type correctness of the election's state, the store's part by the store's own
\* typing lemma.
THEOREM LeaderTyping == LeaderSpec => []LeaderTypeOK
<1>1. LeaderSafe => LeaderTypeOK
  BY DEF LeaderSafe, LeaseIdsOK, LeaderInv, LeaderTypeOK
<1> QED
  BY <1>1, LeaderSafety, PTL

\* So the leases of all schedulers inherit what the store promises: no lease of
\* any scheduler object is ever valid again once it was not.
THEOREM SchedulerLeasesNeverRevived == LeaderSpec => Etcd!LeaseNeverRevived
<1> DEFINE NoRevival ==
      \A l \in Etcd!LeaseIds : ~Etcd!LeaseLive(l) => ~Etcd!LeaseLive(l)'
<1>1. LeaderSafe /\ [LeaderNext]_leaderVars => [NoRevival]_(Etcd!etcdVars)
  BY LeaseStaysDeadStep
<1> QED
  BY <1>1, LeaderSafety, PTL DEF LeaderSpec, Etcd!LeaseNeverRevived
----------------------------------------------------------------------------
(* A leader's signing key is the published one.                            *)

\* No other object carries the scheduler_id of s.
SoleBearer(s) == \A t \in Instances \ {s} : SchedulerId[t] # SchedulerId[s]

\* Inductive strengthening of LeaderKeyPublished: leader or not, the key of a
\* ready object stays published, for only bearers of its scheduler_id write there.
KeysPublished ==
    \A s \in Instances :
      stage[s] = "ready" /\ SoleBearer(s) => kv[IdentityKey(SchedulerId[s])] = s

\* Every step of the election preserves it: the CAS writes another key, and a
\* publication writes the key of its own scheduler_id.
LEMMA KeysPublishedStep ==
  ASSUME LeaderInv, KeysPublished, [LeaderNext]_leaderVars
  PROVE  KeysPublished'
<1>1. ASSUME NEW s \in Instances, AcquireLease(s)
      PROVE  KeysPublished'
  BY <1>1 DEF AcquireLease, Etcd!GrantLease, LeaderInv, KeysPublished, SoleBearer
<1>2. ASSUME NEW s \in Instances, Campaign(s)
      PROVE  KeysPublished'
  <2>1. \A id \in SchedulerIds : kv'[IdentityKey(id)] = kv[IdentityKey(id)]
    BY <1>2, KeysDistinct DEF Campaign, Etcd!CompareAndSwap, LeaderInv
  <2>2. \A t \in Instances : stage'[t] = "ready" => stage[t] = "ready"
    BY <1>2 DEF Campaign, LeaderInv
  <2> QED
    BY <2>1, <2>2, InstancesAssumption DEF KeysPublished, SoleBearer
<1>3. ASSUME NEW s \in Instances, PublishIdentity(s)
      PROVE  KeysPublished'
  <2>1. kv' = [kv EXCEPT ![IdentityKey(SchedulerId[s])] = s]
    BY <1>3 DEF PublishIdentity, Etcd!Put
  <2>2. kv'[IdentityKey(SchedulerId[s])] = s
    BY <2>1, KeysDistinct DEF LeaderInv
  <2>3. ASSUME NEW t \in Instances \ {s}, stage'[t] = "ready", SoleBearer(t)
        PROVE  kv'[IdentityKey(SchedulerId[t])] = t
    <3>1. stage[t] = "ready"
      BY <1>3, <2>3 DEF PublishIdentity, LeaderInv
    <3>2. IdentityKey(SchedulerId[t]) # IdentityKey(SchedulerId[s])
      BY <2>3 DEF IdentityKey, SoleBearer
    <3> QED
      BY <2>1, <2>3, <3>1, <3>2, KeysDistinct DEF LeaderInv, KeysPublished
  <2> QED
    BY <2>2, <2>3 DEF KeysPublished, SoleBearer
<1>4. ASSUME NEW s \in Instances, AuthorizeDispatch(s)
      PROVE  KeysPublished'
  BY <1>4 DEF AuthorizeDispatch, Etcd!IsLeaseValid, etcdVars, KeysPublished, SoleBearer
<1>5. ASSUME NEW s \in Instances, Stop(s)
      PROVE  KeysPublished'
  BY <1>5 DEF Stop, LeaderInv, KeysPublished, SoleBearer
<1>6. CASE kv' = kv /\ stage' = stage
  BY <1>6 DEF KeysPublished, SoleBearer
<1>7. ASSUME NEW s \in Instances, RevokeLease(s)
      PROVE  kv' = kv /\ stage' = stage
  BY <1>7 DEF RevokeLease, Etcd!RevokeLease
<1>8. Tick \/ UNCHANGED leaderVars => kv' = kv /\ stage' = stage
  BY DEF Tick, Etcd!Tick, leaderVars
<1> QED
  BY <1>1, <1>2, <1>3, <1>4, <1>5, <1>6, <1>7, <1>8 DEF LeaderNext

\* A leader that can dispatch and shares its scheduler_id with nobody has its own
\* signing key published, so no node turns its envelopes away as forged
\* (dispatcher.py:54-61, grpc_server.py:51-57).
THEOREM LeaderKeyStaysPublished == LeaderSpec => []LeaderKeyPublished
<1>1. LeaderInit => KeysPublished
  BY DEF LeaderInit, KeysPublished
<1>2. LeaderSafe /\ KeysPublished /\ [LeaderNext]_leaderVars => KeysPublished'
  BY KeysPublishedStep DEF LeaderSafe
<1>3. KeysPublished => LeaderKeyPublished
  BY DEF KeysPublished, LeaderKeyPublished, SoleBearer
<1> QED
  BY <1>1, <1>2, <1>3, LeaderSafety, PTL DEF LeaderSpec
=============================================================================
