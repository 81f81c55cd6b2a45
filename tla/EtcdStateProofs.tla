-------------------------- MODULE EtcdStateProofs --------------------------
(***************************************************************************)
(* What the store promises its clients, for any keys, values and lease     *)
(* lifetimes: its state is well typed and a dead lease stays dead.         *)
(***************************************************************************)
EXTENDS EtcdState, TLAPS

\* Removing entries of a lease table keeps it a table of handed-out ids.
LEMMA RestrictedLeases ==
  ASSUME EtcdTypeOK, NEW D \in SUBSET DOMAIN leases,
         leases' = [m \in D |-> leases[m]], lease_id_counter' = lease_id_counter
  PROVE  /\ DOMAIN leases' \subseteq LeaseIds'
         /\ leases' \in [DOMAIN leases' -> Nat]
  BY DEF EtcdTypeOK, LeaseIds

\* Each method, and the passing of time, keeps the state well typed.
LEMMA EtcdTypingStep ==
  ASSUME EtcdTypeOK, [EtcdNext]_etcdVars
  PROVE  EtcdTypeOK'
<1>1. CASE Tick
  BY <1>1 DEF Tick, EtcdTypeOK, LeaseIds
<1>2. ASSUME NEW k \in EtcdKeys, NEW v \in EtcdValues, Put(k, v)
      PROVE  EtcdTypeOK'
  BY <1>2 DEF Put, EtcdTypeOK, LeaseIds
<1>3. ASSUME NEW k \in EtcdKeys, Delete(k)
      PROVE  EtcdTypeOK'
  BY <1>3 DEF Delete, EtcdTypeOK, LeaseIds
<1>4. ASSUME NEW ttl \in TTLs, GrantLease(ttl)
      PROVE  EtcdTypeOK'
  <2>1. ttl \in Nat
    BY TTLAssumption
  <2>2. DOMAIN leases' \subseteq LeaseIds'
    BY <1>4 DEF GrantLease, EtcdTypeOK, LeaseIds
  <2>3. leases' \in [DOMAIN leases' -> Nat]
    BY <1>4, <2>1 DEF GrantLease, EtcdTypeOK
  <2>4. now' \in Nat /\ lease_id_counter' \in Nat \ {0}
    BY <1>4 DEF GrantLease, EtcdTypeOK
  <2>5. kv' \in [EtcdKeys -> EtcdValues \cup {None}]
    BY <1>4 DEF GrantLease, EtcdTypeOK
  <2> QED
    BY <2>2, <2>3, <2>4, <2>5 DEF EtcdTypeOK
<1>5. ASSUME NEW l \in LeaseIds, RevokeLease(l)
      PROVE  EtcdTypeOK'
  BY <1>5, RestrictedLeases DEF RevokeLease, EtcdTypeOK
<1>6. ASSUME NEW l \in LeaseIds, IsLeaseValid(l)
      PROVE  EtcdTypeOK'
  BY <1>6, RestrictedLeases DEF IsLeaseValid, Sweep, EtcdTypeOK
<1>7. ASSUME NEW k \in EtcdKeys, NEW v \in EtcdValues, NEW l \in LeaseIds,
             PutWithLease(k, v, l)
      PROVE  EtcdTypeOK'
  BY <1>7, RestrictedLeases DEF PutWithLease, Sweep, EtcdTypeOK
<1>8. ASSUME NEW k \in EtcdKeys, NEW e \in EtcdValues \cup {None},
             NEW v \in EtcdValues, NEW l \in LeaseIds \cup {None},
             CompareAndSwap(k, e, v, l)
      PROVE  EtcdTypeOK'
  BY <1>8, RestrictedLeases DEF CompareAndSwap, Sweep, EtcdTypeOK
<1>9. CASE UNCHANGED etcdVars
  BY <1>9 DEF etcdVars, EtcdTypeOK, LeaseIds
<1> QED
  BY <1>1, <1>2, <1>3, <1>4, <1>5, <1>6, <1>7, <1>8, <1>9 DEF EtcdNext

\* The state stays well typed: every lease in the table has an id below the
\* counter and a natural expiry (state.py grant_lease, is_lease_valid).
THEOREM EtcdTyping == EtcdSpec => []EtcdTypeOK
<1>1. EtcdInit => EtcdTypeOK
  BY DEF EtcdInit, EtcdTypeOK, LeaseIds
<1>2. EtcdTypeOK /\ [EtcdNext]_etcdVars => EtcdTypeOK'
  BY EtcdTypingStep
<1> QED
  BY <1>1, <1>2, PTL DEF EtcdSpec

\* A step that removes entries, or none, and leaves the clock alone revives
\* no lease.
LEMMA RestrictionRevivesNothing ==
  ASSUME NEW D \in SUBSET DOMAIN leases,
         leases' = [m \in D |-> leases[m]], now' = now,
         NEW l, ~LeaseLive(l)
  PROVE  ~LeaseLive(l)'
  BY DEF LeaseLive

\* No single method call, and no tick, makes a dead lease valid.
LEMMA NoRevivalStep ==
  ASSUME EtcdTypeOK, [EtcdNext]_etcdVars, NEW d \in LeaseIds, ~LeaseLive(d)
  PROVE  ~LeaseLive(d)'
<1>1. CASE Tick
  BY <1>1 DEF Tick, LeaseLive, EtcdTypeOK
<1>2. ASSUME NEW k \in EtcdKeys, NEW v \in EtcdValues, Put(k, v)
      PROVE  ~LeaseLive(d)'
  BY <1>2 DEF Put, LeaseLive
<1>3. ASSUME NEW k \in EtcdKeys, Delete(k)
      PROVE  ~LeaseLive(d)'
  BY <1>3 DEF Delete, LeaseLive
<1>4. ASSUME NEW ttl \in TTLs, GrantLease(ttl)
      PROVE  ~LeaseLive(d)'
  BY <1>4 DEF GrantLease, LeaseLive, EtcdTypeOK, LeaseIds
<1>5. ASSUME NEW l \in LeaseIds, RevokeLease(l)
      PROVE  ~LeaseLive(d)'
  BY <1>5, RestrictionRevivesNothing DEF RevokeLease
<1>6. ASSUME NEW l \in LeaseIds, IsLeaseValid(l)
      PROVE  ~LeaseLive(d)'
  BY <1>6, RestrictionRevivesNothing DEF IsLeaseValid, Sweep
<1>7. ASSUME NEW k \in EtcdKeys, NEW v \in EtcdValues, NEW l \in LeaseIds,
             PutWithLease(k, v, l)
      PROVE  ~LeaseLive(d)'
  BY <1>7, RestrictionRevivesNothing DEF PutWithLease, Sweep
<1>8. ASSUME NEW k \in EtcdKeys, NEW e \in EtcdValues \cup {None},
             NEW v \in EtcdValues, NEW l \in LeaseIds \cup {None},
             CompareAndSwap(k, e, v, l)
      PROVE  ~LeaseLive(d)'
  BY <1>8, RestrictionRevivesNothing DEF CompareAndSwap, Sweep
<1>9. CASE UNCHANGED etcdVars
  BY <1>9 DEF etcdVars, LeaseLive
<1> QED
  BY <1>1, <1>2, <1>3, <1>4, <1>5, <1>6, <1>7, <1>8, <1>9 DEF EtcdNext

\* Once is_lease_valid would answer False for an id it answers False for ever:
\* expiries are never moved, ids never reused, and the clock does not go back.
THEOREM DeadLeaseStaysDead == EtcdSpec => LeaseNeverRevived
<1> DEFINE NoRevival == \A l \in LeaseIds : ~LeaseLive(l) => ~LeaseLive(l)'
<1>1. EtcdTypeOK /\ [EtcdNext]_etcdVars => [NoRevival]_etcdVars
  BY NoRevivalStep
<1> QED
  BY <1>1, EtcdTyping, PTL DEF EtcdSpec, LeaseNeverRevived
=============================================================================
