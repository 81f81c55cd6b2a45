----------------------------- MODULE EtcdState -----------------------------
(***************************************************************************)
(* The authoritative state store, common/state.py SimulatedEtcdProvider:   *)
(* a key-value map, leases with an expiry time and a lease id counter, all *)
(* behind one re-entrant lock, so that each method is one atomic step.     *)
(*                                                                         *)
(* Keys are not attached to leases: a key written under a lease stays when *)
(* the lease dies.  A lease dies when it is revoked or when the clock has  *)
(* passed its expiry; the entry of an expired lease is removed lazily, by  *)
(* the next method that looks at it.  clear() is the test suites' reset    *)
(* and is left out.                                                        *)
(*                                                                         *)
(* Methods are operators on the state so that other modules can make them  *)
(* part of their own steps; a method's result is an operator of the state  *)
(* before the step (LeaseLive, CasSucceeds).                               *)
(***************************************************************************)
EXTENDS Integers

CONSTANTS
    EtcdKeys,     \* keys the clients use
    EtcdValues,   \* values the clients write
    None,         \* Python's None: no such key, no expectation, no lease
    TTLs,         \* lease lifetimes asked for, in clock ticks
    MaxTime       \* bound: the clock stops here

ASSUME TTLAssumption == TTLs \subseteq Nat

VARIABLES
    now,               \* time.time(), which never runs backwards
    kv,                \* self.kv, None for a missing key
    leases,            \* self.leases: lease id -> expiry
    lease_id_counter   \* self.lease_id_counter

etcdVars == <<now, kv, leases, lease_id_counter>>

LeaseIds == 1..(lease_id_counter - 1)

----------------------------------------------------------------------------
(* Methods.                                                                *)

LeaseLive(l) == l \in DOMAIN leases /\ now <= leases[l]

\* Drop lease l if it has expired.
Sweep(l) ==
    leases' = [m \in {m \in DOMAIN leases : m = l => LeaseLive(m)} |-> leases[m]]

Put(k, v) ==
    /\ kv' = [kv EXCEPT ![k] = v]
    /\ UNCHANGED <<now, leases, lease_id_counter>>

Delete(k) ==
    /\ kv' = [kv EXCEPT ![k] = None]
    /\ UNCHANGED <<now, leases, lease_id_counter>>

\* Fault: the counter is not advanced.
GrantLease_SameId(ttl) ==
    /\ leases' = [l \in DOMAIN leases \cup {lease_id_counter} |->
                    IF l = lease_id_counter THEN now + ttl ELSE leases[l]]
    /\ UNCHANGED <<now, kv, lease_id_counter>>

GrantLease(ttl) ==
    /\ leases' = [l \in DOMAIN leases \cup {lease_id_counter} |->
                    IF l = lease_id_counter THEN now + ttl ELSE leases[l]]
    /\ lease_id_counter' = lease_id_counter + 1
    /\ UNCHANGED <<now, kv>>

RevokeLease(l) ==
    /\ leases' = [m \in DOMAIN leases \ {l} |-> leases[m]]
    /\ UNCHANGED <<now, kv, lease_id_counter>>

\* Fault: the check keeps a lease alive without asking whether it expired.
IsLeaseValid_Renews(l) ==
    /\ leases' = [m \in DOMAIN leases |-> IF m = l THEN now + 1 ELSE leases[m]]
    /\ UNCHANGED <<now, kv, lease_id_counter>>

IsLeaseValid(l) ==
    /\ Sweep(l)
    /\ UNCHANGED <<now, kv, lease_id_counter>>

PutWithLease(k, v, l) ==
    /\ Sweep(l)
    /\ kv' = IF LeaseLive(l) THEN [kv EXCEPT ![k] = v] ELSE kv
    /\ UNCHANGED <<now, lease_id_counter>>

CasSucceeds(k, expected, l) == (l # None => LeaseLive(l)) /\ kv[k] = expected

CompareAndSwap(k, expected, new, l) ==
    /\ Sweep(l)
    /\ kv' = IF CasSucceeds(k, expected, l) THEN [kv EXCEPT ![k] = new] ELSE kv
    /\ UNCHANGED <<now, lease_id_counter>>

----------------------------------------------------------------------------
EtcdInit ==
    /\ now = 0
    /\ kv = [k \in EtcdKeys |-> None]
    /\ leases = [l \in {} |-> 0]
    /\ lease_id_counter = 1

Tick ==
    /\ now < MaxTime
    /\ now' = now + 1
    /\ UNCHANGED <<kv, leases, lease_id_counter>>

EtcdNext ==
    \/ Tick
    \/ \E k \in EtcdKeys, v \in EtcdValues : Put(k, v)
    \/ \E k \in EtcdKeys : Delete(k)
    \/ \E ttl \in TTLs : GrantLease(ttl)
    \/ \E l \in LeaseIds : RevokeLease(l)
    \/ \E l \in LeaseIds : IsLeaseValid(l)
    \/ \E k \in EtcdKeys, v \in EtcdValues, l \in LeaseIds : PutWithLease(k, v, l)
    \/ \E k \in EtcdKeys, e \in EtcdValues \cup {None}, v \in EtcdValues,
          l \in LeaseIds \cup {None} : CompareAndSwap(k, e, v, l)

EtcdSpec == EtcdInit /\ [][EtcdNext]_etcdVars

----------------------------------------------------------------------------
(* Properties.                                                             *)

\* Every expiry belongs to an id the counter has handed out.
EtcdTypeOK ==
    /\ now \in Nat
    /\ kv \in [EtcdKeys -> EtcdValues \cup {None}]
    /\ lease_id_counter \in Nat \ {0}
    /\ DOMAIN leases \subseteq LeaseIds
    /\ leases \in [DOMAIN leases -> Nat]

\* Once a lease is dead - revoked, expired, or expired and swept - no sequence
\* of calls and no passing of time makes is_lease_valid return True for its id
\* again.  Every fence in the system (the scheduler's halt, the node's refusal
\* of a stale leader) relies on it.
LeaseNeverRevived ==
    [][\A l \in LeaseIds : ~LeaseLive(l) => ~LeaseLive(l)']_etcdVars
=============================================================================
