---------------------------- MODULE MCEtcdState ----------------------------
(* One store, arbitrary clients: every method with every argument.          *)
EXTENDS EtcdState

CONSTANT MaxLeases   \* bound: leases granted over the life of the store

MCTTLs == {0, 2}

BoundedNext == EtcdNext /\ lease_id_counter' <= MaxLeases + 1

MCSpec == EtcdInit /\ [][BoundedNext]_etcdVars
=============================================================================
