-------------------------- MODULE MCTaskDispatch --------------------------
(* Two schedulers that share the default id, so that the second one's key    *)
(* replaces the first one's; two nodes; two calls with one idempotency key:  *)
(* a client that submits the same task again while the first is under way.   *)
EXTENDS TaskDispatch

CONSTANTS s1, s2, n1, n2, c1, c2, default, k

MCSchedulerId == [s \in Instances |-> default]
MCKey == [c \in Calls |-> k]
MCStatic == [s \in Instances |-> {n1}]
Chosen(n, fallback) == [chosen_node |-> n, fallback_chain |-> fallback]
OneNode == {Chosen(n1, <<>>)}
TwoNodes == {Chosen(n1, <<n1, n2>>), Chosen(n2, <<n1>>)}
=============================================================================
