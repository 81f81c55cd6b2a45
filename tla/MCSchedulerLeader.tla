------------------------- MODULE MCSchedulerLeader -------------------------
(* Three scheduler objects, two of them with the default scheduler_id.      *)
EXTENDS SchedulerLeader

CONSTANTS s1, s2, s3, default, other

MCInstances == {s1, s2, s3}
MCSchedulerId == [s \in MCInstances |-> IF s = s3 THEN other ELSE default]
=============================================================================
