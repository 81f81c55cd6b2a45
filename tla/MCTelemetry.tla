---------------------------- MODULE MCTelemetry ----------------------------
(* Two nodes, one of them with a clock ahead, and two threads: as many as    *)
(* nodes, so that the thread of a stream left behind is missed.              *)
EXTENDS Telemetry

CONSTANTS n1, n2, t1, t2

MCClockOffset == [n \in Nodes |-> IF n = n1 THEN 0 ELSE 1]
=============================================================================
