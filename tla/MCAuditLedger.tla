--------------------------- MODULE MCAuditLedger ---------------------------
(* One file through several processes; every number of crashes and failed    *)
(* writes among MaxEvents events.                                            *)
EXTENDS AuditLedger
=============================================================================
