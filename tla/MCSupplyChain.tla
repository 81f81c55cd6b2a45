--------------------------- MODULE MCSupplyChain ---------------------------
(* One model, approved twice, by signers that share a key id: the second     *)
(* approval has a vulnerability that only the lax policy tolerates.  One     *)
(* task asks for the second digest, one for none, one for a tag.             *)
EXTENDS SupplyChain

CONSTANTS m, d1, d2, kid, s1, s2, ci, t1, t2, t3, j1, j2

MCApprovals ==
    {[model |-> m, digest |-> d1, builder |-> ci, critical |-> 0, high |-> 0,
      key_id |-> kid, signer |-> s1],
     [model |-> m, digest |-> d2, builder |-> ci, critical |-> 0, high |-> 1,
      key_id |-> kid, signer |-> s2]}
LaxPolicy ==
    [require_immutable_digest |-> FALSE, require_signature |-> FALSE,
     allowed_builders |-> {}, max_allowed_critical_vulns |-> 0,
     max_allowed_high_vulns |-> 1]
MCPolicies == {LaxPolicy, DefaultPolicy}
MCTaskModel == [t \in Tasks |-> m]
MCTaskDigest == [t \in Tasks |-> IF t = t1 THEN d2 ELSE IF t = t2 THEN None ELSE Tag]
=============================================================================
