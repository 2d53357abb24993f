-------------------------- MODULE MCLeadRequests ----------------------------
(* LeadRequests for TLC: one user of each scoped role, and an analyst who  *)
(* is in nobody's team yet.                                                *)
EXTENDS LeadRequests

MCCast ==
    << Row("atl", None, 1), Row("analyst", None, 1), Row("mtl", 1, None), Row("exec", 1, None),
       Row("analyst", None, None) >>

Symmetry == Permutations(Requests)

=============================================================================
