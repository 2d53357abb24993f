------------------------ MODULE MCLeadQualification -------------------------
(* LeadQualification for TLC: requests are interchangeable.                *)
EXTENDS LeadQualification, TLC

Symmetry == Permutations(Requests) \cup Permutations(Reasons)

=============================================================================
