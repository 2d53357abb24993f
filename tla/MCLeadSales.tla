---------------------------- MODULE MCLeadSales -----------------------------
(* LeadSales for TLC: requests, executives and teams are interchangeable.  *)
EXTENDS LeadSales, TLC

Symmetry == Permutations(Requests) \cup Permutations(Execs) \cup Permutations(Teams)

=============================================================================
