---------------------------- MODULE MCUserAdmin -----------------------------
(* UserAdmin for TLC: people and requests are interchangeable.             *)
EXTENDS UserAdmin, TLC

Symmetry == Permutations(People) \cup Permutations(Requests)

=============================================================================
