-------------------------- MODULE MCResponseCache ---------------------------
(* ResponseCache for TLC: readers, writers and keys are interchangeable.   *)
EXTENDS ResponseCache, TLC

Symmetry == Permutations(Readers) \cup Permutations(Writers)

=============================================================================
