----------------------------- MODULE MCSession ------------------------------
(* Session for TLC: requests and streams are interchangeable slots.        *)
EXTENDS Session, TLC

Symmetry == Permutations(Requests) \cup Permutations(Streams)

=============================================================================
