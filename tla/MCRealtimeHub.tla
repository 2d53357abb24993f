--------------------------- MODULE MCRealtimeHub ----------------------------
(* RealtimeHub for TLC: users and streams are interchangeable.             *)
EXTENDS RealtimeHub, TLC

Symmetry == Permutations(Users) \cup Permutations(Streams)

=============================================================================
