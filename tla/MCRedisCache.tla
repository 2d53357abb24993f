---------------------------- MODULE MCRedisCache ----------------------------
(* RedisCache for TLC: readers, writers and instances are interchangeable. *)
EXTENDS RedisCache, TLC

Symmetry ==
    Permutations(Instances) \cup Permutations(Readers) \cup Permutations(Writers)

=============================================================================
