--------------------------- MODULE CachedDatabase ---------------------------
(***************************************************************************)
(* What the two response caches stand in front of.  The database is the    *)
(* number of mutations that have been committed, a payload the number of   *)
(* them it was computed from.                                              *)
(***************************************************************************)
EXTENDS CacheMap

CONSTANTS
    Readers,      \* GET requests that can be in flight together
    Writers,      \* mutating requests that can be in flight together
    MaxVersion    \* bound: commits in a behaviour

ASSUME VersionAssumption == MaxVersion \in Nat

VARIABLE version  \* how many mutations have been committed

Versions == 0 .. MaxVersion

\* Mutation x is made, and a payload computed at version v misses it.
Misses(v, x) == v < x /\ x <= version

=============================================================================
