------------------------------ MODULE CacheMap ------------------------------
(***************************************************************************)
(* The map inside ResponseCache: what Get, Set and Clear do under its lock.*)
(* A payload is the version of the database it was computed from; late is  *)
(* history, carried with it: a Clear ran while it was being computed.      *)
(***************************************************************************)
EXTENDS Integers, FiniteSets

CONSTANTS
    Keys,         \* path + query + user id
    MaxEntries    \* responseCacheMaxEntries

ASSUME CacheAssumption ==
    MaxEntries \in Nat \ {0} /\ IsFiniteSet(Keys) /\ Keys # {}

\* An expired entry stays in the map, and in len(c.entries), until the next
\* reset or a Set of its key.
EntryStates == {"absent", "valid", "expired"}

Absent == [state |-> "absent", version |-> 0, late |-> FALSE]

NewResponseCache == [k \in Keys |-> Absent]

Stored(entries) == {k \in Keys : entries[k].state # "absent"}

\* Get: a hit is an entry whose time has not come.
Get(entries, k) == entries[k].state = "valid"

\* Mutant of Set: the map is reset one entry too late.
SetOverflows(entries, k, version, late) ==
    LET room == IF Cardinality(Stored(entries)) > MaxEntries
                THEN NewResponseCache ELSE entries
    IN  [room EXCEPT ![k] = [state |-> "valid", version |-> version, late |-> late]]

\* Set: a full map is emptied first, even for a key it holds.
Set(entries, k, version, late) ==
    LET room == IF Cardinality(Stored(entries)) >= MaxEntries
                THEN NewResponseCache ELSE entries
    IN  [room EXCEPT ![k] = [state |-> "valid", version |-> version, late |-> late]]

\* time.Now() passes the entry's expires.
Expire(entries, k) == [entries EXCEPT ![k].state = "expired"]

=============================================================================
