--------------------------- MODULE ResponseCache ----------------------------
(***************************************************************************)
(* The in-memory response cache between readers that compute a payload     *)
(* from the database and handlers that change the database and then call   *)
(* Clear.  The lock covers one Get, Set or Clear; the database read of a   *)
(* miss, and the commit before a Clear, are outside it.                    *)
(***************************************************************************)
EXTENDS CachedDatabase

VARIABLES
    entries,
    reader,
    writer,       \* writer[w]: the mutation of w, and how far its handler is
    silent,       \* history: mutations whose handlers never call Clear
    announced     \* history: mutations cleared, then broadcast and answered

vars == <<version, entries, reader, writer, silent, announced>>

IdleReader ==
    [pc |-> "idle", key |-> CHOOSE k \in Keys : TRUE, version |-> 0,
     late |-> FALSE, floor |-> {}]
IdleWriter == [pc |-> "idle", version |-> 0]

Init ==
    /\ version = 0
    /\ entries = NewResponseCache
    /\ reader = [r \in Readers |-> IdleReader]
    /\ writer = [w \in Writers |-> IdleWriter]
    /\ silent = {}
    /\ announced = {}

-----------------------------------------------------------------------------
(* A cached endpoint: serveFromCache, the queries, writeCachedJSON         *)

\* serveFromCache.  floor: the mutations announced when the request came in.
ServeFromCache(r, k) ==
    /\ reader[r].pc = "idle"
    /\ reader' = [reader EXCEPT ![r] =
          IF Get(entries, k)
          THEN [pc |-> "reply", key |-> k, version |-> entries[k].version,
                late |-> entries[k].late, floor |-> announced]
          ELSE [pc |-> "query", key |-> k, version |-> 0,
                late |-> FALSE, floor |-> announced]]
    /\ UNCHANGED <<version, entries, writer, silent, announced>>

\* The endpoint's queries; of several, the first decides how old it can be.
Query(r) ==
    /\ reader[r].pc = "query"
    /\ reader' = [reader EXCEPT ![r].pc = "computed", ![r].version = version]
    /\ UNCHANGED <<version, entries, writer, silent, announced>>

\* They fail or time out: an error answer, which is not cached.
QueryError(r) ==
    /\ reader[r].pc = "query"
    /\ reader' = [reader EXCEPT ![r] = IdleReader]
    /\ UNCHANGED <<version, entries, writer, silent, announced>>

\* writeCachedJSON: Set, then the answer.
WriteCachedJSON(r) ==
    /\ reader[r].pc = "computed"
    /\ entries' = Set(entries, reader[r].key, reader[r].version, reader[r].late)
    /\ reader' = [reader EXCEPT ![r].pc = "reply"]
    /\ UNCHANGED <<version, writer, silent, announced>>

Reply(r) ==
    /\ reader[r].pc = "reply"
    /\ reader' = [reader EXCEPT ![r] = IdleReader]
    /\ UNCHANGED <<version, entries, writer, silent, announced>>

EntryExpires(k) ==
    /\ Get(entries, k)
    /\ entries' = Expire(entries, k)
    /\ UNCHANGED <<version, reader, writer, silent, announced>>

-----------------------------------------------------------------------------
(* Mutations                                                               *)

\* A handler's transaction commits.
Commit(w) ==
    /\ writer[w].pc = "idle"
    /\ version < MaxVersion
    /\ version' = version + 1
    /\ writer' = [writer EXCEPT ![w] = [pc |-> "committed", version |-> version + 1]]
    /\ UNCHANGED <<entries, reader, silent, announced>>

\* Mutant of Clear: the handler broadcasts without clearing.
ClearNothing(w) ==
    /\ writer[w].pc = "committed"
    /\ writer' = [writer EXCEPT ![w].pc = "cleared"]
    /\ UNCHANGED <<version, entries, reader, silent, announced>>

\* emitLead and emitUser clear before they broadcast.  A reader that has
\* already computed its payload is overtaken.
Clear(w) ==
    /\ writer[w].pc = "committed"
    /\ entries' = NewResponseCache
    /\ reader' = [r \in Readers |->
          [reader[r] EXCEPT !.late = @ \/ reader[r].pc = "computed"]]
    /\ writer' = [writer EXCEPT ![w].pc = "cleared"]
    /\ UNCHANGED <<version, silent, announced>>

\* The broadcast, and the answer to the client.
Announce(w) ==
    /\ writer[w].pc = "cleared"
    /\ announced' = announced \cup {writer[w].version}
    /\ writer' = [writer EXCEPT ![w] = IdleWriter]
    /\ UNCHANGED <<version, entries, reader, silent>>

\* A transfer endpoint, or an update whose second step fails: the handler
\* commits and returns without Clear.
CommitSilently ==
    /\ version < MaxVersion
    /\ version' = version + 1
    /\ silent' = silent \cup {version + 1}
    /\ UNCHANGED <<entries, reader, writer, announced>>

-----------------------------------------------------------------------------
Next ==
    \/ \E r \in Readers :
          \/ \E k \in Keys : ServeFromCache(r, k)
          \/ Query(r) \/ QueryError(r) \/ WriteCachedJSON(r) \/ Reply(r)
    \/ \E w \in Writers : Commit(w) \/ Clear(w) \/ Announce(w)
    \/ \E k \in Keys : EntryExpires(k)
    \/ CommitSilently

Spec == Init /\ [][Next]_vars

-----------------------------------------------------------------------------
(* Properties                                                              *)

\* Every variable keeps its shape.
TypeOK ==
    /\ version \in Versions
    /\ entries \in [Keys -> [state : EntryStates, version : Versions, late : BOOLEAN]]
    /\ reader \in [Readers -> [pc : {"idle", "query", "computed", "reply"}, key : Keys,
                               version : Versions, late : BOOLEAN,
                               floor : SUBSET Versions]]
    /\ writer \in [Writers -> [pc : {"idle", "committed", "cleared"}, version : Versions]]
    /\ silent \subseteq Versions /\ announced \subseteq Versions

\* Mutation x is committed and its handler has still to call Clear.
PendingClear(x) ==
    \E w \in Writers : writer[w].pc = "committed" /\ writer[w].version = x

\* A payload in the cache that was not overtaken by a Clear misses only
\* mutations whose handlers are still on their way to Clear, or never will
\* (ResponseCache.Set and Clear with emitLead and emitUser).
CachedPayloadsAreCurrent ==
    \A k \in Keys : entries[k].state # "absent" /\ ~entries[k].late =>
        \A x \in Versions :
            Misses(entries[k].version, x) => PendingClear(x) \/ x \in silent

\* A request sent after a mutation was broadcast or answered is answered
\* with a payload that includes it, unless the payload was overtaken: the
\* refetch an event triggers sees the change (serveFromCache after emitLead).
AnswersSeeAnnouncedWrites ==
    \A r \in Readers : reader[r].pc = "reply" /\ ~reader[r].late =>
        \A x \in reader[r].floor : x <= reader[r].version

\* The map never grows past its limit, expired entries included.
MapIsBounded == Cardinality(Stored(entries)) <= MaxEntries

=============================================================================
