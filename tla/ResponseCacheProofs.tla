------------------------ MODULE ResponseCacheProofs -------------------------
(***************************************************************************)
(* Proofs about the two response caches for every number of keys, readers, *)
(* writers and commits: first ResponseCache, then RedisCache, for every    *)
(* number of instances and of failing commands.  The two share the         *)
(* database and nothing else.                                              *)
(***************************************************************************)
EXTENDS ResponseCache, RedisCache, FiniteSetTheorems, TLAPS

USE CacheAssumption, VersionAssumption

\* Mutation x has a handler that has yet to clear, or never will.
Excused(x) == PendingClear(x) \/ x \in silent

\* A payload on its way into the cache is as current as one in it.
ComputedPayloadsAreCurrent ==
    \A r \in Readers : reader[r].pc = "computed" /\ ~reader[r].late =>
        \A x \in Versions : Misses(reader[r].version, x) => Excused(x)

\* A payload computed by the request that answers it sees the announced
\* mutations, and floor holds announced mutations only.
ComputedSeesAnnounced ==
    \A r \in Readers :
        /\ reader[r].floor \subseteq announced
        /\ reader[r].pc = "computed" =>
              \A x \in reader[r].floor : x <= reader[r].version

\* Whose mutation is whose: a handler in progress has a mutation of its
\* own, and none that was announced or is silent.
WritersAreApart ==
    /\ \A w \in Writers : writer[w].pc # "idle" =>
          /\ writer[w].version \in 1 .. version
          /\ writer[w].version \notin announced \cup silent
          /\ \A v \in Writers : v # w /\ writer[v].pc # "idle"
                                    => writer[v].version # writer[w].version
    /\ announced \subseteq 1 .. version
    /\ silent \subseteq 1 .. version
    /\ announced \cap silent = {}

\* The inductive invariant.
CacheInv ==
    /\ TypeOK
    /\ CachedPayloadsAreCurrent
    /\ ComputedPayloadsAreCurrent
    /\ ComputedSeesAnnounced
    /\ AnswersSeeAnnouncedWrites
    /\ WritersAreApart

Entry == [state : EntryStates, version : Versions, late : BOOLEAN]
ReaderRow == [pc : {"idle", "query", "computed", "reply"}, key : Keys,
              version : Versions, late : BOOLEAN, floor : SUBSET Versions]
WriterRow == [pc : {"idle", "committed", "cleared"}, version : Versions]

\* Set changes the key it is given, and may empty the others.
LEMMA SetResult ==
    ASSUME NEW es \in [Keys -> Entry], NEW k \in Keys, NEW v \in Versions,
           NEW late \in BOOLEAN
    PROVE  /\ Set(es, k, v, late) \in [Keys -> Entry]
           /\ Set(es, k, v, late)[k] = [state |-> "valid", version |-> v, late |-> late]
           /\ \A j \in Keys \ {k} : \/ Set(es, k, v, late)[j] = es[j]
                                    \/ Set(es, k, v, late)[j].state = "absent"
<1> DEFINE room == IF Cardinality(Stored(es)) >= MaxEntries
                   THEN NewResponseCache ELSE es
           e == [state |-> "valid", version |-> v, late |-> late]
<1>1. e \in Entry /\ Absent \in Entry
  BY DEF Entry, EntryStates, Absent, Versions
<1>2. room \in [Keys -> Entry]
  BY <1>1 DEF NewResponseCache
<1>3. \A j \in Keys : room[j] = es[j] \/ room[j].state = "absent"
  BY DEF NewResponseCache, Absent
<1>4. Set(es, k, v, late) = [room EXCEPT ![k] = e]
  BY DEF Set
<1> HIDE DEF room, e
<1>5. QED
  BY <1>1, <1>2, <1>3, <1>4 DEF e

\* The server starts with an empty cache and nobody at work.
LEMMA InitInv == Init => CacheInv
<1> SUFFICES ASSUME Init PROVE CacheInv
  OBVIOUS
<1>1. (CHOOSE k \in Keys : TRUE) \in Keys
  BY DEF CacheAssumption
<1>2. TypeOK
  <2>1. IdleReader \in ReaderRow
    BY <1>1 DEF IdleReader, Versions, ReaderRow
  <2>2. Absent \in Entry
    BY DEF Absent, Entry, EntryStates, Versions
  <2>3. QED
    BY <2>1, <2>2 DEF Init, TypeOK, Entry, ReaderRow, NewResponseCache, IdleWriter, Versions
<1>3. CachedPayloadsAreCurrent
  BY DEF Init, CachedPayloadsAreCurrent, NewResponseCache, Absent
<1>4. ComputedPayloadsAreCurrent /\ ComputedSeesAnnounced /\ AnswersSeeAnnouncedWrites
  BY DEF Init, ComputedPayloadsAreCurrent, ComputedSeesAnnounced,
         AnswersSeeAnnouncedWrites, IdleReader
<1>5. WritersAreApart
  BY DEF Init, WritersAreApart, IdleWriter
<1>6. QED
  BY <1>2, <1>3, <1>4, <1>5 DEF CacheInv

\* An announced mutation is excused to nobody.
LEMMA AnnouncedNotExcused ==
    ASSUME WritersAreApart, NEW x \in announced
    PROVE  ~Excused(x)
BY DEF WritersAreApart, Excused, PendingClear

\* A cached endpoint's steps keep the invariant.
LEMMA ReaderStep ==
    ASSUME CacheInv, NEW r \in Readers,
           \/ \E k \in Keys : ServeFromCache(r, k)
           \/ Query(r) \/ QueryError(r) \/ WriteCachedJSON(r) \/ Reply(r)
    PROVE  CacheInv'
<1> USE DEF CacheInv
<1>0. UNCHANGED <<version, writer, silent, announced>>
      /\ \A q \in Readers \ {r} : reader'[q] = reader[q]
  BY DEF ServeFromCache, Query, QueryError, WriteCachedJSON, Reply, TypeOK
<1>1. WritersAreApart'
  BY <1>0 DEF WritersAreApart
<1>2. \A x : Excused(x)' = Excused(x)
  BY <1>0 DEF Excused, PendingClear
<1>3. \A v, x : Misses(v, x)' = Misses(v, x)
  BY <1>0 DEF Misses
<1>4. version \in Nat /\ announced \subseteq Versions /\ entries \in [Keys -> Entry]
      /\ \A x \in announced : x \in Nat /\ x <= version
  BY DEF TypeOK, Versions, WritersAreApart, Entry
<1>5. IdleReader \in ReaderRow
  BY DEF IdleReader, Versions, CacheAssumption, ReaderRow
<1>6. ASSUME NEW k \in Keys, ServeFromCache(r, k) PROVE CacheInv'
  <2>1. UNCHANGED entries
    BY <1>6 DEF ServeFromCache
  <2>2. TypeOK'
    BY <1>0, <1>4, <1>6, <2>1 DEF ServeFromCache, TypeOK, Entry, Versions
  <2>3. CachedPayloadsAreCurrent'
    BY <1>2, <1>3, <2>1 DEF CachedPayloadsAreCurrent, Excused
  <2>4. CASE Get(entries, k)
    <3>1. reader'[r] = [pc |-> "reply", key |-> k, version |-> entries[k].version,
                        late |-> entries[k].late, floor |-> announced]
      BY <1>6, <2>4 DEF ServeFromCache, TypeOK
    <3>2. ~entries[k].late => \A x \in announced : x <= entries[k].version
      <4> SUFFICES ASSUME ~entries[k].late, NEW x \in announced
                   PROVE  x <= entries[k].version
        OBVIOUS
      <4>1. ~Excused(x) /\ x \in Versions /\ x <= version /\ x \in Nat
        BY <1>4, AnnouncedNotExcused
      <4>2. ~Misses(entries[k].version, x)
        BY <2>4, <4>1 DEF CachedPayloadsAreCurrent, Excused, Get
      <4>3. entries[k].version \in Nat
        BY <1>4 DEF Entry, Versions
      <4>4. QED
        BY <4>1, <4>2, <4>3 DEF Misses
    <3>3. ComputedPayloadsAreCurrent'
      BY <1>0, <1>2, <1>3, <3>1 DEF ComputedPayloadsAreCurrent
    <3>4. ComputedSeesAnnounced' /\ AnswersSeeAnnouncedWrites'
      BY <1>0, <3>1, <3>2 DEF ComputedSeesAnnounced, AnswersSeeAnnouncedWrites
    <3>5. QED
      BY <1>1, <2>2, <2>3, <3>3, <3>4
  <2>5. CASE ~Get(entries, k)
    <3>1. reader'[r] = [pc |-> "query", key |-> k, version |-> 0,
                        late |-> FALSE, floor |-> announced]
      BY <1>6, <2>5 DEF ServeFromCache, TypeOK
    <3>2. ComputedPayloadsAreCurrent'
      BY <1>0, <1>2, <1>3, <3>1 DEF ComputedPayloadsAreCurrent
    <3>3. ComputedSeesAnnounced' /\ AnswersSeeAnnouncedWrites'
      BY <1>0, <3>1 DEF ComputedSeesAnnounced, AnswersSeeAnnouncedWrites
    <3>4. QED
      BY <1>1, <2>2, <2>3, <3>2, <3>3
  <2>6. QED
    BY <2>4, <2>5
<1>7. CASE Query(r)
  <2>1. UNCHANGED entries /\ reader'[r].pc = "computed"
        /\ reader'[r].version = version /\ reader'[r].floor = reader[r].floor
    BY <1>7 DEF Query, TypeOK
  <2>2. TypeOK'
    <3>1. reader[r] \in ReaderRow /\ version \in Versions
      BY DEF TypeOK, ReaderRow
    <3>2. [reader[r] EXCEPT !.pc = "computed", !.version = version] \in ReaderRow
      BY <3>1 DEF ReaderRow
    <3>3. reader' \in [Readers -> ReaderRow]
      BY <1>7, <3>2 DEF Query, TypeOK, ReaderRow
    <3>4. QED
      BY <1>0, <2>1, <3>3 DEF TypeOK, ReaderRow
  <2>3. CachedPayloadsAreCurrent'
    BY <1>2, <1>3, <2>1 DEF CachedPayloadsAreCurrent, Excused
  <2>4. ComputedPayloadsAreCurrent'
    BY <1>0, <1>2, <1>3, <1>4, <2>1 DEF ComputedPayloadsAreCurrent, Misses, Versions
  <2>5. ComputedSeesAnnounced' /\ AnswersSeeAnnouncedWrites'
    BY <1>0, <1>4, <2>1 DEF ComputedSeesAnnounced, AnswersSeeAnnouncedWrites
  <2>6. QED
    BY <1>1, <2>2, <2>3, <2>4, <2>5
<1>8. CASE QueryError(r) \/ Reply(r)
  <2>1. UNCHANGED entries /\ reader' = [reader EXCEPT ![r] = IdleReader]
    BY <1>8 DEF QueryError, Reply
  <2>2. reader'[r].pc = "idle" /\ reader'[r].floor = {}
    BY <2>1 DEF IdleReader, TypeOK
  <2>3. TypeOK'
    BY <1>0, <1>5, <2>1 DEF TypeOK, ReaderRow
  <2>4. CachedPayloadsAreCurrent'
    BY <1>2, <1>3, <2>1 DEF CachedPayloadsAreCurrent, Excused
  <2>5. ComputedPayloadsAreCurrent'
    BY <1>0, <1>2, <1>3, <2>2 DEF ComputedPayloadsAreCurrent
  <2>6. ComputedSeesAnnounced' /\ AnswersSeeAnnouncedWrites'
    BY <1>0, <2>2 DEF ComputedSeesAnnounced, AnswersSeeAnnouncedWrites
  <2>7. QED
    BY <1>1, <2>3, <2>4, <2>5, <2>6
<1>9. CASE WriteCachedJSON(r)
  <2> DEFINE k == reader[r].key
             v == reader[r].version
             late == reader[r].late
  <2>1. k \in Keys /\ v \in Versions /\ late \in BOOLEAN /\ reader[r].pc = "computed"
        /\ entries' = Set(entries, k, v, late)
    BY <1>9 DEF WriteCachedJSON, TypeOK
  <2>2. /\ entries' \in [Keys -> Entry]
        /\ entries'[k] = [state |-> "valid", version |-> v, late |-> late]
        /\ \A j \in Keys \ {k} : entries'[j] = entries[j] \/ entries'[j].state = "absent"
    BY <1>4, <2>1, SetResult
  <2>3. reader'[r].pc = "reply" /\ reader'[r].version = v /\ reader'[r].late = late
        /\ reader'[r].floor = reader[r].floor
    BY <1>9 DEF WriteCachedJSON, TypeOK
  <2>4. TypeOK'
    <3>1. [reader[r] EXCEPT !.pc = "reply"] \in ReaderRow
      BY DEF TypeOK, ReaderRow
    <3>2. reader' \in [Readers -> ReaderRow]
      BY <1>9, <3>1 DEF WriteCachedJSON, TypeOK, ReaderRow
    <3>3. QED
      BY <1>0, <2>2, <3>2 DEF TypeOK, Entry, ReaderRow
  <2>5. CachedPayloadsAreCurrent'
    <3>1. ASSUME NEW j \in Keys, entries'[j].state # "absent", ~entries'[j].late,
                 NEW x \in Versions, Misses(entries'[j].version, x)
          PROVE  Excused(x)
      <4>1. CASE j = k
        BY <2>1, <2>2, <3>1, <4>1 DEF ComputedPayloadsAreCurrent
      <4>2. CASE j # k
        BY <2>2, <3>1, <4>2 DEF CachedPayloadsAreCurrent, Excused
      <4>3. QED
        BY <4>1, <4>2
    <3>2. QED
      BY <1>2, <1>3, <3>1 DEF CachedPayloadsAreCurrent, Excused
  <2>6. ComputedPayloadsAreCurrent'
    BY <1>0, <1>2, <1>3, <2>3 DEF ComputedPayloadsAreCurrent
  <2>7. ComputedSeesAnnounced' /\ AnswersSeeAnnouncedWrites'
    BY <1>0, <2>1, <2>3 DEF ComputedSeesAnnounced, AnswersSeeAnnouncedWrites
  <2>8. QED
    BY <1>1, <2>4, <2>5, <2>6, <2>7
<1>10. QED
  BY <1>6, <1>7, <1>8, <1>9

\* The steps of mutating handlers keep the invariant.
LEMMA WriterStep ==
    ASSUME CacheInv, NEW w \in Writers, Commit(w) \/ Clear(w) \/ Announce(w)
    PROVE  CacheInv'
<1> USE DEF CacheInv
<1>0. version \in Nat /\ MaxVersion \in Nat
  BY DEF TypeOK, Versions, VersionAssumption
<1>1. CASE Commit(w)
  <2>1. /\ UNCHANGED <<entries, reader, silent, announced>>
        /\ version' = version + 1 /\ version < MaxVersion
        /\ writer[w].pc = "idle"
        /\ writer'[w] = [pc |-> "committed", version |-> version + 1]
        /\ \A v \in Writers \ {w} : writer'[v] = writer[v]
    BY <1>1 DEF Commit, TypeOK
  <2>2. TypeOK'
    BY <1>0, <1>1, <2>1 DEF Commit, TypeOK, Versions
  <2>3. WritersAreApart'
    <3>1. 1 .. version \subseteq 1 .. version' /\ version + 1 \in 1 .. version'
          /\ version + 1 \notin 1 .. version
      BY <1>0, <2>1
    <3>2. QED
      BY <2>1, <3>1 DEF WritersAreApart
  <2>4. \A x : Excused(x) \/ x = version + 1 => Excused(x)'
    <3>1. ASSUME NEW x, PendingClear(x) PROVE PendingClear(x)'
      BY <2>1, <3>1 DEF PendingClear
    <3>2. ASSUME NEW x, x = version + 1 PROVE PendingClear(x)'
      BY <2>1, <3>2 DEF PendingClear
    <3>3. QED
      BY <2>1, <3>1, <3>2 DEF Excused
  <2>6. \A v \in Versions, x \in Versions : Misses(v, x)' => Misses(v, x) \/ x = version + 1
    BY <1>0, <2>1 DEF Misses, Versions
  <2>7. CachedPayloadsAreCurrent'
    <3>1. \A k \in Keys : entries[k].version \in Versions
      BY DEF TypeOK
    <3>2. QED
      BY <2>1, <2>4, <2>6, <3>1 DEF CachedPayloadsAreCurrent, Excused
  <2>8. ComputedPayloadsAreCurrent'
    <3>1. \A r \in Readers : reader[r].version \in Versions
      BY DEF TypeOK
    <3>2. QED
      BY <2>1, <2>4, <2>6, <3>1 DEF ComputedPayloadsAreCurrent
  <2>9. ComputedSeesAnnounced' /\ AnswersSeeAnnouncedWrites'
    BY <2>1 DEF ComputedSeesAnnounced, AnswersSeeAnnouncedWrites
  <2>10. QED
    BY <2>2, <2>3, <2>7, <2>8, <2>9
<1>2. CASE Clear(w)
  <2>1. /\ UNCHANGED <<version, silent, announced>>
        /\ entries' = NewResponseCache
        /\ writer[w].pc = "committed"
        /\ writer'[w].pc = "cleared" /\ writer'[w].version = writer[w].version
        /\ \A v \in Writers \ {w} : writer'[v] = writer[v]
    BY <1>2 DEF Clear, TypeOK
  <2>2. \A r \in Readers :
           /\ reader'[r].pc = reader[r].pc /\ reader'[r].version = reader[r].version
           /\ reader'[r].floor = reader[r].floor
           /\ reader'[r].late = (reader[r].late \/ reader[r].pc = "computed")
    BY <1>2 DEF Clear, TypeOK
  <2>3. TypeOK'
    <3>1. Absent \in Entry
      BY <1>0 DEF Absent, Entry, EntryStates, Versions
    <3>2. entries' \in [Keys -> Entry]
      BY <2>1, <3>1 DEF NewResponseCache
    <3>3. reader' \in [Readers -> ReaderRow]
      <4>1. ASSUME NEW r \in Readers, NEW b \in BOOLEAN
            PROVE  [reader[r] EXCEPT !.late = b] \in ReaderRow
        BY DEF TypeOK, ReaderRow
      <4>2. \A r \in Readers : (reader[r].late \/ reader[r].pc = "computed") \in BOOLEAN
        OBVIOUS
      <4>3. QED
        BY <1>2, <4>1, <4>2 DEF Clear
    <3>4. writer' \in [Writers -> [pc : {"idle", "committed", "cleared"}, version : Versions]]
      BY <1>2 DEF Clear, TypeOK
    <3>5. QED
      BY <2>1, <3>2, <3>3, <3>4 DEF TypeOK, Entry, ReaderRow
  <2>4. WritersAreApart'
    BY <2>1 DEF WritersAreApart
  <2>5. CachedPayloadsAreCurrent'
    BY <2>1 DEF CachedPayloadsAreCurrent, NewResponseCache, Absent
  <2>6. ComputedPayloadsAreCurrent'
    BY <2>2 DEF ComputedPayloadsAreCurrent
  <2>7. ComputedSeesAnnounced' /\ AnswersSeeAnnouncedWrites'
    BY <2>1, <2>2 DEF ComputedSeesAnnounced, AnswersSeeAnnouncedWrites
  <2>8. QED
    BY <2>3, <2>4, <2>5, <2>6, <2>7
<1>3. CASE Announce(w)
  <2>1. /\ UNCHANGED <<version, entries, reader, silent>>
        /\ writer[w].pc = "cleared" /\ writer'[w].pc = "idle"
        /\ announced' = announced \cup {writer[w].version}
        /\ \A v \in Writers \ {w} : writer'[v] = writer[v]
    BY <1>3 DEF Announce, TypeOK, IdleWriter
  <2>2. TypeOK'
    <3>1. writer[w].version \in Versions /\ IdleWriter \in WriterRow
      BY <1>0 DEF TypeOK, IdleWriter, WriterRow, Versions
    <3>2. writer' \in [Writers -> WriterRow]
      BY <1>3, <3>1 DEF Announce, TypeOK, WriterRow
    <3>3. QED
      BY <2>1, <3>1, <3>2 DEF TypeOK, WriterRow
  <2>3. WritersAreApart'
    BY <2>1 DEF WritersAreApart
  <2>4. \A x : Excused(x) => Excused(x)'
    <3>1. ASSUME NEW x, PendingClear(x) PROVE PendingClear(x)'
      BY <2>1, <3>1 DEF PendingClear
    <3>2. QED
      BY <2>1, <3>1 DEF Excused
  <2>5. CachedPayloadsAreCurrent' /\ ComputedPayloadsAreCurrent'
    BY <2>1, <2>4 DEF CachedPayloadsAreCurrent, ComputedPayloadsAreCurrent, Excused, Misses
  <2>6. ComputedSeesAnnounced' /\ AnswersSeeAnnouncedWrites'
    BY <2>1 DEF ComputedSeesAnnounced, AnswersSeeAnnouncedWrites
  <2>7. QED
    BY <2>2, <2>3, <2>5, <2>6
<1>4. QED
  BY <1>1, <1>2, <1>3

\* A mutation nobody clears is excused from the start.
LEMMA SilentStep ==
    ASSUME CacheInv, CommitSilently
    PROVE  CacheInv'
<1> USE DEF CacheInv
<1>1. /\ UNCHANGED <<entries, reader, writer, announced>>
      /\ version \in Nat /\ version' = version + 1 /\ version < MaxVersion
      /\ silent' = silent \cup {version + 1}
  BY DEF CommitSilently, TypeOK, Versions
<1>2. TypeOK'
  BY <1>1 DEF TypeOK, Versions, VersionAssumption
<1>3. WritersAreApart'
  <2>1. 1 .. version \subseteq 1 .. version' /\ version + 1 \in 1 .. version'
        /\ version + 1 \notin 1 .. version
    BY <1>1
  <2>2. QED
    BY <1>1, <2>1 DEF WritersAreApart
<1>4. \A x : Excused(x) \/ x = version + 1 => Excused(x)'
  BY <1>1 DEF Excused, PendingClear
<1>5. \A v \in Versions, x \in Versions : Misses(v, x)' => Misses(v, x) \/ x = version + 1
  BY <1>1 DEF Misses, Versions
<1>6. CachedPayloadsAreCurrent' /\ ComputedPayloadsAreCurrent'
  <2>1. /\ \A k \in Keys : entries[k].version \in Versions
        /\ \A r \in Readers : reader[r].version \in Versions
    BY DEF TypeOK
  <2>2. CachedPayloadsAreCurrent'
    BY <1>1, <1>4, <1>5, <2>1 DEF CachedPayloadsAreCurrent, Excused
  <2>3. ComputedPayloadsAreCurrent'
    BY <1>1, <1>4, <1>5, <2>1 DEF ComputedPayloadsAreCurrent
  <2>4. QED
    BY <2>2, <2>3
<1>7. ComputedSeesAnnounced' /\ AnswersSeeAnnouncedWrites'
  BY <1>1 DEF ComputedSeesAnnounced, AnswersSeeAnnouncedWrites
<1>8. QED
  BY <1>2, <1>3, <1>6, <1>7

\* Time takes a payload out of reach and changes nothing in it.
LEMMA ExpireStep ==
    ASSUME CacheInv, NEW k \in Keys, EntryExpires(k)
    PROVE  CacheInv'
<1> USE DEF CacheInv
<1>1. /\ UNCHANGED <<version, reader, writer, silent, announced>>
      /\ entries[k].state = "valid"
      /\ \A j \in Keys : /\ entries'[j].version = entries[j].version
                         /\ entries'[j].late = entries[j].late
                         /\ entries'[j].state # "absent" => entries[j].state # "absent"
  BY DEF EntryExpires, Expire, Get, TypeOK
<1>2. TypeOK'
  BY DEF EntryExpires, Expire, TypeOK, EntryStates
<1>3. CachedPayloadsAreCurrent' /\ ComputedPayloadsAreCurrent'
  BY <1>1 DEF CachedPayloadsAreCurrent, ComputedPayloadsAreCurrent, Excused, PendingClear,
              Misses
<1>4. ComputedSeesAnnounced' /\ AnswersSeeAnnouncedWrites' /\ WritersAreApart'
  BY <1>1 DEF ComputedSeesAnnounced, AnswersSeeAnnouncedWrites, WritersAreApart
<1>5. QED
  BY <1>2, <1>3, <1>4

\* The invariant holds in every reachable state.
THEOREM CacheInvariant == Spec => []CacheInv
<1>1. CacheInv /\ [Next]_vars => CacheInv'
  <2> SUFFICES ASSUME CacheInv, [Next]_vars PROVE CacheInv'
    OBVIOUS
  <2>1. CASE UNCHANGED vars
    BY <2>1 DEF vars, CacheInv, TypeOK, CachedPayloadsAreCurrent,
                ComputedPayloadsAreCurrent, ComputedSeesAnnounced,
                AnswersSeeAnnouncedWrites, WritersAreApart, Excused, PendingClear, Misses
  <2>2. QED
    BY <2>1, ReaderStep, WriterStep, SilentStep, ExpireStep DEF Next
<1>2. QED
  BY <1>1, InitInv, PTL DEF Spec

\* A cached payload that no Clear overtook misses only mutations whose
\* handlers have yet to clear or never do (ResponseCache with emitLead).
THEOREM CachedCurrent == Spec => []CachedPayloadsAreCurrent
<1>1. CacheInv => CachedPayloadsAreCurrent
  BY DEF CacheInv
<1>2. QED
  BY <1>1, CacheInvariant, PTL

\* The refetch an event triggers sees the change it announces, unless its
\* payload was overtaken by a Clear (serveFromCache after emitLead).
THEOREM AnswersSeeWrites == Spec => []AnswersSeeAnnouncedWrites
<1>1. CacheInv => AnswersSeeAnnouncedWrites
  BY DEF CacheInv
<1>2. QED
  BY <1>1, CacheInvariant, PTL
-----------------------------------------------------------------------------
(* The size of the map                                                     *)

\* The map counts finitely many entries.
LEMMA StoredFinite ==
    ASSUME NEW es
    PROVE  IsFiniteSet(Stored(es)) /\ Cardinality(Stored(es)) \in Nat
<1>1. Stored(es) \subseteq Keys /\ IsFiniteSet(Keys)
  BY DEF Stored, CacheAssumption
<1>2. QED
  BY <1>1, FS_Subset, FS_CardinalityType

\* Set leaves room for the entry it adds.
LEMMA SetBounded ==
    ASSUME NEW es \in [Keys -> Entry], NEW k \in Keys, NEW v, NEW late,
           Cardinality(Stored(es)) <= MaxEntries
    PROVE  Cardinality(Stored(Set(es, k, v, late))) <= MaxEntries
<1> DEFINE room == IF Cardinality(Stored(es)) >= MaxEntries
                   THEN NewResponseCache ELSE es
           new == Set(es, k, v, late)
<1>1. Stored(NewResponseCache) = {}
  BY DEF Stored, NewResponseCache, Absent
<1>2. Cardinality(Stored(room)) < MaxEntries
  <2>1. Cardinality(Stored(NewResponseCache)) < MaxEntries
    BY <1>1, FS_EmptySet DEF CacheAssumption
  <2>2. Cardinality(Stored(es)) \in Nat
    BY StoredFinite
  <2>3. QED
    BY <2>1, <2>2 DEF CacheAssumption
<1>3. Stored(new) = Stored(room) \cup {k}
  <2>1. /\ new[k].state = "valid"
        /\ \A j \in Keys \ {k} : new[j] = room[j]
    BY DEF Set, NewResponseCache
  <2>2. QED
    BY <2>1 DEF Stored
<1> HIDE DEF room, new
<1>4. IsFiniteSet(Stored(room)) /\ Cardinality(Stored(room)) \in Nat
  BY StoredFinite
<1>5. Cardinality(Stored(new)) <= Cardinality(Stored(room)) + 1
  <2>1. Cardinality(Stored(room) \cup {k}) =
           IF k \in Stored(room) THEN Cardinality(Stored(room))
           ELSE Cardinality(Stored(room)) + 1
    BY <1>4, FS_AddElement, Zenon
  <2>2. QED
    BY <1>3, <1>4, <2>1
<1>6. Cardinality(Stored(new)) \in Nat
  BY StoredFinite
<1>7. QED
  BY <1>2, <1>4, <1>5, <1>6 DEF CacheAssumption, new

\* The map never holds more than responseCacheMaxEntries entries, expired
\* ones included: Set empties a full map before it adds, and nothing else
\* adds (ResponseCache.Set, Clear and the clock).
THEOREM BoundedMap == Spec => []MapIsBounded
<1>1. Init => MapIsBounded
  <2> SUFFICES ASSUME Init PROVE MapIsBounded
    OBVIOUS
  <2>1. Stored(entries) = {}
    BY DEF Init, Stored, NewResponseCache, Absent
  <2>2. QED
    BY <2>1, FS_EmptySet DEF MapIsBounded, CacheAssumption
<1>2. TypeOK /\ MapIsBounded /\ [Next]_vars => MapIsBounded'
  <2> SUFFICES ASSUME TypeOK, MapIsBounded, [Next]_vars PROVE MapIsBounded'
    OBVIOUS
  <2>1. CASE UNCHANGED entries
    BY <2>1 DEF MapIsBounded, Stored
  <2>2. ASSUME NEW r \in Readers, WriteCachedJSON(r) PROVE MapIsBounded'
    BY <2>2, SetBounded DEF WriteCachedJSON, MapIsBounded, TypeOK, Entry
  <2>3. ASSUME NEW k \in Keys, EntryExpires(k) PROVE MapIsBounded'
    <3>1. Stored(entries') = Stored(entries)
      BY <2>3 DEF EntryExpires, Expire, Get, Stored, TypeOK
    <3>2. QED
      BY <3>1 DEF MapIsBounded
  <2>4. ASSUME NEW w \in Writers, Clear(w) PROVE MapIsBounded'
    <3>1. Stored(entries') = {}
      BY <2>4 DEF Clear, Stored, NewResponseCache, Absent
    <3>2. QED
      BY <3>1, FS_EmptySet DEF MapIsBounded, CacheAssumption
  <2>5. QED
    BY <2>1, <2>2, <2>3, <2>4
       DEF Next, vars, ServeFromCache, Query, QueryError, Reply, Commit, Announce,
           CommitSilently
<1>3. CacheInv => TypeOK
  BY DEF CacheInv
<1>4. QED
  BY <1>1, <1>2, <1>3, CacheInvariant, PTL DEF Spec
-----------------------------------------------------------------------------
(* RedisCache: several instances on one Redis                              *)

USE RedisAssumption

GetterRow ==
    [pc : {"idle", "generation", "remember", "lookup", "query", "store"},
     at : Instances \cup {None}, key : Keys \cup {None}, for : {"get", "set"},
     gen : Nat, version : Versions, late : BOOLEAN, lateHere : BOOLEAN]

\* A request is at an instance and about a key, and asks for a generation
\* Redis has reached.  A payload it has still to store misses only mutations
\* whose INCR has taken no effect so far, and none its own instance has
\* cleared, unless the one or the other Clear overtook it.
GetterOK(row) ==
    /\ row \in GetterRow
    /\ row.pc # "idle" => row.at \in Instances /\ row.key \in Keys
    /\ row.pc = "store" => row.for = "set"
    /\ row.gen <= generation
    /\ row.for = "set" /\ ~row.late =>
          \A x \in Versions : Misses(row.version, x) => bumped[x] \in {Pending, Failed}
    /\ row.for = "set" /\ ~row.lateHere =>
          \A x \in Versions : Misses(row.version, x) => clearedAt[x] # {row.at}

\* A handler has a mutation that is made, and remembers no generation that
\* Redis has not reached.
MutatorOK(row) ==
    /\ row \in [pc : {"idle", "clear", "incr", "remember", "forget", "announce"},
                at : Instances \cup {None}, version : Versions, gen : Nat]
    /\ row.pc # "idle" => row.at \in Instances /\ row.version \in 1 .. version
    /\ row.gen <= generation

\* The same of what an instance remembers; its map is FallbackPayloadsAreCurrent.
InstOK(i) ==
    /\ inst[i] \in [gen : Nat, fresh : BOOLEAN, fallback : [Keys -> Entry]]
    /\ inst[i].gen <= generation

\* What is still to be committed is not bumped and not cleared yet.
CountersInv ==
    /\ version \in Versions /\ generation \in Nat /\ failures \in Nat
    /\ bumped \in [Versions -> Nat] /\ clearedAt \in [Versions -> SUBSET Instances]
    /\ \A x \in Versions : x > version => bumped[x] = Pending /\ clearedAt[x] = {}

\* Nothing is stored under a generation that is still to come.
SharedInv ==
    /\ shared \in [Generations -> [Keys -> Entry]]
    /\ \A g \in Generations, k \in Keys :
          shared[g][k].state # "absent" => g <= generation
    /\ SharedPayloadsAreCurrent

InstInv ==
    /\ inst = [i \in Instances |-> inst[i]]
    /\ \A i \in Instances : InstOK(i)
    /\ FallbackPayloadsAreCurrent

RequestsInv ==
    /\ getter = [r \in Readers |-> getter[r]]
    /\ \A r \in Readers : GetterOK(getter[r])
    /\ mutator = [w \in Writers |-> mutator[w]]
    /\ \A w \in Writers : MutatorOK(mutator[w])

\* The inductive invariant of the shared cache.
RedisInv == CountersInv /\ SharedInv /\ InstInv /\ RequestsInv

\* A connection is made: nothing is cached anywhere.
LEMMA RedisStarts == RInit => RedisInv
<1> SUFFICES ASSUME RInit PROVE RedisInv
  OBVIOUS
<1>1. Absent \in Entry /\ Absent.state = "absent"
  BY DEF Absent, Entry, EntryStates, Versions
<1>2. NewResponseCache \in [Keys -> Entry]
      /\ \A k \in Keys : NewResponseCache[k].state = "absent"
  BY <1>1 DEF NewResponseCache
<1>3. CountersInv
  BY DEF RInit, CountersInv, Versions, Pending
<1>4. SharedInv
  BY <1>2 DEF RInit, SharedInv, SharedPayloadsAreCurrent, fullKey, Generations
<1>5. InstInv
  BY <1>2 DEF RInit, InstInv, InstOK, FallbackPayloadsAreCurrent
<1>6. RequestsInv
  BY DEF RInit, RequestsInv, GetterOK, GetterRow, MutatorOK, IdleGetter, IdleMutator, Versions
<1>7. QED
  BY <1>3, <1>4, <1>5, <1>6 DEF RedisInv

\* An idle request is in order whatever the caches hold.
LEMMA IdleGetterOK ==
    ASSUME CountersInv PROVE GetterOK(IdleGetter)
BY DEF GetterOK, IdleGetter, GetterRow, Versions, CountersInv

\* What does not change the database, the generation or what is cleared
\* keeps every part it does not write.
LEMMA RedisFrame ==
    ASSUME RedisInv, failures' \in Nat,
           UNCHANGED <<version, generation, bumped, clearedAt>>
    PROVE  /\ CountersInv'
           /\ UNCHANGED shared => SharedInv'
           /\ UNCHANGED inst => InstInv'
           /\ \A row : GetterOK(row)' <=> GetterOK(row)
           /\ \A row : MutatorOK(row)' <=> MutatorOK(row)
<1>1. \A v, x : Misses(v, x)' <=> Misses(v, x)
  BY DEF Misses
<1>2. CountersInv'
  BY DEF RedisInv, CountersInv
<1>3. UNCHANGED shared => SharedInv'
  BY <1>1 DEF RedisInv, SharedInv, SharedPayloadsAreCurrent
<1>4. UNCHANGED inst => InstInv'
  BY <1>1 DEF RedisInv, InstInv, InstOK, FallbackPayloadsAreCurrent
<1>5. \A row : GetterOK(row)' <=> GetterOK(row)
  BY <1>1 DEF GetterOK
<1>6. \A row : MutatorOK(row)' <=> MutatorOK(row)
  BY DEF MutatorOK
<1>7. QED
  BY <1>2, <1>3, <1>4, <1>5, <1>6

\* A request of a cached endpoint moves on and leaves the others alone.
LEMMA GetterMoves ==
    ASSUME RedisInv, failures' \in Nat,
           UNCHANGED <<version, generation, mutator, bumped, clearedAt>>,
           NEW r \in Readers, NEW row, GetterOK(row),
           getter' = [getter EXCEPT ![r] = row]
    PROVE  RequestsInv'
<1>1. \A q \in Readers : GetterOK(getter'[q])
  BY DEF RedisInv, RequestsInv
<1>2. getter' = [q \in Readers |-> getter'[q]]
  BY DEF RedisInv, RequestsInv
<1>3. QED
  BY <1>1, <1>2, RedisFrame DEF RedisInv, RequestsInv

\* So does a handler in its Clear.
LEMMA MutatorMoves ==
    ASSUME RedisInv, failures' \in Nat,
           UNCHANGED <<version, generation, getter, bumped, clearedAt>>,
           NEW w \in Writers, NEW row, MutatorOK(row),
           mutator' = [mutator EXCEPT ![w] = row]
    PROVE  RequestsInv'
<1>1. \A q \in Writers : MutatorOK(mutator'[q])
  BY DEF RedisInv, RequestsInv
<1>2. mutator' = [q \in Writers |-> mutator'[q]]
  BY DEF RedisInv, RequestsInv
<1>3. QED
  BY <1>1, <1>2, RedisFrame DEF RedisInv, RequestsInv

\* An instance that remembers a generation Redis has reached, or forgets
\* when it did, keeps its map.
LEMMA InstRemembers ==
    ASSUME RedisInv, failures' \in Nat,
           UNCHANGED <<version, generation, bumped, clearedAt>>,
           NEW i \in Instances, NEW g \in Nat, NEW f \in BOOLEAN, g <= generation,
           inst' = [inst EXCEPT ![i] = [@ EXCEPT !.gen = g, !.fresh = f]]
    PROVE  InstInv'
<1> USE DEF RedisInv, InstInv
<1>1. inst' = [j \in Instances |-> inst'[j]]
  OBVIOUS
<1>2. \A j \in Instances : inst'[j].fallback = inst[j].fallback
  BY DEF InstOK
<1>3. \A j \in Instances : InstOK(j)'
  BY DEF InstOK
<1>4. FallbackPayloadsAreCurrent'
  BY <1>2 DEF FallbackPayloadsAreCurrent, Misses
<1>5. QED
  BY <1>1, <1>3, <1>4

\* A request that moves on to another command, with a generation Redis has
\* reached, keeps what it knows.
LEMMA GetterWith ==
    ASSUME CountersInv, NEW old, GetterOK(old), old.pc # "idle", NEW g \in Nat,
           g <= generation,
           NEW pc \in {"generation", "remember", "lookup", "query", "store"},
           pc = "store" => old.for = "set"
    PROVE  GetterOK([old EXCEPT !.pc = pc, !.gen = g])
<1> DEFINE row == [old EXCEPT !.pc = pc, !.gen = g]
<1>1. old \in GetterRow
  BY DEF GetterOK
<1>2. row \in GetterRow /\ row.pc = pc /\ row.gen = g /\ row.at = old.at
      /\ row.key = old.key /\ row.for = old.for /\ row.version = old.version
      /\ row.late = old.late /\ row.lateHere = old.lateHere
  BY <1>1 DEF GetterRow
<1> HIDE DEF row
<1>3. GetterOK(row)
  BY <1>2 DEF GetterOK
<1>4. QED
  BY <1>3 DEF row

\* The steps of a request that store nothing: the lookups and the queries.
LEMMA LookupSteps ==
    ASSUME RedisInv, NEW r \in Readers,
           \/ \E i \in Instances, k \in Keys : Request(r, i, k)
           \/ GenerationCached(r) \/ GenerationFetched(r) \/ Lookup(r)
           \/ FallbackGet(r) \/ QueryDatabase(r) \/ QueryUncached(r)
    PROVE  RedisInv'
<1> DEFINE old == getter[r]
<1>1. GetterOK(old) /\ CountersInv /\ GetterOK(IdleGetter)
  BY IdleGetterOK DEF RedisInv, RequestsInv
<1>2. UNCHANGED <<version, generation, shared, inst, mutator, bumped, clearedAt>>
      /\ failures' \in Nat
  <2>1. failures \in Nat
    BY <1>1 DEF CountersInv
  <2>2. CASE \E i \in Instances, k \in Keys : Request(r, i, k)
    BY <2>1, <2>2 DEF Request, history
  <2>3. CASE GenerationCached(r) \/ GenerationFetched(r)
    BY <2>1, <2>3 DEF GenerationCached, GenerationFetched, history
  <2>4. CASE Lookup(r) \/ QueryDatabase(r) \/ QueryUncached(r)
    BY <2>1, <2>4 DEF Lookup, QueryDatabase, QueryUncached, history
  <2>5. CASE FallbackGet(r)
    BY <2>1, <2>5 DEF FallbackGet
  <2>6. QED
    BY <2>2, <2>3, <2>4, <2>5
<1>3. SUFFICES \E row : GetterOK(row) /\ getter' = [getter EXCEPT ![r] = row]
  <2> PICK row : GetterOK(row) /\ getter' = [getter EXCEPT ![r] = row]
    OBVIOUS
  <2>1. RequestsInv'
    BY <1>2, GetterMoves
  <2>2. QED
    BY <1>2, <2>1, RedisFrame DEF RedisInv
<1>4. ASSUME NEW i \in Instances, NEW k \in Keys, Request(r, i, k)
      PROVE  GetterOK([IdleGetter EXCEPT !.pc = "generation", !.at = i, !.key = k])
  BY <1>1 DEF GetterOK, IdleGetter, GetterRow
<1>5. ASSUME GenerationCached(r)
      PROVE  GetterOK([old EXCEPT !.pc = Command(r), !.gen = inst[old.at].gen])
  <2>1. old.at \in Instances
    BY <1>1, <1>5 DEF GenerationCached, GetterOK
  <2>2. inst[old.at].gen \in Nat /\ inst[old.at].gen <= generation
    BY <2>1 DEF RedisInv, InstInv, InstOK
  <2>3. QED
    <3>1. old.pc = "generation" /\ Command(r) \in {"lookup", "store"}
          /\ (Command(r) = "store" => old.for = "set")
      BY <1>1, <1>5 DEF GenerationCached, Command, GetterOK, GetterRow
    <3>2. QED
      BY <1>1, <2>2, <3>1, GetterWith
<1>6. ASSUME GenerationFetched(r)
      PROVE  GetterOK([old EXCEPT !.pc = "remember", !.gen = generation])
  <2>1. old.pc = "generation" /\ generation \in Nat /\ generation <= generation
    BY <1>1, <1>6 DEF GenerationFetched, CountersInv
  <2>2. QED
    BY <1>1, <2>1, GetterWith
<1>7. ASSUME old.pc # "idle"
      PROVE  GetterOK([old EXCEPT !.pc = "query"])
  BY <1>1, <1>7 DEF GetterOK, GetterRow
<1>8. ASSUME NEW es, Answered(r, es), old.pc # "idle"
      PROVE  \E row : GetterOK(row) /\ getter' = [getter EXCEPT ![r] = row]
  BY <1>1, <1>7, <1>8 DEF Answered
<1>9. ASSUME QueryDatabase(r)
      PROVE  GetterOK([old EXCEPT !.pc = "generation", !.for = "set", !.version = version])
  <2>1. \A x \in Versions : ~Misses(version, x)
    BY <1>1 DEF Misses, CountersInv, Versions
  <2>2. QED
    BY <1>1, <1>9, <2>1 DEF GetterOK, GetterRow, QueryDatabase, CountersInv
<1>10. CASE \E i \in Instances, k \in Keys : Request(r, i, k)
  BY <1>4, <1>10 DEF Request
<1>11. CASE GenerationCached(r)
  BY <1>5, <1>11 DEF GenerationCached
<1>12. CASE GenerationFetched(r)
  BY <1>6, <1>12 DEF GenerationFetched
<1>13. CASE Lookup(r) \/ FallbackGet(r)
  BY <1>8, <1>13 DEF Lookup, FallbackGet
<1>14. CASE QueryDatabase(r)
  BY <1>9, <1>14 DEF QueryDatabase
<1>15. CASE QueryUncached(r)
  BY <1>1, <1>15 DEF QueryUncached
<1>16. QED
  BY <1>10, <1>11, <1>12, <1>13, <1>14, <1>15

\* generation() writes what it was told over what the instance remembers.
LEMMA RememberStep ==
    ASSUME RedisInv, NEW r \in Readers, GenerationRemembered(r)
    PROVE  RedisInv'
<1> DEFINE old == getter[r]
<1>1. GetterOK(old) /\ CountersInv
  BY DEF RedisInv, RequestsInv
<1>2. UNCHANGED <<version, generation, shared, mutator, bumped, clearedAt>>
      /\ failures' \in Nat
  BY <1>1 DEF GenerationRemembered, history, CountersInv
<1>3. old.at \in Instances /\ old.gen \in Nat /\ old.gen <= generation
  BY <1>1 DEF GenerationRemembered, GetterOK, GetterRow
<1>4. inst' = [inst EXCEPT ![old.at] = [@ EXCEPT !.gen = old.gen, !.fresh = TRUE]]
  BY <1>3 DEF GenerationRemembered
<1>5. InstInv'
  BY <1>2, <1>3, <1>4, InstRemembers
<1>6. GetterOK([old EXCEPT !.pc = Command(r)])
  BY <1>1 DEF GetterOK, GetterRow, Command, GenerationRemembered
<1>7. RequestsInv'
  BY <1>2, <1>6, GetterMoves DEF GenerationRemembered
<1>8. QED
  BY <1>2, <1>5, <1>7, RedisFrame DEF RedisInv

\* SET stores a payload under a generation Redis has reached; what it misses
\* is bumped later, if at all.
LEMMA SetSharedStep ==
    ASSUME RedisInv, NEW r \in Readers, getter[r].pc = "store",
           getter[r].for = "set", SetShared(r), failures' \in Nat,
           UNCHANGED <<version, generation, bumped, clearedAt>>
    PROVE  SharedInv'
<1> DEFINE old == getter[r]
           new == [state |-> "valid", version |-> old.version, late |-> old.late]
<1>1. GetterOK(old) /\ SharedInv
  BY DEF RedisInv, RequestsInv
<1>2. new \in Entry /\ old.gen \in Nat /\ old.gen <= generation /\ old.key \in Keys
  BY <1>1 DEF GetterOK, GetterRow, Entry, EntryStates
<1>3. ~old.late => \A g \in Generations, x \in Versions : Misses(old.version, x) => bumped[x] > g
  BY <1>1 DEF GetterOK, Pending, Failed, Generations
<1>4. shared' = [shared EXCEPT ![old.gen][old.key] = new]
  BY DEF SetShared, fullKey
<1>5. \A g \in Generations, k \in Keys :
         shared'[g][k] = IF g = old.gen /\ k = old.key THEN new ELSE shared[g][k]
  BY <1>1, <1>2, <1>4 DEF SharedInv
<1>6. shared' \in [Generations -> [Keys -> Entry]]
  BY <1>1, <1>2, <1>4 DEF SharedInv
<1> HIDE DEF new
<1>7. SharedPayloadsAreCurrent'
  <2> SUFFICES ASSUME NEW g \in Generations, NEW k \in Keys, NEW x \in Versions,
                      shared'[g][k].state = "valid", ~shared'[g][k].late,
                      shared'[g][k].version < x, x <= version
               PROVE  bumped[x] > g
    BY DEF SharedPayloadsAreCurrent, fullKey, Misses
  <2>1. CASE g = old.gen /\ k = old.key
    BY <1>3, <1>5, <2>1 DEF new, Misses
  <2>2. CASE ~(g = old.gen /\ k = old.key)
    BY <1>1, <1>5, <2>2 DEF SharedInv, SharedPayloadsAreCurrent, fullKey, Misses
  <2>3. QED
    BY <2>1, <2>2
<1>8. QED
  BY <1>1, <1>2, <1>5, <1>6, <1>7 DEF SharedInv

\* fallback.Set stores a payload that misses nothing its instance cleared.
LEMMA SetFallbackStep ==
    ASSUME RedisInv, NEW r \in Readers, getter[r].pc # "idle", getter[r].for = "set",
           UNCHANGED <<version, generation, bumped, clearedAt>>,
           inst' = [inst EXCEPT ![getter[r].at].fallback =
                       Set(@, getter[r].key, getter[r].version, getter[r].lateHere)]
    PROVE  InstInv'
<1> DEFINE old == getter[r]
           es == inst[old.at].fallback
           new == Set(es, old.key, old.version, old.lateHere)
<1>1. GetterOK(old) /\ InstInv
  BY DEF RedisInv, RequestsInv
<1>2. old.at \in Instances /\ old.key \in Keys /\ old.version \in Versions
      /\ old.lateHere \in BOOLEAN
  BY <1>1 DEF GetterOK, GetterRow
<1>3. es \in [Keys -> Entry]
  BY <1>1, <1>2 DEF InstInv, InstOK
<1>4. /\ new \in [Keys -> Entry]
      /\ new[old.key] = [state |-> "valid", version |-> old.version, late |-> old.lateHere]
      /\ \A j \in Keys \ {old.key} : new[j] = es[j] \/ new[j].state = "absent"
  <2> HIDE DEF old, es
  <2>1. QED
    BY <1>2, <1>3, SetResult
<1>5. inst' = [inst EXCEPT ![old.at] = [@ EXCEPT !.fallback = new]]
  BY <1>2
<1> HIDE DEF new
<1>6. inst' = [i \in Instances |-> inst'[i]]
      /\ inst'[old.at].fallback = new
      /\ \A i \in Instances \ {old.at} : inst'[i] = inst[i]
  BY <1>1, <1>2, <1>5 DEF InstInv, InstOK
<1>7. \A i \in Instances : InstOK(i)'
  BY <1>1, <1>2, <1>4, <1>5 DEF InstInv, InstOK
<1>8. FallbackPayloadsAreCurrent'
  <2> SUFFICES ASSUME NEW i \in Instances, NEW k \in Keys, NEW x \in Versions,
                      inst'[i].fallback[k].state # "absent", ~inst'[i].fallback[k].late,
                      inst'[i].fallback[k].version < x, x <= version
               PROVE  clearedAt[x] # {i}
    BY DEF FallbackPayloadsAreCurrent, Misses
  <2>1. CASE i = old.at /\ k = old.key
    BY <1>1, <1>4, <1>6, <2>1 DEF GetterOK, Misses
  <2>2. CASE ~(i = old.at /\ k = old.key)
    <3>1. inst'[i].fallback[k] = inst[i].fallback[k]
      BY <1>2, <1>4, <1>6, <2>2
    <3>2. QED
      BY <1>1, <3>1 DEF InstInv, FallbackPayloadsAreCurrent, Misses
  <2>3. QED
    BY <2>1, <2>2
<1>9. QED
  BY <1>6, <1>7, <1>8 DEF InstInv

\* The steps that store a payload, in Redis, in the instance's map or both.
LEMMA StoreSteps ==
    ASSUME RedisInv, NEW r \in Readers, Store(r) \/ FallbackSet(r)
    PROVE  RedisInv'
<1>1. GetterOK(getter[r]) /\ CountersInv /\ GetterOK(IdleGetter)
  BY IdleGetterOK DEF RedisInv, RequestsInv
<1>2. UNCHANGED <<version, generation, mutator, bumped, clearedAt>>
      /\ failures' \in Nat /\ getter' = [getter EXCEPT ![r] = IdleGetter]
      /\ getter[r].pc # "idle" /\ getter[r].for = "set"
  BY <1>1 DEF Store, FallbackSet, history, CountersInv, GetterOK
<1>3. RequestsInv'
  BY <1>1, <1>2, GetterMoves
<1>4. SharedInv'
  <2>1. CASE UNCHANGED shared
    BY <1>2, <2>1, RedisFrame
  <2>2. CASE SetShared(r) /\ getter[r].pc = "store"
    BY <1>2, <2>2, SetSharedStep
  <2>3. QED
    BY <2>1, <2>2 DEF Store, FallbackSet
<1>5. InstInv'
  <2>1. CASE Store(r)
    BY <1>2, <2>1, RedisFrame DEF Store
  <2>2. CASE FallbackSet(r)
    BY <1>2, <2>2, SetFallbackStep DEF FallbackSet
  <2>3. QED
    BY <2>1, <2>2
<1>6. QED
  BY <1>2, <1>3, <1>4, <1>5, RedisFrame DEF RedisInv

\* A commit makes a mutation that nobody has bumped or cleared for yet.
LEMMA CommitStep ==
    ASSUME RedisInv, NEW w \in Writers, NEW i \in Instances, CommitAt(w, i)
    PROVE  RedisInv'
<1> DEFINE new == [IdleMutator EXCEPT !.pc = "clear", !.at = i, !.version = version + 1]
<1>1. UNCHANGED <<generation, shared, inst, getter, bumped, clearedAt, failures>>
      /\ version' = version + 1 /\ version < MaxVersion
      /\ mutator' = [mutator EXCEPT ![w] = new]
  BY DEF CommitAt, history
<1>2. version \in Nat /\ version + 1 \in Versions
  BY <1>1 DEF RedisInv, CountersInv, Versions
<1>3. CountersInv'
  BY <1>1, <1>2 DEF RedisInv, CountersInv, Versions
<1>4. bumped[version + 1] = Pending /\ clearedAt[version + 1] = {}
  BY <1>2 DEF RedisInv, CountersInv
<1>5. \A v \in Versions, x \in Versions : Misses(v, x)' => Misses(v, x) \/ x = version + 1
  BY <1>1, <1>2 DEF Misses, Versions
<1>6. SharedInv'
  <2>1. \A g \in Generations : Pending > g
    BY DEF Pending, Generations
  <2>2. \A g \in Generations, k \in Keys : shared[g][k].version \in Versions
    BY DEF RedisInv, SharedInv, Entry
  <2>3. SharedPayloadsAreCurrent'
    BY <1>1, <1>4, <1>5, <2>1, <2>2
       DEF RedisInv, SharedInv, SharedPayloadsAreCurrent, fullKey
  <2>4. QED
    BY <1>1, <2>3 DEF RedisInv, SharedInv
<1>7. InstInv'
  <2>1. \A j \in Instances, k \in Keys : inst[j].fallback[k].version \in Versions
    BY DEF RedisInv, InstInv, InstOK, Entry
  <2>2. FallbackPayloadsAreCurrent'
    BY <1>1, <1>4, <1>5, <2>1 DEF RedisInv, InstInv, FallbackPayloadsAreCurrent
  <2>3. QED
    BY <1>1, <2>2 DEF RedisInv, InstInv, InstOK
<1>8. RequestsInv'
  <2>1. \A r \in Readers : GetterOK(getter[r])'
    <3> SUFFICES ASSUME NEW r \in Readers PROVE GetterOK(getter[r])'
      OBVIOUS
    <3>1. GetterOK(getter[r]) /\ getter[r].version \in Versions
      BY DEF RedisInv, RequestsInv, GetterOK, GetterRow
    <3>2. QED
      BY <1>1, <1>4, <1>5, <3>1 DEF GetterOK
  <2>2. PICK row : row = new
    OBVIOUS
  <2>3. MutatorOK(row)'
    <3>1. row = [pc |-> "clear", at |-> i, version |-> version + 1, gen |-> 0]
      BY <2>2 DEF IdleMutator
    <3>2. generation \in Nat
      BY DEF RedisInv, CountersInv
    <3>3. QED
      BY <1>1, <1>2, <3>1, <3>2 DEF MutatorOK
  <2>4. \A old : MutatorOK(old) => MutatorOK(old)'
    BY <1>1, <1>2 DEF MutatorOK, Versions
  <2>5. mutator' = [mutator EXCEPT ![w] = row]
    BY <1>1, <2>2
  <2>6. mutator' = [q \in Writers |-> mutator'[q]] /\ \A q \in Writers : MutatorOK(mutator[q])'
    BY <2>3, <2>4, <2>5 DEF RedisInv, RequestsInv
  <2>7. QED
    BY <1>1, <2>1, <2>6 DEF RedisInv, RequestsInv
<1>9. QED
  BY <1>3, <1>6, <1>7, <1>8 DEF RedisInv

\* Clear empties the map of its own instance, and overtakes the payloads
\* that are on their way into it.
LEMMA ClearStep ==
    ASSUME RedisInv, NEW w \in Writers, ClearFallback(w)
    PROVE  RedisInv'
<1> DEFINE i == mutator[w].at
           y == mutator[w].version
<1>1. UNCHANGED <<version, generation, shared, bumped, failures>>
      /\ clearedAt' = [clearedAt EXCEPT ![y] = {i}]
      /\ mutator' = [mutator EXCEPT ![w] = [@ EXCEPT !.pc = "incr"]]
      /\ inst' = [inst EXCEPT ![i] = [@ EXCEPT !.fallback = NewResponseCache]]
      /\ mutator[w].pc = "clear"
  BY DEF ClearFallback
<1>2. CountersInv /\ MutatorOK(mutator[w])
  BY DEF RedisInv, RequestsInv
<1>3. i \in Instances /\ y \in Versions /\ y <= version
  BY <1>1, <1>2 DEF MutatorOK
<1>4. CountersInv'
  BY <1>1, <1>2, <1>3 DEF CountersInv, Versions
<1>5. \A v, x : Misses(v, x)' <=> Misses(v, x)
  BY <1>1 DEF Misses
<1>6. \A x \in Versions : clearedAt'[x] = clearedAt[x] \/ clearedAt'[x] = {i}
  BY <1>1, <1>2 DEF CountersInv
<1>7. SharedInv'
  BY <1>1, <1>5 DEF RedisInv, SharedInv, SharedPayloadsAreCurrent
<1>8. InstInv'
  <2>1. NewResponseCache \in [Keys -> Entry]
        /\ \A k \in Keys : NewResponseCache[k].state = "absent"
    BY DEF NewResponseCache, Absent, Entry, EntryStates, Versions
  <2>2. inst' = [j \in Instances |-> inst'[j]]
        /\ inst'[i].fallback = NewResponseCache
        /\ \A j \in Instances \ {i} : inst'[j] = inst[j]
    BY <1>1, <1>3 DEF RedisInv, InstInv, InstOK
  <2>3. inst'[i] = [inst[i] EXCEPT !.fallback = NewResponseCache]
    BY <1>1, <1>3 DEF RedisInv, InstInv
  <2>4. \A j \in Instances : InstOK(j)
    BY DEF RedisInv, InstInv
  <2>5. \A j \in Instances : InstOK(j)'
    BY <1>1, <1>3, <2>1, <2>2, <2>3, <2>4 DEF InstOK
  <2>6. FallbackPayloadsAreCurrent'
    <3> SUFFICES ASSUME NEW j \in Instances, NEW k \in Keys, NEW x \in Versions,
                        inst'[j].fallback[k].state # "absent", ~inst'[j].fallback[k].late,
                        Misses(inst'[j].fallback[k].version, x)
                 PROVE  clearedAt'[x] # {j}
      BY <1>5 DEF FallbackPayloadsAreCurrent
    <3>1. j # i
      BY <2>1, <2>2
    <3>2. clearedAt[x] # {j}
      BY <2>2, <3>1 DEF RedisInv, InstInv, FallbackPayloadsAreCurrent
    <3>3. QED
      BY <1>6, <3>1, <3>2
  <2>7. QED
    BY <2>2, <2>5, <2>6 DEF InstInv
<1>9. ASSUME NEW r \in Readers PROVE GetterOK(getter[r])'
  <2> DEFINE old == getter[r]
             new == [old EXCEPT !.lateHere = @ \/ (old.for = "set" /\ old.at = i)]
  <2>1. GetterOK(old) /\ getter'[r] = new
    BY DEF RedisInv, RequestsInv, ClearFallback
  <2>2. old \in GetterRow
    BY <2>1 DEF GetterOK
  <2>3. new \in GetterRow /\ new.pc = old.pc /\ new.gen = old.gen /\ new.at = old.at
        /\ new.key = old.key /\ new.for = old.for /\ new.version = old.version
        /\ new.late = old.late
        /\ (~new.lateHere => ~old.lateHere /\ ~(old.for = "set" /\ old.at = i))
    BY <2>2 DEF GetterRow
  <2> HIDE DEF new
  <2>4. new.for = "set" /\ ~new.lateHere =>
           \A x \in Versions : Misses(new.version, x) => clearedAt'[x] # {new.at}
    BY <1>6, <2>1, <2>3 DEF GetterOK
  <2>5. PICK row : row = new
    OBVIOUS
  <2>6. GetterOK(row)'
    BY <1>1, <1>5, <2>1, <2>3, <2>4, <2>5 DEF GetterOK
  <2>7. QED
    BY <2>1, <2>5, <2>6
<1>10. \A q \in Writers : MutatorOK(mutator'[q])
  BY <1>1, <1>2 DEF MutatorOK, RedisInv, RequestsInv
<1>11. \A row : MutatorOK(row)' <=> MutatorOK(row)
  BY <1>1 DEF MutatorOK
<1>12. RequestsInv'
  <2>1. getter' = [r \in Readers |-> getter'[r]]
    BY DEF ClearFallback
  <2>2. mutator' = [q \in Writers |-> mutator'[q]]
    BY <1>1 DEF RedisInv, RequestsInv
  <2>3. QED
    BY <1>9, <1>10, <1>11, <2>1, <2>2 DEF RequestsInv
<1>13. QED
  BY <1>4, <1>7, <1>8, <1>12 DEF RedisInv

\* An INCR that takes effect makes a generation nothing is stored under yet,
\* and overtakes the payloads that are on their way to Redis.
LEMMA IncrEffect ==
    ASSUME RedisInv, NEW w \in Writers, mutator[w].pc = "incr", IncrTakesEffect(w),
           UNCHANGED <<version, shared, inst, clearedAt>>, failures' \in Nat
    PROVE  /\ CountersInv' /\ SharedInv' /\ InstInv'
           /\ getter' = [r \in Readers |-> getter'[r]]
           /\ \A r \in Readers : GetterOK(getter[r])'
           /\ \A row : MutatorOK(row) => MutatorOK(row)'
<1> DEFINE y == mutator[w].version
<1>1. generation' = generation + 1 /\ bumped' = [bumped EXCEPT ![y] = generation + 1]
  BY DEF IncrTakesEffect
<1>2. CountersInv /\ MutatorOK(mutator[w])
  BY DEF RedisInv, RequestsInv
<1>3. y \in Versions /\ y <= version /\ generation \in Nat
  BY <1>2 DEF MutatorOK, CountersInv
<1>4. CountersInv'
  <2>1. bumped' \in [Versions -> Nat] /\ \A x \in Versions \ {y} : bumped'[x] = bumped[x]
    BY <1>1, <1>2, <1>3 DEF CountersInv
  <2>2. \A x \in Versions : x > version => x # y
    BY <1>2, <1>3 DEF CountersInv, Versions
  <2>3. QED
    BY <1>1, <1>2, <1>3, <2>1, <2>2 DEF CountersInv
<1>5. \A v, x : Misses(v, x)' <=> Misses(v, x)
  BY DEF Misses
<1>6. \A x \in Versions : bumped'[x] = bumped[x] \/ bumped'[x] = generation + 1
  BY <1>1, <1>2 DEF CountersInv
<1>7. SharedInv'
  <2>1. \A g \in Generations, k \in Keys :
           shared[g][k].state # "absent" => g <= generation /\ g < generation + 1
    BY <1>3 DEF RedisInv, SharedInv, Generations
  <2>2. SharedPayloadsAreCurrent'
    <3> SUFFICES ASSUME NEW g \in Generations, NEW k \in Keys, NEW x \in Versions,
                        shared[g][k].state = "valid", ~shared[g][k].late,
                        Misses(shared[g][k].version, x)
                 PROVE  bumped'[x] > g
      BY <1>5 DEF SharedPayloadsAreCurrent, fullKey
    <3>1. bumped[x] > g
      BY DEF RedisInv, SharedInv, SharedPayloadsAreCurrent, fullKey
    <3>2. generation + 1 > g
      BY <1>3, <2>1 DEF Generations
    <3>3. QED
      BY <1>6, <3>1, <3>2
  <2>3. QED
    BY <1>1, <1>3, <2>1, <2>2 DEF RedisInv, SharedInv, Generations
<1>8. InstInv'
  <2>1. FallbackPayloadsAreCurrent'
    BY <1>5 DEF RedisInv, InstInv, FallbackPayloadsAreCurrent
  <2>2. \A i \in Instances : InstOK(i)'
    BY <1>1, <1>3 DEF RedisInv, InstInv, InstOK
  <2>3. QED
    BY <2>1, <2>2 DEF RedisInv, InstInv
<1>9. ASSUME NEW r \in Readers PROVE GetterOK(getter[r])'
  <2> DEFINE old == getter[r]
             new == [old EXCEPT !.late = @ \/ old.for = "set"]
  <2>1. GetterOK(old) /\ getter'[r] = new
    BY DEF RedisInv, RequestsInv, IncrTakesEffect
  <2>2. old \in GetterRow
    BY <2>1 DEF GetterOK
  <2>3. new \in GetterRow /\ new.pc = old.pc /\ new.gen = old.gen /\ new.at = old.at
        /\ new.key = old.key /\ new.for = old.for /\ new.version = old.version
        /\ new.lateHere = old.lateHere /\ (new.for = "set" => new.late)
    BY <2>2 DEF GetterRow
  <2>4. PICK row : row = new
    OBVIOUS
  <2> HIDE DEF new
  <2>5. old.gen \in Nat /\ old.gen <= generation /\ old.gen <= generation + 1
    BY <1>3, <2>1, <2>2 DEF GetterOK, GetterRow
  <2>6. GetterOK(row)'
    BY <1>1, <1>5, <2>1, <2>3, <2>4, <2>5 DEF GetterOK
  <2>7. QED
    BY <2>1, <2>4, <2>6
<1>10. \A row : MutatorOK(row) => MutatorOK(row)'
  BY <1>1, <1>3 DEF MutatorOK
<1>11. getter' = [r \in Readers |-> getter'[r]]
  BY DEF IncrTakesEffect
<1>12. QED
  BY <1>4, <1>7, <1>8, <1>9, <1>10, <1>11

\* INCR, answered or not, with effect or without.
LEMMA IncrSteps ==
    ASSUME RedisInv, NEW w \in Writers, Incr(w) \/ IncrFails(w)
    PROVE  RedisInv'
<1>1. CountersInv /\ MutatorOK(mutator[w]) /\ mutator[w].pc = "incr"
  BY DEF RedisInv, RequestsInv, Incr, IncrFails
<1>2. UNCHANGED <<version, shared, inst, clearedAt>> /\ failures' \in Nat
  BY <1>1 DEF Incr, IncrFails, CountersInv
<1>3. generation \in Nat
  BY <1>1 DEF CountersInv
<1>4. CASE IncrTakesEffect(w)
  <2>1. generation' = generation + 1
    BY <1>4 DEF IncrTakesEffect
  <2>2. PICK row : mutator' = [mutator EXCEPT ![w] = row]
                   /\ row \in {[mutator[w] EXCEPT !.pc = "remember", !.gen = generation + 1],
                               [mutator[w] EXCEPT !.pc = "forget"]}
    BY DEF Incr, IncrFails
  <2>3. MutatorOK(row)'
    <3>1. row \in [pc : {"remember", "forget"}, at : Instances \cup {None},
                   version : Versions, gen : Nat]
          /\ row.at = mutator[w].at /\ row.version = mutator[w].version
          /\ row.gen \in {mutator[w].gen, generation + 1}
      <4>1. mutator[w] \in [pc : {"idle", "clear", "incr", "remember", "forget", "announce"},
                            at : Instances \cup {None}, version : Versions, gen : Nat]
        BY <1>1 DEF MutatorOK
      <4>2. CASE row = [mutator[w] EXCEPT !.pc = "remember", !.gen = generation + 1]
        <5>1. generation + 1 \in Nat
          BY <1>3
        <5>2. row.pc = "remember" /\ row.gen = generation + 1
              /\ row.at = mutator[w].at /\ row.version = mutator[w].version
          BY <4>1, <4>2
        <5>3. row \in [pc : {"remember"}, at : Instances \cup {None},
                       version : Versions, gen : Nat]
          BY <4>1, <4>2, <5>1
        <5>4. QED
          BY <5>2, <5>3
      <4>3. CASE row = [mutator[w] EXCEPT !.pc = "forget"]
        BY <1>3, <4>1, <4>3
      <4>4. QED
        BY <2>2, <4>2, <4>3
    <3>2. row.at \in Instances /\ row.version \in 1 .. version /\ row.gen <= generation + 1
      BY <1>1, <1>3, <3>1 DEF MutatorOK
    <3>3. QED
      BY <1>2, <2>1, <3>1, <3>2 DEF MutatorOK
  <2>4. mutator' = [q \in Writers |-> mutator'[q]]
    BY <2>2 DEF RedisInv, RequestsInv
  <2>5. \A q \in Writers : MutatorOK(mutator[q])'
    BY <1>1, <1>2, <1>4, <2>2, <2>3, IncrEffect DEF RedisInv, RequestsInv
  <2>6. RequestsInv'
    BY <1>1, <1>2, <1>4, <2>4, <2>5, IncrEffect DEF RequestsInv
  <2>7. QED
    BY <1>1, <1>2, <1>4, <2>6, IncrEffect DEF RedisInv
<1>5. CASE IncrFails(w) /\ ~IncrTakesEffect(w)
  <2> DEFINE y == mutator[w].version
  <2>1. bumped' = [bumped EXCEPT ![y] = Failed] /\ UNCHANGED <<generation, getter>>
        /\ mutator' = [mutator EXCEPT ![w] = [@ EXCEPT !.pc = "forget"]]
    BY <1>5 DEF IncrFails
  <2>2. y \in Versions /\ y <= version /\ Failed \in Nat
    BY <1>1 DEF MutatorOK, Failed
  <2>3. CountersInv'
    <3>1. bumped' \in [Versions -> Nat] /\ \A x \in Versions \ {y} : bumped'[x] = bumped[x]
      BY <1>1, <2>1, <2>2 DEF CountersInv
    <3>2. \A x \in Versions : x > version => x # y
      BY <1>1, <2>2 DEF CountersInv, Versions
    <3>3. QED
      BY <1>1, <1>2, <2>1, <3>1, <3>2 DEF CountersInv
  <2>4. \A x \in Versions : bumped'[x] = bumped[x] \/ bumped'[x] = Failed
    BY <1>1, <2>1 DEF CountersInv
  <2>5. \A v, x : Misses(v, x)' <=> Misses(v, x)
    BY <1>2 DEF Misses
  <2>6. SharedInv'
    <3>1. \A g \in Generations : Failed > g
      BY DEF Failed, Generations
    <3>2. SharedPayloadsAreCurrent'
      BY <1>2, <2>4, <2>5, <3>1 DEF RedisInv, SharedInv, SharedPayloadsAreCurrent, fullKey
    <3>3. QED
      BY <1>2, <2>1, <3>2 DEF RedisInv, SharedInv
  <2>7. InstInv'
    BY <1>2, <2>1, <2>5 DEF RedisInv, InstInv, InstOK, FallbackPayloadsAreCurrent
  <2>8. \A row : GetterOK(row) => GetterOK(row)'
    BY <1>2, <2>1, <2>4, <2>5 DEF GetterOK
  <2>9. \A q \in Writers : MutatorOK(mutator'[q])
    BY <1>1, <2>1 DEF MutatorOK, RedisInv, RequestsInv
  <2>10. \A row : MutatorOK(row) => MutatorOK(row)'
    BY <1>2, <2>1 DEF MutatorOK
  <2>11. mutator' = [q \in Writers |-> mutator'[q]]
    BY <2>1 DEF RedisInv, RequestsInv
  <2>12. RequestsInv'
    BY <2>1, <2>8, <2>9, <2>10, <2>11 DEF RedisInv, RequestsInv
  <2>13. QED
    BY <2>3, <2>6, <2>7, <2>12 DEF RedisInv
<1>6. QED
  BY <1>4, <1>5 DEF Incr

\* The rest of a Clear: the instance remembers or forgets, and answers.
LEMMA ClearEnds ==
    ASSUME RedisInv, NEW w \in Writers, Remember(w) \/ Forget(w) \/ AnnounceAt(w)
    PROVE  RedisInv'
<1> DEFINE old == mutator[w]
           i == old.at
<1>1. CountersInv /\ MutatorOK(old)
  BY DEF RedisInv, RequestsInv
<1>2. UNCHANGED <<version, generation, shared, getter, bumped, clearedAt>>
      /\ failures' \in Nat /\ old.pc # "idle"
  BY <1>1 DEF Remember, Forget, AnnounceAt, history, CountersInv
<1>3. i \in Instances /\ old.gen \in Nat /\ old.gen <= generation /\ generation \in Nat
  BY <1>1, <1>2 DEF MutatorOK, CountersInv
<1>4. InstInv'
  <2>1. CASE Remember(w)
    <3>1. inst' = [inst EXCEPT ![i] = [@ EXCEPT !.gen = old.gen, !.fresh = TRUE]]
      BY <1>3, <2>1 DEF Remember
    <3>2. QED
      BY <1>2, <1>3, <3>1, InstRemembers
  <2>2. CASE Forget(w)
    <3>1. inst[i] \in [gen : Nat, fresh : BOOLEAN, fallback : [Keys -> Entry]]
          /\ inst[i].gen <= generation
      BY <1>3 DEF RedisInv, InstInv, InstOK
    <3>2. inst' = [inst EXCEPT ![i] = [@ EXCEPT !.gen = inst[i].gen, !.fresh = FALSE]]
      BY <1>3, <2>2, <3>1 DEF Forget
    <3>3. QED
      BY <1>2, <1>3, <3>1, <3>2, InstRemembers
  <2>3. CASE AnnounceAt(w)
    BY <1>2, <2>3, RedisFrame DEF AnnounceAt
  <2>4. QED
    BY <2>1, <2>2, <2>3
<1>5. MutatorOK(IdleMutator) /\ MutatorOK([old EXCEPT !.pc = "announce"])
  BY <1>1, <1>2, <1>3 DEF MutatorOK, IdleMutator, Versions
<1>6. \E row : MutatorOK(row) /\ mutator' = [mutator EXCEPT ![w] = row]
  BY <1>5 DEF Remember, Forget, AnnounceAt
<1>7. RequestsInv'
  BY <1>2, <1>6, MutatorMoves
<1>8. QED
  BY <1>2, <1>4, <1>7, RedisFrame DEF RedisInv

\* What time does: remembered generations age and payloads expire.
LEMMA TimeSteps ==
    ASSUME RedisInv,
           \/ \E i \in Instances : GenerationAges(i) \/ \E k \in Keys : FallbackExpires(i, k)
           \/ \E g \in Generations, k \in Keys : SharedExpires(g, k)
    PROVE  RedisInv'
<1>1. UNCHANGED <<version, generation, getter, mutator, bumped, clearedAt>>
      /\ failures' \in Nat
  BY DEF GenerationAges, FallbackExpires, SharedExpires, history, RedisInv, CountersInv
<1>2. RequestsInv'
  BY <1>1, RedisFrame DEF RedisInv, RequestsInv
<1>3. ASSUME NEW i \in Instances, GenerationAges(i) PROVE RedisInv'
  <2>1. inst[i] \in [gen : Nat, fresh : BOOLEAN, fallback : [Keys -> Entry]]
        /\ inst[i].gen <= generation
    BY DEF RedisInv, InstInv, InstOK
  <2>2. inst' = [inst EXCEPT ![i] = [@ EXCEPT !.gen = inst[i].gen, !.fresh = FALSE]]
    BY <1>3, <2>1 DEF GenerationAges
  <2>3. InstInv'
    BY <1>1, <2>1, <2>2, InstRemembers
  <2>4. QED
    BY <1>1, <1>2, <1>3, <2>3, RedisFrame DEF RedisInv, GenerationAges
<1>4. ASSUME NEW i \in Instances, NEW k \in Keys, FallbackExpires(i, k) PROVE RedisInv'
  <2> DEFINE es == inst[i].fallback
             new == Expire(es, k)
  <2>1. InstInv /\ es \in [Keys -> Entry]
    BY DEF RedisInv, InstInv, InstOK
  <2>2. /\ new \in [Keys -> Entry]
        /\ \A j \in Keys : /\ new[j].version = es[j].version /\ new[j].late = es[j].late
                           /\ new[j].state # "absent" => es[j].state # "absent"
    BY <1>4, <2>1 DEF Expire, Entry, EntryStates, FallbackExpires, Get
  <2>3. inst' = [inst EXCEPT ![i] = [@ EXCEPT !.fallback = new]]
    BY <1>4 DEF FallbackExpires
  <2> HIDE DEF new
  <2>4. inst' = [j \in Instances |-> inst'[j]]
        /\ inst'[i] = [inst[i] EXCEPT !.fallback = new]
        /\ inst'[i].fallback = new
        /\ \A j \in Instances \ {i} : inst'[j] = inst[j]
    BY <2>1, <2>3 DEF InstInv, InstOK
  <2>5. \A j \in Instances : InstOK(j)
    BY <2>1 DEF InstInv
  <2>6. \A j \in Instances : InstOK(j)'
    BY <1>1, <2>2, <2>4, <2>5 DEF InstOK
  <2>7. FallbackPayloadsAreCurrent'
    <3> SUFFICES ASSUME NEW j \in Instances, NEW h \in Keys, NEW x \in Versions,
                        inst'[j].fallback[h].state # "absent", ~inst'[j].fallback[h].late,
                        inst'[j].fallback[h].version < x, x <= version
                 PROVE  clearedAt[x] # {j}
      BY <1>1 DEF FallbackPayloadsAreCurrent, Misses
    <3>1. inst[j].fallback[h].state # "absent" /\ ~inst[j].fallback[h].late
          /\ inst[j].fallback[h].version < x
      BY <2>2, <2>4
    <3>2. QED
      BY <2>1, <3>1 DEF InstInv, FallbackPayloadsAreCurrent, Misses
  <2>8. QED
    BY <1>1, <1>2, <1>4, <2>4, <2>6, <2>7, RedisFrame DEF RedisInv, InstInv, FallbackExpires
<1>5. ASSUME NEW g \in Generations, NEW k \in Keys, SharedExpires(g, k) PROVE RedisInv'
  <2>1. shared' = [shared EXCEPT ![g][k] = Absent] /\ SharedInv
    BY <1>5 DEF SharedExpires, RedisInv
  <2>2. Absent \in Entry /\ Absent.state = "absent"
    BY DEF Absent, Entry, EntryStates, Versions
  <2>3. shared' \in [Generations -> [Keys -> Entry]]
    BY <2>1, <2>2 DEF SharedInv
  <2>4. \A f \in Generations, j \in Keys :
           shared'[f][j] = shared[f][j] \/ shared'[f][j].state = "absent"
    BY <2>1, <2>2 DEF SharedInv
  <2>5. SharedPayloadsAreCurrent'
    <3> SUFFICES ASSUME NEW f \in Generations, NEW j \in Keys, NEW x \in Versions,
                        shared'[f][j].state = "valid", ~shared'[f][j].late,
                        shared'[f][j].version < x, x <= version
                 PROVE  bumped[x] > f
      BY <1>1 DEF SharedPayloadsAreCurrent, Misses, fullKey
    <3>1. shared'[f][j] = shared[f][j]
      BY <2>4
    <3>2. QED
      BY <2>1, <3>1 DEF SharedInv, SharedPayloadsAreCurrent, Misses, fullKey
  <2>6. SharedInv'
    BY <1>1, <2>1, <2>3, <2>4, <2>5 DEF SharedInv
  <2>7. QED
    BY <1>1, <1>2, <1>5, <2>6, RedisFrame DEF RedisInv, SharedExpires
<1>6. QED
  BY <1>3, <1>4, <1>5

\* RedisInv is an invariant of the shared cache.
THEOREM RedisInvariant == RSpec => []RedisInv
<1>1. ASSUME RedisInv, [RNext]_rvars PROVE RedisInv'
  <2>1. ASSUME NEW r \in Readers, Read(r) PROVE RedisInv'
    BY <1>1, <2>1, LookupSteps, RememberStep, StoreSteps DEF Read
  <2>2. ASSUME NEW w \in Writers, Write(w) PROVE RedisInv'
    BY <1>1, <2>2, CommitStep, ClearStep, IncrSteps, ClearEnds DEF Write
  <2>3. CASE UNCHANGED rvars
    BY <1>1, <2>3 DEF rvars, RedisInv, CountersInv, SharedInv, InstInv, InstOK, RequestsInv,
                      GetterOK, MutatorOK, SharedPayloadsAreCurrent,
                      FallbackPayloadsAreCurrent, Misses
  <2>4. QED
    BY <1>1, <2>1, <2>2, <2>3, TimeSteps DEF RNext
<1>2. QED
  BY <1>1, RedisStarts, PTL DEF RSpec

\* A payload found under a generation misses only mutations whose INCR is
\* still to come, failed, or made a later generation, whatever instances
\* fetch, remember and lose (RedisResponseCache.Get, Set and Clear).
THEOREM SharedCurrent == RSpec => []SharedPayloadsAreCurrent
<1>1. RedisInv => SharedPayloadsAreCurrent
  BY DEF RedisInv, SharedInv
<1>2. QED
  BY <1>1, RedisInvariant, PTL

\* A payload in an instance's own map misses only mutations of others, or
\* ones not cleared there yet.
THEOREM FallbackCurrent == RSpec => []FallbackPayloadsAreCurrent
<1>1. RedisInv => FallbackPayloadsAreCurrent
  BY DEF RedisInv, InstInv
<1>2. QED
  BY <1>1, RedisInvariant, PTL

\* No instance and no request works with a generation Redis has not reached.
THEOREM NoneAhead == RSpec => []NobodyIsAhead
<1>1. RedisInv => NobodyIsAhead
  BY DEF RedisInv, InstInv, InstOK, RequestsInv, GetterOK, NobodyIsAhead
<1>2. QED
  BY <1>1, RedisInvariant, PTL

=============================================================================
