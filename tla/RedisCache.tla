----------------------------- MODULE RedisCache -----------------------------
(***************************************************************************)
(* The response cache of several server instances that share one Redis.    *)
(* A payload is stored under the generation its writer read; Clear bumps   *)
(* the generation.  An instance remembers the generation for a while, and  *)
(* any Redis command may fail, with or without having taken effect: then   *)
(* the instance uses its own in-memory map.                                *)
(***************************************************************************)
EXTENDS CachedDatabase

CONSTANTS
    Instances,
    MaxFailures   \* bound: Redis commands that fail in a behaviour

ASSUME RedisAssumption == MaxFailures \in Nat

VARIABLES
    generation,   \* the counter under genKey, 0 when the key is missing
    shared,       \* shared[g][k]: what Redis holds under fullKey(g, k)
    inst,         \* inst[i]: c.gen, whether genFetched is recent, c.fallback
    getter,       \* getter[r]: a GET request of an instance, and how far it is
    mutator,      \* mutator[w]: the mutation of w, and how far its Clear is
    bumped,       \* history: bumped[x], the generation mutation x's INCR made
    clearedAt,    \* history: the instance whose map mutation x has cleared
    failures      \* how many commands have failed

rvars == <<version, generation, shared, inst, getter, mutator, bumped,
           clearedAt, failures>>

history == <<bumped, clearedAt, failures>>

Generations == 0 .. MaxVersion

\* What an idle request has for an instance and a key.
None == "none"

\* for: what generation() is called for, Get or Set.
IdleGetter ==
    [pc |-> "idle", at |-> None, key |-> None, for |-> "get", gen |-> 0,
     version |-> 0, late |-> FALSE, lateHere |-> FALSE]

IdleMutator == [pc |-> "idle", at |-> None, version |-> 0, gen |-> 0]

\* bumped[x] before the INCR of x, and after it failed without effect.
Pending == MaxVersion + 1
Failed == MaxVersion + 2

RInit ==
    /\ version = 0
    /\ generation = 0
    /\ shared = [g \in Generations |-> NewResponseCache]
    /\ inst = [i \in Instances |-> [gen |-> 0, fresh |-> FALSE,
                                    fallback |-> NewResponseCache]]
    /\ getter = [r \in Readers |-> IdleGetter]
    /\ mutator = [w \in Writers |-> IdleMutator]
    /\ bumped = [x \in Versions |-> Pending]
    /\ clearedAt = [x \in Versions |-> {}]
    /\ failures = 0

-----------------------------------------------------------------------------
(* Get and Set                                                             *)

Request(r, i, k) ==
    /\ getter[r].pc = "idle"
    /\ getter' = [getter EXCEPT ![r] =
          [IdleGetter EXCEPT !.pc = "generation", !.at = i, !.key = k]]
    /\ UNCHANGED <<version, generation, shared, inst, mutator, history>>

\* What follows a known generation: the command on fullKey.
Command(r) == IF getter[r].for = "get" THEN "lookup" ELSE "store"

\* generation() with a recent local copy.
GenerationCached(r) ==
    /\ getter[r].pc = "generation"
    /\ inst[getter[r].at].fresh
    /\ getter' = [getter EXCEPT ![r].pc = Command(r), ![r].gen = inst[getter[r].at].gen]
    /\ UNCHANGED <<version, generation, shared, inst, mutator, history>>

\* generation() asks Redis, outside the lock ...
GenerationFetched(r) ==
    /\ getter[r].pc = "generation"
    /\ ~inst[getter[r].at].fresh
    /\ getter' = [getter EXCEPT ![r].pc = "remember", ![r].gen = generation]
    /\ UNCHANGED <<version, generation, shared, inst, mutator, history>>

\* ... and then writes what it was told over whatever is there.
GenerationRemembered(r) ==
    /\ getter[r].pc = "remember"
    /\ inst' = [inst EXCEPT ![getter[r].at].gen = getter[r].gen,
                            ![getter[r].at].fresh = TRUE]
    /\ getter' = [getter EXCEPT ![r].pc = Command(r)]
    /\ UNCHANGED <<version, generation, shared, mutator, history>>

\* The answer of a hit; a miss goes on to the queries.
Answered(r, entries) ==
    getter' = [getter EXCEPT ![r] =
        IF Get(entries, getter[r].key) THEN IdleGetter
        ELSE [@ EXCEPT !.pc = "query"]]

\* Mutant of fullKey: the generation is left out of the key.
fullKeyUngenerated(gen) == 0

\* fullKey embeds the generation.
fullKey(gen) == gen

Lookup(r) ==
    /\ getter[r].pc = "lookup"
    /\ Answered(r, shared[fullKey(getter[r].gen)])
    /\ UNCHANGED <<version, generation, shared, inst, mutator, history>>

\* A GET fails, of the generation or of the payload: fallback.Get.
FallbackGet(r) ==
    /\ failures < MaxFailures /\ failures' = failures + 1
    /\ \/ /\ getter[r].pc = "generation" /\ getter[r].for = "get"
          /\ ~inst[getter[r].at].fresh
       \/ getter[r].pc = "lookup"
    /\ Answered(r, inst[getter[r].at].fallback)
    /\ UNCHANGED <<version, generation, shared, inst, mutator, bumped, clearedAt>>

\* The endpoint's queries, then Set.
QueryDatabase(r) ==
    /\ getter[r].pc = "query"
    /\ getter' = [getter EXCEPT ![r].pc = "generation", ![r].for = "set",
                                ![r].version = version]
    /\ UNCHANGED <<version, generation, shared, inst, mutator, history>>

\* They fail, or the payload is larger than redisMaxValue: nothing is cached.
QueryUncached(r) ==
    /\ getter[r].pc = "query"
    /\ getter' = [getter EXCEPT ![r] = IdleGetter]
    /\ UNCHANGED <<version, generation, shared, inst, mutator, history>>

\* SET of the payload takes effect.
SetShared(r) ==
    shared' = [shared EXCEPT ![fullKey(getter[r].gen)][getter[r].key] =
                  [state |-> "valid", version |-> getter[r].version,
                   late |-> getter[r].late]]

Store(r) ==
    /\ getter[r].pc = "store"
    /\ SetShared(r)
    /\ getter' = [getter EXCEPT ![r] = IdleGetter]
    /\ UNCHANGED <<version, generation, inst, mutator, history>>

\* The generation cannot be read, or the SET answers an error, whether or
\* not it took effect: fallback.Set.
FallbackSet(r) ==
    /\ failures < MaxFailures /\ failures' = failures + 1
    /\ \/ /\ getter[r].pc = "generation" /\ getter[r].for = "set"
          /\ ~inst[getter[r].at].fresh
          /\ UNCHANGED shared
       \/ /\ getter[r].pc = "store"
          /\ SetShared(r) \/ UNCHANGED shared
    /\ inst' = [inst EXCEPT ![getter[r].at].fallback =
                   Set(@, getter[r].key, getter[r].version, getter[r].lateHere)]
    /\ getter' = [getter EXCEPT ![r] = IdleGetter]
    /\ UNCHANGED <<version, generation, mutator, bumped, clearedAt>>

-----------------------------------------------------------------------------
(* Clear                                                                   *)

CommitAt(w, i) ==
    /\ mutator[w].pc = "idle"
    /\ version < MaxVersion
    /\ version' = version + 1
    /\ mutator' = [mutator EXCEPT ![w] =
          [IdleMutator EXCEPT !.pc = "clear", !.at = i, !.version = version + 1]]
    /\ UNCHANGED <<generation, shared, inst, getter, history>>

\* Mutant of ClearFallback: the map keeps its entries.
ClearFallbackSkipped(w) ==
    /\ mutator[w].pc = "clear"
    /\ clearedAt' = [clearedAt EXCEPT ![mutator[w].version] = {mutator[w].at}]
    /\ mutator' = [mutator EXCEPT ![w].pc = "incr"]
    /\ UNCHANGED <<version, generation, shared, inst, getter, bumped, failures>>

\* Clear starts with the instance's own map ...  lateHere: a payload that is
\* computed and has still to be stored is overtaken by it.
ClearFallback(w) ==
    /\ mutator[w].pc = "clear"
    /\ inst' = [inst EXCEPT ![mutator[w].at].fallback = NewResponseCache]
    /\ getter' = [r \in Readers |->
          [getter[r] EXCEPT
             !.lateHere = @ \/ (getter[r].for = "set" /\ getter[r].at = mutator[w].at)]]
    /\ clearedAt' = [clearedAt EXCEPT ![mutator[w].version] = {mutator[w].at}]
    /\ mutator' = [mutator EXCEPT ![w].pc = "incr"]
    /\ UNCHANGED <<version, generation, shared, bumped, failures>>

\* late: the same for a payload on its way to Redis.
IncrTakesEffect(w) ==
    /\ generation' = generation + 1
    /\ bumped' = [bumped EXCEPT ![mutator[w].version] = generation + 1]
    /\ getter' = [r \in Readers |->
          [getter[r] EXCEPT !.late = @ \/ getter[r].for = "set"]]

\* ... then INCR makes every older generation unreachable ...
Incr(w) ==
    /\ mutator[w].pc = "incr"
    /\ IncrTakesEffect(w)
    /\ mutator' = [mutator EXCEPT ![w].pc = "remember", ![w].gen = generation + 1]
    /\ UNCHANGED <<version, shared, inst, clearedAt, failures>>

\* Mutant of Remember: the local copy is counted up instead.
RememberCounts(w) ==
    /\ mutator[w].pc = "remember"
    /\ inst' = [inst EXCEPT ![mutator[w].at].gen = @ + 1,
                            ![mutator[w].at].fresh = TRUE]
    /\ mutator' = [mutator EXCEPT ![w].pc = "announce"]
    /\ UNCHANGED <<version, generation, shared, getter, history>>

\* ... and the instance remembers the generation INCR answered.
Remember(w) ==
    /\ mutator[w].pc = "remember"
    /\ inst' = [inst EXCEPT ![mutator[w].at].gen = mutator[w].gen,
                            ![mutator[w].at].fresh = TRUE]
    /\ mutator' = [mutator EXCEPT ![w].pc = "announce"]
    /\ UNCHANGED <<version, generation, shared, getter, history>>

\* INCR answers an error, whether or not it took effect ...
IncrFails(w) ==
    /\ failures < MaxFailures /\ failures' = failures + 1
    /\ mutator[w].pc = "incr"
    /\ \/ IncrTakesEffect(w)
       \/ /\ bumped' = [bumped EXCEPT ![mutator[w].version] = Failed]
          /\ UNCHANGED <<generation, getter>>
    /\ mutator' = [mutator EXCEPT ![w].pc = "forget"]
    /\ UNCHANGED <<version, shared, inst, clearedAt>>

\* ... and the instance forgets when it last fetched the generation.
Forget(w) ==
    /\ mutator[w].pc = "forget"
    /\ inst' = [inst EXCEPT ![mutator[w].at].fresh = FALSE]
    /\ mutator' = [mutator EXCEPT ![w].pc = "announce"]
    /\ UNCHANGED <<version, generation, shared, getter, history>>

AnnounceAt(w) ==
    /\ mutator[w].pc = "announce"
    /\ mutator' = [mutator EXCEPT ![w] = IdleMutator]
    /\ UNCHANGED <<version, generation, shared, inst, getter, history>>

-----------------------------------------------------------------------------
(* Time                                                                    *)

\* redisGenCacheFor passes.
GenerationAges(i) ==
    /\ inst[i].fresh
    /\ inst' = [inst EXCEPT ![i].fresh = FALSE]
    /\ UNCHANGED <<version, generation, shared, getter, mutator, history>>

\* The TTL of a Redis key, or of an entry of a fallback, passes.
SharedExpires(g, k) ==
    /\ Get(shared[g], k)
    /\ shared' = [shared EXCEPT ![g][k] = Absent]
    /\ UNCHANGED <<version, generation, inst, getter, mutator, history>>

FallbackExpires(i, k) ==
    /\ Get(inst[i].fallback, k)
    /\ inst' = [inst EXCEPT ![i].fallback = Expire(@, k)]
    /\ UNCHANGED <<version, generation, shared, getter, mutator, history>>

-----------------------------------------------------------------------------
Read(r) ==
    \/ \E i \in Instances, k \in Keys : Request(r, i, k)
    \/ GenerationCached(r) \/ GenerationFetched(r) \/ GenerationRemembered(r)
    \/ Lookup(r) \/ FallbackGet(r) \/ QueryDatabase(r) \/ QueryUncached(r)
    \/ Store(r) \/ FallbackSet(r)

Write(w) ==
    \/ \E i \in Instances : CommitAt(w, i)
    \/ ClearFallback(w) \/ Incr(w) \/ Remember(w) \/ IncrFails(w) \/ Forget(w)
    \/ AnnounceAt(w)

RNext ==
    \/ \E r \in Readers : Read(r)
    \/ \E w \in Writers : Write(w)
    \/ \E i \in Instances : GenerationAges(i) \/ \E k \in Keys : FallbackExpires(i, k)
    \/ \E g \in Generations, k \in Keys : SharedExpires(g, k)

RSpec == RInit /\ [][RNext]_rvars

-----------------------------------------------------------------------------
(* Properties                                                              *)

\* A payload a request finds with generation g, unless it was overtaken,
\* misses a mutation only if its INCR is still to come, failed, or made a
\* later generation than g: who knows the generation the mutation made never
\* finds it (fullKey with Set and Clear), however stale the generation its
\* writer remembered.
SharedPayloadsAreCurrent ==
    \A g \in Generations, k \in Keys :
        LET e == shared[fullKey(g)][k] IN
        e.state = "valid" /\ ~e.late =>
            \A x \in Versions : Misses(e.version, x) => bumped[x] > g

\* A payload in an instance's own map that was not overtaken misses only
\* mutations made through other instances, or not cleared here yet.
FallbackPayloadsAreCurrent ==
    \A i \in Instances, k \in Keys :
        LET e == inst[i].fallback[k] IN
        e.state # "absent" /\ ~e.late =>
            \A x \in Versions : Misses(e.version, x) => clearedAt[x] # {i}

\* No instance and no request works with a generation Redis has not reached:
\* a payload stored under it would come back to life when INCR gets there.
NobodyIsAhead ==
    /\ \A i \in Instances : inst[i].gen <= generation
    /\ \A r \in Readers : getter[r].gen <= generation

=============================================================================
