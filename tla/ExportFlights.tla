--------------------------- MODULE ExportFlights ----------------------------
(***************************************************************************)
(* The lock that lets each user run one export at a time.  It is taken by  *)
(* user id and start time, given back by user id alone, and void after ten *)
(* minutes; the query of an export is cut off after three, but its answer  *)
(* is written without any limit.                                           *)
(***************************************************************************)
EXTENDS Integers, FiniteSets

CONSTANTS
    Exporters,
    Exports,    \* requests for an export
    LockTime,   \* how long a lock counts
    MaxClock    \* bound: the last instant of the clock

ASSUME FlightAssumption == LockTime \in Nat \ {0} /\ MaxClock \in Nat

VARIABLES
    clock,
    active,     \* exportFlightLock.active: when the user's export began
    export,     \* the requests
    outlived    \* history: users one of whose exports ran longer than its lock

fvars == <<clock, active, export, outlived>>

Free == -1

Running(u) == {e \in Exports : export[e] = [pc |-> "running", user |-> u]}

FInit ==
    /\ clock = 0
    /\ active = [u \in Exporters |-> Free]
    /\ export = [e \in Exports |-> [pc |-> "idle", user |-> CHOOSE u \in Exporters : TRUE]]
    /\ outlived = {}

Taken(u) == active[u] # Free /\ clock - active[u] < LockTime

\* acquire succeeds: the export begins.
acquire(e, u) ==
    /\ export[e].pc = "idle" /\ ~Taken(u)
    /\ active' = [active EXCEPT ![u] = clock]
    /\ export' = [export EXCEPT ![e] = [pc |-> "running", user |-> u]]
    /\ outlived' = IF Running(u) = {} THEN outlived ELSE outlived \cup {u}
    /\ UNCHANGED clock

\* Mutant of TooManyRequests: the deferred release covers the refusal too.
RefuseAndRelease(e, u) ==
    /\ export[e].pc = "idle" /\ Taken(u)
    /\ export' = [export EXCEPT ![e] = [pc |-> "ended", user |-> u]]
    /\ active' = [active EXCEPT ![u] = Free]
    /\ UNCHANGED <<clock, outlived>>

\* acquire fails: 429, and nothing is deferred.
TooManyRequests(e, u) ==
    /\ export[e].pc = "idle" /\ Taken(u)
    /\ export' = [export EXCEPT ![e] = [pc |-> "ended", user |-> u]]
    /\ UNCHANGED <<clock, active, outlived>>

\* The deferred release, whether the export was sent, failed or panicked.
release(e) ==
    /\ export[e].pc = "running"
    /\ export' = [export EXCEPT ![e].pc = "ended"]
    /\ active' = [active EXCEPT ![export[e].user] = Free]
    /\ UNCHANGED <<clock, outlived>>

FTick ==
    /\ clock < MaxClock
    /\ clock' = clock + 1
    /\ UNCHANGED <<active, export, outlived>>

FNext ==
    \/ \E e \in Exports, u \in Exporters : acquire(e, u) \/ TooManyRequests(e, u)
    \/ \E e \in Exports : release(e)
    \/ FTick

FSpec == FInit /\ [][FNext]_fvars

-----------------------------------------------------------------------------

\* A user runs one export at a time, and is locked out exactly as long as it
\* runs.  Exempt is a user who began another after ten minutes of the first:
\* the first one's release then frees the lock of the second.
ExportsAreSerial ==
    \A u \in Exporters \ outlived :
        /\ Cardinality(Running(u)) <= 1
        /\ active[u] # Free <=> Running(u) # {}

=============================================================================
