----------------------------- MODULE Migrations -----------------------------
(***************************************************************************)
(* Servers that start against one database and bring its schema up to date *)
(* with RunCRMMigrations.  No lock and no transaction covers a migration:  *)
(* the check of its record, each of its statements and its record are      *)
(* statements of their own.  A failure is logged and the server serves     *)
(* all the same; only a restart tries again.                               *)
(***************************************************************************)
EXTENDS Integers, Sequences

CONSTANTS
    Servers,
    Body,       \* the statements of each migration file, in order of version
    Objects     \* tables, columns, indexes and constraints they are about

Statements == [kind : {"create", "drop", "add"}, object : Objects, soft : BOOLEAN]

\* There is a file, and no file is empty.
ASSUME MigrationAssumption ==
    /\ Body \in Seq(Seq(Statements)) /\ Len(Body) > 0
    /\ \A v \in DOMAIN Body : Len(Body[v]) > 0

\* A file that drops an object adds it again, further on, and no other file
\* is about it (000006 replaces its foreign keys).
ASSUME ReplaceAssumption ==
    \A v \in DOMAIN Body : \A k \in DOMAIN Body[v] :
        Body[v][k].kind = "drop" =>
            /\ \E j \in k + 1 .. Len(Body[v]) :
                  /\ Body[v][j].kind # "drop" /\ ~Body[v][j].soft
                  /\ Body[v][j].object = Body[v][k].object
            /\ \A w \in DOMAIN Body \ {v} : \A j \in DOMAIN Body[w] :
                  Body[w][j].object # Body[v][k].object

VARIABLES
    schema,     \* objects that exist
    recorded,   \* versions in schema_migrations
    server,     \* where each server is in its start
    torn        \* history: objects that a server which stopped half-way left
                \* dropped, while another had done or did the same migration

mvars == <<schema, recorded, server, torn>>

Versions == DOMAIN Body
Down == [pc |-> "down", v |-> 1, k |-> 1, failed |-> FALSE]

\* A database the earlier start-up code has changed may hold any object.
MInit ==
    /\ schema \in SUBSET Objects
    /\ recorded = {}
    /\ server = [s \in Servers |-> Down]
    /\ torn = {}

-----------------------------------------------------------------------------

\* What a statement does; ADD CONSTRAINT fails on one that exists.
Effect(stmt, objects) ==
    IF stmt.kind = "drop" THEN objects \ {stmt.object} ELSE objects \cup {stmt.object}
Accepts(stmt, objects) == stmt.kind = "add" => stmt.object \notin objects

Statement(s) == Body[server[s].v][server[s].k]

\* Objects the rest of s's migration would still bring about.
Owed(s) ==
    IF server[s].pc # "apply" THEN {}
    ELSE {Body[server[s].v][k].object : k \in {j \in server[s].k .. Len(Body[server[s].v]) :
                                                  Body[server[s].v][j].kind # "drop"}}

\* s stops in the middle of a migration another server is at or has recorded.
Tear(s) ==
    LET v == server[s].v
        shared == \/ v \in recorded
                  \/ \E t \in Servers \ {s} :
                        server[t].v = v /\ server[t].pc \in {"apply", "record"} IN
    torn' = IF shared THEN torn \cup (Owed(s) \ schema') ELSE torn

\* The next version, or the end of the loop.
Advance(s) ==
    server' = [server EXCEPT ![s] =
        IF server[s].v = Len(Body) THEN [@ EXCEPT !.pc = "seed"]
        ELSE [@ EXCEPT !.pc = "check", !.v = server[s].v + 1, !.k = 1]]

\* Mutant of GiveUp: the loop goes on with the next version.
SkipVersion(s) == Advance(s) /\ Tear(s)

\* RunCRMMigrations returns an error: main logs it and goes on.
GiveUp(s) ==
    /\ server' = [server EXCEPT ![s].pc = "seed", ![s].failed = TRUE]
    /\ Tear(s)

\* The ping succeeded.
Start(s) ==
    /\ server[s].pc = "down"
    /\ server' = [server EXCEPT ![s].pc = "check"]
    /\ UNCHANGED <<schema, recorded, torn>>

\* The ping failed: the server serves without having migrated.
StartUnpinged(s) ==
    /\ server[s].pc = "down"
    /\ server' = [server EXCEPT ![s].pc = "serving", ![s].failed = TRUE]
    /\ UNCHANGED <<schema, recorded, torn>>

\* Mutant of Check: a migration whose objects exist counts as recorded.
CheckObjects(s) ==
    /\ server[s].pc = "check"
    /\ IF \E k \in DOMAIN Body[server[s].v] : Body[server[s].v][k].object \in schema
       THEN Advance(s)
       ELSE server' = [server EXCEPT ![s].pc = "apply"]
    /\ UNCHANGED <<schema, recorded, torn>>

\* SELECT EXISTS.
Check(s) ==
    /\ server[s].pc = "check"
    /\ IF server[s].v \in recorded
       THEN Advance(s)
       ELSE server' = [server EXCEPT ![s].pc = "apply"]
    /\ UNCHANGED <<schema, recorded, torn>>

\* The table of records cannot be created or read.
CheckFails(s) ==
    /\ server[s].pc = "check"
    /\ UNCHANGED <<schema, recorded>>
    /\ GiveUp(s)

\* The statement before which s is has been dealt with.
Continue(s) ==
    server' = [server EXCEPT ![s] =
        IF server[s].k = Len(Body[server[s].v]) THEN [@ EXCEPT !.pc = "record"]
        ELSE [@ EXCEPT !.k = server[s].k + 1]]

\* execMigrationSQL, one statement.
Exec(s) ==
    /\ server[s].pc = "apply"
    /\ Accepts(Statement(s), schema)
    /\ schema' = Effect(Statement(s), schema)
    /\ Continue(s)
    /\ torn' = torn \ {Statement(s).object}
    /\ UNCHANGED recorded

\* Mutant of ExecFails: every failed statement is passed over.
ExecFailsSoftly(s) ==
    /\ server[s].pc = "apply"
    /\ Continue(s)
    /\ UNCHANGED <<schema, recorded, torn>>

\* An error is returned (refused, already there, or out of time, in which
\* case it may have taken effect): a trigram statement is passed over, any
\* other ends the migration.
ExecFails(s) ==
    /\ server[s].pc = "apply"
    /\ \/ UNCHANGED schema
       \/ Accepts(Statement(s), schema) /\ schema' = Effect(Statement(s), schema)
    /\ \/ Statement(s).soft /\ Continue(s) /\ UNCHANGED torn
       \/ ~Statement(s).soft /\ GiveUp(s)
    /\ UNCHANGED recorded

\* The record's primary key refuses a second one, and an INSERT that is out
\* of time may have taken effect.
Record(s) ==
    /\ server[s].pc = "record"
    /\ UNCHANGED schema
    /\ \/ /\ server[s].v \notin recorded
          /\ recorded' = recorded \cup {server[s].v}
          /\ Advance(s)
          /\ UNCHANGED torn
       \/ /\ recorded' \in {recorded, recorded \cup {server[s].v}}
          /\ GiveUp(s)

\* SeedKpiTargets touches rows only, and its error is logged.
SeedKpiTargets(s) ==
    /\ server[s].pc = "seed"
    /\ server' = [server EXCEPT ![s].pc = "serving"]
    /\ UNCHANGED <<schema, recorded, torn>>

\* The process ends, wherever it is.
Crash(s) ==
    /\ server[s].pc # "down"
    /\ server' = [server EXCEPT ![s] = Down]
    /\ UNCHANGED <<schema, recorded>>
    /\ Tear(s)

MStep(s) ==
    \/ Start(s) \/ StartUnpinged(s) \/ Check(s) \/ CheckFails(s) \/ Exec(s) \/ ExecFails(s)
    \/ Record(s) \/ SeedKpiTargets(s)

MNext == \E s \in Servers : MStep(s) \/ Crash(s)

MSpec == MInit /\ [][MNext]_mvars

-----------------------------------------------------------------------------
(* Properties                                                              *)

\* A start-up is somewhere in the files, or past them.
MTypeOK ==
    /\ schema \subseteq Objects /\ recorded \subseteq Versions /\ torn \subseteq Objects
    /\ \A s \in Servers :
          /\ server[s].pc \in {"down", "check", "apply", "record", "seed", "serving"}
          /\ server[s].v \in Versions /\ server[s].k \in DOMAIN Body[server[s].v]
          /\ server[s].failed \in BOOLEAN

\* What migration v leaves behind when every hard statement took effect.
Results(v) ==
    {Body[v][k].object : k \in {j \in DOMAIN Body[v] :
        Body[v][j].kind # "drop" /\ ~Body[v][j].soft}}

\* A recorded migration has taken effect.  Exempt: an object that another
\* server, which checked before the record was there, has dropped and is
\* about to add again, and one that such a server left dropped (torn).
RecordedIsApplied ==
    \A v \in recorded : Results(v) \subseteq
        schema \cup torn \cup UNION {Owed(s) : s \in {t \in Servers : server[t].v = v}}

\* Migrations are recorded in the order of their versions, without a gap,
\* whatever fails or crashes in between and however many servers start.
RecordedInOrder ==
    \A v \in recorded : 1 .. v \subseteq recorded

\* A server that logged no failure serves with every migration recorded.
ServingMeansMigrated ==
    \A s \in Servers :
        server[s].pc \in {"seed", "serving"} /\ ~server[s].failed => Versions \subseteq recorded

=============================================================================
