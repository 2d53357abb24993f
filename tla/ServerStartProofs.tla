-------------------------- MODULE ServerStartProofs -------------------------
(***************************************************************************)
(* The migrations of servers that start together are recorded in order,    *)
(* and a server without a logged failure serves a migrated database, for   *)
(* any number of servers and any sequence of files.                        *)
(***************************************************************************)
EXTENDS ServerStart, TLAPS

\* Where a server is in the files, and what the records say of it: every
\* version before its own is recorded, and all are once it got through.
PlaceOK(s) ==
    /\ server[s].pc \in {"down", "check", "apply", "record", "seed", "serving"}
    /\ server[s].v \in 1 .. Len(Body)
    /\ server[s].pc = "down" => server[s].v = 1
    /\ server[s].pc \in {"check", "apply", "record"} => 1 .. (server[s].v - 1) \subseteq recorded
    /\ server[s].pc \in {"seed", "serving"} /\ ~server[s].failed => 1 .. Len(Body) \subseteq recorded

Rows == [pc : {"down", "check", "apply", "record", "seed", "serving"},
         v : 1 .. Len(Body), k : Nat, failed : BOOLEAN]

\* The inductive invariant.
StartInv ==
    /\ server \in [Servers -> Rows]
    /\ recorded \subseteq 1 .. Len(Body)
    /\ RecordedInOrder
    /\ \A s \in Servers : PlaceOK(s)

\* Body is a sequence with a first file.
LEMMA Files == Len(Body) \in Nat /\ Len(Body) > 0 /\ DOMAIN Body = 1 .. Len(Body)
BY MigrationAssumption

LEMMA InitInv == MInit => StartInv
<1> SUFFICES ASSUME MInit PROVE StartInv
  OBVIOUS
<1>1. Down \in Rows
  BY Files DEF Down, Rows
<1>2. server \in [Servers -> Rows]
  BY <1>1 DEF MInit
<1>3. ASSUME NEW s \in Servers PROVE PlaceOK(s)
  <2>1. server[s].pc = "down" /\ server[s].v = 1
    BY DEF MInit, Down
  <2> QED
    BY <2>1, Files DEF PlaceOK
<1> QED
  BY <1>2, <1>3 DEF MInit, StartInv, RecordedInOrder

\* A step of s that only moves s, to a place that agrees with the records
\* it leaves, keeps the invariant: no step takes a record away.
LEMMA Moved ==
    ASSUME StartInv, NEW s \in Servers, NEW row \in Rows,
           server' = [server EXCEPT ![s] = row],
           recorded \subseteq recorded', recorded' \subseteq 1 .. Len(Body),
           RecordedInOrder', PlaceOK(s)'
    PROVE  StartInv'
<1>1. server' \in [Servers -> Rows]
  BY DEF StartInv
<1>2. ASSUME NEW t \in Servers PROVE PlaceOK(t)'
  <2>1. CASE t = s
    BY <2>1
  <2>2. CASE t # s
    <3>1. server'[t] = server[t] /\ PlaceOK(t)
      BY <2>2 DEF StartInv
    <3> QED
      BY <3>1 DEF PlaceOK
  <2> QED
    BY <2>1, <2>2
<1> QED
  BY <1>1, <1>2 DEF StartInv

\* The next version, when the one s is at is recorded.
LEMMA Advances ==
    ASSUME StartInv, NEW s \in Servers, Advance(s),
           server[s].pc \in {"check", "record"},
           recorded' = recorded \/ recorded' = recorded \cup {server[s].v},
           server[s].v \in recorded'
    PROVE  StartInv'
<1>0. server[s] \in Rows /\ PlaceOK(s) /\ server[s].v \in Nat
  BY Files DEF StartInv, Rows
<1>1. 1 .. server[s].v \subseteq recorded'
  BY <1>0, Files DEF PlaceOK, Rows
<1>2. RecordedInOrder'
  BY <1>0, <1>1 DEF StartInv, RecordedInOrder
<1>3. recorded \subseteq recorded' /\ recorded' \subseteq 1 .. Len(Body)
  BY <1>0 DEF StartInv, PlaceOK
<1>4. CASE server[s].v = Len(Body)
  <2> DEFINE row == [server[s] EXCEPT !.pc = "seed"]
  <2>1. server' = [server EXCEPT ![s] = row] /\ row \in Rows
    BY <1>0, <1>4 DEF Advance, Rows
  <2>2. server'[s] = row
    BY <2>1 DEF StartInv
  <2>3. PlaceOK(s)'
    BY <1>0, <1>1, <1>4, <2>2, Files DEF PlaceOK, Rows
  <2> HIDE DEF row
  <2> QED
    BY <1>2, <1>3, <2>1, <2>3, Moved
<1>5. CASE server[s].v # Len(Body)
  <2> DEFINE row == [server[s] EXCEPT !.pc = "check", !.v = server[s].v + 1, !.k = 1]
  <2>0. server[s].v + 1 \in 1 .. Len(Body)
    BY <1>0, <1>5, Files DEF PlaceOK
  <2>1. server' = [server EXCEPT ![s] = row] /\ row \in Rows
    BY <1>0, <1>5, <2>0 DEF Advance, Rows
  <2>2. server'[s] = row
    BY <2>1 DEF StartInv
  <2>3. PlaceOK(s)'
    BY <1>0, <1>1, <1>5, <2>2, Files DEF PlaceOK, Rows
  <2> HIDE DEF row
  <2> QED
    BY <1>2, <1>3, <2>1, <2>3, Moved
<1> QED
  BY <1>4, <1>5

\* The error that is logged: nothing is promised of this server any more.
LEMMA GivesUp ==
    ASSUME StartInv, NEW s \in Servers, GiveUp(s),
           server[s].pc \in {"check", "apply", "record"},
           recorded' = recorded
             \/ (server[s].pc = "record" /\ recorded' = recorded \cup {server[s].v})
    PROVE  StartInv'
<1>0. server[s] \in Rows /\ PlaceOK(s)
  BY DEF StartInv
<1> DEFINE row == [server[s] EXCEPT !.pc = "seed", !.failed = TRUE]
<1>1. server' = [server EXCEPT ![s] = row] /\ row \in Rows
  BY <1>0 DEF GiveUp, Rows, StartInv
<1>2. server'[s] = row
  BY <1>1 DEF StartInv
<1>3. PlaceOK(s)'
  BY <1>0, <1>2 DEF PlaceOK, Rows
<1>4. RecordedInOrder'
  <2>1. CASE recorded' = recorded
    BY <2>1 DEF StartInv, RecordedInOrder
  <2>2. CASE server[s].pc = "record" /\ recorded' = recorded \cup {server[s].v}
    <3>1. 1 .. server[s].v \subseteq recorded'
      BY <1>0, <2>2, Files DEF PlaceOK
    <3> QED
      BY <2>2, <3>1 DEF StartInv, RecordedInOrder
  <2> QED
    BY <2>1, <2>2
<1>5. recorded \subseteq recorded' /\ recorded' \subseteq 1 .. Len(Body)
  BY <1>0 DEF StartInv, PlaceOK
<1> HIDE DEF row
<1> QED
  BY <1>1, <1>3, <1>4, <1>5, Moved

\* A step of s that leaves the records alone and keeps its version.
LEMMA Stays ==
    ASSUME StartInv, NEW s \in Servers, NEW row \in Rows, UNCHANGED recorded,
           server' = [server EXCEPT ![s] = row], row.v = server[s].v,
           row.failed = server[s].failed,
           \/ server[s].pc = "down" /\ row.pc = "check"
           \/ server[s].pc \in {"check", "apply"} /\ row.pc \in {"apply", "record"}
           \/ server[s].pc = "seed" /\ row.pc = "serving"
    PROVE  StartInv'
<1>0. server[s] \in Rows /\ PlaceOK(s) /\ server'[s] = row
  BY DEF StartInv
<1>1. PlaceOK(s)'
  BY <1>0, Files DEF PlaceOK, Rows
<1>2. RecordedInOrder'
  BY DEF StartInv, RecordedInOrder
<1> QED
  BY <1>1, <1>2, Moved DEF StartInv

LEMMA Continues ==
    ASSUME StartInv, NEW s \in Servers, Continue(s), UNCHANGED recorded,
           server[s].pc = "apply"
    PROVE  StartInv'
<1>0. server[s] \in Rows
  BY DEF StartInv
<1> DEFINE last == [server[s] EXCEPT !.pc = "record"]
           next == [server[s] EXCEPT !.k = server[s].k + 1]
<1>1. last \in Rows /\ next \in Rows
  BY <1>0 DEF Rows
<1>2. \/ server' = [server EXCEPT ![s] = last]
      \/ server' = [server EXCEPT ![s] = next]
  <2>1. CASE server[s].k = Len(Body[server[s].v])
    BY <2>1 DEF Continue
  <2>2. CASE server[s].k # Len(Body[server[s].v])
    BY <2>2 DEF Continue
  <2> QED
    BY <2>1, <2>2
<1>3. last.v = server[s].v /\ last.failed = server[s].failed /\ last.pc = "record"
  BY <1>0 DEF Rows
<1>4. next.v = server[s].v /\ next.failed = server[s].failed /\ next.pc = "apply"
  BY <1>0 DEF Rows
<1> HIDE DEF last, next
<1> QED
  BY <1>1, <1>2, <1>3, <1>4, Stays

LEMMA StepInv ==
    ASSUME StartInv, NEW s \in Servers, MStep(s) \/ Crash(s)
    PROVE  StartInv'
<1>0. server[s] \in Rows /\ PlaceOK(s)
  BY DEF StartInv
<1>1. CASE Start(s)
  <2> DEFINE row == [server[s] EXCEPT !.pc = "check"]
  <2>1. row \in Rows /\ row.v = server[s].v /\ row.failed = server[s].failed /\ row.pc = "check"
    BY <1>0 DEF Rows
  <2>2. server' = [server EXCEPT ![s] = row]
    BY <1>1 DEF Start
  <2> HIDE DEF row
  <2> QED
    BY <1>1, <2>1, <2>2, Stays DEF Start
<1>2. CASE StartUnpinged(s)
  <2> DEFINE row == [server[s] EXCEPT !.pc = "serving", !.failed = TRUE]
  <2>1. row \in Rows /\ server' = [server EXCEPT ![s] = row]
    BY <1>0, <1>2 DEF StartUnpinged, Rows, StartInv
  <2>2. server'[s] = row
    BY <2>1 DEF StartInv
  <2>3. PlaceOK(s)'
    BY <1>0, <2>2 DEF PlaceOK, Rows
  <2> HIDE DEF row
  <2> QED
    BY <1>2, <2>1, <2>3, Moved DEF StartUnpinged, StartInv, RecordedInOrder
<1>3. CASE Check(s)
  <2>1. CASE server[s].v \in recorded
    BY <1>3, <2>1, Advances DEF Check
  <2>2. CASE server[s].v \notin recorded
    <3> DEFINE row == [server[s] EXCEPT !.pc = "apply"]
    <3>1. row \in Rows /\ row.v = server[s].v /\ row.failed = server[s].failed /\ row.pc = "apply"
      BY <1>0 DEF Rows
    <3>2. server' = [server EXCEPT ![s] = row]
      BY <1>3, <2>2 DEF Check
    <3> HIDE DEF row
    <3> QED
      BY <1>3, <3>1, <3>2, Stays DEF Check
  <2> QED
    BY <2>1, <2>2
<1>4. CASE CheckFails(s)
  BY <1>4, GivesUp DEF CheckFails
<1>5. CASE Exec(s)
  BY <1>5, Continues DEF Exec
<1>6. CASE ExecFails(s)
  BY <1>6, Continues, GivesUp DEF ExecFails
<1>7. CASE Record(s)
  BY <1>7, Advances, GivesUp DEF Record
<1>8. CASE SeedKpiTargets(s)
  <2> DEFINE row == [server[s] EXCEPT !.pc = "serving"]
  <2>1. row \in Rows /\ row.v = server[s].v /\ row.failed = server[s].failed /\ row.pc = "serving"
    BY <1>0 DEF Rows
  <2>2. server' = [server EXCEPT ![s] = row]
    BY <1>8 DEF SeedKpiTargets
  <2> HIDE DEF row
  <2> QED
    BY <1>8, <2>1, <2>2, Stays DEF SeedKpiTargets
<1>9. CASE Crash(s)
  <2>1. Down \in Rows /\ server' = [server EXCEPT ![s] = Down] /\ server'[s] = Down
    BY <1>9, Files DEF Crash, Down, Rows, StartInv
  <2>2. PlaceOK(s)'
    BY <2>1, Files DEF PlaceOK, Down
  <2> QED
    BY <1>9, <2>1, <2>2, Moved DEF Crash, StartInv, RecordedInOrder
<1> QED
  BY <1>1, <1>2, <1>3, <1>4, <1>5, <1>6, <1>7, <1>8, <1>9 DEF MStep

\* To the database a server with a limiter is a server that migrates: the
\* composition implements RunCRMMigrations' own specification.
THEOREM ServersMigrate == Spec => MSpec
<1>1. Init => MInit
  BY DEF Init
<1>2. [Next]_vars => [MNext]_mvars
  BY DEF Next, vars, MNext, ServerCrash, LoginFails, LoginSucceeds, TimePasses
<1> QED
  BY <1>1, <1>2, PTL DEF Spec, MSpec

LEMMA Inductive == MSpec => []StartInv
<1>1. StartInv /\ [MNext]_mvars => StartInv'
  <2> SUFFICES ASSUME StartInv, [MNext]_mvars PROVE StartInv'
    OBVIOUS
  <2>1. CASE MNext
    BY <2>1, StepInv DEF MNext
  <2>2. CASE UNCHANGED mvars
    BY <2>2 DEF mvars, StartInv, PlaceOK, RecordedInOrder
  <2> QED
    BY <2>1, <2>2
<1> QED
  BY InitInv, <1>1, PTL DEF MSpec

\* RunCRMMigrations records the versions in order and without a gap, for any
\* number of servers that start, fail and crash side by side.
THEOREM RecordsInOrder == Spec => []RecordedInOrder
<1>1. StartInv => RecordedInOrder
  BY DEF StartInv
<1> QED
  BY ServersMigrate, Inductive, <1>1, PTL

\* A server that logged no failure serves with every migration recorded.
THEOREM ServesMigrated == Spec => []ServingMeansMigrated
<1>1. StartInv => ServingMeansMigrated
  BY Files DEF StartInv, PlaceOK, ServingMeansMigrated, Versions
<1> QED
  BY ServersMigrate, Inductive, <1>1, PTL
-----------------------------------------------------------------------------
(* What is recorded has taken effect                                       *)

\* Statement j of migration v brings its object about, or the file fails.
Brings(v, j) == Body[v][j].kind # "drop" /\ ~Body[v][j].soft

\* What the statements of v before the k-th, or from it on, bring about.
Before(v, k) == {Body[v][j].object : j \in {i \in DOMAIN Body[v] : Brings(v, i) /\ i < k}}
From(v, k) == {Body[v][j].object : j \in {i \in DOMAIN Body[v] : Brings(v, i) /\ i >= k}}

\* Object o is there, was left dropped, or is about to be added by a server
\* that is at migration v.  (Owed also counts statements that may fail.)
There(v, o) ==
    \/ o \in schema \/ o \in torn
    \/ \E t \in Servers : /\ server[t].pc = "apply" /\ server[t].v = v
                          /\ o \in From(v, server[t].k)

\* The statements a server has behind it have taken effect.
Behind(s) ==
    /\ server[s].pc \in {"down", "check"} => server[s].k = 1
    /\ server[s].pc = "apply" =>
          /\ server[s].k \in DOMAIN Body[server[s].v]
          /\ \A o \in Before(server[s].v, server[s].k) : There(server[s].v, o)
    /\ server[s].pc = "record" => \A o \in Results(server[s].v) : There(server[s].v, o)

\* The strengthening of RecordedIsApplied.
AppliedInv ==
    /\ \A v \in recorded : \A o \in Results(v) : There(v, o)
    /\ \A s \in Servers : Behind(s)

\* Somebody relies on what migration v brings about: it is recorded, or a
\* server other than s has begun it.
Relied(v, s) ==
    \/ v \in recorded
    \/ \E t \in Servers \ {s} : server[t].v = v /\ server[t].pc \in {"apply", "record"}

LEMMA Parts ==
    ASSUME NEW v \in DOMAIN Body, NEW k \in DOMAIN Body[v]
    PROVE  /\ DOMAIN Body[v] = 1 .. Len(Body[v]) /\ Len(Body[v]) \in Nat
           /\ Len(Body[v]) > 0
           /\ Before(v, k) \subseteq Results(v) /\ From(v, k) \subseteq Results(v)
           /\ Before(v, 1) = {}
           /\ \A o \in Results(v) : o \in Before(v, k) \/ o \in From(v, k)
<1>1. Body[v] \in Seq(Statements) /\ Len(Body[v]) > 0
  BY MigrationAssumption
<1>2. DOMAIN Body[v] = 1 .. Len(Body[v]) /\ Len(Body[v]) \in Nat
  BY <1>1
<1>3. Results(v) = {Body[v][j].object : j \in {i \in DOMAIN Body[v] : Brings(v, i)}}
  BY DEF Results, Brings
<1>4. QED
  BY <1>1, <1>2, <1>3 DEF Before, From

\* An object dropped by migration v is another file's business nowhere, and
\* is added further on.
LEMMA Dropped ==
    ASSUME NEW v \in DOMAIN Body, NEW k \in DOMAIN Body[v], Body[v][k].kind = "drop"
    PROVE  /\ k # Len(Body[v])
           /\ Body[v][k].object \in From(v, k) /\ Body[v][k].object \in From(v, k + 1)
           /\ \A w \in DOMAIN Body \ {v} : Body[v][k].object \notin Results(w)
<1>1. DOMAIN Body[v] = 1 .. Len(Body[v]) /\ Len(Body[v]) \in Nat
  BY Parts
<1>2. PICK j \in k + 1 .. Len(Body[v]) : Brings(v, j) /\ Body[v][j].object = Body[v][k].object
  BY ReplaceAssumption DEF Brings
<1>3. \A w \in DOMAIN Body \ {v} : \A i \in DOMAIN Body[w] : Body[w][i].object # Body[v][k].object
  BY ReplaceAssumption
<1>4. j \in DOMAIN Body[v] /\ j >= k /\ j >= k + 1 /\ k # Len(Body[v])
  BY <1>1, <1>2
<1>5. QED
  BY <1>2, <1>3, <1>4 DEF From, Results
\* A step of s keeps the invariant when it takes away nothing anybody else
\* relies on, and s and the records it adds are right.
LEMMA Carries ==
    ASSUME StartInv, AppliedInv, NEW s \in Servers, NEW row \in Rows,
           server' = [server EXCEPT ![s] = row],
           \A v \in DOMAIN Body : \A o \in Results(v) :
               Relied(v, s) /\ There(v, o) => There(v, o)',
           \A v \in recorded' \ recorded : \A o \in Results(v) : There(v, o)',
           Behind(s)'
    PROVE  AppliedInv'
<1>1. \A t \in Servers : t # s => server'[t] = server[t]
  BY DEF StartInv
<1>2. ASSUME NEW v \in recorded', NEW o \in Results(v) PROVE There(v, o)'
  <2>1. CASE v \in recorded
    <3>1. v \in DOMAIN Body /\ Relied(v, s) /\ There(v, o)
      BY <2>1, Files DEF StartInv, AppliedInv, Relied
    <3>2. QED
      BY <3>1
  <2>2. CASE v \notin recorded
    BY <2>2
  <2>3. QED
    BY <2>1, <2>2
<1>3. ASSUME NEW t \in Servers, t # s PROVE Behind(t)'
  <2>1. PICK v \in DOMAIN Body : v = server[t].v
    BY Files DEF StartInv, PlaceOK
  <2>2. /\ Behind(t) /\ server'[t] = server[t]
        /\ server[t].pc \in {"apply", "record"} => Relied(v, s)
    BY <1>1, <1>3, <2>1 DEF AppliedInv, Relied
  <2>3. ASSUME server[t].pc = "apply", NEW o \in Before(v, server[t].k)
        PROVE  There(v, o)'
    <3>1. There(v, o)
      BY <2>1, <2>2, <2>3 DEF Behind
    <3>2. o \in Results(v)
      BY <2>1, <2>2, <2>3, Parts DEF Behind
    <3>3. QED
      BY <2>2, <2>3, <3>1, <3>2
  <2>4. ASSUME server[t].pc = "record", NEW o \in Results(v)
        PROVE  There(v, o)'
    BY <2>1, <2>2, <2>4 DEF Behind
  <2>5. QED
    BY <2>1, <2>2, <2>3, <2>4 DEF Behind
<1>4. QED
  BY <1>2, <1>3 DEF AppliedInv

\* A server that is not at a statement is nobody's promise.
LEMMA KeptAside ==
    ASSUME StartInv, NEW s \in Servers, NEW row, server[s].pc # "apply",
           server' = [server EXCEPT ![s] = row], schema' = schema, torn' = torn,
           NEW v, NEW o, There(v, o)
    PROVE  There(v, o)'
<1>1. \A t \in Servers : t # s => server'[t] = server[t]
  BY DEF StartInv
<1>2. CASE o \in schema \/ o \in torn
  BY <1>2 DEF There
<1>3. ASSUME NEW t \in Servers, server[t].pc = "apply", server[t].v = v,
             o \in From(v, server[t].k)
      PROVE  There(v, o)'
  <2>1. server'[t] = server[t]
    BY <1>1, <1>3
  <2>2. QED
    BY <1>3, <2>1 DEF There
<1>4. QED
  BY <1>2, <1>3 DEF There

\* A server that goes on to its next statement took the one before it, or
\* was allowed to pass it over.
LEMMA KeptOnward ==
    ASSUME StartInv, AppliedInv, NEW s \in Servers, server[s].pc = "apply", Continue(s),
           \/ schema' = Effect(Statement(s), schema) /\ torn' = torn \ {Statement(s).object}
           \/ schema' = Effect(Statement(s), schema) /\ torn' = torn /\ Statement(s).soft
           \/ schema' = schema /\ torn' = torn /\ Statement(s).soft,
           NEW v \in DOMAIN Body, NEW o \in Results(v), There(v, o)
    PROVE  There(v, o)'
<1> DEFINE w == server[s].v
           k == server[s].k
           stmt == Body[w][k]
<1>1. /\ server[s] \in Rows /\ w \in DOMAIN Body /\ k \in DOMAIN Body[w] /\ stmt = Statement(s)
  BY Files DEF StartInv, PlaceOK, AppliedInv, Behind, Statement
<1>2. DOMAIN Body[w] = 1 .. Len(Body[w]) /\ Len(Body[w]) \in Nat
  BY <1>1, Parts
<1>3. \A t \in Servers : t # s => server'[t] = server[t]
  BY DEF StartInv, Continue
<1>4. k # Len(Body[w]) => server'[s].pc = "apply" /\ server'[s].v = w /\ server'[s].k = k + 1
  <2> SUFFICES ASSUME k # Len(Body[w])
               PROVE  server'[s].pc = "apply" /\ server'[s].v = w /\ server'[s].k = k + 1
    OBVIOUS
  <2>1. server'[s] = [server[s] EXCEPT !.k = k + 1]
    BY DEF Continue, StartInv
  <2>2. QED
    BY <1>1, <2>1 DEF Rows
<1> HIDE DEF w, k, stmt
<1>5. ASSUME o \in From(w, k + 1), v = w PROVE There(v, o)'
  <2>1. k # Len(Body[w])
    BY <1>1, <1>2, <1>5 DEF From
  <2>2. QED
    BY <1>4, <1>5, <2>1 DEF There
<1>6. \/ o \in schema \/ o \in torn
      \/ (\E t \in Servers \ {s} : /\ server[t].pc = "apply" /\ server[t].v = v
                                   /\ o \in From(v, server[t].k))
      \/ v = w /\ o \in From(w, k)
  BY DEF There, w, k
<1>7. CASE \E t \in Servers \ {s} : /\ server[t].pc = "apply" /\ server[t].v = v
                                    /\ o \in From(v, server[t].k)
  <2>1. PICK t \in Servers \ {s} : /\ server[t].pc = "apply" /\ server[t].v = v
                                   /\ o \in From(v, server[t].k)
    BY <1>7
  <2>2. server'[t] = server[t]
    BY <1>3
  <2>3. QED
    BY <2>1, <2>2 DEF There
<1>8. CASE o = stmt.object
  <2>1. CASE stmt.kind = "drop"
    BY <1>1, <1>5, <1>8, <2>1, Dropped DEF stmt
  <2>2. CASE stmt.kind # "drop" /\ schema' = Effect(Statement(s), schema)
    BY <1>1, <1>8, <2>2 DEF Effect, There
  <2>3. CASE stmt.kind # "drop" /\ stmt.soft /\ schema' = schema /\ torn' = torn
    <3>1. CASE o \in schema \/ o \in torn
      BY <2>3, <3>1 DEF There
    <3>2. CASE v = w /\ o \in From(w, k)
      <4>1. o \in From(w, k + 1)
        BY <1>1, <1>2, <2>3, <3>2 DEF From, Brings, stmt
      <4>2. QED
        BY <1>5, <3>2, <4>1
    <3>3. QED
      BY <1>6, <1>7, <3>1, <3>2
  <2>4. QED
    BY <1>1, <2>1, <2>2, <2>3
<1>9. CASE o # stmt.object
  <2>1. (o \in schema => o \in schema') /\ (o \in torn => o \in torn')
    BY <1>1, <1>9 DEF Effect
  <2>2. CASE o \in schema \/ o \in torn
    BY <2>1, <2>2 DEF There
  <2>3. CASE v = w /\ o \in From(w, k)
    <3>1. o \in From(w, k + 1)
      BY <1>1, <1>2, <1>9, <2>3 DEF From, stmt
    <3>2. QED
      BY <1>5, <2>3, <3>1
  <2>4. QED
    BY <1>6, <1>7, <2>2, <2>3
<1>10. QED
  BY <1>8, <1>9

\* A server that stops half-way leaves torn what others rely on.
LEMMA KeptTorn ==
    ASSUME StartInv, AppliedInv, NEW s \in Servers, NEW row, server[s].pc = "apply",
           server' = [server EXCEPT ![s] = row], Tear(s),
           schema' = schema \/ schema' = Effect(Statement(s), schema),
           NEW v \in DOMAIN Body, NEW o \in Results(v), Relied(v, s), There(v, o)
    PROVE  There(v, o)'
<1> DEFINE w == server[s].v
           k == server[s].k
<1>1. w \in DOMAIN Body /\ k \in DOMAIN Body[w] /\ Statement(s) = Body[w][k]
  BY Files DEF StartInv, PlaceOK, AppliedInv, Behind, Statement
<1>2. DOMAIN Body[w] = 1 .. Len(Body[w]) /\ Len(Body[w]) \in Nat
  BY <1>1, Parts
<1>3. From(w, k) \subseteq Owed(s)
  BY <1>1, <1>2 DEF From, Brings, Owed
<1>4. \A t \in Servers : t # s => server'[t] = server[t]
  BY DEF StartInv
<1>5. torn \subseteq torn' /\ (v = w => Owed(s) \ schema' \subseteq torn')
  BY DEF Tear, Relied
<1> HIDE DEF w, k
<1>6. ASSUME v = w, o \in From(w, k) PROVE There(v, o)'
  BY <1>3, <1>5, <1>6 DEF There
<1>7. CASE o \in schema
  <2>1. CASE o \in schema'
    BY <2>1 DEF There
  <2>2. CASE o \notin schema'
    <3>1. Body[w][k].kind = "drop" /\ o = Body[w][k].object
      BY <1>1, <1>7, <2>2 DEF Effect
    <3>2. QED
      BY <1>1, <1>6, <3>1, Dropped
  <2>3. QED
    BY <2>1, <2>2
<1>8. CASE o \in torn
  BY <1>5, <1>8 DEF There
<1>9. ASSUME NEW t \in Servers, server[t].pc = "apply", server[t].v = v,
             o \in From(v, server[t].k)
      PROVE  There(v, o)'
  <2>1. CASE t = s
    BY <1>6, <1>9, <2>1 DEF w, k
  <2>2. CASE t # s
    BY <1>4, <1>9, <2>2 DEF There
  <2>3. QED
    BY <2>1, <2>2
<1>10. QED
  BY <1>7, <1>8, <1>9 DEF There
\* A step of a server that is not at a statement.
LEMMA StepAside ==
    ASSUME StartInv, AppliedInv, NEW s \in Servers, NEW row \in Rows,
           server[s].pc # "apply", server' = [server EXCEPT ![s] = row],
           schema' = schema, torn' = torn,
           \/ recorded' = recorded
           \/ server[s].pc = "record" /\ recorded' = recorded \cup {server[s].v},
           row.pc \in {"down", "check", "apply"} => row.k = 1, row.pc # "record"
    PROVE  AppliedInv'
<1>1. server'[s] = row /\ row.v \in DOMAIN Body /\ server[s].v \in DOMAIN Body
  BY Files DEF StartInv, Rows, PlaceOK
<1>2. \A v, o : There(v, o) => There(v, o)'
  BY KeptAside
<1>3. Behind(s)'
  <2>1. 1 \in DOMAIN Body[row.v]
    BY <1>1, MigrationAssumption
  <2>2. Before(row.v, 1) = {}
    BY <1>1, <2>1, Parts
  <2>3. QED
    BY <1>1, <2>1, <2>2 DEF Behind
<1>4. \A v \in recorded' \ recorded : \A o \in Results(v) : There(v, o)'
  BY <1>2 DEF AppliedInv, Behind
<1>5. QED
  BY <1>2, <1>3, <1>4, Carries

\* A server stops, with an error or a crash.
LEMMA StepStops ==
    ASSUME StartInv, AppliedInv, NEW s \in Servers, NEW row \in Rows,
           server' = [server EXCEPT ![s] = row], Tear(s),
           row.pc \in {"down", "seed"}, row.pc = "down" => row.k = 1,
           \/ server[s].pc = "apply" /\ recorded' = recorded
              /\ (schema' = schema \/ schema' = Effect(Statement(s), schema))
           \/ server[s].pc # "apply" /\ schema' = schema
              /\ (\/ recorded' = recorded
                  \/ server[s].pc = "record" /\ recorded' = recorded \cup {server[s].v})
    PROVE  AppliedInv'
<1>1. server'[s] = row
  BY DEF StartInv
<1>2. CASE server[s].pc = "apply"
  <2>1. \A v \in DOMAIN Body : \A o \in Results(v) :
            Relied(v, s) /\ There(v, o) => There(v, o)'
    BY <1>2, KeptTorn
  <2>2. Behind(s)'
    BY <1>1 DEF Behind
  <2>3. QED
    BY <1>2, <2>1, <2>2, Carries
<1>3. CASE server[s].pc # "apply"
  <2>1. torn' = torn
    BY <1>3 DEF Tear, Owed
  <2>2. QED
    BY <1>3, <2>1, StepAside
<1>4. QED
  BY <1>2, <1>3

\* A server goes on to the next statement, or to the record.
LEMMA StepOnward ==
    ASSUME StartInv, AppliedInv, NEW s \in Servers, server[s].pc = "apply", Continue(s),
           UNCHANGED recorded,
           \/ schema' = Effect(Statement(s), schema) /\ torn' = torn \ {Statement(s).object}
           \/ schema' = Effect(Statement(s), schema) /\ torn' = torn /\ Statement(s).soft
           \/ schema' = schema /\ torn' = torn /\ Statement(s).soft
    PROVE  AppliedInv'
<1>0. PICK w \in DOMAIN Body : w = server[s].v
  BY Files DEF StartInv, PlaceOK
<1>K. PICK k \in DOMAIN Body[w] : k = server[s].k
  BY <1>0 DEF AppliedInv, Behind
<1> DEFINE row == IF k = Len(Body[w]) THEN [server[s] EXCEPT !.pc = "record"]
                                      ELSE [server[s] EXCEPT !.k = k + 1]
<1>1. /\ server[s] \in Rows /\ w \in DOMAIN Body /\ k \in DOMAIN Body[w]
      /\ Body[w][k] = Statement(s) /\ server \in [Servers -> Rows]
      /\ \A o \in Before(w, k) : There(w, o)
  BY <1>0, <1>K DEF StartInv, AppliedInv, Behind, Statement
<1>2. DOMAIN Body[w] = 1 .. Len(Body[w]) /\ Len(Body[w]) \in Nat
  BY <1>1, Parts
<1>3. server' = [server EXCEPT ![s] = row]
  <2>1. CASE k = Len(Body[w])
    BY <1>0, <1>K, <2>1 DEF Continue
  <2>2. CASE k # Len(Body[w])
    BY <1>0, <1>K, <2>2 DEF Continue
  <2>3. QED
    BY <2>1, <2>2
<1>4. /\ row \in Rows /\ row.v = w
      /\ row.pc = IF k = Len(Body[w]) THEN "record" ELSE "apply"
      /\ k # Len(Body[w]) => row.k = k + 1
  <2>1. CASE k = Len(Body[w])
    BY <1>0, <1>1, <2>1 DEF Rows
  <2>2. CASE k # Len(Body[w])
    BY <1>0, <1>K, <1>1, <2>2 DEF Rows
  <2>3. QED
    BY <2>1, <2>2
<1> HIDE DEF row
<1>5. server'[s] = row
  BY <1>1, <1>3
<1>6. \A v \in DOMAIN Body : \A o \in Results(v) : There(v, o) => There(v, o)'
  BY KeptOnward
<1>7. ASSUME NEW o \in Before(w, k + 1) PROVE There(w, o)'
  <2>1. o \in Results(w)
    BY <1>1 DEF Before, Results, Brings
  <2>2. CASE o \in Before(w, k)
    BY <1>1, <1>6, <2>1, <2>2
  <2>3. CASE o \notin Before(w, k)
    <3>1. Brings(w, k) /\ o = Body[w][k].object
      BY <1>1, <1>2, <2>3 DEF Before
    <3>2. schema' = Effect(Statement(s), schema)
      BY <1>1, <3>1 DEF Brings
    <3>3. QED
      BY <1>1, <3>1, <3>2 DEF Brings, Effect, There
  <2>4. QED
    BY <2>2, <2>3
<1>8. Behind(s)'
  <2>1. CASE k = Len(Body[w])
    <3>1. Results(w) \subseteq Before(w, k + 1)
      BY <1>1, <1>2, <2>1 DEF Results, Before, Brings
    <3>2. QED
      BY <1>4, <1>5, <1>7, <2>1, <3>1 DEF Behind
  <2>2. CASE k # Len(Body[w])
    <3>1. k + 1 \in DOMAIN Body[w]
      BY <1>1, <1>2, <2>2
    <3>2. QED
      BY <1>4, <1>5, <1>7, <2>2, <3>1 DEF Behind
  <2>3. QED
    BY <2>1, <2>2
<1>9. QED
  BY <1>3, <1>4, <1>6, <1>8, Carries

\* Every step keeps what is recorded, or about to be, in effect.
LEMMA StepApplied ==
    ASSUME StartInv, AppliedInv, NEW s \in Servers, MStep(s) \/ Crash(s)
    PROVE  AppliedInv'
<1> DEFINE upTo(pc) == [server[s] EXCEPT !.pc = pc]
           failed(pc) == [server[s] EXCEPT !.pc = pc, !.failed = TRUE]
           next == [server[s] EXCEPT !.pc = "check", !.v = server[s].v + 1, !.k = 1]
           PCs == {"down", "check", "apply", "record", "seed", "serving"}
<1>1. /\ server[s] \in Rows /\ server \in [Servers -> Rows] /\ PlaceOK(s) /\ Behind(s)
  BY DEF StartInv, AppliedInv
<1>2. \A pc \in PCs : /\ upTo(pc) \in Rows /\ upTo(pc).pc = pc /\ upTo(pc).k = server[s].k
                      /\ failed(pc) \in Rows /\ failed(pc).pc = pc
  <2> SUFFICES ASSUME NEW pc \in PCs
               PROVE  /\ upTo(pc) \in Rows /\ upTo(pc).pc = pc /\ upTo(pc).k = server[s].k
                      /\ failed(pc) \in Rows /\ failed(pc).pc = pc
    OBVIOUS
  <2>1. upTo(pc) \in Rows /\ upTo(pc).pc = pc /\ upTo(pc).k = server[s].k
    BY <1>1 DEF Rows
  <2>2. failed(pc) \in Rows
    BY <1>1 DEF Rows
  <2>3. failed(pc).pc = pc
    BY <1>1 DEF Rows
  <2>4. QED
    BY <2>1, <2>2, <2>3
<1>3. server[s].v # Len(Body) => next \in Rows
  <2>1. server[s].v # Len(Body) => server[s].v + 1 \in 1 .. Len(Body)
    BY <1>1, Files DEF PlaceOK
  <2>2. QED
    BY <1>1, <2>1 DEF Rows
<1>4. next.pc = "check" /\ next.k = 1
  BY <1>1 DEF Rows
<1>5. \A pc \in PCs : [server EXCEPT ![s].pc = pc] = [server EXCEPT ![s] = upTo(pc)]
  BY <1>1
<1>6. \A pc \in PCs : [server EXCEPT ![s].pc = pc, ![s].failed = TRUE]
                          = [server EXCEPT ![s] = failed(pc)]
  BY <1>1
<1>7. Advance(s) => \/ server' = [server EXCEPT ![s] = upTo("seed")]
                    \/ server[s].v # Len(Body) /\ server' = [server EXCEPT ![s] = next]
  <2>1. CASE server[s].v = Len(Body)
    BY <2>1 DEF Advance
  <2>2. CASE server[s].v # Len(Body)
    BY <2>2 DEF Advance
  <2>3. QED
    BY <2>1, <2>2
<1> HIDE DEF upTo, failed, next
<1>8. CASE Start(s) \/ StartUnpinged(s)
  <2>1. /\ server[s].pc = "down" /\ server[s].k = 1
        /\ UNCHANGED <<schema, recorded, torn>>
    BY <1>1, <1>8 DEF Start, StartUnpinged, Behind
  <2>2. \/ server' = [server EXCEPT ![s] = upTo("check")]
        \/ server' = [server EXCEPT ![s] = failed("serving")]
    BY <1>5, <1>6, <1>8 DEF Start, StartUnpinged
  <2>3. QED
    BY <1>2, <2>1, <2>2, StepAside
<1>9. CASE Check(s)
  <2>1. server[s].pc = "check" /\ server[s].k = 1 /\ UNCHANGED <<schema, recorded, torn>>
    BY <1>1, <1>9 DEF Check, Behind
  <2>2. Advance(s) \/ server' = [server EXCEPT ![s] = upTo("apply")]
    BY <1>5, <1>9 DEF Check
  <2>3. QED
    BY <1>2, <1>3, <1>4, <1>7, <2>1, <2>2, StepAside
<1>10. CASE CheckFails(s)
  <2>1. /\ server' = [server EXCEPT ![s] = failed("seed")] /\ Tear(s)
        /\ server[s].pc = "check" /\ UNCHANGED <<schema, recorded>>
    BY <1>6, <1>10 DEF CheckFails, GiveUp
  <2>2. QED
    BY <1>2, <2>1, StepStops
<1>11. CASE Exec(s)
  BY <1>11, StepOnward DEF Exec
<1>12. CASE ExecFails(s)
  <2>1. CASE Statement(s).soft /\ Continue(s) /\ UNCHANGED torn
    BY <1>12, <2>1, StepOnward DEF ExecFails
  <2>2. CASE GiveUp(s)
    <3>1. /\ server' = [server EXCEPT ![s] = failed("seed")] /\ Tear(s)
          /\ server[s].pc = "apply" /\ UNCHANGED recorded
          /\ schema' = schema \/ schema' = Effect(Statement(s), schema)
      BY <1>6, <1>12, <2>2 DEF ExecFails, GiveUp
    <3>2. QED
      BY <1>2, <3>1, StepStops
  <2>3. QED
    BY <1>12, <2>1, <2>2 DEF ExecFails
<1>13. CASE Record(s)
  <2>1. CASE Advance(s) /\ UNCHANGED torn /\ recorded' = recorded \cup {server[s].v}
    BY <1>2, <1>3, <1>4, <1>7, <1>13, <2>1, StepAside DEF Record
  <2>2. CASE GiveUp(s) /\ recorded' \in {recorded, recorded \cup {server[s].v}}
    <3>1. server' = [server EXCEPT ![s] = failed("seed")] /\ Tear(s)
      BY <1>6, <2>2 DEF GiveUp
    <3>2. QED
      BY <1>2, <1>13, <2>2, <3>1, StepStops DEF Record
  <2>3. QED
    BY <1>13, <2>1, <2>2 DEF Record
<1>14. CASE SeedKpiTargets(s)
  <2>1. server' = [server EXCEPT ![s] = upTo("serving")]
    BY <1>5, <1>14 DEF SeedKpiTargets
  <2>2. QED
    BY <1>2, <1>14, <2>1, StepAside DEF SeedKpiTargets
<1>15. CASE Crash(s)
  <2>1. Down \in Rows /\ Down.pc = "down" /\ Down.k = 1
    BY Files DEF Down, Rows
  <2>2. QED
    BY <1>15, <2>1, StepStops DEF Crash
<1>16. QED
  BY <1>8, <1>9, <1>10, <1>11, <1>12, <1>13, <1>14, <1>15 DEF MStep

\* A recorded migration is in effect, for any number of servers, whatever
\* they do side by side: what a server that checked too early has dropped it
\* adds again, unless it stops half-way (RunCRMMigrations, execMigrationSQL).
THEOREM RecordedHasEffect == Spec => []RecordedIsApplied
<1>1. MInit => AppliedInv
  BY DEF MInit, Down, AppliedInv, Behind
<1>2. StartInv /\ AppliedInv /\ [MNext]_mvars => AppliedInv'
  <2> SUFFICES ASSUME StartInv, AppliedInv, [MNext]_mvars PROVE AppliedInv'
    OBVIOUS
  <2>1. CASE MNext
    BY <2>1, StepApplied DEF MNext
  <2>2. CASE UNCHANGED mvars
    BY <2>2 DEF mvars, AppliedInv, Behind, There
  <2>3. QED
    BY <2>1, <2>2
<1>3. StartInv /\ AppliedInv => RecordedIsApplied
  <2> SUFFICES ASSUME StartInv, AppliedInv, NEW v \in recorded, NEW o \in Results(v)
               PROVE  o \in schema \cup torn \cup
                          UNION {Owed(s) : s \in {t \in Servers : server[t].v = v}}
    BY DEF RecordedIsApplied
  <2>1. There(v, o)
    BY DEF AppliedInv
  <2>2. CASE o \in schema \/ o \in torn
    BY <2>2
  <2>3. ASSUME NEW t \in Servers, server[t].pc = "apply", server[t].v = v,
               o \in From(v, server[t].k)
        PROVE  o \in Owed(t)
    <3>1. v \in DOMAIN Body /\ server[t].k \in DOMAIN Body[v]
      BY <2>3, Files DEF StartInv, AppliedInv, Behind
    <3>2. DOMAIN Body[v] = 1 .. Len(Body[v]) /\ Len(Body[v]) \in Nat
      BY <3>1, Parts
    <3>3. QED
      BY <2>3, <3>1, <3>2 DEF From, Brings, Owed
  <2>4. QED
    BY <2>1, <2>2, <2>3 DEF There
<1>4. QED
  BY <1>1, <1>2, <1>3, ServersMigrate, Inductive, PTL DEF MSpec
-----------------------------------------------------------------------------
(* The limiter                                                             *)

\* A time of answers a and the bucket b of one key.  A bucket that counts c
\* failures has them at the end of a, the first of them at its start; what is
\* Limit or more answers older is more than a window older than that.
KeyOK(a, b, t) ==
    /\ a \in Seq(Nat)
    /\ \A i \in 1 .. Len(a) : a[i] <= t
    /\ \A i, j \in 1 .. Len(a) : j - i >= 2 * Limit - 1 => a[j] > a[i] + Window
    /\ b = NoBucket => \A i \in 1 .. Len(a) : i <= Len(a) - Limit + 1 => a[i] + Window < t
    /\ b # NoBucket =>
          /\ b \in [count : 1 .. Limit, resetAt : Nat]
          /\ b.count <= Len(a) /\ b.resetAt - Window <= t
          /\ \A i \in 1 .. Len(a) :
                /\ i <= Len(a) - b.count + 1 => a[i] <= b.resetAt - Window
                /\ i >= Len(a) - b.count + 1 => a[i] >= b.resetAt - Window
                /\ i <= Len(a) - b.count - Limit + 1 => a[i] + Window < b.resetAt - Window

\* The inductive invariant of the limiter.
LimiterInv ==
    /\ now \in Nat
    /\ buckets = [k \in LoginKeys |-> buckets[k]]
    /\ answered = [k \in LoginKeys |-> answered[k]]
    /\ \A k \in LoginKeys : KeyOK(answered[k], buckets[k], now)
    /\ refused \subseteq LoginKeys
    /\ \A k \in refused : /\ buckets[k] # NoBucket
                          /\ now <= buckets[k].resetAt /\ buckets[k].count = Limit

\* The answer that is appended.
LEMMA Appended ==
    ASSUME NEW a \in Seq(Nat), NEW t \in Nat
    PROVE  /\ Append(a, t) \in Seq(Nat) /\ Len(Append(a, t)) = Len(a) + 1 /\ Len(a) \in Nat
           /\ \A i \in 1 .. Len(a) : Append(a, t)[i] = a[i] /\ a[i] \in Nat
           /\ Append(a, t)[Len(a) + 1] = t
OBVIOUS

\* No bucket, or one whose window is over: a new one begins.
LEMMA BucketBegins ==
    ASSUME NEW a, NEW b, NEW t \in Nat, KeyOK(a, b, t), b = NoBucket \/ t > b.resetAt
    PROVE  KeyOK(Append(a, t), [count |-> 1, resetAt |-> t + Window], t)
<1> USE LimiterAssumption
<1> DEFINE m == Append(a, t)
           n == Len(a)
           c == [count |-> 1, resetAt |-> t + Window]
<1>1. /\ m \in Seq(Nat) /\ Len(m) = n + 1 /\ n \in Nat
      /\ \A i \in 1 .. n : m[i] = a[i] /\ a[i] \in Nat
      /\ m[n + 1] = t
  BY Appended DEF KeyOK
<1>2. c \in [count : 1 .. Limit, resetAt : Nat] /\ c.count = 1 /\ c.resetAt - Window = t
  OBVIOUS
<1>3. c # NoBucket
  <2>1. c.count # NoBucket.count
    BY DEF NoBucket
  <2>2. QED
    BY <2>1
<1>4. \A i \in 1 .. n : a[i] <= t /\ (i <= n - Limit + 1 => a[i] + Window < t)
  <2>1. CASE b = NoBucket
    BY <2>1 DEF KeyOK
  <2>2. CASE b # NoBucket
    <3>1. /\ b.count \in 1 .. Limit /\ b.resetAt \in Nat /\ t > b.resetAt
          /\ \A i \in 1 .. n : /\ a[i] <= t
                               /\ i <= n - b.count + 1 => a[i] <= b.resetAt - Window
      BY <2>2 DEF KeyOK
    <3>2. PICK cnt \in 1 .. Limit, rst \in Nat : cnt = b.count /\ rst = b.resetAt
      BY <3>1
    <3>3. ASSUME NEW i \in 1 .. n, i <= n - Limit + 1 PROVE a[i] + Window < t
      <4>1. PICK x \in Nat : x = a[i]
        BY <1>1
      <4>2. i <= n - cnt + 1 /\ n \in Nat /\ i \in Nat
        BY <1>1, <3>3
      <4>3. x <= rst - Window /\ t > rst
        BY <3>1, <3>2, <4>1, <4>2
      <4>4. QED
        BY <4>1, <4>3
    <3>4. QED
      BY <3>1, <3>3
  <2>3. QED
    BY <2>1, <2>2
<1>5. \A i, j \in 1 .. n : j - i >= 2 * Limit - 1 => a[j] > a[i] + Window
  BY DEF KeyOK
<1> HIDE DEF m, n, c
<1>6. \A i \in 1 .. n + 1 : m[i] <= t /\ m[i] \in Nat
  BY <1>1, <1>4
<1>7. ASSUME NEW i \in 1 .. n + 1, NEW j \in 1 .. n + 1, j - i >= 2 * Limit - 1
      PROVE  m[j] > m[i] + Window
  <2>1. i \in 1 .. n
    BY <1>1, <1>7
  <2>2. CASE j = n + 1
    BY <1>1, <1>4, <1>7, <2>1, <2>2
  <2>3. CASE j # n + 1
    BY <1>1, <1>5, <1>7, <2>1, <2>3
  <2>4. QED
    BY <2>2, <2>3
<1>8. ASSUME NEW i \in 1 .. n + 1
      PROVE  /\ m[i] <= t
             /\ i >= n + 1 => m[i] >= t
             /\ i <= n - Limit + 1 => m[i] + Window < t
  <2>1. CASE i = n + 1
    BY <1>1, <2>1
  <2>2. CASE i # n + 1
    BY <1>1, <1>4, <2>2
  <2>3. QED
    BY <2>1, <2>2
<1>9. KeyOK(m, c, t)
  BY <1>1, <1>2, <1>3, <1>6, <1>7, <1>8 DEF KeyOK
<1>10. QED
  BY <1>9 DEF m, c

\* A failure within the window and the limit is counted.
LEMMA BucketCounts ==
    ASSUME NEW a, NEW b, NEW t \in Nat, KeyOK(a, b, t), b # NoBucket, t <= b.resetAt,
           b.count < Limit
    PROVE  KeyOK(Append(a, t), [b EXCEPT !.count = b.count + 1], t)
<1> USE LimiterAssumption
<1> DEFINE m == Append(a, t)
           n == Len(a)
           c == [b EXCEPT !.count = b.count + 1]
<1>1. /\ m \in Seq(Nat) /\ Len(m) = n + 1 /\ n \in Nat
      /\ \A i \in 1 .. n : m[i] = a[i] /\ a[i] \in Nat
      /\ m[n + 1] = t
  BY Appended DEF KeyOK
<1>2. /\ b \in [count : 1 .. Limit, resetAt : Nat] /\ b.count <= n /\ b.resetAt - Window <= t
      /\ \A i \in 1 .. n : /\ a[i] <= t
                           /\ i <= n - b.count + 1 => a[i] <= b.resetAt - Window
                           /\ i >= n - b.count + 1 => a[i] >= b.resetAt - Window
                           /\ i <= n - b.count - Limit + 1 => a[i] + Window < b.resetAt - Window
      /\ \A i, j \in 1 .. n : j - i >= 2 * Limit - 1 => a[j] > a[i] + Window
  BY DEF KeyOK
<1>3. /\ c \in [count : 1 .. Limit, resetAt : Nat]
      /\ c.count = b.count + 1 /\ c.resetAt = b.resetAt
  BY <1>2
<1>4. c # NoBucket
  <2>1. c.resetAt # NoBucket.resetAt
    BY <1>3 DEF NoBucket
  <2>2. QED
    BY <2>1
<1> HIDE DEF m, n, c
<1>5. PICK cnt \in Nat, rst \in Nat : cnt = b.count /\ rst = b.resetAt
  BY <1>2
<1>6. ASSUME NEW i \in 1 .. n
      PROVE  /\ m[i] = a[i] /\ m[i] \in Nat /\ m[i] <= t
             /\ i <= n - cnt + 1 => m[i] <= rst - Window
             /\ i >= n - cnt + 1 => m[i] >= rst - Window
             /\ i <= n - cnt - Limit + 1 => m[i] + Window < rst - Window
  BY <1>1, <1>2, <1>5
<1>7. /\ n \in Nat /\ cnt >= 1 /\ cnt <= n /\ cnt < Limit /\ rst - Window <= t
      /\ c.count = cnt + 1 /\ c.resetAt = rst
  BY <1>1, <1>2, <1>3, <1>5
<1>8. ASSUME NEW i \in 1 .. n + 1, NEW j \in 1 .. n + 1, j - i >= 2 * Limit - 1
      PROVE  m[j] > m[i] + Window
  <2>1. i \in 1 .. n /\ (j = n + 1 => i <= n - cnt - Limit + 1)
    BY <1>7, <1>8
  <2>2. CASE j = n + 1
    <3>1. PICK x \in Nat : x = m[i]
      BY <1>6, <2>1
    <3>2. x + Window < rst - Window /\ m[j] = t
      BY <1>1, <1>6, <2>1, <2>2, <3>1
    <3>3. QED
      BY <1>7, <3>1, <3>2
  <2>3. CASE j # n + 1
    <3>1. j \in 1 .. n
      BY <1>7, <2>3
    <3>2. m[i] = a[i] /\ m[j] = a[j] /\ a[j] > a[i] + Window
      BY <1>2, <1>6, <1>8, <2>1, <3>1
    <3>3. QED
      BY <3>2
  <2>4. QED
    BY <2>2, <2>3
<1>9. ASSUME NEW i \in 1 .. n + 1
      PROVE  /\ m[i] <= t
             /\ i <= n + 1 - (cnt + 1) + 1 => m[i] <= rst - Window
             /\ i >= n + 1 - (cnt + 1) + 1 => m[i] >= rst - Window
             /\ i <= n + 1 - (cnt + 1) - Limit + 1 => m[i] + Window < rst - Window
  <2>1. CASE i = n + 1
    BY <1>1, <1>7, <2>1
  <2>2. CASE i # n + 1
    <3>1. i \in 1 .. n /\ n + 1 - (cnt + 1) = n - cnt
      BY <1>7, <2>2
    <3>2. QED
      BY <1>6, <1>7, <3>1
  <2>3. QED
    BY <2>1, <2>2
<1>10. KeyOK(m, c, t)
  <2>1. c.count <= Len(m) /\ c.resetAt - Window <= t
    BY <1>1, <1>7
  <2>2. \A i \in 1 .. Len(m) :
            /\ i <= Len(m) - c.count + 1 => m[i] <= c.resetAt - Window
            /\ i >= Len(m) - c.count + 1 => m[i] >= c.resetAt - Window
            /\ i <= Len(m) - c.count - Limit + 1 => m[i] + Window < c.resetAt - Window
    BY <1>1, <1>7, <1>9
  <2>3. /\ \A i \in 1 .. Len(m) : m[i] <= t
        /\ \A i, j \in 1 .. Len(m) : j - i >= 2 * Limit - 1 => m[j] > m[i] + Window
    BY <1>1, <1>8, <1>9
  <2>4. QED
    BY <1>1, <1>3, <1>4, <2>1, <2>2, <2>3 DEF KeyOK
<1>11. QED
  BY <1>10 DEF m, c

\* A bucket whose window is over may be forgotten, and time may pass.
LEMMA BucketForgotten ==
    ASSUME NEW a, NEW b, NEW t \in Nat, KeyOK(a, b, t), t > b.resetAt
    PROVE  KeyOK(a, NoBucket, t)
<1> USE LimiterAssumption
<1>1. CASE b = NoBucket
  BY <1>1
<1>2. CASE b # NoBucket
  <2>1. /\ b.count \in 1 .. Limit /\ b.resetAt \in Nat /\ Len(a) \in Nat
        /\ \A i \in 1 .. Len(a) :
              a[i] \in Nat /\ (i <= Len(a) - b.count + 1 => a[i] <= b.resetAt - Window)
    BY <1>2 DEF KeyOK
  <2>2. \A i \in 1 .. Len(a) : i <= Len(a) - Limit + 1 => a[i] + Window < t
    BY <2>1
  <2>3. QED
    BY <2>2 DEF KeyOK
<1>3. QED
  BY <1>1, <1>2

LEMMA BucketLater ==
    ASSUME NEW a, NEW b, NEW t \in Nat, KeyOK(a, b, t)
    PROVE  KeyOK(a, b, t + 1)
<1> USE LimiterAssumption
<1>1. Len(a) \in Nat /\ \A i \in 1 .. Len(a) : a[i] \in Nat
  BY DEF KeyOK
<1>2. \A i \in 1 .. Len(a) : a[i] <= t + 1 /\ (a[i] + Window < t => a[i] + Window < t + 1)
  BY <1>1 DEF KeyOK
<1>3. b # NoBucket => b.resetAt - Window <= t + 1
  BY DEF KeyOK
<1>4. QED
  BY <1>2, <1>3 DEF KeyOK
\* What pruneLocked leaves of a key's bucket: all of it, or nothing of one
\* whose window is over.
LEMMA Pruned ==
    ASSUME LimiterInv, NEW k \in LoginKeys
    PROVE  /\ KeyOK(answered[k], pruneLocked[k], now)
           /\ pruneLocked[k] = buckets[k] \/ (pruneLocked[k] = NoBucket /\ Expired(k))
<1>1. pruneLocked[k] = buckets[k] \/ (pruneLocked[k] = NoBucket /\ Expired(k))
  BY DEF pruneLocked
<1>2. KeyOK(answered[k], buckets[k], now) /\ now \in Nat
  BY DEF LimiterInv
<1>3. Expired(k) => KeyOK(answered[k], NoBucket, now)
  BY <1>2, BucketForgotten DEF Expired
<1>4. QED
  BY <1>1, <1>2, <1>3

\* allow keeps every key's bucket and answers in step.
LEMMA AllowStep ==
    ASSUME LimiterInv, NEW k \in LoginKeys, allow(k)
    PROVE  LimiterInv'
<1> DEFINE kept == pruneLocked
           one == [count |-> 1, resetAt |-> now + Window]
           more == [kept[k] EXCEPT !.count = kept[k].count + 1]
           longer == [answered EXCEPT ![k] = Append(answered[k], now)]
<1>1. /\ now \in Nat /\ now' = now
      /\ \A j \in LoginKeys : /\ KeyOK(answered[j], kept[j], now)
                              /\ kept[j] = buckets[j] \/ (kept[j] = NoBucket /\ Expired(j))
      /\ kept = [j \in LoginKeys |-> kept[j]]
      /\ answered = [j \in LoginKeys |-> answered[j]]
  <2>1. kept = [j \in LoginKeys |-> kept[j]]
    BY DEF pruneLocked
  <2>2. QED
    BY <2>1, Pruned DEF LimiterInv, allow
<1>2. \/ /\ kept[k] = NoBucket \/ Expired(k)
         /\ buckets' = [kept EXCEPT ![k] = one] /\ answered' = longer /\ refused' = refused
      \/ /\ kept[k] # NoBucket /\ ~Expired(k) /\ kept[k].count < Limit
         /\ buckets' = [kept EXCEPT ![k] = more] /\ answered' = longer /\ refused' = refused
      \/ /\ kept[k] # NoBucket /\ ~Expired(k) /\ kept[k].count >= Limit
         /\ buckets' = kept /\ answered' = answered /\ refused' = refused \cup {k}
  BY DEF allow
<1>3. \A j \in refused : /\ j \in LoginKeys /\ kept[j] = buckets[j] /\ kept[j] # NoBucket
                         /\ now <= kept[j].resetAt /\ kept[j].count = Limit
  <2> SUFFICES ASSUME NEW j \in refused
               PROVE  /\ j \in LoginKeys /\ kept[j] = buckets[j] /\ kept[j] # NoBucket
                      /\ now <= kept[j].resetAt /\ kept[j].count = Limit
    OBVIOUS
  <2>1. /\ j \in LoginKeys /\ buckets[j] # NoBucket /\ now <= buckets[j].resetAt
        /\ buckets[j].count = Limit /\ KeyOK(answered[j], buckets[j], now)
    BY DEF LimiterInv
  <2>2. ~Expired(j)
    BY <1>1, <2>1 DEF Expired, KeyOK
  <2>3. QED
    BY <1>1, <2>1, <2>2
<1>4. Expired(k) /\ kept[k] # NoBucket => now > kept[k].resetAt
  BY <1>1 DEF Expired
<1>5. ~Expired(k) /\ kept[k] # NoBucket => now <= kept[k].resetAt /\ kept[k].count \in 1 .. Limit
  BY <1>1 DEF Expired, KeyOK
<1> HIDE DEF kept, one, more, longer
<1>6. ASSUME NEW b, KeyOK(longer[k], b, now), buckets' = [kept EXCEPT ![k] = b],
             answered' = longer, refused' = refused, k \notin refused
      PROVE  LimiterInv'
  <2>1. /\ buckets' = [j \in LoginKeys |-> buckets'[j]]
        /\ answered' = [j \in LoginKeys |-> answered'[j]]
    BY <1>1, <1>6 DEF longer
  <2>2. \A j \in LoginKeys : KeyOK(answered'[j], buckets'[j], now)
    BY <1>1, <1>6 DEF longer
  <2>3. \A j \in refused : buckets'[j] = kept[j]
    BY <1>1, <1>3, <1>6
  <2>4. \A j \in refused' : /\ j \in LoginKeys /\ buckets'[j] # NoBucket
                            /\ now' <= buckets'[j].resetAt /\ buckets'[j].count = Limit
    BY <1>1, <1>3, <1>6, <2>3
  <2>5. QED
    BY <1>1, <2>1, <2>2, <2>4 DEF LimiterInv
<1>7. longer[k] = Append(answered[k], now)
  BY <1>1 DEF longer
<1>8. CASE /\ kept[k] = NoBucket \/ Expired(k)
           /\ buckets' = [kept EXCEPT ![k] = one] /\ answered' = longer /\ refused' = refused
  <2>1. KeyOK(longer[k], one, now)
    BY <1>1, <1>4, <1>7, <1>8, BucketBegins DEF one
  <2>2. k \notin refused
    <3> SUFFICES ASSUME k \in refused PROVE FALSE
      OBVIOUS
    <3>1. Expired(k) /\ kept[k] # NoBucket /\ now <= kept[k].resetAt
      BY <1>3, <1>8
    <3>2. KeyOK(answered[k], kept[k], now)
      BY <1>1
    <3>3. QED
      BY <1>1, <1>4, <3>1, <3>2 DEF KeyOK
  <2>3. QED
    BY <1>6, <1>8, <2>1, <2>2
<1>9. CASE /\ kept[k] # NoBucket /\ ~Expired(k) /\ kept[k].count < Limit
           /\ buckets' = [kept EXCEPT ![k] = more] /\ answered' = longer /\ refused' = refused
  <2>1. KeyOK(longer[k], more, now)
    BY <1>1, <1>5, <1>7, <1>9, BucketCounts DEF more
  <2>2. k \notin refused
    BY <1>3, <1>9, LimiterAssumption
  <2>3. QED
    BY <1>6, <1>9, <2>1, <2>2
<1>10. CASE /\ kept[k] # NoBucket /\ ~Expired(k) /\ kept[k].count >= Limit
            /\ buckets' = kept /\ answered' = answered /\ refused' = refused \cup {k}
  <2>1. kept[k].count = Limit /\ now <= kept[k].resetAt
    BY <1>5, <1>10, LimiterAssumption
  <2>2. \A j \in refused' : /\ j \in LoginKeys /\ buckets'[j] # NoBucket
                            /\ now' <= buckets'[j].resetAt /\ buckets'[j].count = Limit
    BY <1>1, <1>3, <1>10, <2>1
  <2>3. QED
    BY <1>1, <1>10, <2>2 DEF LimiterInv
<1>11. QED
  BY <1>2, <1>8, <1>9, <1>10

\* The limiter of a new process, and a clock that moves.
LEMMA NewLimiter ==
    ASSUME now' \in Nat, buckets' = [k \in LoginKeys |-> NoBucket],
           answered' = [k \in LoginKeys |-> <<>>], refused' = {}
    PROVE  LimiterInv'
<1>1. Len(<<>>) = 0 /\ <<>> \in Seq(Nat)
  OBVIOUS
<1>2. KeyOK(<<>>, NoBucket, now')
  BY <1>1 DEF KeyOK
<1>3. QED
  BY <1>2 DEF LimiterInv

LEMMA LimiterStep == LimiterInv /\ [LNext]_lvars => LimiterInv'
<1> SUFFICES ASSUME LimiterInv, [LNext]_lvars PROVE LimiterInv'
  OBVIOUS
<1>1. CASE Tick
  <2>1. now' = now + 1 /\ now \in Nat /\ refused' = {} /\ UNCHANGED <<buckets, answered>>
    BY <1>1 DEF Tick, LimiterInv
  <2>2. \A k \in LoginKeys : KeyOK(answered[k], buckets[k], now + 1)
    BY <2>1, BucketLater DEF LimiterInv
  <2>3. QED
    BY <2>1, <2>2 DEF LimiterInv
<1>2. CASE newLoginLimiter
  BY <1>2, NewLimiter DEF newLoginLimiter, LimiterInv
<1>3. CASE UNCHANGED lvars
  BY <1>3 DEF lvars, LimiterInv
<1>4. ASSUME NEW k \in LoginKeys, NotAsked(k) PROVE LimiterInv'
  BY <1>4 DEF NotAsked, LimiterInv
<1>5. QED
  BY <1>1, <1>2, <1>3, <1>4, AllowStep DEF LNext

LEMMA LimiterInductive == Spec => []LimiterInv
<1>1. Init => LimiterInv
  <2> SUFFICES ASSUME LInit PROVE LimiterInv
    BY DEF Init
  <2>1. Len(<<>>) = 0 /\ <<>> \in Seq(Nat)
    OBVIOUS
  <2>2. KeyOK(<<>>, NoBucket, 0)
    BY <2>1 DEF KeyOK
  <2>3. QED
    BY <2>2 DEF LInit, LimiterInv
<1>2. [Next]_vars => [LNext]_lvars
  BY DEF Next, vars, LNext, ServerCrash, LoginFails, LoginSucceeds, TimePasses
<1>3. QED
  BY <1>1, <1>2, LimiterStep, PTL DEF Spec

\* For every limit, window and threshold of pruning, a stretch as long as
\* the window has fewer than twice the limit of failures answered as such,
\* however they fall on the edge of two buckets and whatever succeeds between
\* them (handleLogin, loginLimiter.allow, pruneLocked).  Guesses themselves
\* are not bounded: those past the limit are tried before they are refused.
THEOREM FailuresBounded == Spec => []FailuresAnsweredAreBounded
<1>1. LimiterInv => FailuresAnsweredAreBounded
  BY DEF LimiterInv, KeyOK, FailuresAnsweredAreBounded
<1>2. QED
  BY <1>1, LimiterInductive, PTL

\* Whoever is refused has used up the limit within the window that ends now.
THEOREM RefusalsJustified == Spec => []RefusedForARecentReason
<1>1. LimiterInv => RefusedForARecentReason
  <2> SUFFICES ASSUME LimiterInv, NEW k \in refused
               PROVE  /\ Len(answered[k]) >= Limit
                      /\ \A i \in Len(answered[k]) - Limit + 1 .. Len(answered[k]) :
                            answered[k][i] >= now - Window
    BY DEF RefusedForARecentReason
  <2> USE LimiterAssumption
  <2>1. /\ KeyOK(answered[k], buckets[k], now) /\ buckets[k] # NoBucket /\ now \in Nat
        /\ now <= buckets[k].resetAt /\ buckets[k].count = Limit
    BY DEF LimiterInv
  <2>2. PICK a \in Seq(Nat), rst \in Nat : a = answered[k] /\ rst = buckets[k].resetAt
    BY <2>1 DEF KeyOK
  <2>3. /\ Len(a) >= Limit /\ Len(a) \in Nat /\ \A i \in 1 .. Len(a) : a[i] \in Nat
        /\ \A i \in 1 .. Len(a) : i >= Len(a) - Limit + 1 => a[i] >= rst - Window
    BY <2>1, <2>2 DEF KeyOK
  <2>4. ASSUME NEW i \in Len(a) - Limit + 1 .. Len(a) PROVE a[i] >= now - Window
    <3>1. i \in 1 .. Len(a) /\ i >= Len(a) - Limit + 1
      BY <2>3
    <3>2. a[i] >= rst - Window /\ a[i] \in Nat
      BY <2>3, <3>1
    <3>3. QED
      BY <2>1, <2>2, <3>2
  <2>5. QED
    BY <2>2, <2>3, <2>4
<1>2. QED
  BY <1>1, LimiterInductive, PTL

=============================================================================
