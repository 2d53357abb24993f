-------------------------- MODULE LeadPagingProofs --------------------------
(***************************************************************************)
(* Proofs about the paged lists and the lock of the exports, for any       *)
(* number of leads, buckets and exports, and any size of a page.           *)
(***************************************************************************)
EXTENDS LeadPaging, BucketPaging, ExportFlights, FiniteSetTheorems, TLAPS

Cursors == [sort : Sorts \cup {"", "other"}, id : Nat, k : Nat, t : Nat]
Walks ==
    [pc : {"idle", "asked", "query", "paged", "ended"}, sort : Sorts, cursor : Cursors]
Answers ==
    [total : Nat \cup {Unknown}, read : BOOLEAN, page : SUBSET Leads, more : BOOLEAN,
     next : Cursors, astray : BOOLEAN, since : SUBSET Leads]
Payloads == [cursor : Cursors, answer : Answers]

\* Rows as they are in ld: those in the list, and one as the sort reads it.
In(ld) == {l \in Leads : ld[l].listed}
Row(ld, l) == [id |-> l, key |-> ld[l].key, at |-> ld[l].at]

\* A cursor that a walk may send: a transfer list is asked with its own or
\* none, an analyst's cursor always names somebody, and an export has none.
CursorOK(s, c) ==
    /\ c \in Cursors
    /\ s \in TransferLists /\ c.sort # s => c.id = 0
    /\ s = "analyst" /\ UsedCursor(s, c).id # 0 => UsedCursor(s, c).k # Null
    /\ s = "export" => UsedCursor(s, c).id = 0

\* Lead l, were it in the list, would be behind the cursor c.
Behind(s, ld, c, l) ==
    UsedCursor(s, c).id = 0 \/ AfterCursor(s, UsedCursor(s, c), Row(ld, l))

\* A list by name whose cursor may be ahead of its own row.
Loose(s, x) == s = "name" /\ x

\* What an answer to cursor c says of the rows that have not changed since it
\* was begun, and where its own cursor parts them.
PageOK(s, ld, c, a) ==
    /\ \A l \in a.page \ a.since : l \in In(ld) /\ Behind(s, ld, c, l)
    /\ ~a.more => \A l \in In(ld) \ a.since : Behind(s, ld, c, l) => l \in a.page
    /\ a.more /\ ~a.astray =>
          \A l \in In(ld) \ a.since :
              Behind(s, ld, c, l) => l \in a.page \/ Behind(s, ld, a.next, l)
    /\ a.more => CursorOK(s, a.next)
    /\ a.more /\ ~Loose(s, a.astray) =>
          /\ \A l \in a.page \ a.since : ~Behind(s, ld, a.next, l)
          /\ \A l \in Leads \ a.since :
                ~Behind(s, ld, c, l) => ~Behind(s, ld, a.next, l)

TotalOK(ld, a) == a.total # Unknown /\ a.since = {} => a.total = Cardinality(In(ld))
AnswerOK(s, ld, c, a) ==
    /\ a \in Answers /\ TotalOK(ld, a)
    /\ IF a.read THEN PageOK(s, ld, c, a) ELSE ~a.more

ShapeInv ==
    /\ lead \in [Leads -> Rows(walk.sort)]
    /\ walk \in Walks /\ CursorOK(walk.sort, walk.cursor)
    /\ seen \subseteq Leads /\ moved \subseteq Leads /\ astray \in BOOLEAN

\* The walk's cursor parts what was shown from what is to come, as far as the
\* rows stayed as they were; an ended walk has left nothing behind.
Parted(s, ld, c, sn, mv, x) ==
    /\ ~Loose(s, x) => \A l \in sn \ mv : ~Behind(s, ld, c, l)
    /\ ~x => \A l \in In(ld) \ (mv \cup sn) : Behind(s, ld, c, l)
WalkInv ==
    /\ walk.pc # "ended" => Parted(walk.sort, lead, walk.cursor, seen, moved, astray)
    /\ walk.pc = "ended" /\ ~astray => In(lead) \ moved \subseteq seen
    /\ seen \ moved \subseteq In(lead)
    /\ ~Loose(walk.sort, astray) => twice \subseteq moved

KeptOK(s, ld, ps) ==
    \A p \in ps : p \in Payloads /\ Computed(p.answer) /\ AnswerOK(s, ld, p.cursor, p.answer)

\* Every answer is right about what has not changed since, be it under way or
\* kept, and the last one the client got was right about the count.
AnswersInv ==
    /\ walk.pc = "asked" => fetch = NoAnswer
    /\ walk.pc = "query" =>
          AnswerOK(walk.sort, lead, walk.cursor, fetch) /\ fetch.since \subseteq moved
    /\ KeptOK(walk.sort, lead, kept)
    /\ walk.pc = "ended" /\ moved = {} => fetch.total = Cardinality(In(lead))

-----------------------------------------------------------------------------
(* The dashboard's buckets                                                 *)

BWalks ==
    [pc : {"idle", "asked", "query", "paged", "ended"}, dimension : Dimensions,
     offset : Nat, pages : Nat]
BAnswers ==
    [offset : Nat, bucketCount : Nat \cup {NotCounted}, read : BOOLEAN, page : SUBSET Buckets,
     more : BOOLEAN, stirred : BOOLEAN]
BPayloads == [offset : Nat, answer : BAnswers]

\* No bucket outside bs comes before one inside.
Topmost(bs) ==
    bs \subseteq Present /\ \A b \in bs, c \in Present \ bs : ~Larger(c, b)

\* What a page for offset o says while the groups stay as it saw them.
BAnswerOK(o, a) ==
    /\ a \in BAnswers
    /\ a.bucketCount = NotCounted => ~a.read
    /\ a.bucketCount # NotCounted => a.offset = clampSummaryBucketOffset(o)
    /\ a.bucketCount # NotCounted /\ ~a.stirred => a.bucketCount = Cardinality(Present)
    /\ a.read /\ ~a.stirred =>
          \E before \in SUBSET Present :
              /\ Skipped(a.offset, before)
              /\ BucketPage(Present \ before, a.page)
              /\ a.more <=> a.page # Present \ before

BShapeInv ==
    /\ group \in [Grouped -> Buckets \cup {None}]
    /\ label \in [Buckets -> Buckets]
    /\ bwalk \in BWalks
    /\ shown \subseteq Buckets /\ stirred \in BOOLEAN /\ clamped \in BOOLEAN

\* While the groups stay, the client has been shown the topmost buckets, as
\* many as the next page skips, or more after a clamped offset.
BWalkInv ==
    ~stirred /\ ~Tied /\ bwalk.pc # "idle" =>
        /\ Topmost(shown)
        /\ bwalk.pc # "ended" => bwalk.offset <= Cardinality(shown)
        /\ bwalk.pc # "ended" /\ ~clamped => bwalk.offset = Cardinality(shown)
        /\ bwalk.pc = "ended" => shown = Present /\ bfetch.bucketCount = Cardinality(Present)

BKeptOK(ps) == \A p \in ps : p \in BPayloads /\ p.answer.read /\ BAnswerOK(p.offset, p.answer)
BAnswersInv ==
    /\ bwalk.pc = "asked" => bfetch = NoPage
    /\ bwalk.pc = "query" => BAnswerOK(bwalk.offset, bfetch) /\ (bfetch.stirred => stirred)
    /\ BKeptOK(bkept)

-----------------------------------------------------------------------------
(* The lock of the exports                                                 *)

Somebody == CHOOSE u \in Exporters : TRUE
Flights == [pc : {"idle", "running", "ended"}, user : Exporters \cup {Somebody}]

FlightShape ==
    /\ clock \in Nat
    /\ active \in [Exporters -> Nat \cup {Free}]
    /\ export \in [Exports -> Flights]
    /\ \A e \in Exports : export[e].pc = "running" => export[e].user \in Exporters

\* At most one export of a user runs, and its lock is held meanwhile.
FlightInv ==
    \A u \in Exporters \ outlived :
        /\ \A e, f \in Running(u) : e = f
        /\ active[u] # Free <=> Running(u) # {}
-----------------------------------------------------------------------------
(* One export at a time                                                    *)

\* Export e becomes row, and no other changes.
LEMMA ExportMoves ==
    ASSUME FlightShape, NEW e \in Exports, NEW row \in Flights,
           export' = [export EXCEPT ![e] = row],
           row.pc = "running" => row.user \in Exporters
    PROVE  /\ export' \in [Exports -> Flights]
           /\ export'[e] = row /\ \A f \in Exports : f # e => export'[f] = export[f]
           /\ \A f \in Exports : export'[f].pc = "running" => export'[f].user \in Exporters
BY DEF FlightShape

LEMMA RunningRows ==
    ASSUME FlightShape, NEW e \in Exports, NEW u
    PROVE  e \in Running(u) <=> export[e].pc = "running" /\ export[e].user = u
<1>1. export[e] \in Flights
  BY DEF FlightShape
<1>2. QED
  BY <1>1 DEF Running, Flights

LEMMA RunningRowsNext ==
    ASSUME export' \in [Exports -> Flights], NEW e \in Exports, NEW u
    PROVE  e \in Running(u)' <=> export'[e].pc = "running" /\ export'[e].user = u
<1>1. export'[e] \in Flights
  OBVIOUS
<1>2. QED
  BY <1>1 DEF Running, Flights

LEMMA acquireFlies ==
    ASSUME FlightShape, FlightInv, NEW e \in Exports, NEW u \in Exporters, acquire(e, u)
    PROVE  FlightShape' /\ FlightInv'
<1> DEFINE row == [pc |-> "running", user |-> u]
<1>1. row \in Flights /\ row.pc = "running" /\ row.user = u
  BY DEF Flights
<1>2. /\ export[e].pc = "idle" /\ export' = [export EXCEPT ![e] = row]
      /\ active' = [active EXCEPT ![u] = clock] /\ clock' = clock
      /\ outlived' = IF Running(u) = {} THEN outlived ELSE outlived \cup {u}
  BY DEF acquire
<1> HIDE DEF row
<1>3. /\ export' \in [Exports -> Flights]
      /\ export'[e] = row /\ \A f \in Exports : f # e => export'[f] = export[f]
      /\ \A f \in Exports : export'[f].pc = "running" => export'[f].user \in Exporters
  BY <1>1, <1>2, ExportMoves
<1>4. active' \in [Exporters -> Nat \cup {Free}] /\ active'[u] = clock /\ clock \in Nat
      /\ \A v \in Exporters : v # u => active'[v] = active[v]
  BY <1>2 DEF FlightShape
<1>5. FlightShape'
  BY <1>2, <1>3, <1>4 DEF FlightShape
<1>6. ASSUME NEW v \in Exporters \ outlived'
      PROVE  /\ \A f, g \in Running(v)' : f = g
             /\ active'[v] # Free <=> Running(v)' # {}
  <2>1. CASE v = u
    <3>1. Running(u) = {}
      BY <1>2, <2>1
    <3>2. \A f \in Exports : f \in Running(u)' <=> f = e
      BY <1>1, <1>3, <3>1, RunningRows, RunningRowsNext
    <3>3. Running(u)' = {e}
      BY <3>2 DEF Running
    <3>4. QED
      BY <1>4, <2>1, <3>3 DEF Free
  <2>2. CASE v # u
    <3>1. \A f \in Exports : f \in Running(v)' <=> f \in Running(v)
      BY <1>1, <1>2, <1>3, <2>2, RunningRows, RunningRowsNext
    <3>2. Running(v)' = Running(v)
      BY <3>1 DEF Running
    <3>3. v \in Exporters \ outlived
      BY <1>2
    <3>4. QED
      BY <1>4, <2>2, <3>2, <3>3 DEF FlightInv
  <2>3. QED
    BY <2>1, <2>2
<1>7. QED
  BY <1>5, <1>6 DEF FlightInv

LEMMA refusalFlies ==
    ASSUME FlightShape, FlightInv, NEW e \in Exports, NEW u \in Exporters, TooManyRequests(e, u)
    PROVE  FlightShape' /\ FlightInv'
<1> DEFINE row == [pc |-> "ended", user |-> u]
<1>1. row \in Flights /\ row.pc = "ended"
  BY DEF Flights
<1>2. /\ export[e].pc = "idle" /\ export' = [export EXCEPT ![e] = row]
      /\ UNCHANGED <<clock, active, outlived>>
  BY DEF TooManyRequests
<1> HIDE DEF row
<1>3. /\ export' \in [Exports -> Flights]
      /\ export'[e] = row /\ \A f \in Exports : f # e => export'[f] = export[f]
      /\ \A f \in Exports : export'[f].pc = "running" => export'[f].user \in Exporters
  BY <1>1, <1>2, ExportMoves
<1>4. ASSUME NEW v PROVE Running(v)' = Running(v)
  <2>1. \A f \in Exports : f \in Running(v)' <=> f \in Running(v)
    BY <1>1, <1>2, <1>3, RunningRows, RunningRowsNext
  <2>2. QED
    BY <2>1 DEF Running
<1>5. FlightShape'
  BY <1>2, <1>3 DEF FlightShape
<1>6. QED
  BY <1>2, <1>4, <1>5 DEF FlightInv

LEMMA releaseFlies ==
    ASSUME FlightShape, FlightInv, NEW e \in Exports, release(e)
    PROVE  FlightShape' /\ FlightInv'
<1> DEFINE row == [export[e] EXCEPT !.pc = "ended"]
<1>0. PICK u \in Exporters : u = export[e].user
  BY DEF release, FlightShape
<1>1. export[e] \in Flights /\ export[e].pc = "running"
  BY DEF release, FlightShape
<1>2. row \in Flights /\ row.pc = "ended"
  BY <1>1 DEF Flights
<1>3. /\ export' = [export EXCEPT ![e] = row] /\ UNCHANGED <<clock, outlived>>
      /\ active' = [active EXCEPT ![u] = Free]
  BY <1>0 DEF release, FlightShape
<1> HIDE DEF row
<1>4. /\ export' \in [Exports -> Flights]
      /\ export'[e] = row /\ \A f \in Exports : f # e => export'[f] = export[f]
      /\ \A f \in Exports : export'[f].pc = "running" => export'[f].user \in Exporters
  BY <1>2, <1>3, ExportMoves
<1>5. /\ active' \in [Exporters -> Nat \cup {Free}] /\ active'[u] = Free
      /\ \A v \in Exporters : v # u => active'[v] = active[v]
  BY <1>1, <1>3 DEF FlightShape
<1>6. FlightShape'
  BY <1>3, <1>4, <1>5 DEF FlightShape
<1>7. ASSUME NEW v \in Exporters \ outlived'
      PROVE  /\ \A f, g \in Running(v)' : f = g
             /\ active'[v] # Free <=> Running(v)' # {}
  <2>0. v \in Exporters \ outlived
    BY <1>3
  <2>1. CASE v = u
    <3>1. e \in Running(u)
      BY <1>0, <1>1, RunningRows
    <3>2. \A f \in Running(u) : f = e
      BY <2>0, <2>1, <3>1 DEF FlightInv
    <3>3. \A f \in Exports : f \notin Running(u)'
      BY <1>2, <1>4, <3>2, RunningRows, RunningRowsNext
    <3>4. Running(u)' = {}
      BY <3>3 DEF Running
    <3>5. QED
      BY <1>5, <2>1, <3>4
  <2>2. CASE v # u
    <3>1. \A f \in Exports : f \in Running(v)' <=> f \in Running(v)
      BY <1>0, <1>1, <1>2, <1>4, <2>2, RunningRows, RunningRowsNext
    <3>2. Running(v)' = Running(v)
      BY <3>1 DEF Running
    <3>3. QED
      BY <1>5, <2>0, <2>2, <3>2 DEF FlightInv
  <2>3. QED
    BY <2>1, <2>2
<1>8. QED
  BY <1>6, <1>7 DEF FlightInv

LEMMA FlightNext == FlightShape /\ FlightInv /\ [FNext]_fvars => FlightShape' /\ FlightInv'
<1> SUFFICES ASSUME FlightShape, FlightInv, [FNext]_fvars PROVE FlightShape' /\ FlightInv'
  OBVIOUS
<1>1. CASE FTick
  BY <1>1 DEF FTick, FlightShape, FlightInv, Running
<1>2. CASE UNCHANGED fvars
  BY <1>2 DEF fvars, FlightShape, FlightInv, Running
<1>3. QED
  BY <1>1, <1>2, acquireFlies, refusalFlies, releaseFlies DEF FNext

LEMMA FlightBegins == FInit => FlightShape /\ FlightInv
<1> SUFFICES ASSUME FInit PROVE FlightShape /\ FlightInv
  OBVIOUS
<1> DEFINE row == [pc |-> "idle", user |-> Somebody]
<1>1. row \in Flights /\ row.pc = "idle"
  BY DEF Flights
<1>2. export = [e \in Exports |-> row]
  BY DEF FInit, Somebody
<1> HIDE DEF row
<1>3. FlightShape
  BY <1>1, <1>2 DEF FInit, FlightShape
<1>4. \A u : Running(u) = {}
  <2>1. \A u : \A e \in Exports : e \notin Running(u)
    BY <1>1, <1>2, <1>3, RunningRows
  <2>2. QED
    BY <2>1 DEF Running
<1>5. QED
  BY <1>3, <1>4 DEF FInit, FlightInv

\* Each user runs one export at a time, for any number of requests and any
\* time the lock counts, and is locked out exactly while it runs: a refused
\* request and a finished one leave the lock of no other export open
\* (exportFlightLock), unless an export ran longer than its lock.
THEOREM OneExportEach == FSpec => []ExportsAreSerial
<1>1. FlightShape /\ FlightInv => ExportsAreSerial
  <2> SUFFICES ASSUME FlightShape, FlightInv, NEW u \in Exporters \ outlived
               PROVE  Cardinality(Running(u)) <= 1
    BY DEF ExportsAreSerial, FlightInv
  <2>1. CASE Running(u) = {}
    BY <2>1, FS_EmptySet
  <2>2. CASE Running(u) # {}
    <3>1. PICK e \in Running(u) : TRUE
      BY <2>2
    <3>2. Running(u) = {e}
      BY <3>1 DEF FlightInv
    <3>3. Cardinality({e}) = 1
      BY FS_Singleton
    <3>4. QED
      BY <3>2, <3>3
  <2>3. QED
    BY <2>1, <2>2
<1>2. QED
  BY <1>1, FlightBegins, FlightNext, PTL DEF FSpec
-----------------------------------------------------------------------------
(* The cursor and the order of a list                                      *)

Entries == [id : Nat, key : Nat, at : Nat]

LEMMA CursorShape ==
    ASSUME NEW s, NEW f \in Entries, s = "name" => f.key \in Keys
    PROVE  /\ CursorOf(s, f).id = f.id /\ CursorOf(s, f).t = f.at /\ CursorOf(s, f).sort = s
           /\ CursorOf(s, f).k \in Nat
           /\ s = "analyst" => CursorOf(s, f).k # Null
           /\ s = "analyst" /\ f.key # Null => CursorOf(s, f).k = f.key
           /\ s # "analyst" /\ s # "name" => CursorOf(s, f).k = f.key
<1>1. f.id \in Nat /\ f.key \in Nat /\ f.at \in Nat
  BY DEF Entries
<1>2. Dash \in Nat \ {0} /\ (s = "name" => ToLower[f.key] \in Nat)
  BY PagingAssumption
<1>3. CASE s = "analyst"
  BY <1>1, <1>2, <1>3 DEF CursorOf, Null
<1>4. CASE s = "name"
  BY <1>1, <1>2, <1>4 DEF CursorOf, Null
<1>5. CASE s # "analyst" /\ s # "name"
  BY <1>1, <1>2, <1>5 DEF CursorOf, Null
<1>6. QED
  BY <1>3, <1>4, <1>5

\* The cursor of row f parts the list at f, unless Go's lower case or the
\* dash put it elsewhere.
LEMMA CursorParts ==
    ASSUME NEW s, NEW e \in Entries, NEW f \in Entries,
           s = "name" => f.key \in Keys
    PROVE  /\ ~Loose(s, CursorOf(s, f).k # f.key) =>
                 /\ ~AfterCursor(s, CursorOf(s, f), f)
                 /\ Before(s, e, f) => ~AfterCursor(s, CursorOf(s, f), e)
           /\ CursorOf(s, f).k = f.key =>
                 (Before(s, f, e) => AfterCursor(s, CursorOf(s, f), e))
<1>1. e.id \in Nat /\ e.key \in Nat /\ e.at \in Nat /\ f.id \in Nat /\ f.key \in Nat /\ f.at \in Nat
  BY DEF Entries
<1> DEFINE c == CursorOf(s, f)
<1>2. Dash \in Nat \ {0}
  BY PagingAssumption
<1>3. /\ c.id = f.id /\ c.t = f.at /\ c.sort = s /\ c.k \in Nat
      /\ s = "analyst" => c.k # Null
      /\ s = "analyst" /\ f.key # Null => c.k = f.key
      /\ s # "analyst" /\ s # "name" => c.k = f.key
  BY CursorShape
<1>4. s = "analyst" => c.k = f.key \/ f.key = Null
  BY <1>3
<1> HIDE DEF c
<1>5. CASE s \in {"name", "oldest", "value"}
  BY <1>1, <1>3, <1>5 DEF AfterCursor, Before, Newer, Null, Loose, c
<1>6. CASE s \in {"status", "stage", "analyst"}
  BY <1>1, <1>2, <1>3, <1>4, <1>6 DEF AfterCursor, Before, Newer, Null, Loose, c
<1>7. CASE s \notin {"name", "oldest", "value", "status", "stage", "analyst"}
  BY <1>1, <1>3, <1>7 DEF AfterCursor, Before, Newer, Null, Loose, c
<1>8. QED
  BY <1>3, <1>5, <1>6, <1>7 DEF c

\* What an old cursor has passed, the cursor of a later row has passed too.
LEMMA CursorAdvances ==
    ASSUME NEW s, NEW c \in Cursors, NEW e \in Entries, NEW f \in Entries,
           s = "name" => f.key \in Keys,
           s = "analyst" => c.k # Null,
           ~Loose(s, CursorOf(s, f).k # f.key),
           ~AfterCursor(s, c, e), AfterCursor(s, c, f)
    PROVE  ~AfterCursor(s, CursorOf(s, f), e)
<1>1. /\ e.id \in Nat /\ e.key \in Nat /\ e.at \in Nat
      /\ f.id \in Nat /\ f.key \in Nat /\ f.at \in Nat
      /\ c.id \in Nat /\ c.k \in Nat /\ c.t \in Nat
  BY DEF Entries, Cursors
<1> DEFINE d == CursorOf(s, f)
<1>2. /\ d.id = f.id /\ d.t = f.at /\ d.k \in Nat
      /\ s = "name" => d.k = f.key
      /\ s = "analyst" => d.k = IF f.key = Null THEN Dash ELSE f.key
      /\ s # "analyst" /\ s # "name" => d.k = f.key
  <2>1. d.id = f.id /\ d.t = f.at /\ d.k \in Nat
    BY CursorShape
  <2>2. QED
    BY <2>1 DEF CursorOf, Loose
<1> HIDE DEF d
<1>3. Dash \in Nat \ {0}
  BY PagingAssumption
<1>4. CASE s \in {"name", "oldest", "value"}
  BY <1>1, <1>2, <1>4 DEF AfterCursor, Null, d
<1>5. CASE s \in {"status", "stage", "analyst"}
  BY <1>1, <1>2, <1>3, <1>5 DEF AfterCursor, Null, d
<1>6. CASE s \notin {"name", "oldest", "value", "status", "stage", "analyst"}
  BY <1>1, <1>2, <1>6 DEF AfterCursor, Null, d
<1>7. QED
  BY <1>4, <1>5, <1>6 DEF d

\* Rows as entries.
LEMMA EntryShape ==
    ASSUME NEW s, NEW ld \in [Leads -> Rows(s)], NEW l \in Leads
    PROVE  /\ Row(ld, l) \in Entries /\ Row(ld, l).id = l /\ l # 0 /\ l \in Nat
           /\ Row(ld, l).key = ld[l].key /\ ld[l].listed \in BOOLEAN
           /\ s = "name" => ld[l].key \in Keys
<1>1. ld[l] \in Rows(s) /\ l \in Nat \ {0}
  BY PagingAssumption
<1>2. KeysOf(s) \subseteq Nat /\ TimesOf(s) \subseteq Nat /\ (s = "name" => KeysOf(s) = Keys)
  BY PagingAssumption DEF KeysOf, TimesOf, Null
<1>3. ld[l].key \in KeysOf(s) /\ ld[l].at \in TimesOf(s) /\ ld[l].listed \in BOOLEAN
  BY <1>1 DEF Rows
<1>4. QED
  BY <1>1, <1>2, <1>3 DEF Row, Entries

LEMMA NoCursorShape ==
    /\ NoCursor \in Cursors /\ NoCursor.id = 0 /\ NoCursor.sort = ""
    /\ \A s : UsedCursor(s, NoCursor) = NoCursor
    /\ \A s : CursorOK(s, NoCursor)
    /\ \A s, ld, l : Behind(s, ld, NoCursor, l)
<1>1. NoCursor \in Cursors /\ NoCursor.id = 0 /\ NoCursor.sort = ""
  BY DEF NoCursor, Cursors, Null
<1>2. \A s : UsedCursor(s, NoCursor) = NoCursor
  BY DEF UsedCursor
<1>3. QED
  BY <1>1, <1>2 DEF CursorOK, Behind

LEMMA UsedShape ==
    ASSUME NEW s, NEW c, CursorOK(s, c)
    PROVE  UsedCursor(s, c) \in Cursors
BY NoCursorShape DEF CursorOK, UsedCursor

LEMMA NoAnswerShape ==
    /\ NoAnswer \in Answers /\ ~NoAnswer.read /\ ~NoAnswer.more
    /\ NoAnswer.total = Unknown /\ NoAnswer.since = {}
BY NoCursorShape DEF NoAnswer, Answers

LEMMA NothingOK ==
    ASSUME NEW s, NEW ld, NEW c PROVE AnswerOK(s, ld, c, NoAnswer)
BY NoAnswerShape DEF AnswerOK, TotalOK

PagingInv == ShapeInv /\ WalkInv /\ AnswersInv

-----------------------------------------------------------------------------
(* One page                                                                *)

\* The page that was read, with its cursor if more follow.
LEMMA PageIsOK ==
    ASSUME NEW s \in Sorts, NEW ld \in [Leads -> Rows(s)], NEW c, CursorOK(s, c),
           NEW cand, \A l : l \in cand <=> l \in In(ld) /\ Behind(s, ld, c, l),
           NEW a \in Answers, a.page \subseteq cand,
           \A l \in a.page, m \in cand \ a.page : Before(s, Row(ld, l), Row(ld, m)),
           ~a.more => a.page = cand,
           a.more => s # "export",
           NEW f, a.more => /\ f \in a.page
                            /\ \A m \in a.page \ {f} : Before(s, Row(ld, m), Row(ld, f))
                            /\ a.next = CursorOf(s, Row(ld, f))
                            /\ a.astray = (a.next.k # ld[f].key)
    PROVE  PageOK(s, ld, c, a)
<1>1. cand \subseteq Leads /\ a.page \subseteq Leads
  BY DEF In
<1>2. CASE ~a.more
  BY <1>2 DEF PageOK
<1>3. CASE a.more
  <2> DEFINE g == Row(ld, f)
             n == a.next
  <2>1. f \in Leads /\ f \in cand /\ n = CursorOf(s, g)
    BY <1>1, <1>3
  <2>2. g \in Entries /\ g.id = f /\ f # 0 /\ g.key = ld[f].key /\ (s = "name" => g.key \in Keys)
    BY <2>1, EntryShape
  <2>3. n \in Cursors
    BY DEF Answers
  <2>4. a.astray = (n.k # g.key)
    BY <1>3, <2>2
  <2> HIDE DEF g, n
  <2>5. n.sort = s /\ n.id = f /\ (s = "analyst" => n.k # Null)
    BY <2>1, <2>2, CursorShape
  <2>6. UsedCursor(s, n) = n
    BY <2>5 DEF UsedCursor
  <2>7. \A l : Behind(s, ld, n, l) <=> AfterCursor(s, n, Row(ld, l))
    BY <2>2, <2>5, <2>6 DEF Behind
  <2>8. CursorOK(s, n)
    BY <1>3, <2>2, <2>3, <2>5, <2>6 DEF CursorOK
  <2>9. ASSUME NEW l \in a.page, ~Loose(s, a.astray) PROVE ~Behind(s, ld, n, l)
    <3>1. Row(ld, l) \in Entries
      BY <1>1, EntryShape
    <3>2. l = f \/ Before(s, Row(ld, l), g)
      BY <1>3 DEF g
    <3>3. ~AfterCursor(s, n, Row(ld, l))
      BY <2>1, <2>2, <2>4, <2>9, <3>1, <3>2, CursorParts DEF g
    <3>4. QED
      BY <2>7, <3>3
  <2>10. ASSUME NEW l \in Leads, ~Behind(s, ld, c, l), ~Loose(s, a.astray)
         PROVE  ~Behind(s, ld, n, l)
    <3>1. Row(ld, l) \in Entries
      BY EntryShape
    <3>2. Behind(s, ld, c, f)
      BY <2>1
    <3>3. PICK u \in Cursors : u = UsedCursor(s, c)
      BY UsedShape
    <3>4. u.id # 0 /\ ~AfterCursor(s, u, Row(ld, l)) /\ AfterCursor(s, u, g)
      BY <2>10, <3>2, <3>3 DEF Behind, g
    <3>5. s = "analyst" => u.k # Null
      BY <3>3, <3>4 DEF CursorOK
    <3>6. ~AfterCursor(s, n, Row(ld, l))
      BY <2>1, <2>2, <2>4, <2>10, <3>1, <3>4, <3>5, CursorAdvances
    <3>7. QED
      BY <2>7, <3>6
  <2>11. ASSUME NEW l \in cand \ a.page, ~a.astray PROVE Behind(s, ld, n, l)
    <3>1. Row(ld, l) \in Entries
      BY <1>1, EntryShape
    <3>2. Before(s, g, Row(ld, l)) /\ n.k = g.key
      BY <1>3, <2>4, <2>11 DEF g
    <3>3. AfterCursor(s, n, Row(ld, l))
      BY <2>1, <2>2, <3>1, <3>2, CursorParts
    <3>4. QED
      BY <2>7, <3>3
  <2>12. QED
    BY <1>1, <1>3, <2>8, <2>9, <2>10, <2>11 DEF PageOK, n
<1>4. QED
  BY <1>2, <1>3

\* An answer stays right about the rows that have not changed since.
LEMMA StillOK ==
    ASSUME NEW s, NEW c, NEW ld, NEW ld2, NEW ls \in SUBSET Leads, ls # {},
           \A l \in Leads \ ls : ld2[l] = ld[l],
           NEW a, AnswerOK(s, ld, c, a)
    PROVE  AnswerOK(s, ld2, c, Aged(a, ls))
<1>1. CASE a.read \/ a.total # Unknown
  <2> DEFINE b == [a EXCEPT !.since = a.since \cup ls]
  <2>1. Aged(a, ls) = b
    BY <1>1 DEF Aged
  <2>2. a \in Answers
    BY DEF AnswerOK
  <2>3. /\ b \in Answers /\ b.since = a.since \cup ls /\ b.total = a.total /\ b.read = a.read
        /\ b.page = a.page /\ b.more = a.more /\ b.next = a.next /\ b.astray = a.astray
    BY <2>2 DEF Answers
  <2> HIDE DEF b
  <2>4. ASSUME NEW l \in Leads \ b.since
        PROVE  /\ l \in Leads \ a.since /\ (l \in In(ld2) <=> l \in In(ld))
               /\ \A d : Behind(s, ld2, d, l) <=> Behind(s, ld, d, l)
    BY <2>3, <2>4 DEF In, Row, Behind
  <2>5. In(ld) \subseteq Leads /\ In(ld2) \subseteq Leads /\ a.page \subseteq Leads
    BY <2>2 DEF In, Answers
  <2>6. ASSUME a.read PROVE PageOK(s, ld2, c, b)
    <3>1. PageOK(s, ld, c, a)
      BY <2>6 DEF AnswerOK
    <3>2. /\ \A l \in b.page \ b.since : l \in In(ld2) /\ Behind(s, ld2, c, l)
          /\ ~b.more => \A l \in In(ld2) \ b.since : Behind(s, ld2, c, l) => l \in b.page
      BY <2>3, <2>4, <2>5, <3>1 DEF PageOK
    <3>3. b.more /\ ~b.astray =>
             \A l \in In(ld2) \ b.since :
                 Behind(s, ld2, c, l) => l \in b.page \/ Behind(s, ld2, b.next, l)
      BY <2>3, <2>4, <2>5, <3>1 DEF PageOK
    <3>4. b.more => CursorOK(s, b.next)
      BY <2>3, <3>1 DEF PageOK
    <3>5. b.more /\ ~Loose(s, b.astray) =>
             /\ \A l \in b.page \ b.since : ~Behind(s, ld2, b.next, l)
             /\ \A l \in Leads \ b.since :
                   ~Behind(s, ld2, c, l) => ~Behind(s, ld2, b.next, l)
      BY <2>3, <2>4, <2>5, <3>1 DEF PageOK
    <3>6. QED
      BY <3>2, <3>3, <3>4, <3>5 DEF PageOK
  <2>7. TotalOK(ld2, b)
    BY <2>3 DEF TotalOK
  <2>8. QED
    BY <2>1, <2>3, <2>6, <2>7 DEF AnswerOK
<1>2. CASE ~a.read /\ a.total = Unknown
  BY <1>2 DEF AnswerOK, TotalOK, Aged
<1>3. QED
  BY <1>1, <1>2

\* Showing an answer to the cursor the walk holds.
LEMMA ShowIsOK ==
    ASSUME PagingInv, walk.pc \in {"asked", "query"}, NEW a,
           AnswerOK(walk.sort, lead, walk.cursor, a), Computed(a), Show(a), lead' = lead
    PROVE  /\ ShapeInv' /\ WalkInv'
           /\ walk'.pc \in {"paged", "ended"} /\ walk'.sort = walk.sort
           /\ walk'.pc = "ended" /\ moved' = {} => fetch'.total = Cardinality(In(lead))
<1>1. /\ ShapeInv /\ WalkInv /\ walk \in Walks /\ CursorOK(walk.sort, walk.cursor)
      /\ a \in Answers /\ a.read /\ a.total # Unknown
      /\ PageOK(walk.sort, lead, walk.cursor, a) /\ TotalOK(lead, a)
  BY DEF PagingInv, ShapeInv, AnswerOK, Computed
<1> DEFINE s == walk.sort
           c == walk.cursor
<1>2. /\ seen' = seen \cup a.page /\ twice' = twice \cup (seen \cap a.page)
      /\ moved' = moved \cup a.since /\ astray' = (astray \/ a.astray)
      /\ fetch' = [NoAnswer EXCEPT !.total = a.total]
      /\ walk' = IF a.more THEN [walk EXCEPT !.pc = "paged", !.cursor = a.next]
                           ELSE [walk EXCEPT !.pc = "ended"]
  BY DEF Show
<1>3. /\ a.page \subseteq Leads /\ a.since \subseteq Leads /\ a.astray \in BOOLEAN
      /\ a.more \in BOOLEAN /\ a.next \in Cursors
  BY <1>1 DEF Answers
<1>4. /\ walk' \in Walks /\ walk'.sort = s
      /\ a.more => walk'.pc = "paged" /\ walk'.cursor = a.next
      /\ ~a.more => walk'.pc = "ended" /\ walk'.cursor = c
  BY <1>1, <1>2, <1>3 DEF Walks
<1>5. CursorOK(walk'.sort, walk'.cursor)
  BY <1>1, <1>4 DEF PageOK
<1>6. ShapeInv'
  BY <1>1, <1>2, <1>3, <1>4, <1>5 DEF ShapeInv
<1>7. Parted(s, lead, c, seen, moved, astray) /\ seen \subseteq Leads /\ seen \ moved \subseteq In(lead)
  BY <1>1 DEF WalkInv, ShapeInv
<1>8. ~Loose(s, astray') => ~Loose(s, astray) /\ ~Loose(s, a.astray)
  BY <1>2 DEF Loose
<1>9. ~Loose(s, astray') => twice' \subseteq moved'
  <2>1. ASSUME ~Loose(s, astray), NEW l \in seen \cap a.page, l \notin moved \cup a.since
        PROVE  FALSE
    <3>1. ~Behind(s, lead, c, l)
      BY <1>7, <2>1 DEF Parted
    <3>2. Behind(s, lead, c, l)
      BY <1>1, <2>1 DEF PageOK
    <3>3. QED
      BY <3>1, <3>2
  <2>2. ~Loose(s, astray) => twice \subseteq moved
    BY <1>1 DEF WalkInv
  <2>3. QED
    BY <1>2, <1>8, <2>1, <2>2
<1>10. seen' \ moved' \subseteq In(lead)
  BY <1>1, <1>2, <1>7 DEF PageOK
<1>11. ASSUME a.more PROVE Parted(s, lead, a.next, seen', moved', astray')
  <2>1. ASSUME ~Loose(s, astray'), NEW l \in seen' \ moved' PROVE ~Behind(s, lead, a.next, l)
    <3>1. l \in Leads \ a.since /\ (l \in seen \ moved \/ l \in a.page \ a.since)
      BY <1>2, <1>3, <1>7, <2>1
    <3>2. CASE l \in seen \ moved
      <4>1. ~Behind(s, lead, c, l)
        BY <1>7, <1>8, <2>1, <3>2 DEF Parted
      <4>2. QED
        BY <1>1, <1>8, <1>11, <2>1, <3>1, <4>1 DEF PageOK
    <3>3. CASE l \in a.page \ a.since
      BY <1>1, <1>8, <1>11, <2>1, <3>3 DEF PageOK
    <3>4. QED
      BY <3>1, <3>2, <3>3
  <2>2. ASSUME ~astray', NEW l \in In(lead) \ (moved' \cup seen') PROVE Behind(s, lead, a.next, l)
    <3>1. ~astray /\ ~a.astray /\ l \in In(lead) \ (moved \cup seen) /\ l \notin a.since
          /\ l \notin a.page
      BY <1>2, <2>2
    <3>2. Behind(s, lead, c, l)
      BY <1>7, <3>1 DEF Parted
    <3>3. QED
      BY <1>1, <1>11, <3>1, <3>2 DEF PageOK
  <2>3. QED
    BY <2>1, <2>2 DEF Parted
<1>12. ASSUME ~a.more, ~astray' PROVE In(lead) \ moved' \subseteq seen'
  <2>1. ASSUME NEW l \in In(lead) \ moved', l \notin seen PROVE l \in a.page
    <3>1. ~astray /\ l \in In(lead) \ (moved \cup seen) /\ l \notin a.since
      BY <1>2, <1>12, <2>1
    <3>2. Behind(s, lead, c, l)
      BY <1>7, <3>1 DEF Parted
    <3>3. QED
      BY <1>1, <1>12, <3>1, <3>2 DEF PageOK
  <2>2. QED
    BY <1>2, <2>1
<1>13. WalkInv'
  BY <1>3, <1>4, <1>9, <1>10, <1>11, <1>12 DEF WalkInv
<1>14. moved' = {} => fetch'.total = Cardinality(In(lead))
  <2>1. fetch'.total = a.total
    BY <1>2 DEF NoAnswer
  <2>2. moved' = {} => a.since = {}
    BY <1>2
  <2>3. QED
    BY <1>1, <2>1, <2>2 DEF TotalOK
<1>15. QED
  BY <1>3, <1>4, <1>6, <1>13, <1>14

-----------------------------------------------------------------------------
(* The steps of a walk                                                     *)

\* A fetch moves on and nothing else.
LEMMA FetchStep ==
    ASSUME PagingInv, walk.pc = "query", UNCHANGED <<lead, walk, kept, seen, twice, moved, astray>>,
           AnswerOK(walk.sort, lead, walk.cursor, fetch'), fetch'.since \subseteq moved
    PROVE  PagingInv'
<1>1. ShapeInv' /\ WalkInv'
  BY DEF PagingInv, ShapeInv, WalkInv
<1>2. AnswersInv'
  BY DEF PagingInv, AnswersInv
<1>3. QED
  BY <1>1, <1>2 DEF PagingInv

LEMMA CountStep ==
    ASSUME PagingInv, Count
    PROVE  PagingInv'
<1>1. /\ walk.pc = "query" /\ UNCHANGED <<lead, walk, kept, seen, twice, moved, astray>>
      /\ fetch' = [fetch EXCEPT !.total = Cardinality(Listed)]
      /\ AnswerOK(walk.sort, lead, walk.cursor, fetch) /\ fetch.since \subseteq moved
      /\ fetch \in Answers
  BY DEF Count, PagingInv, AnswersInv, AnswerOK
<1>2. Listed = In(lead) /\ Cardinality(In(lead)) \in Nat
  BY PagingAssumption, FS_Subset, FS_CardinalityType DEF Listed, In
<1>3. PICK n \in Nat : n = Cardinality(In(lead))
  BY <1>2
<1>4. /\ fetch' \in Answers /\ fetch'.total = n /\ fetch'.read = fetch.read
      /\ fetch'.page = fetch.page /\ fetch'.more = fetch.more /\ fetch'.next = fetch.next
      /\ fetch'.astray = fetch.astray /\ fetch'.since = fetch.since
  BY <1>1, <1>2, <1>3 DEF Answers
<1>5. AnswerOK(walk.sort, lead, walk.cursor, fetch')
  <2>1. fetch'.read => PageOK(walk.sort, lead, walk.cursor, fetch')
    BY <1>1, <1>4 DEF AnswerOK, PageOK
  <2>2. ~fetch'.read => ~fetch'.more
    BY <1>1, <1>4 DEF AnswerOK
  <2>3. TotalOK(lead, fetch')
    BY <1>3, <1>4 DEF TotalOK
  <2>4. QED
    BY <1>4, <2>1, <2>2, <2>3 DEF AnswerOK
<1>6. QED
  BY <1>1, <1>4, <1>5, FetchStep

\* A page is read, in whatever list.
LEMMA ReadStep ==
    ASSUME PagingInv, walk.pc = "query", ~fetch.read, walk.sort # "export", NEW cand,
           \A l : l \in cand <=> l \in In(lead) /\ Behind(walk.sort, lead, walk.cursor, l),
           Read(walk.sort, cand)
    PROVE  PagingInv'
<1> DEFINE s == walk.sort
<1>1. /\ UNCHANGED <<lead, walk, kept, seen, twice, moved, astray>>
      /\ AnswerOK(s, lead, walk.cursor, fetch) /\ fetch.since \subseteq moved /\ fetch \in Answers
      /\ lead \in [Leads -> Rows(s)] /\ s \in Sorts /\ CursorOK(s, walk.cursor)
  BY DEF Read, PagingInv, AnswersInv, AnswerOK, ShapeInv, Walks
<1>2. PICK page \in SUBSET cand :
          /\ FirstPage(s, cand, page)
          /\ \/ /\ page = cand
                /\ fetch' = [fetch EXCEPT !.read = TRUE, !.page = page]
             \/ /\ page # cand
                /\ \E l \in page :
                      /\ LastOf(s, page, l)
                      /\ fetch' = [fetch EXCEPT !.read = TRUE, !.page = page, !.more = TRUE,
                                      !.next = CursorOf(s, Entry(l)),
                                      !.astray = (CursorOf(s, Entry(l)).k # lead[l].key)]
  BY DEF Read
<1>3. page \subseteq Leads /\ \A l : Entry(l) = Row(lead, l)
  BY <1>2 DEF In, Entry, Row
<1>4. \A l \in page, m \in cand \ page : Before(s, Row(lead, l), Row(lead, m))
  BY <1>2, <1>3 DEF FirstPage
<1>5. CASE page = cand /\ fetch' = [fetch EXCEPT !.read = TRUE, !.page = page]
  <2>1. /\ fetch' \in Answers /\ fetch'.read /\ fetch'.page = page /\ fetch'.more = fetch.more
        /\ fetch'.total = fetch.total /\ fetch'.since = fetch.since
    BY <1>1, <1>3, <1>5 DEF Answers
  <2>2. ~fetch.more
    BY <1>1 DEF AnswerOK
  <2>3. PageOK(s, lead, walk.cursor, fetch')
    BY <1>1, <1>4, <1>5, <2>1, <2>2, PageIsOK
  <2>4. QED
    BY <1>1, <2>1, <2>3, FetchStep DEF AnswerOK, TotalOK
<1>6. ASSUME page # cand, NEW f \in page, LastOf(s, page, f),
             fetch' = [fetch EXCEPT !.read = TRUE, !.page = page, !.more = TRUE,
                                    !.next = CursorOf(s, Entry(f)),
                                    !.astray = (CursorOf(s, Entry(f)).k # lead[f].key)]
      PROVE  PagingInv'
  <2>1. /\ Row(lead, f) \in Entries /\ f \in Leads /\ Row(lead, f).key = lead[f].key
        /\ s = "name" => lead[f].key \in Keys
    BY <1>1, <1>3, <1>6, EntryShape
  <2> DEFINE n == CursorOf(s, Row(lead, f))
  <2>2. n \in Cursors
    <3>0. PICK g \in Entries : g = Row(lead, f)
      BY <2>1
    <3>1. n.id \in Nat /\ n.t \in Nat /\ n.k \in Nat /\ n.sort = s
      <4>1. s = "name" => g.key \in Keys
        BY <2>1, <3>0
      <4>2. n = CursorOf(s, g) /\ g.id \in Nat /\ g.at \in Nat
        BY <3>0 DEF Entries
      <4>3. QED
        BY <4>1, <4>2, CursorShape
    <3>2. n = [sort |-> n.sort, id |-> n.id, k |-> n.k, t |-> n.t]
      BY DEF CursorOf
    <3>3. QED
      BY <1>1, <3>1, <3>2 DEF Cursors
  <2>3. fetch' = [fetch EXCEPT !.read = TRUE, !.page = page, !.more = TRUE,
                               !.next = n, !.astray = (n.k # lead[f].key)]
    BY <1>3, <1>6
  <2> HIDE DEF n
  <2>4. PICK x \in BOOLEAN : x = (n.k # lead[f].key)
    OBVIOUS
  <2>5. /\ fetch' \in Answers /\ fetch'.read /\ fetch'.page = page /\ fetch'.more
        /\ fetch'.next = n /\ fetch'.astray = x
        /\ fetch'.total = fetch.total /\ fetch'.since = fetch.since
    BY <1>1, <1>3, <2>2, <2>3, <2>4 DEF Answers
  <2>6. \A m \in page \ {f} : Before(s, Row(lead, m), Row(lead, f))
    BY <1>3, <1>6 DEF LastOf
  <2>7. PICK a : a = fetch'
    OBVIOUS
  <2>8. /\ a \in Answers /\ a.page = page /\ a.more /\ a.next = CursorOf(s, Row(lead, f))
        /\ a.astray = (a.next.k # lead[f].key)
    BY <2>4, <2>5, <2>7 DEF n
  <2>9. PageOK(s, lead, walk.cursor, a)
    BY <1>1, <1>4, <1>6, <2>6, <2>8, PageIsOK
  <2>10. QED
    BY <1>1, <2>5, <2>7, <2>9, FetchStep DEF AnswerOK, TotalOK
<1>7. QED
  BY <1>2, <1>5, <1>6

LEMMA ListStep ==
    ASSUME PagingInv, List \/ ListSalesExecTeamTransfers \/ ListLeadTransfers
    PROVE  PagingInv'
<1> DEFINE s == walk.sort
           c == walk.cursor
           u == UsedCursor(s, c)
<1>1. walk.pc = "query" /\ ~fetch.read /\ CursorOK(s, c)
  BY DEF List, ListSalesExecTeamTransfers, ListLeadTransfers, PagingInv, ShapeInv
<1>2. \A d, l : l \in Candidates(s, d) <=>
                   l \in In(lead) /\ (d.id = 0 \/ AfterCursor(s, d, Row(lead, l)))
  BY DEF Candidates, Listed, Entry, In, Row
<1>3. \A l : l \in Candidates(s, u) <=> l \in In(lead) /\ Behind(s, lead, c, l)
  BY <1>2 DEF Behind
<1>4. CASE List
  <2>1. s # "export" /\ Read(s, Candidates(s, u))
    BY <1>4 DEF List, LeadSorts
  <2>2. QED
    BY <1>1, <1>3, <2>1, ReadStep
<1>5. CASE ListSalesExecTeamTransfers \/ ListLeadTransfers
  <2>1. s \in TransferLists /\ s # "export" /\ Read(s, Candidates(s, c))
    BY <1>5 DEF ListSalesExecTeamTransfers, ListLeadTransfers, TransferLists
  <2>2. u = c \/ (c.id = 0 /\ u.id = 0)
    BY <1>1, <2>1, NoCursorShape DEF CursorOK, UsedCursor
  <2>3. \A l : l \in Candidates(s, c) <=> l \in In(lead) /\ Behind(s, lead, c, l)
    BY <1>2, <1>3, <2>2
  <2>4. QED
    BY <1>1, <2>1, <2>3, ReadStep
<1>6. QED
  BY <1>4, <1>5

LEMMA ExportStep ==
    ASSUME PagingInv, ExportLeadsPDF
    PROVE  PagingInv'
<1> DEFINE s == walk.sort
<1>1. /\ walk.pc = "query" /\ ~fetch.read /\ s = "export"
      /\ UNCHANGED <<lead, walk, kept, seen, twice, moved, astray>>
      /\ fetch' = [fetch EXCEPT !.read = TRUE, !.page = Listed]
      /\ AnswerOK(s, lead, walk.cursor, fetch) /\ fetch.since \subseteq moved /\ fetch \in Answers
      /\ lead \in [Leads -> Rows(s)] /\ s \in Sorts /\ CursorOK(s, walk.cursor)
  BY DEF ExportLeadsPDF, PagingInv, AnswersInv, AnswerOK, ShapeInv, Walks
<1>2. Listed = In(lead) /\ In(lead) \subseteq Leads
  BY DEF Listed, In
<1>3. /\ fetch' \in Answers /\ fetch'.read /\ fetch'.page = In(lead) /\ fetch'.more = fetch.more
      /\ fetch'.total = fetch.total /\ fetch'.since = fetch.since
  BY <1>1, <1>2 DEF Answers
<1>4. ~fetch.more
  BY <1>1 DEF AnswerOK
<1>5. \A l : l \in In(lead) <=> l \in In(lead) /\ Behind(s, lead, walk.cursor, l)
  BY <1>1 DEF CursorOK, Behind
<1>6. PageOK(s, lead, walk.cursor, fetch')
  BY <1>1, <1>3, <1>4, <1>5, PageIsOK
<1>7. QED
  BY <1>1, <1>3, <1>6, FetchStep DEF AnswerOK, TotalOK

\* The payload that is stored is as right as the answer it holds.
LEMMA StoredIsOK ==
    ASSUME PagingInv, walk.pc = "query", Computed(fetch), Store(Payload) \/ kept' = kept
    PROVE  KeptOK(walk.sort, lead, kept')
<1>1. \A p \in kept' : p \in kept \/ p = Payload
  BY DEF Store
<1>2. KeptOK(walk.sort, lead, kept)
  BY DEF PagingInv, AnswersInv
<1>3. /\ Payload.cursor = walk.cursor /\ Payload.answer = fetch
      /\ AnswerOK(walk.sort, lead, walk.cursor, fetch) /\ walk \in Walks
  BY DEF Payload, PagingInv, AnswersInv, ShapeInv
<1>4. Payload \in Payloads
  BY <1>3 DEF Payload, Payloads, AnswerOK, Walks
<1>5. QED
  BY <1>1, <1>2, <1>3, <1>4 DEF KeptOK

LEMMA AnswerStep ==
    ASSUME PagingInv, Answer
    PROVE  PagingInv'
<1>1. /\ walk.pc = "query" /\ Computed(fetch) /\ Show(fetch) /\ lead' = lead
      /\ Store(Payload) \/ kept' = kept
      /\ AnswerOK(walk.sort, lead, walk.cursor, fetch)
  BY DEF Answer, PagingInv, AnswersInv
<1>2. KeptOK(walk.sort, lead, kept')
  BY <1>1, StoredIsOK
<1>3. QED
  BY <1>1, <1>2, ShowIsOK DEF PagingInv, AnswersInv

LEMMA HitStep ==
    ASSUME PagingInv, NEW p \in kept, Hit(p)
    PROVE  PagingInv'
<1>1. /\ walk.pc = "asked" /\ Show(p.answer) /\ UNCHANGED <<lead, kept>>
      /\ p.cursor = walk.cursor /\ KeptOK(walk.sort, lead, kept)
  BY DEF Hit, PagingInv, AnswersInv
<1>2. Computed(p.answer) /\ AnswerOK(walk.sort, lead, walk.cursor, p.answer)
  BY <1>1 DEF KeptOK
<1>3. QED
  BY <1>1, <1>2, ShowIsOK DEF PagingInv, AnswersInv

\* A walk begins, or is given up.
LEMMA FreshWalk ==
    ASSUME PagingInv, lead' = lead, KeptOK(walk.sort, lead, kept'), fetch' = NoAnswer,
           seen' = {}, twice' = {}, moved' = {}, astray' = FALSE,
           NEW pc \in {"idle", "asked"}, NEW c,
           walk' = [pc |-> pc, sort |-> walk.sort, cursor |-> c],
           CursorOK(walk.sort, c), UsedCursor(walk.sort, c).id = 0
    PROVE  PagingInv'
<1>1. walk \in Walks /\ lead \in [Leads -> Rows(walk.sort)] /\ c \in Cursors
  BY DEF PagingInv, ShapeInv, CursorOK
<1>2. walk' \in Walks /\ walk'.sort = walk.sort /\ walk'.pc = pc /\ walk'.cursor = c
  BY <1>1 DEF Walks
<1>3. ShapeInv'
  BY <1>1, <1>2 DEF ShapeInv
<1>4. \A l : Behind(walk.sort, lead, c, l)
  BY DEF Behind
<1>5. WalkInv'
  BY <1>2, <1>4 DEF WalkInv, Parted
<1>6. AnswersInv'
  BY <1>2 DEF AnswersInv
<1>7. QED
  BY <1>3, <1>5, <1>6 DEF PagingInv

LEMMA StartStep ==
    ASSUME PagingInv,
           NEW c \in {NoCursor} \cup (IF walk.sort \in LeadSorts THEN {StaleCursor} ELSE {}),
           StartWalk(c)
    PROVE  PagingInv'
<1>1. walk.sort \in Sorts /\ KeptOK(walk.sort, lead, kept)
  BY DEF PagingInv, ShapeInv, Walks, AnswersInv
<1>2. CursorOK(walk.sort, c) /\ UsedCursor(walk.sort, c).id = 0
  <2>1. CASE c = NoCursor
    BY <2>1, NoCursorShape
  <2>2. CASE walk.sort \in LeadSorts /\ c = StaleCursor
    <3>1. /\ StaleCursor \in Cursors /\ StaleCursor.sort = "other" /\ walk.sort # "other"
          /\ walk.sort \notin TransferLists
      BY <2>2 DEF StaleCursor, Cursors, LeadSorts, TransferLists
    <3>2. UsedCursor(walk.sort, c) = NoCursor
      BY <2>2, <3>1 DEF UsedCursor
    <3>3. QED
      BY <2>2, <3>1, <3>2, NoCursorShape DEF CursorOK
  <2>3. QED
    BY <2>1, <2>2
<1>3. walk' = [pc |-> "asked", sort |-> walk.sort, cursor |-> c]
  BY DEF StartWalk, Idle
<1>4. QED
  BY <1>1, <1>2, <1>3, FreshWalk DEF StartWalk

LEMMA EndStep ==
    ASSUME PagingInv, Leave \/ Fail
    PROVE  PagingInv'
<1>1. WalkEnds /\ lead' = lead /\ KeptOK(walk.sort, lead, kept')
  <2>1. CASE Leave
    BY <2>1, StoredIsOK DEF Leave
  <2>2. CASE Fail
    BY <2>2 DEF Fail, PagingInv, AnswersInv
  <2>3. QED
    BY <2>1, <2>2
<1>2. walk' = [pc |-> "idle", sort |-> walk.sort, cursor |-> NoCursor]
  BY <1>1 DEF WalkEnds, Idle
<1>3. QED
  BY <1>1, <1>2, NoCursorShape, FreshWalk DEF WalkEnds

LEMMA AskStep ==
    ASSUME PagingInv, NextPage \/ Miss
    PROVE  PagingInv'
<1>1. walk \in Walks
  BY DEF PagingInv, ShapeInv
<1>2. /\ UNCHANGED <<lead, kept, seen, twice, moved, astray>>
      /\ walk' = [walk EXCEPT !.pc = walk'.pc] /\ walk.pc # "ended"
      /\ walk'.pc \in {"asked", "query"} /\ fetch' = NoAnswer
  BY <1>1 DEF NextPage, Miss, PagingInv, AnswersInv, Walks
<1>3. walk' \in Walks /\ walk'.sort = walk.sort /\ walk'.cursor = walk.cursor
  BY <1>1, <1>2 DEF Walks
<1>4. ShapeInv' /\ WalkInv'
  BY <1>2, <1>3 DEF PagingInv, ShapeInv, WalkInv
<1>5. AnswersInv'
  BY <1>2, <1>3, NothingOK, NoAnswerShape DEF PagingInv, AnswersInv
<1>6. QED
  BY <1>4, <1>5 DEF PagingInv

LEMMA ForgetStep ==
    ASSUME PagingInv, UNCHANGED <<lead, walk, fetch, seen, twice, moved, astray>>,
           kept' \subseteq kept
    PROVE  PagingInv'
<1>1. ShapeInv' /\ WalkInv'
  BY DEF PagingInv, ShapeInv, WalkInv
<1>2. KeptOK(walk.sort, lead, kept')
  BY DEF PagingInv, AnswersInv, KeptOK
<1>3. QED
  BY <1>1, <1>2 DEF PagingInv, AnswersInv

-----------------------------------------------------------------------------
(* The rows in ls change                                                   *)

LEMMA MoveStep ==
    ASSUME PagingInv, NEW ls \in SUBSET Leads, ls # {}, Move(ls),
           lead' \in [Leads -> Rows(walk.sort)], \A l \in Leads \ ls : lead'[l] = lead[l]
    PROVE  PagingInv'
<1> DEFINE s == walk.sort
<1>0. /\ moved' = moved \cup ls /\ UNCHANGED <<walk, seen, twice, astray>>
      /\ fetch' = IF walk.pc = "query" THEN Aged(fetch, ls) ELSE fetch
      /\ kept' = AgedPayloads(kept, ls)
      /\ moved \subseteq Leads /\ seen \subseteq Leads
  BY DEF Move, PagingInv, ShapeInv
<1>1. ShapeInv'
  BY <1>0 DEF PagingInv, ShapeInv
<1>2. /\ In(lead) \subseteq Leads /\ In(lead') \subseteq Leads
      /\ \A l \in Leads \ ls :
            /\ l \in In(lead') <=> l \in In(lead)
            /\ \A c : Behind(s, lead', c, l) <=> Behind(s, lead, c, l)
  BY DEF In, Behind, Row
<1>3. ASSUME Parted(s, lead, walk.cursor, seen, moved, astray)
      PROVE  Parted(s, lead', walk.cursor, seen, moved', astray)
  BY <1>0, <1>2, <1>3 DEF Parted
<1>4. WalkInv'
  <2>1. walk'.pc = "ended" /\ ~astray' => In(lead') \ moved' \subseteq seen'
    BY <1>0, <1>2 DEF PagingInv, WalkInv
  <2>2. seen' \ moved' \subseteq In(lead')
    BY <1>0, <1>2 DEF PagingInv, WalkInv
  <2>3. QED
    BY <1>0, <1>3, <2>1, <2>2 DEF PagingInv, WalkInv
<1>5. walk.pc = "query" =>
         AnswerOK(s, lead', walk.cursor, fetch') /\ fetch'.since \subseteq moved'
  <2> SUFFICES ASSUME walk.pc = "query"
               PROVE  AnswerOK(s, lead', walk.cursor, fetch') /\ fetch'.since \subseteq moved'
    OBVIOUS
  <2>1. AnswerOK(s, lead, walk.cursor, fetch) /\ fetch.since \subseteq moved /\ fetch \in Answers
    BY DEF PagingInv, AnswersInv, AnswerOK
  <2>2. AnswerOK(s, lead', walk.cursor, fetch')
    BY <1>0, <2>1, StillOK
  <2>3. fetch'.since \subseteq fetch.since \cup ls
    BY <1>0, <2>1 DEF Aged, Answers
  <2>4. QED
    BY <1>0, <2>1, <2>2, <2>3
<1>6. KeptOK(s, lead', kept')
  <2> SUFFICES ASSUME NEW q \in kept'
               PROVE  q \in Payloads /\ Computed(q.answer) /\ AnswerOK(s, lead', q.cursor, q.answer)
    BY DEF KeptOK
  <2>1. PICK p \in kept : q = [p EXCEPT !.answer = Aged(p.answer, ls)]
    BY <1>0 DEF AgedPayloads
  <2>2. p \in Payloads /\ Computed(p.answer) /\ AnswerOK(s, lead, p.cursor, p.answer)
    BY DEF PagingInv, AnswersInv, KeptOK
  <2>3. PICK a : a = Aged(p.answer, ls)
    OBVIOUS
  <2>4. AnswerOK(s, lead', p.cursor, a)
    BY <2>2, <2>3, StillOK
  <2>5. Computed(a)
    BY <2>2, <2>3 DEF Aged, Computed, Payloads, Answers
  <2>6. q = [p EXCEPT !.answer = a] /\ a \in Answers
    BY <2>1, <2>3, <2>4 DEF AnswerOK
  <2>7. q \in Payloads /\ q.cursor = p.cursor /\ q.answer = a
    BY <2>2, <2>6 DEF Payloads
  <2>8. QED
    BY <2>4, <2>5, <2>7
<1>7. walk'.pc = "asked" => fetch' = NoAnswer
  BY <1>0 DEF PagingInv, AnswersInv
<1>8. AnswersInv'
  BY <1>0, <1>5, <1>6, <1>7 DEF AnswersInv
<1>9. QED
  BY <1>1, <1>4, <1>8 DEF PagingInv

LEMMA StoresStep ==
    ASSUME PagingInv, Stores
    PROVE  PagingInv'
<1> DEFINE s == walk.sort
<1>0. lead \in [Leads -> Rows(s)]
  BY DEF PagingInv, ShapeInv
<1>1. ASSUME NEW l \in Leads, NEW k \in KeysOf(s), NEW t \in TimesOf(s),
             Create(l, k, t) \/ Update(l, k, t)
      PROVE  PagingInv'
  <2>1. CASE Create(l, k, t)
    <3>1. lead' \in [Leads -> Rows(s)] /\ \A m \in Leads \ {l} : lead'[m] = lead[m]
      BY <1>0, <2>1 DEF Create, Rows
    <3>2. QED
      BY <2>1, <3>1, MoveStep DEF Create
  <2>2. CASE Update(l, k, t)
    <3>1. lead' = [lead EXCEPT ![l] = [[lead[l] EXCEPT !.key = k] EXCEPT !.at = t]]
      BY <1>0, <2>2 DEF Update
    <3>2. PICK row : row = [[lead[l] EXCEPT !.key = k] EXCEPT !.at = t]
      OBVIOUS
    <3>3. row \in Rows(s)
      BY <1>0, <3>2 DEF Rows
    <3>4. lead' \in [Leads -> Rows(s)] /\ \A m \in Leads \ {l} : lead'[m] = lead[m]
      BY <1>0, <3>1, <3>2, <3>3
    <3>5. QED
      BY <2>2, <3>4, MoveStep DEF Update
  <2>3. QED
    BY <1>1, <2>1, <2>2
<1>2. ASSUME NEW l \in Leads, Delete(l) PROVE PagingInv'
  <2>1. lead' \in [Leads -> Rows(s)] /\ \A m \in Leads \ {l} : lead'[m] = lead[m]
    BY <1>0, <1>2 DEF Delete, Rows
  <2>2. QED
    BY <1>2, <2>1, MoveStep DEF Delete
<1>3. s = "analyst" => KeysOf(s) = Keys \cup {Null}
  BY DEF KeysOf
<1>4. ASSUME NEW k \in Keys, NEW to \in Keys, RenameUser(k, to) PROVE PagingInv'
  <2>1. lead' \in [Leads -> Rows(s)] /\ \A m \in Leads \ CreatedBy(k) : lead'[m] = lead[m]
    BY <1>0, <1>3, <1>4 DEF RenameUser, Rows
  <2>2. CreatedBy(k) \in SUBSET Leads
    BY DEF CreatedBy
  <2>3. QED
    BY <1>4, <2>1, <2>2, MoveStep DEF RenameUser
<1>5. ASSUME NEW k \in Keys, NEW by \in Keys, NEW late, DeleteUser(k, by, late) PROVE PagingInv'
  <2>1. lead' \in [Leads -> Rows(s)] /\ \A m \in Leads \ CreatedBy(k) : lead'[m] = lead[m]
    BY <1>0, <1>3, <1>5 DEF DeleteUser, Rows
  <2>2. CreatedBy(k) \in SUBSET Leads
    BY DEF CreatedBy
  <2>3. QED
    BY <1>5, <2>1, <2>2, MoveStep DEF DeleteUser
<1>6. QED
  BY <1>1, <1>2, <1>4, <1>5 DEF Stores

LEMMA PagingBegins == Init => PagingInv
<1> SUFFICES ASSUME Init PROVE PagingInv
  OBVIOUS
<1>1. PICK s \in Sorts : lead \in [Leads -> Rows(s)] /\ walk = Idle(s)
  BY DEF Init
<1>2. walk \in Walks /\ walk.sort = s /\ walk.pc = "idle" /\ walk.cursor = NoCursor
  BY <1>1, NoCursorShape DEF Idle, Walks
<1>3. ShapeInv
  BY <1>1, <1>2, NoCursorShape DEF Init, ShapeInv
<1>4. WalkInv
  BY <1>2, NoCursorShape DEF Init, WalkInv, Parted
<1>5. AnswersInv
  BY <1>2 DEF Init, AnswersInv, KeptOK
<1>6. QED
  BY <1>3, <1>4, <1>5 DEF PagingInv

LEMMA PagingKept == PagingInv /\ [Next]_vars => PagingInv'
<1> SUFFICES ASSUME PagingInv, [Next]_vars PROVE PagingInv'
  OBVIOUS
<1>1. CASE UNCHANGED vars
  BY <1>1, ForgetStep DEF vars
<1>2. ASSUME NEW p \in kept, Expire(p) PROVE PagingInv'
  BY <1>2, ForgetStep DEF Expire
<1>3. CASE Clear
  BY <1>3, ForgetStep DEF Clear
<1>4. QED
  BY <1>1, <1>2, <1>3, StartStep, AskStep, HitStep, EndStep, CountStep, ListStep, ExportStep,
     AnswerStep, StoresStep DEF Next

LEMMA PagingHolds == Spec => []PagingInv
BY PagingBegins, PagingKept, PTL DEF Spec

\* No list shows a lead on two pages of one walk unless that lead changed
\* meanwhile, or since the oldest page it was served was read: for every sort
\* of List, both transfer lists and the export, any size of a page, any number
\* of leads that are added, edited, deleted, renamed or handed over between
\* the pages, and whichever pages come from the response cache.
THEOREM NoneTwice == Spec => []NoLeadTwice
<1>1. PagingInv => NoLeadTwice
  BY DEF PagingInv, WalkInv, NoLeadTwice, Loose
<1>2. QED
  BY <1>1, PagingHolds, PTL

\* A walk that ran to its end has shown every lead that was in the list and
\* stayed as it was since its oldest page was read: the row comparison of
\* cursorSQL is the order of orderSQL, but for the analyst's dash and the
\* lower case of a name.
THEOREM NoneMissed == Spec => []NoLeadMissed
<1>1. PagingInv => NoLeadMissed
  <2>1. Listed = In(lead)
    BY DEF Listed, In
  <2>2. QED
    BY <2>1 DEF PagingInv, WalkInv, NoLeadMissed
<1>2. QED
  BY <1>1, PagingHolds, PTL

\* The total told with the last page is the number of leads the walk has
\* shown, when no row changed since the oldest of its pages was read.
THEOREM TotalAddsUp == Spec => []TotalIsTheWalk
<1>1. PagingInv => TotalIsTheWalk
  <2> SUFFICES ASSUME PagingInv, walk.pc = "ended", ~astray, moved = {}
               PROVE  fetch.total = Cardinality(seen)
    BY DEF TotalIsTheWalk
  <2>1. seen \subseteq In(lead) /\ In(lead) \subseteq seen
    BY DEF PagingInv, WalkInv
  <2>2. seen = In(lead)
    BY <2>1
  <2>3. QED
    BY <2>2 DEF PagingInv, AnswersInv
<1>2. QED
  BY <1>1, PagingHolds, PTL
-----------------------------------------------------------------------------
(* Pages of buckets                                                        *)

LEMMA FiniteBuckets ==
    /\ IsFiniteSet(Present) /\ Present \subseteq Buckets /\ Cardinality(Present) \in Nat
    /\ \A bs \in SUBSET Present : IsFiniteSet(bs) /\ Cardinality(bs) \in Nat
<1>1. Present \subseteq Buckets /\ IsFiniteSet(Buckets)
  BY BucketAssumption DEF Present
<1>2. \A bs \in SUBSET Buckets : IsFiniteSet(bs) /\ Cardinality(bs) \in Nat
  BY <1>1, FS_Subset, FS_CardinalityType
<1>3. QED
  BY <1>1, <1>2

\* Without ties, of two sets of topmost buckets one holds the other.
LEMMA TopmostNest ==
    ASSUME ~Tied, NEW x, NEW y, Topmost(x), Topmost(y)
    PROVE  x \subseteq y \/ y \subseteq x
BY DEF Topmost, Tied

\* The page at an offset the client has reached: everything it skips was
\* shown, and nothing else if the offset is exact.
LEMMA SkippedWasShown ==
    ASSUME ~Tied, Topmost(shown), NEW o \in Nat, o <= Cardinality(shown),
           NEW before, Skipped(o, before)
    PROVE  /\ Topmost(before) /\ before \subseteq shown /\ Cardinality(before) = o
           /\ o = Cardinality(shown) => before = shown
<1>1. Topmost(before) /\ before \subseteq Present /\ shown \subseteq Present
  BY DEF Topmost, Skipped
<1>2. PICK n \in Nat : n = Cardinality(before)
  BY <1>1, FiniteBuckets
<1>3. PICK m \in Nat : m = Cardinality(shown)
  BY <1>1, FiniteBuckets
<1>4. /\ IsFiniteSet(before) /\ IsFiniteSet(shown)
      /\ shown \subseteq before => m <= n /\ (m = n => shown = before)
      /\ before \subseteq shown => n <= m /\ (m = n => shown = before)
  BY <1>1, <1>2, <1>3, FiniteBuckets, FS_Subset
<1>5. n = o \/ (before = Present /\ n < o)
  BY <1>2 DEF Skipped
<1>6. n = o
  BY <1>1, <1>3, <1>4, <1>5
<1>7. before \subseteq shown
  BY <1>1, <1>3, <1>4, <1>6, TopmostNest
<1>8. QED
  BY <1>1, <1>2, <1>3, <1>4, <1>6, <1>7

\* What was shown stays topmost when a page is added to it.
LEMMA PageIsNext ==
    ASSUME Topmost(shown), NEW before, Topmost(before), before \subseteq shown,
           NEW page, BucketPage(Present \ before, page)
    PROVE  /\ Topmost(shown \cup page)
           /\ Cardinality(page) \in Nat
           /\ Cardinality(before) + Cardinality(page) <= Cardinality(shown \cup page)
           /\ before = shown =>
                 /\ Cardinality(before) + Cardinality(page) = Cardinality(shown \cup page)
                 /\ shown \cap page = {}
<1>1. page \subseteq Present \ before /\ shown \subseteq Present /\ before \subseteq Present
  BY DEF BucketPage, Topmost
<1>2. ASSUME NEW b \in shown \cup page, NEW c \in Present \ (shown \cup page)
      PROVE  ~Larger(c, b)
  <2>1. CASE b \in shown
    BY <2>1 DEF Topmost
  <2>2. CASE b \in page
    BY <1>2, <2>2 DEF BucketPage
  <2>3. QED
    BY <2>1, <2>2
<1>3. PICK n \in Nat : n = Cardinality(before)
  BY <1>1, FiniteBuckets
<1>4. PICK p \in Nat : p = Cardinality(page)
  BY <1>1, FiniteBuckets
<1>5. PICK m \in Nat : m = Cardinality(shown \cup page)
  BY <1>1, FiniteBuckets
<1>6. Cardinality(before \cup page) = n + p
  <2>1. before \cap page = {} /\ IsFiniteSet(before) /\ IsFiniteSet(page)
    BY <1>1, FiniteBuckets
  <2>2. Cardinality(before \cap page) = 0
    BY <2>1, FS_EmptySet
  <2>3. Cardinality(before \cup page)
           = Cardinality(before) + Cardinality(page) - Cardinality(before \cap page)
    BY <2>1, FS_Union
  <2>4. QED
    BY <1>3, <1>4, <2>2, <2>3
<1>7. Cardinality(before \cup page) <= m
  <2>1. before \cup page \subseteq shown \cup page /\ IsFiniteSet(shown \cup page)
    BY <1>1, FiniteBuckets
  <2>2. QED
    BY <1>5, <2>1, FS_Subset
<1>8. QED
  BY <1>1, <1>2, <1>3, <1>4, <1>5, <1>6, <1>7 DEF Topmost

BucketsInv == BShapeInv /\ BWalkInv /\ BAnswersInv /\ NoBucketTwice

LEMMA GroupsStay ==
    ASSUME UNCHANGED <<group, label>>
    PROVE  /\ Present' = Present /\ (Tied' <=> Tied)
           /\ \A x : Topmost(x)' <=> Topmost(x)
           /\ \A o, a : BAnswerOK(o, a)' <=> BAnswerOK(o, a)
           /\ \A ps : BKeptOK(ps)' <=> BKeptOK(ps)
<1>1. Present' = Present /\ \A b, c : Larger(b, c)' <=> Larger(b, c)
  BY DEF Present, Larger, Size
<1>2. /\ Tied' <=> Tied
      /\ \A x : Topmost(x)' <=> Topmost(x)
      /\ \A o, x : Skipped(o, x)' <=> Skipped(o, x)
      /\ \A x, y : BucketPage(x, y)' <=> BucketPage(x, y)
  BY <1>1 DEF Tied, Topmost, Skipped, BucketPage
<1>3. \A o, a : BAnswerOK(o, a)' <=> BAnswerOK(o, a)
  BY <1>1, <1>2 DEF BAnswerOK
<1>4. QED
  BY <1>1, <1>2, <1>3 DEF BKeptOK

LEMMA NoPageShape ==
    /\ NoPage \in BAnswers /\ ~NoPage.read /\ NoPage.bucketCount = NotCounted /\ ~NoPage.stirred
    /\ \A o : BAnswerOK(o, NoPage)
<1>1. NoPage \in BAnswers /\ ~NoPage.read /\ NoPage.bucketCount = NotCounted /\ ~NoPage.stirred
  BY DEF NoPage, BAnswers
<1>2. QED
  BY <1>1 DEF BAnswerOK

\* A page for the offset the walk asks for reaches the client.
LEMMA ShowBucketsIsOK ==
    ASSUME BucketsInv, bwalk.pc \in {"asked", "query"}, UNCHANGED <<group, label>>,
           NEW a, BAnswerOK(bwalk.offset, a), a.read, ShowBuckets(a)
    PROVE  BShapeInv' /\ BWalkInv' /\ NoBucketTwice' /\ bwalk'.pc \in {"paged", "ended"}
<1>1. /\ BShapeInv /\ BWalkInv /\ NoBucketTwice /\ bwalk \in BWalks /\ a \in BAnswers
      /\ a.bucketCount # NotCounted /\ a.offset = clampSummaryBucketOffset(bwalk.offset)
  BY DEF BucketsInv, BShapeInv, BAnswerOK
<1>2. /\ bwalk.offset \in Nat /\ MaxOffset \in Nat /\ a.offset \in Nat /\ a.page \subseteq Buckets
      /\ a.more \in BOOLEAN /\ a.stirred \in BOOLEAN
  BY <1>1, BucketAssumption DEF BWalks, BAnswers
<1>3. a.offset <= bwalk.offset /\ (bwalk.offset > MaxOffset \/ a.offset = bwalk.offset)
  BY <1>1, <1>2 DEF clampSummaryBucketOffset
<1>4. PICK n \in Nat : n = a.offset + Cardinality(a.page)
  <2>1. Cardinality(a.page) \in Nat
    BY <1>2, BucketAssumption, FS_Subset, FS_CardinalityType
  <2>2. QED
    BY <1>2, <2>1
<1>5. /\ bwalk' = [bwalk EXCEPT !.pc = IF a.more THEN "paged" ELSE "ended", !.offset = n]
      /\ bfetch'.bucketCount = a.bucketCount
      /\ shown' = shown \cup a.page /\ again' = again \cup (shown \cap a.page)
      /\ stirred' = (stirred \/ a.stirred)
      /\ clamped' = (clamped \/ bwalk.offset > MaxOffset)
  BY <1>4 DEF ShowBuckets, NoPage
<1>6. /\ bwalk' \in BWalks /\ bwalk'.offset = n
      /\ bwalk'.pc = IF a.more THEN "paged" ELSE "ended"
  BY <1>1, <1>4, <1>5 DEF BWalks
<1>7. BShapeInv'
  BY <1>1, <1>2, <1>5, <1>6 DEF BShapeInv
<1>8. ASSUME ~stirred, ~a.stirred, ~Tied
      PROVE  /\ Topmost(shown \cup a.page) /\ n <= Cardinality(shown \cup a.page)
             /\ ~clamped' => n = Cardinality(shown \cup a.page) /\ shown \cap a.page = {}
             /\ ~a.more => shown \cup a.page = Present
             /\ a.bucketCount = Cardinality(Present)
  <2>1. /\ Topmost(shown) /\ bwalk.offset <= Cardinality(shown)
        /\ ~clamped => bwalk.offset = Cardinality(shown)
    BY <1>1, <1>8 DEF BWalkInv
  <2>2. PICK m \in Nat : m = Cardinality(shown)
    BY <2>1, FiniteBuckets DEF Topmost
  <2>3. a.offset <= m /\ (~clamped' => a.offset = m)
    <3>1. ~clamped' => ~clamped /\ a.offset = bwalk.offset
      BY <1>3, <1>5
    <3>2. bwalk.offset <= m /\ (~clamped => bwalk.offset = m)
      BY <2>1, <2>2
    <3>3. a.offset <= m
      BY <1>2, <1>3, <2>2, <3>2
    <3>4. QED
      BY <3>1, <3>2, <3>3
  <2>4. PICK before \in SUBSET Present :
            /\ Skipped(a.offset, before)
            /\ BucketPage(Present \ before, a.page)
            /\ a.more <=> a.page # Present \ before
    BY <1>8 DEF BAnswerOK
  <2>5. /\ Topmost(before) /\ before \subseteq shown /\ Cardinality(before) = a.offset
        /\ ~clamped' => before = shown
    BY <1>2, <1>8, <2>1, <2>2, <2>3, <2>4, SkippedWasShown
  <2>6. /\ Topmost(shown \cup a.page) /\ n <= Cardinality(shown \cup a.page)
        /\ ~clamped' => n = Cardinality(shown \cup a.page) /\ shown \cap a.page = {}
    BY <1>4, <2>1, <2>4, <2>5, PageIsNext
  <2>7. ~a.more => shown \cup a.page = Present
    BY <2>1, <2>4, <2>5 DEF Topmost
  <2>8. a.bucketCount = Cardinality(Present)
    BY <1>1, <1>8 DEF BAnswerOK
  <2>9. QED
    BY <2>6, <2>7, <2>8
<1>9. BWalkInv'
  <2>1. ~stirred' => ~stirred /\ ~a.stirred
    BY <1>5
  <2>2. (bwalk'.pc = "ended") <=> ~a.more
    BY <1>6
  <2>3. /\ Present' = Present /\ (Tied' <=> Tied)
        /\ \A x : Topmost(x)' <=> Topmost(x)
    BY GroupsStay
  <2>4. ASSUME ~stirred', ~Tied'
        PROVE  /\ Topmost(shown)'
               /\ n <= Cardinality(shown') /\ (~clamped' => n = Cardinality(shown'))
               /\ bwalk'.pc = "ended" =>
                     shown' = Present' /\ bfetch'.bucketCount = Cardinality(Present')
    <3>1. PICK x : x = shown \cup a.page
      OBVIOUS
    <3>2. Topmost(x)' /\ shown' = x
      BY <1>5, <1>8, <2>1, <2>3, <2>4, <3>1
    <3>3. Topmost(shown)'
      BY <3>2 DEF Topmost
    <3>4. QED
      BY <1>5, <1>8, <2>1, <2>2, <2>3, <2>4, <3>3
  <2>5. QED
    BY <1>6, <2>4 DEF BWalkInv
<1>10. NoBucketTwice'
  BY <1>1, <1>5, <1>8, GroupsStay DEF NoBucketTwice
<1>11. QED
  BY <1>6, <1>7, <1>9, <1>10

LEMMA HitPageStep ==
    ASSUME BucketsInv, NEW p \in bkept, HitPage(p)
    PROVE  BucketsInv'
<1>1. /\ bwalk.pc = "asked" /\ UNCHANGED <<group, label>> /\ bkept' = bkept
      /\ BKeptOK(bkept) /\ ShowBuckets(p.answer)
      /\ p.answer.read /\ BAnswerOK(bwalk.offset, p.answer)
  BY DEF HitPage, BucketsInv, BAnswersInv, BKeptOK
<1>2. BShapeInv' /\ BWalkInv' /\ NoBucketTwice' /\ bwalk'.pc \in {"paged", "ended"}
  BY <1>1, ShowBucketsIsOK
<1>3. BKeptOK(bkept)'
  BY <1>1, GroupsStay
<1>4. QED
  BY <1>2, <1>3 DEF BucketsInv, BAnswersInv

\* The payload that is stored is as right as the page it holds.
LEMMA StoredPageIsOK ==
    ASSUME BucketsInv, bwalk.pc = "query", bfetch.read, StorePage(PagePayload),
           UNCHANGED <<group, label>>
    PROVE  BKeptOK(bkept)'
<1>1. /\ BKeptOK(bkept) /\ BAnswerOK(bwalk.offset, bfetch) /\ bwalk \in BWalks
  BY DEF BucketsInv, BAnswersInv, BShapeInv
<1>2. /\ PagePayload.offset = bwalk.offset /\ PagePayload.answer = bfetch
      /\ PagePayload \in BPayloads
  BY <1>1 DEF PagePayload, BPayloads, BAnswerOK, BWalks
<1>3. \A p \in bkept' : p \in bkept \/ p = PagePayload
  BY DEF StorePage
<1>4. BKeptOK(bkept')
  BY <1>1, <1>2, <1>3 DEF BKeptOK
<1>5. PICK ps : ps = bkept'
  OBVIOUS
<1>6. BKeptOK(ps)'
  BY <1>4, <1>5, GroupsStay
<1>7. QED
  BY <1>5, <1>6 DEF BKeptOK

LEMMA AnswerBucketsStep ==
    ASSUME BucketsInv, AnswerBuckets
    PROVE  BucketsInv'
<1>1. /\ bwalk.pc = "query" /\ UNCHANGED <<group, label>> /\ bfetch.read /\ ShowBuckets(bfetch)
      /\ StorePage(PagePayload) /\ BAnswerOK(bwalk.offset, bfetch)
  BY DEF AnswerBuckets, BucketsInv, BAnswersInv
<1>2. BShapeInv' /\ BWalkInv' /\ NoBucketTwice' /\ bwalk'.pc \in {"paged", "ended"}
  BY <1>1, ShowBucketsIsOK
<1>3. BKeptOK(bkept)'
  BY <1>1, StoredPageIsOK
<1>4. QED
  BY <1>2, <1>3 DEF BucketsInv, BAnswersInv

\* The count and the page are read.
LEMMA BucketsFetchStep ==
    ASSUME BucketsInv, SummaryBuckets \/ ReadBuckets
    PROVE  BucketsInv'
<1>1. /\ bwalk.pc = "query" /\ UNCHANGED <<group, label, bwalk, bkept, shown, again, stirred, clamped>>
      /\ BAnswerOK(bwalk.offset, bfetch) /\ (bfetch.stirred => stirred)
      /\ bfetch \in BAnswers /\ bwalk.offset \in Nat
  BY DEF SummaryBuckets, ReadBuckets, BucketsInv, BAnswersInv, BAnswerOK, BShapeInv, BWalks
<1>2. BAnswerOK(bwalk.offset, bfetch') /\ bfetch'.stirred = bfetch.stirred
  <2>1. CASE SummaryBuckets
    <3>1. PICK n \in Nat : n = Cardinality(Present)
      BY FiniteBuckets
    <3>2. PICK o \in Nat : o = clampSummaryBucketOffset(bwalk.offset)
      BY <1>1, BucketAssumption DEF clampSummaryBucketOffset
    <3>3. /\ bfetch' = [bfetch EXCEPT !.bucketCount = n, !.offset = o]
          /\ bfetch.bucketCount = NotCounted
      BY <2>1, <3>1, <3>2 DEF SummaryBuckets
    <3>4. /\ bfetch' \in BAnswers /\ bfetch'.bucketCount = n /\ bfetch'.offset = o
          /\ bfetch'.read = bfetch.read /\ bfetch'.stirred = bfetch.stirred
      BY <1>1, <3>3 DEF BAnswers
    <3>5. ~bfetch.read /\ n # NotCounted
      BY <1>1, <3>3 DEF BAnswerOK, NotCounted
    <3>6. QED
      BY <3>1, <3>2, <3>4, <3>5 DEF BAnswerOK
  <2>2. CASE ReadBuckets
    <3>1. PICK before \in SUBSET Present : \E page \in SUBSET (Present \ before) :
              /\ Skipped(bfetch.offset, before)
              /\ BucketPage(Present \ before, page)
              /\ bfetch' = [bfetch EXCEPT !.read = TRUE, !.page = page,
                                          !.more = (page # Present \ before)]
      BY <2>2 DEF ReadBuckets
    <3>2. PICK page \in SUBSET (Present \ before) :
              /\ Skipped(bfetch.offset, before)
              /\ BucketPage(Present \ before, page)
              /\ bfetch' = [bfetch EXCEPT !.read = TRUE, !.page = page,
                                          !.more = (page # Present \ before)]
      BY <3>1
    <3>3. PICK x \in BOOLEAN : x = (page # Present \ before)
      OBVIOUS
    <3>4. bfetch' = [bfetch EXCEPT !.read = TRUE, !.page = page, !.more = x]
      BY <3>2, <3>3
    <3>5. /\ bfetch' \in BAnswers /\ bfetch'.bucketCount = bfetch.bucketCount
          /\ bfetch'.offset = bfetch.offset /\ bfetch'.read /\ bfetch'.page = page
          /\ bfetch'.more = x /\ bfetch'.stirred = bfetch.stirred
      <4>1. page \subseteq Buckets
        BY FiniteBuckets
      <4>2. QED
        BY <1>1, <3>4, <4>1 DEF BAnswers
    <3>6. bfetch.bucketCount # NotCounted
      BY <2>2 DEF ReadBuckets
    <3>7. QED
      BY <1>1, <3>2, <3>3, <3>5, <3>6 DEF BAnswerOK
  <2>3. QED
    BY <2>1, <2>2
<1>3. PICK a : a = bfetch'
  OBVIOUS
<1>4. BAnswerOK(bwalk.offset, a)' /\ BKeptOK(bkept)'
  <2>1. BKeptOK(bkept)
    BY DEF BucketsInv, BAnswersInv
  <2>2. QED
    BY <1>1, <1>2, <1>3, <2>1, GroupsStay
<1>5. BShapeInv' /\ NoBucketTwice'
  BY <1>1, GroupsStay DEF BucketsInv, BShapeInv, NoBucketTwice
<1>6. BWalkInv'
  BY <1>1, GroupsStay DEF BucketsInv, BWalkInv
<1>7. BAnswersInv'
  BY <1>1, <1>2, <1>3, <1>4 DEF BAnswersInv
<1>8. QED
  BY <1>5, <1>6, <1>7 DEF BucketsInv

\* A walk begins, or is given up.
LEMMA FreshBuckets ==
    ASSUME BucketsInv, UNCHANGED <<group, label>>, BKeptOK(bkept)', bfetch' = NoPage,
           shown' = {}, again' = {}, stirred' = FALSE, clamped' = FALSE,
           NEW pc \in {"idle", "asked"}, NEW n \in Nat,
           bwalk' = [pc |-> pc, dimension |-> bwalk.dimension, offset |-> 0, pages |-> n]
    PROVE  BucketsInv'
<1>1. /\ bwalk \in BWalks /\ group \in [Grouped -> Buckets \cup {None}]
      /\ label \in [Buckets -> Buckets]
  BY DEF BucketsInv, BShapeInv
<1>2. bwalk' \in BWalks /\ bwalk'.pc = pc /\ bwalk'.offset = 0
  BY <1>1 DEF BWalks
<1>3. BShapeInv' /\ NoBucketTwice'
  BY <1>1, <1>2 DEF BShapeInv, NoBucketTwice
<1>4. Cardinality({}) = 0 /\ Topmost({})
  BY FS_EmptySet DEF Topmost
<1>5. BWalkInv'
  BY <1>2, <1>4, GroupsStay DEF BWalkInv
<1>6. BAnswersInv'
  BY <1>2 DEF BAnswersInv
<1>7. QED
  BY <1>3, <1>5, <1>6 DEF BucketsInv

LEMMA FreshBucketsStep ==
    ASSUME BucketsInv, StartBuckets \/ LeaveBuckets \/ BFail
    PROVE  BucketsInv'
<1>1. UNCHANGED <<group, label>> /\ BKeptOK(bkept)
  BY DEF StartBuckets, LeaveBuckets, BFail, BucketsInv, BAnswersInv
<1>2. CASE StartBuckets
  <2>1. bwalk' = [pc |-> "asked", dimension |-> bwalk.dimension, offset |-> 0, pages |-> 1]
    BY <1>2 DEF StartBuckets, BIdle
  <2>2. BKeptOK(bkept)'
    <3>1. bkept' = bkept
      BY <1>2 DEF StartBuckets
    <3>2. QED
      BY <1>1, <3>1, GroupsStay
  <2>3. QED
    BY <1>1, <1>2, <2>1, <2>2, FreshBuckets DEF StartBuckets
<1>3. CASE LeaveBuckets \/ BFail
  <2>1. BKeptOK(bkept)'
    <3>1. CASE LeaveBuckets
      BY <1>1, <3>1, StoredPageIsOK DEF LeaveBuckets
    <3>2. CASE BFail
      <4>1. bkept' = bkept
        BY <3>2 DEF BFail
      <4>2. QED
        BY <1>1, <4>1, GroupsStay
    <3>3. QED
      BY <1>3, <3>1, <3>2
  <2>2. bwalk' = [pc |-> "idle", dimension |-> bwalk.dimension, offset |-> 0, pages |-> 0]
    BY <1>3 DEF LeaveBuckets, BFail, BWalkEnds, BIdle
  <2>3. QED
    BY <1>1, <1>3, <2>1, <2>2, FreshBuckets DEF LeaveBuckets, BFail, BWalkEnds
<1>4. QED
  BY <1>2, <1>3

LEMMA AskBucketsStep ==
    ASSUME BucketsInv, MoreBuckets \/ MissPage
    PROVE  BucketsInv'
<1>1. bwalk \in BWalks /\ BKeptOK(bkept)
  BY DEF BucketsInv, BShapeInv, BAnswersInv
<1>2. /\ UNCHANGED <<group, label, bkept, shown, again, stirred, clamped>> /\ bfetch' = NoPage
      /\ bwalk.pc \in {"asked", "paged"}
      /\ bwalk' \in BWalks /\ bwalk'.pc \in {"asked", "query"} /\ bwalk'.offset = bwalk.offset
  <2>1. CASE MoreBuckets
    <3>1. bwalk' = [bwalk EXCEPT !.pc = "asked", !.pages = bwalk.pages + 1]
      BY <2>1 DEF MoreBuckets
    <3>2. bwalk.pages + 1 \in Nat
      BY <1>1 DEF BWalks
    <3>3. QED
      BY <1>1, <2>1, <3>1, <3>2 DEF MoreBuckets, BWalks
  <2>2. CASE MissPage
    BY <1>1, <2>2 DEF MissPage, BWalks, BucketsInv, BAnswersInv
  <2>3. QED
    BY <2>1, <2>2
<1>3. BShapeInv' /\ NoBucketTwice'
  BY <1>2, GroupsStay DEF BucketsInv, BShapeInv, NoBucketTwice
<1>4. BWalkInv'
  BY <1>2, GroupsStay DEF BucketsInv, BWalkInv
<1>5. BAnswersInv'
  <2>1. BKeptOK(bkept)'
    BY <1>1, <1>2, GroupsStay
  <2>2. PICK o : o = bwalk'.offset
    OBVIOUS
  <2>3. BAnswerOK(o, NoPage)' /\ NoPage' = NoPage
    BY <1>2, NoPageShape, GroupsStay DEF NoPage
  <2>4. QED
    BY <1>2, <2>1, <2>2, <2>3, NoPageShape DEF BAnswersInv
<1>6. QED
  BY <1>3, <1>4, <1>5 DEF BucketsInv

\* Payloads expire or are cleared, or nothing happens.
LEMMA ForgetBucketsStep ==
    ASSUME BucketsInv, UNCHANGED <<group, label, bwalk, bfetch, shown, again, stirred, clamped>>,
           bkept' \subseteq bkept
    PROVE  BucketsInv'
<1>1. BShapeInv' /\ NoBucketTwice' /\ BWalkInv'
  BY GroupsStay DEF BucketsInv, BShapeInv, NoBucketTwice, BWalkInv
<1>2. PICK ps : ps = bkept'
  OBVIOUS
<1>3. BKeptOK(ps)
  BY <1>2 DEF BucketsInv, BAnswersInv, BKeptOK
<1>4. BKeptOK(ps)' /\ \A o, a : BAnswerOK(o, a)' <=> BAnswerOK(o, a)
  BY <1>3, GroupsStay
<1>5. PICK o, a : o = bwalk.offset /\ a = bfetch
  OBVIOUS
<1>6. BAnswersInv'
  BY <1>2, <1>4, <1>5 DEF BucketsInv, BAnswersInv
<1>7. QED
  BY <1>1, <1>6 DEF BucketsInv

\* A lead changes its bucket: whatever was read before is out of date.
LEMMA RegroupStep ==
    ASSUME BucketsInv, NEW l \in Grouped, NEW b \in Buckets \cup {None}, Regroup(l, b)
    PROVE  BucketsInv'
<1>1. /\ group' = [group EXCEPT ![l] = b] /\ stirred' = TRUE
      /\ bfetch' = IF bwalk.pc = "query" THEN AgedPage(bfetch) ELSE bfetch
      /\ bkept' = AgedPages(bkept)
      /\ UNCHANGED <<label, bwalk, shown, again, clamped>>
  BY DEF Regroup
<1>2. BShapeInv' /\ BWalkInv' /\ NoBucketTwice'
  BY <1>1 DEF BucketsInv, BShapeInv, BWalkInv, NoBucketTwice
<1>3. ASSUME NEW o, NEW a, BAnswerOK(o, a), NEW z, z = AgedPage(a)
      PROVE  BAnswerOK(o, z)' /\ z \in BAnswers /\ z.read = a.read
  <2>1. /\ z \in BAnswers /\ z.read = a.read /\ z.bucketCount = a.bucketCount
        /\ z.offset = a.offset /\ (a.bucketCount # NotCounted => z.stirred)
    BY <1>3 DEF BAnswerOK, AgedPage, BAnswers
  <2>2. QED
    BY <1>3, <2>1 DEF BAnswerOK
<1>4. ASSUME bwalk.pc = "query" PROVE BAnswerOK(bwalk.offset, bfetch)'
  <2>1. PICK o : o = bwalk.offset
    OBVIOUS
  <2>2. PICK a : a = bfetch
    OBVIOUS
  <2>3. PICK z : z = AgedPage(a)
    OBVIOUS
  <2>4. BAnswerOK(o, a)
    BY <1>4, <2>1, <2>2 DEF BucketsInv, BAnswersInv
  <2>5. BAnswerOK(o, z)'
    BY <1>3, <2>3, <2>4
  <2>6. bfetch' = z /\ bwalk'.offset = o
    BY <1>1, <1>4, <2>1, <2>2, <2>3
  <2>7. QED
    BY <2>5, <2>6
<1>5. BKeptOK(bkept)'
  <2> SUFFICES ASSUME NEW q \in bkept'
               PROVE  q \in BPayloads /\ q.answer.read /\ BAnswerOK(q.offset, q.answer)'
    BY DEF BKeptOK
  <2>1. PICK p \in bkept : q = [p EXCEPT !.answer = AgedPage(p.answer)]
    BY <1>1 DEF AgedPages
  <2>2. p \in BPayloads /\ p.answer.read /\ BAnswerOK(p.offset, p.answer)
    BY DEF BucketsInv, BAnswersInv, BKeptOK
  <2>3. PICK z : z = AgedPage(p.answer)
    OBVIOUS
  <2>4. BAnswerOK(p.offset, z)' /\ z \in BAnswers /\ z.read
    BY <1>3, <2>2, <2>3
  <2>5. q = [p EXCEPT !.answer = z]
    BY <2>1, <2>3
  <2>6. q \in BPayloads /\ q.offset = p.offset /\ q.answer = z
    BY <2>2, <2>4, <2>5 DEF BPayloads
  <2>7. QED
    BY <2>4, <2>6
<1>6. BAnswersInv'
  BY <1>1, <1>4, <1>5 DEF BucketsInv, BAnswersInv
<1>7. QED
  BY <1>2, <1>6 DEF BucketsInv

LEMMA BucketsBegin == BInit => BucketsInv
<1> SUFFICES ASSUME BInit PROVE BucketsInv
  OBVIOUS
<1>1. PICK d \in Dimensions : label \in Labels(d) /\ bwalk = BIdle(d)
  BY DEF BInit
<1>2. bwalk \in BWalks /\ bwalk.pc = "idle"
  BY <1>1 DEF BIdle, BWalks
<1>3. QED
  BY <1>1, <1>2 DEF BInit, Labels, BucketsInv, BShapeInv, BWalkInv, BAnswersInv, BKeptOK,
                    NoBucketTwice

LEMMA BucketsKept == BucketsInv /\ [BNext]_bvars => BucketsInv'
<1> SUFFICES ASSUME BucketsInv, [BNext]_bvars PROVE BucketsInv'
  OBVIOUS
<1>1. CASE UNCHANGED bvars
  BY <1>1, ForgetBucketsStep DEF bvars
<1>2. ASSUME NEW p \in bkept, ExpirePage(p) PROVE BucketsInv'
  BY <1>2, ForgetBucketsStep DEF ExpirePage
<1>3. CASE ClearPages
  BY <1>3, ForgetBucketsStep DEF ClearPages
<1>4. QED
  BY <1>1, <1>2, <1>3, FreshBucketsStep, AskBucketsStep, HitPageStep, BucketsFetchStep,
     AnswerBucketsStep, RegroupStep
     DEF BNext, paginatedQualificationReasons, paginatedAttributionMix,
         paginatedAnalystLeadStats, paginatedSalesExecOutcomes

LEMMA BucketsHold == BSpec => []BucketsInv
BY BucketsBegin, BucketsKept, PTL DEF BSpec

\* While no lead changes its bucket, in the walk or since the oldest page it
\* was served was read, and no two buckets tie, no page of the dashboard's
\* buckets repeats one, for any number of leads and buckets and any size of a
\* page, up to the largest offset (SummaryBuckets and the paginated queries,
\* and the response cache that keeps their pages).
THEOREM NoBucketRepeats == BSpec => []NoBucketTwice
<1>1. BucketsInv => NoBucketTwice
  BY DEF BucketsInv
<1>2. QED
  BY <1>1, BucketsHold, PTL

\* And a walk that was told no more buckets follow has been shown them all,
\* as many as bucketCount said, clamped offsets included.
THEOREM NoBucketLeftOut == BSpec => []NoBucketMissed
<1>1. BucketsInv => NoBucketMissed
  BY DEF BucketsInv, BWalkInv, NoBucketMissed
<1>2. QED
  BY <1>1, BucketsHold, PTL

=============================================================================
