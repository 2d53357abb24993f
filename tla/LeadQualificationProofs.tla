---------------------- MODULE LeadQualificationProofs -----------------------
(***************************************************************************)
(* Proofs about LeadQualification for every number of requests, statuses   *)
(* and reasons, and every bound on the clock and the log.                  *)
(***************************************************************************)
EXTENDS LeadQualification, TLAPS

USE QualAssumption

\* Some row of the log led to status s.
LedTo(s) == \E i \in DOMAIN log : log[i].to = s

\* Between the read of a request and its transaction.
Deciding == {"stamp", "status", "write"}

\* What a request carries at each of its steps.
Shape(x) ==
    /\ x.pc \in Deciding =>
          x.want \in Statuses /\ (x.op = "mark" => x.want = "IRRELEVANT" /\ x.reason \in Reasons)
    /\ x.pc \in {"count", "seed"} => x.seen \in Statuses

\* A status a request has seen was logged before it was seen.
SeenIsLogged(x) ==
    Live /\ Logged /\ x.pc \in Deciding /\ x.seen # Null => LedTo(x.seen)

\* A mark that was accepted is the one that is stored.
Accepted(x) ==
    x.op = "mark" /\ x.pc \in {"get", "count", "seed", "answer"} /\ Live
        => lead.notAppropriate /\ lead.reason = x.reason

\* Nobody works on a lead that is not there yet.
Waiting(x) == lead.row = "absent" => x.pc \in {"idle", "get"} /\ x.op \in {"none", "view"}

\* The inductive invariant.
QualInv ==
    /\ TypeOK
    /\ Live => lead.status \in Statuses
    /\ lead.row = "absent" => log = <<>>
    /\ Live /\ Logged => LedTo(lead.status)
    /\ \A q \in Requests : /\ Shape(request[q])
                           /\ SeenIsLogged(request[q])
                           /\ Accepted(request[q])
                           /\ Waiting(request[q])

\* Log m is l, grown by at most a row that leads to status to.
Grown(l, m, from, to, source) ==
    /\ m \in Seq(LogRows)
    /\ DOMAIN l \subseteq DOMAIN m
    /\ \A i \in DOMAIN l : m[i] = l[i]
    /\ (from # Null /\ from = to) \/ (\E i \in DOMAIN m : m[i].to = to)
    /\ l = <<>> /\ m # <<>> => m[1].source = source
    /\ l # <<>> => m # <<>> /\ m[1] = l[1]

\* insertQualificationLog keeps the rows there are, and adds one that leads
\* to the new status unless the status it is told of has not changed.
LEMMA InsertResult ==
    ASSUME NEW l \in Seq(LogRows), NEW from \in Statuses \cup {Null}, NEW to \in Statuses,
           NEW at \in Times, NEW source \in Sources
    PROVE  Grown(l, insertQualificationLog(l, from, to, at, source), from, to, source)
<1> DEFINE m == insertQualificationLog(l, from, to, at, source)
           row == [from |-> from, to |-> to, at |-> at, source |-> source]
<1>1. row \in LogRows
  BY DEF LogRows
<1>2. CASE from # Null /\ from = to
  <2>1. m = l
    BY <1>2 DEF insertQualificationLog
  <2> HIDE DEF m
  <2>2. QED
    BY <1>2, <2>1 DEF Grown, m
<1>3. CASE ~(from # Null /\ from = to)
  <2>1. m = Append(l, row)
    BY <1>3 DEF insertQualificationLog
  <2>2. /\ m \in Seq(LogRows) /\ Len(m) = Len(l) + 1 /\ Len(l) \in Nat
        /\ DOMAIN l = 1 .. Len(l) /\ DOMAIN m = 1 .. Len(m)
        /\ \A i \in 1 .. Len(l) : m[i] = l[i]
        /\ m[Len(l) + 1] = row
    BY <1>1, <2>1
  <2>3. m # <<>> /\ (l = <<>> => Len(l) = 0) /\ (l # <<>> => Len(l) >= 1)
    BY <2>2
  <2>4. row.to = to /\ row.source = source
    OBVIOUS
  <2> HIDE DEF row, m
  <2>5. \E i \in DOMAIN m : m[i].to = to
    <3>1. Len(l) + 1 \in DOMAIN m
      BY <2>2
    <3>2. QED
      BY <2>2, <2>4, <3>1
  <2>6. QED
    BY <2>2, <2>3, <2>4, <2>5 DEF Grown, m
<1>4. QED
  BY <1>2, <1>3

\* A step that moves one request and writes neither the row nor the log.
LEMMA QuietStep ==
    ASSUME QualInv, NEW r \in Requests, NEW x \in RequestRows,
           UNCHANGED <<lead, log, clock, blind>>,
           request' = [request EXCEPT ![r] = x],
           Shape(x), SeenIsLogged(x), Accepted(x), Waiting(x)
    PROVE  QualInv'
<1>1. TypeOK'
  BY DEF QualInv, TypeOK
<1>2. \A q \in Requests : request'[q] = IF q = r THEN x ELSE request[q]
  BY DEF QualInv, TypeOK
<1>3. \A q \in Requests : /\ Shape(request[q])' /\ SeenIsLogged(request[q])'
                          /\ Accepted(request[q])' /\ Waiting(request[q])'
  <2> SUFFICES ASSUME NEW q \in Requests
               PROVE  /\ Shape(request[q])' /\ SeenIsLogged(request[q])'
                      /\ Accepted(request[q])' /\ Waiting(request[q])'
    OBVIOUS
  <2>1. CASE q = r
    BY <1>2, <2>1 DEF Shape, SeenIsLogged, Accepted, Waiting, Live, Logged, LedTo
  <2>2. CASE q # r
    BY <1>2, <2>2 DEF QualInv, Shape, SeenIsLogged, Accepted, Waiting, Live, Logged, LedTo
  <2>3. QED
    BY <2>1, <2>2
<1>4. QED
  BY <1>1, <1>3 DEF QualInv, Live, Logged, LedTo

\* A transaction of r that tells the log of a change from one status to
\* another, and leaves the row with either its old status or the new one.
LEMMA CommitStep ==
    ASSUME QualInv, NEW r \in Requests, NEW pc \in {"get", "answer"},
           NEW from \in Statuses \cup {Null}, NEW to \in Statuses, NEW at \in Times,
           NEW source \in Sources \ {"create"},
           Live, lead' \in LeadRows, lead'.row = "live",
           log' = insertQualificationLog(log, from, to, at, source),
           Committed(r, pc), clock' = clock,
           lead'.status \in {lead.status, to},
           lead'.status = to /\ from = to /\ from # Null /\ Logged
               => LedTo(to) \/ lead.status = to,
           lead.notAppropriate => lead'.notAppropriate /\ lead'.reason = lead.reason,
           request[r].op = "mark" => lead'.notAppropriate /\ lead'.reason = request[r].reason
    PROVE  QualInv'
<1>1. Grown(log, log', from, to, source)
  <2>1. log \in Seq(LogRows) /\ source \in Sources
    BY DEF QualInv, TypeOK
  <2>2. QED
    BY InsertResult, <2>1
<1>2. Logged' => Logged
  BY <1>1 DEF Logged, Grown
<1>3. \A s : LedTo(s) => LedTo(s)'
  BY <1>1 DEF LedTo, Grown
<1>4. /\ request' \in [Requests -> RequestRows]
      /\ \A q \in Requests : /\ request'[q].op = request[q].op
                             /\ request'[q].want = request[q].want
                             /\ request'[q].reason = request[q].reason
                             /\ request'[q].seen = request[q].seen
                             /\ request'[q].pc = IF q = r THEN pc ELSE request[q].pc
  <2> DEFINE late(q) == request[q].late \/ (q # r /\ request[q].pc # "idle")
             x(q) == [request[q] EXCEPT !.late = late(q)]
  <2>1. \A q \in Requests : request[q] \in RequestRows
    BY DEF QualInv, TypeOK
  <2>2. \A q \in Requests : late(q) \in BOOLEAN
    OBVIOUS
  <2>3. request' = [[q \in Requests |-> x(q)] EXCEPT ![r].pc = pc]
    BY DEF Committed, Overtaken
  <2> HIDE DEF late
  <2>4. \A q \in Requests : /\ x(q) \in RequestRows
                             /\ x(q).op = request[q].op /\ x(q).want = request[q].want
                             /\ x(q).reason = request[q].reason
                             /\ x(q).seen = request[q].seen /\ x(q).pc = request[q].pc
    BY <2>1, <2>2 DEF RequestRows
  <2> HIDE DEF x
  <2>5. [x(r) EXCEPT !.pc = pc] \in RequestRows
    BY <2>4 DEF RequestRows, PCs
  <2>6. request' = [q \in Requests |-> IF q = r THEN [x(r) EXCEPT !.pc = pc] ELSE x(q)]
    BY <2>3
  <2>7. QED
    BY <2>4, <2>5, <2>6 DEF RequestRows
<1>5. blind' \in BOOLEAN
  BY DEF QualInv, TypeOK, Committed, RequestRows
<1>6. TypeOK'
  BY <1>1, <1>4, <1>5 DEF QualInv, TypeOK, Grown
<1>7. Live' /\ lead'.status \in Statuses
  BY DEF QualInv, Live
<1>8. Logged' => LedTo(lead.status)'
  <2> SUFFICES ASSUME Logged' PROVE LedTo(lead.status)'
    OBVIOUS
  <2>1. Logged /\ LedTo(lead.status)
    BY <1>2 DEF QualInv
  <2>2. CASE lead'.status = lead.status
    BY <2>1, <2>2, <1>3 DEF LedTo
  <2>3. CASE lead'.status = to
    BY <2>1, <2>3, <1>1, <1>3 DEF LedTo, Grown
  <2>4. QED
    BY <2>2, <2>3
<1>9. ASSUME NEW q \in Requests
      PROVE  /\ Shape(request[q])' /\ SeenIsLogged(request[q])'
             /\ Accepted(request[q])' /\ Waiting(request[q])'
  <2>1. /\ Shape(request[q]) /\ SeenIsLogged(request[q])
        /\ Accepted(request[q]) /\ Waiting(request[q])
    BY DEF QualInv
  <2>2. Shape(request[q])'
    BY <1>4, <2>1 DEF Shape, Deciding
  <2>3. SeenIsLogged(request[q])'
    <3> SUFFICES ASSUME Logged', request'[q].pc \in Deciding, request'[q].seen # Null
                 PROVE  LedTo(request[q].seen)'
      BY DEF SeenIsLogged
    <3>1. request[q].pc \in Deciding /\ request[q].seen = request'[q].seen
      BY <1>4 DEF Deciding
    <3>2. LedTo(request[q].seen)
      BY <1>2, <2>1, <3>1 DEF SeenIsLogged
    <3>3. QED
      BY <1>3, <3>1, <3>2 DEF LedTo
  <2>4. Accepted(request[q])'
    BY <1>4, <2>1 DEF Accepted
  <2>5. Waiting(request[q])'
    BY DEF Waiting
  <2>6. QED
    BY <2>2, <2>3, <2>4, <2>5
<1>10. QED
  BY <1>6, <1>7, <1>8, <1>9 DEF QualInv, Live

\* A row is absent, or live and older than the log; nobody is at work.
LEMMA InitInv == Init => QualInv
<1> SUFFICES ASSUME Init PROVE QualInv
  OBVIOUS
<1>1. Idle \in RequestRows /\ Idle.pc = "idle" /\ Idle.op = "none" /\ 0 \in Times
  BY DEF Idle, RequestRows, PCs, Times
<1>2. lead \in LeadRows /\ (Live => lead.status \in Statuses)
  <2>1. CASE lead = NoLead
    BY <1>1, <2>1 DEF NoLead, LeadRows, Live
  <2>2. CASE \E s \in Statuses, t \in CreatedAts : lead = Lead(s, Never, t)
    BY <1>1, <2>2 DEF NoLead, Lead, LeadRows, Live, Times
  <2>3. QED
    BY <2>1, <2>2 DEF Init
<1>3. TypeOK
  <2>1. <<>> \in Seq(LogRows)
    OBVIOUS
  <2>2. request \in [Requests -> RequestRows]
    BY <1>1 DEF Init
  <2>3. QED
    BY <1>1, <1>2, <2>1, <2>2 DEF Init, TypeOK
<1>4. ~Logged
  BY DEF Init, Logged
<1>5. \A q \in Requests : /\ Shape(request[q]) /\ SeenIsLogged(request[q])
                          /\ Accepted(request[q]) /\ Waiting(request[q])
  BY <1>1 DEF Init, Shape, SeenIsLogged, Accepted, Waiting, Deciding
<1>6. QED
  BY <1>2, <1>3, <1>4, <1>5 DEF Init, QualInv

\* The reads, the stamp and the answers write neither the row nor the log.
LEMMA QuietSteps ==
    ASSUME QualInv, NEW r \in Requests,
           \/ \E s \in Statuses : UpdateQualificationStatus(r, s) \/ Update(r, s)
           \/ \E why \in Reasons : MarkNotAppropriate(r, why)
           \/ View(r) \/ Stamp(r) \/ MarkReadStatus(r)
           \/ MarkRejected(r) \/ WriteFails(r)
           \/ GetByID(r) \/ EnsureSeeded(r) \/ SeedFails(r) \/ Answer(r)
    PROVE  QualInv'
<1> DEFINE q == request[r]
           Good(x) == /\ x \in RequestRows
                      /\ Shape(x) /\ SeenIsLogged(x) /\ Accepted(x) /\ Waiting(x)
<1> USE DEF Shape, SeenIsLogged, Accepted, Waiting, Deciding
<1>1. Good(q) /\ request \in [Requests -> RequestRows]
  BY DEF QualInv, TypeOK
<1>2. /\ lead.status \in Statuses \cup {Null} /\ lead.createdAt \in Times /\ clock \in Times
      /\ Live => lead.status \in Statuses /\ lead.row # "absent"
      /\ Live /\ Logged => LedTo(lead.status)
  BY DEF QualInv, TypeOK, LeadRows, Live
<1>3. Good(Idle)
  BY DEF Idle, RequestRows, PCs, Times
<1>4. ASSUME NEW x, Good(x), request' = [request EXCEPT ![r] = x],
             UNCHANGED <<lead, log, clock, blind>>
      PROVE  QualInv'
  BY <1>4, QuietStep
<1>5. ASSUME NEW s \in Statuses, UpdateQualificationStatus(r, s) PROVE QualInv'
  <2> DEFINE x == [Idle EXCEPT !.pc = IF lead.status = s THEN "get" ELSE "stamp",
                               !.op = "patch", !.want = s, !.seen = lead.status]
  <2>1. Good(x)
    <3>1. x \in RequestRows
      BY <1>2, <1>3 DEF RequestRows, PCs
    <3>2. x.pc \in {"get", "stamp"} /\ x.op = "patch" /\ x.want = s /\ x.seen = lead.status
      BY DEF Idle
    <3> HIDE DEF x
    <3>3. QED
      BY <1>2, <1>5, <3>1, <3>2 DEF UpdateQualificationStatus
  <2> HIDE DEF Good
  <2>2. QED
    BY <2>1, <1>4, <1>5 DEF UpdateQualificationStatus
<1>6. ASSUME NEW s \in Statuses, Update(r, s) PROVE QualInv'
  <2> DEFINE x == [Idle EXCEPT !.pc = "stamp", !.op = "edit", !.want = s,
                               !.seen = lead.status]
  <2>1. Good(x)
    <3>1. x \in RequestRows
      BY <1>2, <1>3 DEF RequestRows, PCs
    <3>2. x.pc = "stamp" /\ x.op = "edit" /\ x.want = s /\ x.seen = lead.status
      BY DEF Idle
    <3> HIDE DEF x
    <3>3. QED
      BY <1>2, <1>6, <3>1, <3>2 DEF Update
  <2> HIDE DEF Good
  <2>2. QED
    BY <2>1, <1>4, <1>6 DEF Update
<1>7. ASSUME NEW why \in Reasons, MarkNotAppropriate(r, why) PROVE QualInv'
  <2> DEFINE x == [Idle EXCEPT !.op = "mark", !.want = "IRRELEVANT", !.reason = why,
                      !.pc = IF ~lead.notAppropriate THEN "stamp"
                             ELSE IF lead.reason = why THEN "get" ELSE "rejected"]
  <2>1. Good(x)
    <3>1. x \in RequestRows
      BY <1>2, <1>3 DEF RequestRows, PCs
    <3>2. /\ x.op = "mark" /\ x.want = "IRRELEVANT" /\ x.reason = why /\ x.seen = Null
          /\ x.pc \in {"stamp", "get", "rejected"}
          /\ x.pc = "get" => lead.notAppropriate /\ lead.reason = why
      BY DEF Idle
    <3> HIDE DEF x
    <3>3. QED
      BY <1>2, <1>7, <3>1, <3>2 DEF MarkNotAppropriate
  <2> HIDE DEF Good
  <2>2. QED
    BY <2>1, <1>4, <1>7 DEF MarkNotAppropriate
<1>8. CASE View(r)
  <2> DEFINE x == [Idle EXCEPT !.pc = "get", !.op = "view"]
  <2>1. Good(x)
    <3>1. x \in RequestRows
      BY <1>2, <1>3 DEF RequestRows, PCs
    <3>2. x.pc = "get" /\ x.op = "view"
      BY DEF Idle
    <3> HIDE DEF x
    <3>3. QED
      BY <1>2, <1>8, <3>1, <3>2 DEF View
  <2> HIDE DEF Good
  <2>2. QED
    BY <2>1, <1>4, <1>8 DEF View
<1>9. CASE Stamp(r)
  <2> DEFINE x == [q EXCEPT !.at = clock,
                            !.pc = IF q.op = "mark" THEN "status" ELSE "write"]
  <2>1. Good(x)
    BY <1>1, <1>2, <1>9 DEF Stamp, RequestRows, PCs
  <2>2. request' = [request EXCEPT ![r] = x]
    BY <1>1, <1>9 DEF Stamp
  <2> HIDE DEF Good, x
  <2>3. QED
    BY <2>1, <2>2, <1>4, <1>9 DEF Stamp
<1>10. CASE MarkReadStatus(r)
  <2> DEFINE x == [q EXCEPT !.pc = "write", !.seen = lead.status]
             y == [q EXCEPT !.pc = "write", !.seen = Null, !.late = TRUE]
  <2>1. Good(x) /\ Good(y)
    BY <1>1, <1>2, <1>10 DEF MarkReadStatus, RequestRows, PCs
  <2>2. request' = [request EXCEPT ![r] = x] \/ request' = [request EXCEPT ![r] = y]
    BY <1>1, <1>10 DEF MarkReadStatus
  <2> HIDE DEF Good, x, y
  <2>3. QED
    BY <2>1, <2>2, <1>4, <1>10 DEF MarkReadStatus
<1>11. CASE MarkRejected(r)
  <2> DEFINE x == [q EXCEPT !.pc = "rejected"]
  <2>1. Good(x)
    BY <1>1, <1>11 DEF MarkRejected, RequestRows, PCs
  <2>2. request' = [request EXCEPT ![r] = x]
    BY <1>1, <1>11 DEF MarkRejected
  <2> HIDE DEF Good, x
  <2>3. QED
    BY <2>1, <2>2, <1>4, <1>11 DEF MarkRejected
<1>12. CASE WriteFails(r) \/ Answer(r)
  <2> HIDE DEF Good
  <2>1. QED
    BY <1>3, <1>4, <1>12 DEF WriteFails, Answer
<1>13. CASE GetByID(r)
  <2> DEFINE x == [q EXCEPT !.pc = "count", !.seen = lead.status,
                            !.at = lead.createdAt, !.late = FALSE]
  <2>1. Live => Good(x)
    BY <1>1, <1>2, <1>13 DEF GetByID, RequestRows, PCs
  <2>2. request' = [request EXCEPT ![r] = IF Live THEN x ELSE Idle]
    BY <1>1, <1>13 DEF GetByID
  <2> HIDE DEF Good, x
  <2>3. QED
    BY <2>1, <2>2, <1>3, <1>4, <1>13 DEF GetByID
<1>14. CASE EnsureSeeded(r)
  <2> DEFINE x == [q EXCEPT !.pc = IF log = <<>> THEN "seed" ELSE "answer"]
  <2>1. Good(x)
    BY <1>1, <1>14 DEF EnsureSeeded, RequestRows, PCs
  <2>2. request' = [request EXCEPT ![r] = x]
    BY <1>1, <1>14 DEF EnsureSeeded
  <2> HIDE DEF Good, x
  <2>3. QED
    BY <2>1, <2>2, <1>4, <1>14 DEF EnsureSeeded
<1>15. CASE SeedFails(r)
  <2> DEFINE x == [q EXCEPT !.pc = "answer"]
  <2>1. Good(x)
    BY <1>1, <1>15 DEF SeedFails, RequestRows, PCs
  <2>2. request' = [request EXCEPT ![r] = x]
    BY <1>1, <1>15 DEF SeedFails
  <2> HIDE DEF Good, x
  <2>3. QED
    BY <2>1, <2>2, <1>4, <1>15 DEF SeedFails
<1>16. QED
  BY <1>5, <1>6, <1>7, <1>8, <1>9, <1>10, <1>11, <1>12, <1>13, <1>14, <1>15

\* The four transactions of a request.
LEMMA CommitSteps ==
    ASSUME QualInv, NEW r \in Requests,
           \/ PatchCommit(r) \/ MarkCommit(r) \/ RecordQualificationChange(r)
           \/ \E t \in CreatedAts \cup {lead.createdAt} : EditCommit(r, t)
    PROVE  QualInv'
<1> DEFINE q == request[r]
<1>1. /\ q \in RequestRows /\ Shape(q) /\ SeenIsLogged(q) /\ Accepted(q)
      /\ lead \in LeadRows
      /\ Live => lead.status \in Statuses
  BY DEF QualInv, TypeOK
<1>2. /\ q.seen \in Statuses \cup {Null} /\ q.at \in Times /\ q.reason \in Reasons \cup {Null}
  BY <1>1 DEF RequestRows
<1> HIDE DEF q
<1>3. CASE PatchCommit(r)
  <2>1. /\ q.pc = "write" /\ q.op = "patch" /\ Live /\ clock' = clock
        /\ lead' = [lead EXCEPT !.status = q.want, !.enteredAt = q.at]
        /\ log' = insertQualificationLog(log, q.seen, q.want, q.at, "patch_qual")
        /\ Committed(r, "get")
    BY <1>3 DEF PatchCommit, q
  <2>2. q.want \in Statuses /\ (Logged /\ q.seen # Null => LedTo(q.seen))
    BY <1>1, <2>1 DEF Shape, SeenIsLogged, Deciding
  <2>3. /\ lead' \in LeadRows /\ lead'.row = "live" /\ lead'.status = q.want
        /\ lead'.notAppropriate = lead.notAppropriate /\ lead'.reason = lead.reason
    BY <1>1, <1>2, <2>1, <2>2 DEF LeadRows, Live
  <2>4. QED
    BY <1>2, <2>1, <2>2, <2>3, CommitStep DEF Sources, q
<1>4. ASSUME NEW t \in CreatedAts \cup {lead.createdAt}, EditCommit(r, t) PROVE QualInv'
  <2> DEFINE entered == IF q.want # q.seen THEN q.at ELSE lead.enteredAt
  <2>1. /\ q.pc = "write" /\ q.op = "edit" /\ Live /\ clock' = clock
        /\ lead' = [lead EXCEPT !.status = q.want, !.enteredAt = entered, !.createdAt = t]
        /\ log' = insertQualificationLog(log, q.seen, q.want, q.at, "update")
        /\ Committed(r, "answer")
    BY <1>4 DEF EditCommit, q
  <2>2. q.want \in Statuses /\ (Logged /\ q.seen # Null => LedTo(q.seen))
    BY <1>1, <2>1 DEF Shape, SeenIsLogged, Deciding
  <2>3. t \in Times /\ entered \in Times \cup {Never}
    BY <1>1, <1>2 DEF LeadRows, Times
  <2> HIDE DEF entered
  <2>4. /\ lead' \in LeadRows /\ lead'.row = "live" /\ lead'.status = q.want
        /\ lead'.notAppropriate = lead.notAppropriate /\ lead'.reason = lead.reason
    BY <1>1, <2>1, <2>2, <2>3 DEF LeadRows, Live
  <2>5. QED
    BY <1>2, <2>1, <2>2, <2>4, CommitStep DEF Sources, q
<1>5. CASE MarkCommit(r)
  <2>1. /\ q.pc = "write" /\ q.op = "mark" /\ Live /\ clock' = clock
        /\ ~lead.notAppropriate
        /\ lead' = Marked(q)
        /\ log' = insertQualificationLog(log, q.seen, "IRRELEVANT", q.at, "not_appropriate")
        /\ Committed(r, "get")
    BY <1>5 DEF MarkCommit, q
  <2>2. q.reason \in Reasons /\ (Logged /\ q.seen # Null => LedTo(q.seen))
    BY <1>1, <2>1 DEF Shape, SeenIsLogged, Deciding
  <2>3. /\ lead' \in LeadRows /\ lead'.row = "live" /\ lead'.status = "IRRELEVANT"
        /\ lead'.notAppropriate /\ lead'.reason = q.reason
    BY <1>1, <1>2, <2>1, <2>2 DEF Marked, LeadRows, Live
  <2>4. QED
    BY <1>2, <2>1, <2>2, <2>3, CommitStep DEF Sources, q
<1>6. CASE RecordQualificationChange(r)
  <2>1. /\ q.pc = "seed" /\ Live /\ clock' = clock
        /\ lead' = [lead EXCEPT !.enteredAt = q.at]
        /\ log' = insertQualificationLog(log, Null, q.seen, q.at, "backfill")
        /\ Committed(r, "answer")
    BY <1>6 DEF RecordQualificationChange, q
  <2>2. /\ q.seen \in Statuses
        /\ q.op = "mark" => lead.notAppropriate /\ lead.reason = q.reason
    BY <1>1, <2>1 DEF Shape, Accepted
  <2>3. /\ lead' \in LeadRows /\ lead'.row = "live" /\ lead'.status = lead.status
        /\ lead'.notAppropriate = lead.notAppropriate /\ lead'.reason = lead.reason
    BY <1>1, <1>2, <2>1, <2>2 DEF LeadRows, Live
  <2>4. QED
    BY <1>2, <2>1, <2>2, <2>3, CommitStep DEF Sources, q
<1>7. QED
  BY <1>3, <1>4, <1>5, <1>6

\* A new lead has a first row, and nobody has seen it.
LEMMA CreateStep ==
    ASSUME QualInv, NEW s \in Statuses, NEW t \in CreatedAts, Create(s, t)
    PROVE  QualInv'
<1>1. t \in Times /\ log = <<>> /\ lead.row = "absent" /\ UNCHANGED <<clock, request, blind>>
  BY DEF QualInv, Create, Times
<1>2. lead' \in LeadRows /\ lead'.row = "live" /\ lead'.status = s
  BY <1>1 DEF Create, Lead, NoLead, LeadRows, Times
<1>3. Grown(log, log', Null, s, "create")
  BY <1>1, InsertResult DEF QualInv, TypeOK, Create, Sources
<1>4. TypeOK' /\ LedTo(s)'
  BY <1>1, <1>2, <1>3 DEF QualInv, TypeOK, Grown, LedTo
<1>5. \A q \in Requests : Shape(request[q]) /\ request[q].pc \in {"idle", "get"}
                          /\ request[q].op \in {"none", "view"}
  BY <1>1 DEF QualInv, Waiting
<1>6. \A q \in Requests : /\ Shape(request[q])' /\ SeenIsLogged(request[q])'
                          /\ Accepted(request[q])' /\ Waiting(request[q])'
  BY <1>1, <1>2, <1>5 DEF Shape, SeenIsLogged, Accepted, Waiting, Deciding
<1>7. QED
  BY <1>2, <1>4, <1>6 DEF QualInv, LedTo

\* Nothing is promised about a lead that is gone.
LEMMA DeleteStep ==
    ASSUME QualInv, DeleteLeads
    PROVE  QualInv'
<1>1. lead' \in LeadRows /\ lead'.row = "deleted"
  <2>1. NoLead \in LeadRows
    BY DEF NoLead, LeadRows, Times
  <2>2. lead' = [NoLead EXCEPT !.row = "deleted"]
    BY DEF DeleteLeads
  <2>3. QED
    BY <2>1, <2>2 DEF LeadRows
<1>2. TypeOK'
  <2>1. <<>> \in Seq(LogRows)
    OBVIOUS
  <2>2. QED
    BY <1>1, <2>1 DEF QualInv, TypeOK, DeleteLeads
<1>3. ~Live'
  BY <1>1 DEF Live
<1>4. \A q \in Requests : /\ Shape(request[q])' /\ SeenIsLogged(request[q])'
                          /\ Accepted(request[q])' /\ Waiting(request[q])'
  BY <1>1, <1>3 DEF QualInv, DeleteLeads, Shape, SeenIsLogged, Accepted, Waiting
<1>5. QED
  BY <1>1, <1>2, <1>3, <1>4 DEF QualInv

\* The clock touches nothing else.
LEMMA TickStep ==
    ASSUME QualInv, UNCHANGED <<lead, log, request, blind>>, clock' \in Times
    PROVE  QualInv'
BY DEF QualInv, TypeOK, Live, Logged, LedTo, Shape, SeenIsLogged, Accepted, Waiting

\* Every step keeps the invariant.
LEMMA NextInv == QualInv /\ [Next]_vars => QualInv'
<1> SUFFICES ASSUME QualInv, [Next]_vars PROVE QualInv'
  OBVIOUS
<1>1. CASE UNCHANGED vars
  BY <1>1, TickStep DEF vars, QualInv, TypeOK
<1>2. ASSUME NEW r \in Requests, Step(r) PROVE QualInv'
  BY <1>2, QuietSteps, CommitSteps DEF Step
<1>3. ASSUME NEW s \in Statuses, NEW t \in CreatedAts, Create(s, t) PROVE QualInv'
  BY <1>3, CreateStep
<1>4. CASE DeleteLeads
  BY <1>4, DeleteStep
<1>5. CASE Tick
  <2>1. clock' \in Times
    BY <1>5 DEF Tick, Times, QualInv, TypeOK
  <2>2. QED
    BY <1>5, <2>1, TickStep DEF Tick
<1>6. QED
  BY <1>1, <1>2, <1>3, <1>4, <1>5 DEF Next

\* The inductive invariant holds in every reachable state: the columns and
\* the log keep their shape whatever the requests on the lead.
THEOREM QualInvariant == Spec => []QualInv
<1>1. Init => QualInv
  BY InitInv
<1>2. QualInv /\ [Next]_vars => QualInv'
  BY NextInv
<1>3. QED
  BY <1>1, <1>2, PTL DEF Spec

\* The status of a lead that was created with a log is in its history, even
\* when edits and patches race (UpdateQualificationStatus, LeadStore.Update,
\* MarkNotAppropriate).
THEOREM StatusLogged == Spec => []StatusIsInHistory
<1>1. QualInv => StatusIsInHistory
  BY DEF QualInv, StatusIsInHistory, LedTo
<1>2. QED
  BY <1>1, QualInvariant, PTL

\* Of the marks that race on a lead the accepted ones carry the stored
\* reason (MarkNotAppropriate and its WHERE "notAppropriate" = FALSE).
THEOREM MarkAccepted == Spec => []AcceptedReasonIsStored
<1>1. QualInv => AcceptedReasonIsStored
  BY DEF QualInv, AcceptedReasonIsStored, Accepted
<1>2. QED
  BY <1>1, QualInvariant, PTL

\* No handler takes a mark or its reason off a lead (MarkNotAppropriate is
\* the only writer of the flag, and writes it once).
THEOREM MarkStays == Spec => MarkIsFinal
<1> DEFINE Kept == Live /\ lead.notAppropriate /\ lead'.row = "live"
                       => lead'.notAppropriate /\ lead'.reason = lead.reason
<1>1. QualInv /\ [Next]_vars => Kept
  <2> SUFFICES ASSUME QualInv, [Next]_vars, Live, lead.notAppropriate, lead'.row = "live"
               PROVE  lead'.notAppropriate /\ lead'.reason = lead.reason
    OBVIOUS
  <2>1. lead \in LeadRows
    BY DEF QualInv, TypeOK
  <2>2. CASE UNCHANGED lead
    BY <2>2
  <2>3. ASSUME NEW r \in Requests,
               \/ PatchCommit(r) \/ MarkCommit(r) \/ RecordQualificationChange(r)
               \/ \E t \in CreatedAts \cup {lead.createdAt} : EditCommit(r, t)
        PROVE  lead'.notAppropriate /\ lead'.reason = lead.reason
    BY <2>1, <2>3 DEF PatchCommit, MarkCommit, RecordQualificationChange, EditCommit, LeadRows
  <2>4. ~DeleteLeads /\ \A s \in Statuses, t \in CreatedAts : ~Create(s, t)
    BY DEF DeleteLeads, NoLead, Create, Live
  <2>5. ASSUME NEW r \in Requests, Step(r)
        PROVE  lead'.notAppropriate /\ lead'.reason = lead.reason
    BY <2>2, <2>3, <2>5 DEF Step, UpdateQualificationStatus, Update, MarkNotAppropriate, View,
           Stamp, MarkReadStatus, MarkRejected, WriteFails, GetByID, EnsureSeeded,
           SeedFails, Answer
  <2>6. QED
    BY <2>2, <2>4, <2>5 DEF Next, Tick, vars
<1>2. QED
  BY <1>1, QualInvariant, PTL DEF Spec, MarkIsFinal
-----------------------------------------------------------------------------
(* The log as a chain                                                      *)

\* Log l is a chain that ends in the status and its time of entry.  Its
\* first row may be dated from createdAt; the later ones took the time from
\* the clock, one after the other.
Chain(l, status, entered, now) ==
    l # <<>> =>
        /\ \A i \in 1 .. Len(l) - 1 : l[i].to = l[i + 1].from
        /\ l[Len(l)].to = status
        /\ l[Len(l)].at = entered
        /\ \A j \in 2 .. Len(l) : l[j].at <= l[Len(l)].at /\ l[j].at <= now

\* What a request that was not overtaken has read is still so, and the time
\* it took is not before any the log took.
Fresh(x) ==
    ~x.late =>
        /\ x.pc \in {"stamp", "write"} /\ x.op \in {"patch", "edit"} => x.seen = lead.status
        /\ x.pc \in {"stamp", "write"} /\ x.op = "patch" => x.want # x.seen
        /\ x.pc = "status" => x.op = "mark"
        /\ x.pc = "write" /\ x.op = "mark" => x.seen = lead.status
        /\ x.pc \in {"status", "write"} =>
              x.at <= clock /\ \A j \in 2 .. Len(log) : log[j].at <= x.at
        /\ x.pc \in {"count", "seed"} => x.seen = lead.status
        /\ x.pc = "seed" => log = <<>>

\* The strengthening of HistoryIsAChain.
ChainInv ==
    Live /\ ~blind =>
        /\ Chain(log, lead.status, lead.enteredAt, clock)
        /\ \A q \in Requests : Fresh(request[q])

\* A row that leaves the chain's end, and is not older, extends the chain.
LEMMA ChainGrows ==
    ASSUME NEW l \in Seq(LogRows), NEW from \in Statuses \cup {Null}, NEW to \in Statuses,
           NEW at \in Times, NEW source \in Sources, NEW now \in Times,
           NEW status, NEW entered, Chain(l, status, entered, now),
           l # <<>> => /\ from = status /\ at <= now
                       /\ \A j \in 2 .. Len(l) : l[j].at <= at,
           ~(from # Null /\ from = to)
    PROVE  Chain(insertQualificationLog(l, from, to, at, source), to, at, now)
<1> DEFINE row == [from |-> from, to |-> to, at |-> at, source |-> source]
           m == Append(l, row)
<1>1. insertQualificationLog(l, from, to, at, source) = m
  BY DEF insertQualificationLog
<1>2. /\ row \in LogRows /\ row.from = from /\ row.to = to /\ row.at = at
  BY DEF LogRows
<1> HIDE DEF row
<1>3. /\ Len(m) = Len(l) + 1 /\ Len(l) \in Nat
      /\ \A i \in 1 .. Len(l) : m[i] = l[i]
      /\ m[Len(l) + 1] = row
      /\ l = <<>> => Len(l) = 0
      /\ l # <<>> => Len(l) >= 1
  BY <1>2
<1> HIDE DEF m
<1>4. ASSUME NEW i \in 1 .. Len(m) - 1 PROVE m[i].to = m[i + 1].from
  <2>1. l # <<>> /\ i \in 1 .. Len(l) /\ Len(l) \in Nat
    BY <1>3
  <2>2. CASE i = Len(l)
    BY <1>2, <1>3, <2>1, <2>2 DEF Chain
  <2>3. CASE i # Len(l)
    <3>1. i \in 1 .. Len(l) - 1 /\ i + 1 \in 1 .. Len(l)
      <4> DEFINE n == Len(l)
      <4>1. n \in Nat /\ i \in 1 .. n /\ i # n
        BY <2>1, <2>3
      <4> HIDE DEF n
      <4>2. i \in 1 .. n - 1 /\ i + 1 \in 1 .. n
        BY <4>1
      <4>3. QED
        BY <4>2 DEF n
    <3>2. m[i] = l[i] /\ m[i + 1] = l[i + 1]
      BY <1>3, <2>1, <3>1
    <3>3. l[i].to = l[i + 1].from
      BY <2>1, <3>1 DEF Chain
    <3>4. QED
      BY <3>2, <3>3
  <2>4. QED
    BY <2>2, <2>3
<1>5. ASSUME NEW j \in 2 .. Len(m) PROVE m[j].at <= at /\ m[j].at <= now
  <2>1. l # <<>>
    BY <1>3
  <2>2. CASE j = Len(l) + 1
    BY <1>2, <1>3, <2>1, <2>2 DEF Times
  <2>3. CASE j # Len(l) + 1
    <3>1. j \in 2 .. Len(l) /\ m[j] = l[j]
      BY <1>3, <2>3
    <3>2. QED
      BY <2>1, <3>1 DEF Chain
  <2>4. QED
    BY <2>2, <2>3
<1>6. Chain(m, to, at, now)
  BY <1>2, <1>3, <1>4, <1>5 DEF Chain
<1>7. QED
  BY <1>1, <1>6

\* A request that moves on without writing leaves the chain alone.
LEMMA QuietFresh ==
    ASSUME QualInv, ChainInv, NEW r \in Requests, NEW x, Live /\ ~blind => Fresh(x),
           request' = [request EXCEPT ![r] = x],
           UNCHANGED <<lead, log, clock, blind>>
    PROVE  ChainInv'
<1>1. \A q \in Requests : request'[q] = IF q = r THEN x ELSE request[q]
  BY DEF QualInv, TypeOK
<1>2. SUFFICES ASSUME Live, ~blind
               PROVE  /\ Chain(log, lead.status, lead.enteredAt, clock)'
                      /\ \A q \in Requests : Fresh(request[q])'
  BY DEF ChainInv, Live
<1>3. Chain(log, lead.status, lead.enteredAt, clock)'
  BY <1>2 DEF ChainInv, Chain
<1>4. ASSUME NEW q \in Requests PROVE Fresh(request[q])'
  <2>1. Fresh(request'[q])
    BY <1>1, <1>2 DEF ChainInv
  <2>2. QED
    BY <2>1 DEF Fresh
<1>5. QED
  BY <1>3, <1>4

\* After a transaction no request in flight counts as fresh.
LEMMA NobodyFresh ==
    ASSUME QualInv, NEW r \in Requests, NEW pc \in {"get", "answer"}, Committed(r, pc)
    PROVE  /\ \A q \in Requests : Fresh(request[q])'
           /\ ~blind' => ~blind /\ ~request[r].late
<1> DEFINE late(q) == request[q].late \/ (q # r /\ request[q].pc # "idle")
           x(q) == [request[q] EXCEPT !.late = late(q)]
<1>1. \A q \in Requests : request[q] \in RequestRows
  BY DEF QualInv, TypeOK
<1>2. request' = [[q \in Requests |-> x(q)] EXCEPT ![r].pc = pc]
  BY DEF Committed, Overtaken
<1>3. \A q \in Requests : q # r => late(q) \/ request[q].pc = "idle"
  OBVIOUS
<1> HIDE DEF late
<1>4. \A q \in Requests : x(q).pc = request[q].pc /\ x(q).late = late(q)
  BY <1>1 DEF RequestRows
<1>5. [x(r) EXCEPT !.pc = pc].pc = pc
  BY <1>1 DEF RequestRows
<1> HIDE DEF x
<1>6. \A q \in Requests : request'[q] = IF q = r THEN [x(r) EXCEPT !.pc = pc] ELSE x(q)
  BY <1>2
<1>7. ASSUME NEW q \in Requests PROVE request'[q].late \/ request'[q].pc \in {"idle", "get", "answer"}
  BY <1>3, <1>4, <1>5, <1>6
<1>8. \A q \in Requests : Fresh(request[q])'
  BY <1>7 DEF Fresh
<1>9. QED
  BY <1>8 DEF Committed
\* What a request reads and stamps is fresh when it does.
LEMMA QuietStepsFresh ==
    ASSUME QualInv, ChainInv, NEW r \in Requests,
           \/ \E s \in Statuses : UpdateQualificationStatus(r, s) \/ Update(r, s)
           \/ \E why \in Reasons : MarkNotAppropriate(r, why)
           \/ View(r) \/ Stamp(r) \/ MarkReadStatus(r)
           \/ MarkRejected(r) \/ WriteFails(r)
           \/ GetByID(r) \/ EnsureSeeded(r) \/ SeedFails(r) \/ Answer(r)
    PROVE  ChainInv'
<1> DEFINE q == request[r]
<1>1. q \in RequestRows /\ request \in [Requests -> RequestRows] /\ clock \in Times
  BY DEF QualInv, TypeOK
<1>2. Live /\ ~blind =>
          /\ Fresh(q)
          /\ \A j \in 2 .. Len(log) : log[j].at <= clock
  BY DEF ChainInv, Chain, QualInv, TypeOK
<1>3. Idle.pc = "idle"
  BY DEF Idle
<1>4. ASSUME NEW x, Live /\ ~blind => Fresh(x), request' = [request EXCEPT ![r] = x],
             UNCHANGED <<lead, log, clock, blind>>
      PROVE  ChainInv'
  BY <1>4, QuietFresh
<1>5. ASSUME NEW s \in Statuses, UpdateQualificationStatus(r, s) PROVE ChainInv'
  <2> DEFINE x == [Idle EXCEPT !.pc = IF lead.status = s THEN "get" ELSE "stamp",
                               !.op = "patch", !.want = s, !.seen = lead.status]
  <2>1. /\ x.pc = IF lead.status = s THEN "get" ELSE "stamp"
        /\ x.op = "patch" /\ x.want = s /\ x.seen = lead.status
    BY DEF Idle
  <2>2. request' = [request EXCEPT ![r] = x] /\ UNCHANGED <<lead, log, clock, blind>>
    BY <1>5 DEF UpdateQualificationStatus
  <2> HIDE DEF x
  <2>3. Fresh(x)
    BY <2>1 DEF Fresh
  <2>4. QED
    BY <2>2, <2>3, <1>4
<1>6. ASSUME NEW s \in Statuses, Update(r, s) PROVE ChainInv'
  <2> DEFINE x == [Idle EXCEPT !.pc = "stamp", !.op = "edit", !.want = s,
                               !.seen = lead.status]
  <2>1. x.pc = "stamp" /\ x.op = "edit" /\ x.seen = lead.status
    BY DEF Idle
  <2>2. request' = [request EXCEPT ![r] = x] /\ UNCHANGED <<lead, log, clock, blind>>
    BY <1>6 DEF Update
  <2> HIDE DEF x
  <2>3. Fresh(x)
    BY <2>1 DEF Fresh
  <2>4. QED
    BY <2>2, <2>3, <1>4
<1>7. ASSUME NEW why \in Reasons, MarkNotAppropriate(r, why) PROVE ChainInv'
  <2> DEFINE x == [Idle EXCEPT !.op = "mark", !.want = "IRRELEVANT", !.reason = why,
                      !.pc = IF ~lead.notAppropriate THEN "stamp"
                             ELSE IF lead.reason = why THEN "get" ELSE "rejected"]
  <2>1. x.op = "mark" /\ x.pc \in {"stamp", "get", "rejected"}
    BY DEF Idle
  <2>2. request' = [request EXCEPT ![r] = x] /\ UNCHANGED <<lead, log, clock, blind>>
    BY <1>7 DEF MarkNotAppropriate
  <2> HIDE DEF x
  <2>3. Fresh(x)
    BY <2>1 DEF Fresh
  <2>4. QED
    BY <2>2, <2>3, <1>4
<1>8. CASE View(r)
  <2> DEFINE x == [Idle EXCEPT !.pc = "get", !.op = "view"]
  <2>1. x.pc = "get"
    BY DEF Idle
  <2>2. request' = [request EXCEPT ![r] = x] /\ UNCHANGED <<lead, log, clock, blind>>
    BY <1>8 DEF View
  <2> HIDE DEF x
  <2>3. Fresh(x)
    BY <2>1 DEF Fresh
  <2>4. QED
    BY <2>2, <2>3, <1>4
<1>9. CASE Stamp(r)
  <2> DEFINE x == [q EXCEPT !.at = clock,
                            !.pc = IF q.op = "mark" THEN "status" ELSE "write"]
  <2>1. /\ x.pc = IF q.op = "mark" THEN "status" ELSE "write"
        /\ x.at = clock /\ x.op = q.op /\ x.want = q.want /\ x.seen = q.seen
        /\ x.late = q.late
    BY <1>1 DEF RequestRows
  <2>2. /\ request' = [request EXCEPT ![r] = x] /\ UNCHANGED <<lead, log, clock, blind>>
        /\ q.pc = "stamp"
    BY <1>1, <1>9 DEF Stamp
  <2> HIDE DEF x, q
  <2>3. clock <= clock
    BY <1>1 DEF Times
  <2>4. Live /\ ~blind => Fresh(x)
    BY <1>2, <2>1, <2>2, <2>3 DEF Fresh
  <2>5. QED
    BY <2>2, <2>4, <1>4
<1>10. CASE MarkReadStatus(r)
  <2> DEFINE x == [q EXCEPT !.pc = "write", !.seen = lead.status]
             y == [q EXCEPT !.pc = "write", !.seen = Null, !.late = TRUE]
  <2>1. /\ x.pc = "write" /\ x.seen = lead.status /\ x.at = q.at /\ x.op = q.op
        /\ x.late = q.late /\ x.want = q.want
    BY <1>1 DEF RequestRows
  <2>2. y.late = TRUE
    BY <1>1 DEF RequestRows
  <2>3. /\ request' = [request EXCEPT ![r] = x] \/ request' = [request EXCEPT ![r] = y]
        /\ UNCHANGED <<lead, log, clock, blind>>
        /\ q.pc = "status"
    BY <1>1, <1>10 DEF MarkReadStatus
  <2> HIDE DEF x, y, q
  <2>4. Live /\ ~blind => Fresh(x) /\ Fresh(y)
    BY <1>2, <2>1, <2>2, <2>3 DEF Fresh
  <2>5. QED
    BY <2>3, <2>4, <1>4
<1>11. CASE MarkRejected(r)
  <2> DEFINE x == [q EXCEPT !.pc = "rejected"]
  <2>1. x.pc = "rejected"
    BY <1>1 DEF RequestRows
  <2>2. request' = [request EXCEPT ![r] = x] /\ UNCHANGED <<lead, log, clock, blind>>
    BY <1>1, <1>11 DEF MarkRejected
  <2> HIDE DEF x
  <2>3. Fresh(x)
    BY <2>1 DEF Fresh
  <2>4. QED
    BY <2>2, <2>3, <1>4
<1>12. CASE WriteFails(r) \/ Answer(r)
  <2>1. Fresh(Idle)
    BY <1>3 DEF Fresh
  <2>2. QED
    BY <1>4, <1>12, <2>1 DEF WriteFails, Answer
<1>13. CASE GetByID(r)
  <2> DEFINE x == [q EXCEPT !.pc = "count", !.seen = lead.status,
                            !.at = lead.createdAt, !.late = FALSE]
  <2>1. x.pc = "count" /\ x.seen = lead.status
    BY <1>1 DEF RequestRows
  <2>2. /\ request' = [request EXCEPT ![r] = IF Live THEN x ELSE Idle]
        /\ UNCHANGED <<lead, log, clock, blind>>
    BY <1>1, <1>13 DEF GetByID
  <2> HIDE DEF x
  <2>3. Fresh(x) /\ Fresh(Idle)
    BY <1>3, <2>1 DEF Fresh
  <2>4. QED
    BY <2>2, <2>3, <1>4
<1>14. CASE EnsureSeeded(r)
  <2> DEFINE x == [q EXCEPT !.pc = IF log = <<>> THEN "seed" ELSE "answer"]
  <2>1. /\ x.pc = IF log = <<>> THEN "seed" ELSE "answer"
        /\ x.seen = q.seen /\ x.late = q.late
    BY <1>1 DEF RequestRows
  <2>2. /\ request' = [request EXCEPT ![r] = x] /\ UNCHANGED <<lead, log, clock, blind>>
        /\ q.pc = "count"
    BY <1>1, <1>14 DEF EnsureSeeded
  <2> HIDE DEF x, q
  <2>3. Live /\ ~blind => Fresh(x)
    BY <1>2, <2>1, <2>2 DEF Fresh
  <2>4. QED
    BY <2>2, <2>3, <1>4
<1>15. CASE SeedFails(r)
  <2> DEFINE x == [q EXCEPT !.pc = "answer"]
  <2>1. x.pc = "answer"
    BY <1>1 DEF RequestRows
  <2>2. request' = [request EXCEPT ![r] = x] /\ UNCHANGED <<lead, log, clock, blind>>
    BY <1>1, <1>15 DEF SeedFails
  <2> HIDE DEF x
  <2>3. Fresh(x)
    BY <2>1 DEF Fresh
  <2>4. QED
    BY <2>2, <2>3, <1>4
<1>16. QED
  BY <1>5, <1>6, <1>7, <1>8, <1>9, <1>10, <1>11, <1>12, <1>13, <1>14, <1>15
\* The four transactions keep the chain, unless one rested on an overtaken
\* read.
LEMMA CommitStepsChain ==
    ASSUME QualInv, ChainInv, NEW r \in Requests,
           \/ PatchCommit(r) \/ MarkCommit(r) \/ RecordQualificationChange(r)
           \/ \E t \in CreatedAts \cup {lead.createdAt} : EditCommit(r, t)
    PROVE  ChainInv'
<1> DEFINE q == request[r]
<1>1. /\ q \in RequestRows /\ Shape(q) /\ lead \in LeadRows /\ log \in Seq(LogRows)
      /\ clock \in Times
      /\ Live => lead.status \in Statuses
  BY DEF QualInv, TypeOK
<1>2. q.seen \in Statuses \cup {Null} /\ q.at \in Times
  BY <1>1 DEF RequestRows
<1>3. ASSUME NEW pc \in {"get", "answer"}, Committed(r, pc), clock' = clock,
             Live, ~blind /\ ~q.late => Chain(log', lead'.status, lead'.enteredAt, clock)
      PROVE  ChainInv'
  <2>1. /\ \A z \in Requests : Fresh(request[z])'
        /\ ~blind' => ~blind /\ ~q.late
    BY <1>3, NobodyFresh
  <2>2. ~blind' => Chain(log, lead.status, lead.enteredAt, clock)'
    BY <1>3, <2>1 DEF Chain
  <2>3. QED
    BY <2>1, <2>2 DEF ChainInv
<1>4. ASSUME Live, ~blind
      PROVE  Fresh(q) /\ Chain(log, lead.status, lead.enteredAt, clock)
  BY <1>4 DEF ChainInv
<1> HIDE DEF q
<1>5. CASE PatchCommit(r)
  <2>1. /\ q.pc = "write" /\ q.op = "patch" /\ Live /\ clock' = clock
        /\ lead' = [lead EXCEPT !.status = q.want, !.enteredAt = q.at]
        /\ log' = insertQualificationLog(log, q.seen, q.want, q.at, "patch_qual")
        /\ Committed(r, "get")
    BY <1>5 DEF PatchCommit, q
  <2>2. lead'.status = q.want /\ lead'.enteredAt = q.at /\ q.want \in Statuses
    BY <1>1, <2>1 DEF LeadRows, Shape, Deciding
  <2>3. ASSUME ~blind, ~q.late PROVE Chain(log', q.want, q.at, clock)
    <3>1. /\ q.seen = lead.status /\ q.want # q.seen /\ q.at <= clock
          /\ \A j \in 2 .. Len(log) : log[j].at <= q.at
      BY <1>4, <2>1, <2>3 DEF Fresh
    <3>2. "patch_qual" \in Sources
      BY DEF Sources
    <3>3. QED
      BY <1>1, <1>2, <1>4, <2>1, <2>2, <2>3, <3>1, <3>2, ChainGrows
  <2>4. QED
    BY <1>3, <2>1, <2>2, <2>3
<1>6. ASSUME NEW t \in CreatedAts \cup {lead.createdAt}, EditCommit(r, t) PROVE ChainInv'
  <2> DEFINE entered == IF q.want # q.seen THEN q.at ELSE lead.enteredAt
  <2>1. /\ q.pc = "write" /\ q.op = "edit" /\ Live /\ clock' = clock
        /\ lead' = [lead EXCEPT !.status = q.want, !.enteredAt = entered, !.createdAt = t]
        /\ log' = insertQualificationLog(log, q.seen, q.want, q.at, "update")
        /\ Committed(r, "answer")
    BY <1>6 DEF EditCommit, q
  <2>2. lead'.status = q.want /\ lead'.enteredAt = entered /\ q.want \in Statuses
    BY <1>1, <2>1 DEF LeadRows, Shape, Deciding
  <2>3. ASSUME ~blind, ~q.late PROVE Chain(log', q.want, entered, clock)
    <3>1. /\ q.seen = lead.status /\ q.at <= clock
          /\ \A j \in 2 .. Len(log) : log[j].at <= q.at
      BY <1>4, <2>1, <2>3 DEF Fresh
    <3>2. CASE q.want = q.seen
      <4>1. log' = log
        BY <1>1, <2>1, <2>2, <3>1, <3>2 DEF insertQualificationLog, Null
      <4>2. QED
        BY <1>4, <2>1, <2>3, <3>1, <3>2, <4>1
    <3>3. CASE q.want # q.seen
      <4>1. "update" \in Sources
        BY DEF Sources
      <4>2. QED
        BY <1>1, <1>2, <1>4, <2>1, <2>2, <2>3, <3>1, <3>3, <4>1, ChainGrows
    <3>4. QED
      BY <3>2, <3>3
  <2> HIDE DEF entered
  <2>4. QED
    BY <1>3, <2>1, <2>2, <2>3
<1>7. CASE MarkCommit(r)
  <2> DEFINE entered == IF lead.status # "IRRELEVANT" THEN q.at ELSE lead.enteredAt
  <2>1. /\ q.pc = "write" /\ q.op = "mark" /\ Live /\ clock' = clock
        /\ lead' = Marked(q)
        /\ log' = insertQualificationLog(log, q.seen, "IRRELEVANT", q.at, "not_appropriate")
        /\ Committed(r, "get")
    BY <1>7 DEF MarkCommit, q
  <2>2. lead'.status = "IRRELEVANT" /\ lead'.enteredAt = entered
    BY <1>1, <2>1 DEF Marked, LeadRows
  <2>3. ASSUME ~blind, ~q.late PROVE Chain(log', "IRRELEVANT", entered, clock)
    <3>1. /\ q.seen = lead.status /\ q.at <= clock
          /\ \A j \in 2 .. Len(log) : log[j].at <= q.at
      BY <1>4, <2>1, <2>3 DEF Fresh
    <3>2. CASE lead.status = "IRRELEVANT"
      <4>1. log' = log
        BY <2>1, <3>1, <3>2 DEF insertQualificationLog, Null
      <4>2. QED
        BY <1>4, <2>1, <2>3, <3>2, <4>1
    <3>3. CASE lead.status # "IRRELEVANT"
      <4>1. "not_appropriate" \in Sources
        BY DEF Sources
      <4>2. QED
        BY <1>1, <1>2, <1>4, <2>1, <2>3, <3>1, <3>3, <4>1, ChainGrows
    <3>4. QED
      BY <3>2, <3>3
  <2> HIDE DEF entered
  <2>4. QED
    BY <1>3, <2>1, <2>2, <2>3
<1>8. CASE RecordQualificationChange(r)
  <2>1. /\ q.pc = "seed" /\ Live /\ clock' = clock
        /\ lead' = [lead EXCEPT !.enteredAt = q.at]
        /\ log' = insertQualificationLog(log, Null, q.seen, q.at, "backfill")
        /\ Committed(r, "answer")
    BY <1>8 DEF RecordQualificationChange, q
  <2>2. lead'.status = lead.status /\ lead'.enteredAt = q.at /\ q.seen \in Statuses
    BY <1>1, <2>1 DEF LeadRows, Shape
  <2>3. ASSUME ~blind, ~q.late PROVE Chain(log', lead.status, q.at, clock)
    <3>1. q.seen = lead.status /\ log = <<>>
      BY <1>4, <2>1, <2>3 DEF Fresh
    <3>2. "backfill" \in Sources /\ Null \in Statuses \cup {Null}
      BY DEF Sources
    <3>3. QED
      BY <1>1, <1>2, <1>4, <2>1, <2>2, <2>3, <3>1, <3>2, ChainGrows
  <2>4. QED
    BY <1>3, <2>1, <2>2, <2>3
<1>9. QED
  BY <1>5, <1>6, <1>7, <1>8

\* Every step keeps the chain.
LEMMA NextChain == QualInv /\ ChainInv /\ [Next]_vars => ChainInv'
<1> SUFFICES ASSUME QualInv, ChainInv, [Next]_vars PROVE ChainInv'
  OBVIOUS
<1>1. ASSUME UNCHANGED <<lead, log, request, blind>>, clock' \in Times, clock <= clock'
      PROVE  ChainInv'
  <2>1. clock \in Times /\ \A q \in Requests : request[q].at \in Times
    BY DEF QualInv, TypeOK, RequestRows
  <2> SUFFICES ASSUME Live, ~blind
               PROVE  /\ Chain(log, lead.status, lead.enteredAt, clock)'
                      /\ \A q \in Requests : Fresh(request[q])'
    BY <1>1 DEF ChainInv, Live
  <2>2. Chain(log, lead.status, lead.enteredAt, clock) /\ \A q \in Requests : Fresh(request[q])
    BY DEF ChainInv
  <2>3. ASSUME NEW j \in 2 .. Len(log) PROVE log[j].at \in Times
    <3>1. log \in Seq(LogRows) /\ j \in 1 .. Len(log)
      BY DEF QualInv, TypeOK
    <3>2. log[j] \in LogRows
      BY <3>1
    <3>3. QED
      BY <3>2 DEF LogRows
  <2>4. Chain(log, lead.status, lead.enteredAt, clock)'
    <3>1. ASSUME log # <<>>, NEW j \in 2 .. Len(log) PROVE log[j].at <= clock'
      <4>1. log[j].at \in Times /\ log[j].at <= clock
        BY <2>2, <2>3, <3>1 DEF Chain
      <4>2. QED
        BY <1>1, <2>1, <4>1 DEF Times
    <3>2. QED
      BY <1>1, <2>2, <3>1 DEF Chain
  <2>5. ASSUME NEW q \in Requests PROVE Fresh(request[q])'
    BY <1>1, <2>1, <2>2 DEF Fresh, Times
  <2>6. QED
    BY <2>4, <2>5
<1>2. CASE UNCHANGED vars
  BY <1>1, <1>2 DEF vars, QualInv, TypeOK, Times
<1>3. ASSUME NEW r \in Requests, Step(r) PROVE ChainInv'
  BY <1>3, QuietStepsFresh, CommitStepsChain DEF Step
<1>4. ASSUME NEW s \in Statuses, NEW t \in CreatedAts, Create(s, t) PROVE ChainInv'
  <2>1. /\ log = <<>> /\ lead.row = "absent" /\ UNCHANGED <<clock, request, blind>>
        /\ t \in Times /\ log \in Seq(LogRows) /\ clock \in Times
    BY <1>4 DEF QualInv, TypeOK, Create, Times
  <2>2. lead'.status = s /\ lead'.enteredAt = t
    BY <1>4 DEF Create, Lead, NoLead
  <2>3. Chain(log, s, t, clock)
    BY <2>1 DEF Chain
  <2>4. Chain(log', s, t, clock)
    <3>1. "create" \in Sources /\ Null \in Statuses \cup {Null}
      BY DEF Sources
    <3>2. QED
      BY <1>4, <2>1, <2>3, <3>1, ChainGrows DEF Create
  <2>5. \A q \in Requests : request[q].pc \in {"idle", "get"}
    BY <2>1 DEF QualInv, Waiting
  <2>6. \A q \in Requests : Fresh(request[q])'
    BY <2>1, <2>5 DEF Fresh
  <2>7. Chain(log, lead.status, lead.enteredAt, clock)'
    BY <2>1, <2>2, <2>4 DEF Chain
  <2>8. QED
    BY <2>6, <2>7 DEF ChainInv
<1>5. CASE DeleteLeads
  BY <1>5 DEF DeleteLeads, ChainInv, Live, NoLead
<1>6. CASE Tick
  BY <1>1, <1>6 DEF Tick, QualInv, TypeOK, Times
<1>7. QED
  BY <1>2, <1>3, <1>4, <1>5, <1>6 DEF Next

\* While no write rests on an overtaken or failed read, the history of a
\* lead is a chain that ends in its status, whichever of the handlers, the
\* back-fill and the deletion wrote it and however often the clock moved
\* between a read and its write.
THEOREM HistoryChained == Spec => []HistoryIsAChain
<1>1. Init => ChainInv
  BY DEF Init, ChainInv, Chain, Fresh, Idle
<1>2. QualInv /\ ChainInv => HistoryIsAChain
  <2> SUFFICES ASSUME QualInv, ChainInv, Live, log # <<>>, ~blind
               PROVE  /\ \A i \in 1 .. Len(log) - 1 : log[i].to = log[i + 1].from
                      /\ log[Len(log)].to = lead.status
                      /\ log[Len(log)].at = lead.enteredAt
                      /\ log[1].at <= log[Len(log)].at => IsCurrent(log, Len(log))
    BY DEF HistoryIsAChain
  <2>1. Chain(log, lead.status, lead.enteredAt, clock) /\ log \in Seq(LogRows)
    BY DEF ChainInv, QualInv, TypeOK
  <2>2. log[1].at <= log[Len(log)].at => IsCurrent(log, Len(log))
    <3> SUFFICES ASSUME log[1].at <= log[Len(log)].at, NEW j \in DOMAIN log
                 PROVE  log[j].at <= log[Len(log)].at
      BY DEF IsCurrent
    <3>1. j \in 1 .. Len(log) /\ Len(log) \in Nat
      BY <2>1
    <3>2. j = 1 \/ j \in 2 .. Len(log)
      BY <3>1
    <3>3. QED
      BY <2>1, <3>2 DEF Chain
  <2>3. QED
    BY <2>1, <2>2 DEF Chain
<1>3. QED
  BY <1>1, <1>2, NextChain, QualInvariant, PTL DEF Spec

=============================================================================
