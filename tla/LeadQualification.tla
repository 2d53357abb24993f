------------------------- MODULE LeadQualification --------------------------
(***************************************************************************)
(* One lead's qualification status, the append-only log of its changes     *)
(* and the requests that change or view them.  A handler reads the row,    *)
(* takes the time and then writes row and log in one transaction; no row   *)
(* lock is held from the read to the write.                                *)
(***************************************************************************)
EXTENDS Integers, Sequences

CONSTANTS
    Requests,     \* requests for this lead that can be in flight together
    Statuses,     \* the canonical qualification codes
    Reasons,      \* reasons a sales executive may give
    CreatedAts,   \* dates a lead may be given when it is added or edited
    MaxTime,      \* bound: the last instant of the clock
    MaxLog        \* bound: rows in the log

ASSUME QualAssumption ==
    /\ "IRRELEVANT" \in Statuses /\ "NULL" \notin Statuses
    /\ MaxTime \in Nat /\ MaxLog \in Nat
    /\ CreatedAts \subseteq 0 .. MaxTime

VARIABLES
    lead,         \* the columns of the "Lead" row this module is about
    log,          \* its LeadQualificationStatusLog rows, oldest commit first
    clock,
    request,
    blind         \* history: a write rested on a read that was overtaken or failed

vars == <<lead, log, clock, request, blind>>

Null == "NULL"
Never == -1            \* a NULL time
Times == 0 .. MaxTime

\* A row starts absent, or live and older than the log (enteredAt NULL).
NoLead ==
    [row |-> "absent", status |-> Null, enteredAt |-> Never, createdAt |-> 0,
     notAppropriate |-> FALSE, reason |-> Null]
Lead(s, entered, created) ==
    [NoLead EXCEPT !.row = "live", !.status = s, !.enteredAt = entered,
                   !.createdAt = created]

Live == lead.row = "live"

Idle ==
    [pc |-> "idle", op |-> "none", want |-> Null, reason |-> Null,
     seen |-> Null, at |-> 0, late |-> FALSE]

Init ==
    /\ \/ lead = NoLead
       \/ \E s \in Statuses, t \in CreatedAts : lead = Lead(s, Never, t)
    /\ log = <<>>
    /\ clock = 0
    /\ request = [r \in Requests |-> Idle]
    /\ blind = FALSE

-----------------------------------------------------------------------------
(* The log                                                                 *)

\* insertQualificationLog: nothing is inserted when the status is unchanged.
insertQualificationLog(l, from, to, at, source) ==
    IF from # Null /\ from = to
    THEN l
    ELSE Append(l, [from |-> from, to |-> to, at |-> at, source |-> source])

\* ListQualificationHistory orders by changedAt and then by a random id, and
\* calls the last row current: any row with the greatest time may be it.
IsCurrent(l, i) == \A j \in DOMAIN l : l[j].at <= l[i].at

\* Requests in flight have read what the transaction of r now changes.
Overtaken(r) ==
    [q \in Requests |->
        [request[q] EXCEPT !.late = @ \/ (q # r /\ request[q].pc # "idle")]]

-----------------------------------------------------------------------------
(* Create, and DeleteLeads                                                 *)

Create(s, t) ==
    /\ lead.row = "absent"
    /\ lead' = Lead(s, t, t)
    /\ log' = insertQualificationLog(log, Null, s, t, "create")
    /\ UNCHANGED <<clock, request, blind>>

\* The log's foreign key cascades.
DeleteLeads ==
    /\ Live
    /\ lead' = [NoLead EXCEPT !.row = "deleted"]
    /\ log' = <<>>
    /\ UNCHANGED <<clock, request, blind>>

-----------------------------------------------------------------------------
(* What a request reads, before its transaction                            *)

\* UpdateQualificationStatus: a status the lead already has writes nothing,
\* and the handler goes on to GetByID for the lead's name.
UpdateQualificationStatus(r, want) ==
    /\ request[r].pc = "idle"
    /\ Live
    /\ request' = [request EXCEPT ![r] =
          [Idle EXCEPT !.pc = IF lead.status = want THEN "get" ELSE "stamp",
                       !.op = "patch", !.want = want, !.seen = lead.status]]
    /\ UNCHANGED <<lead, log, clock, blind>>

\* LeadStore.Update, reached only by roles that may change the status.
Update(r, want) ==
    /\ request[r].pc = "idle"
    /\ Live
    /\ request' = [request EXCEPT ![r] =
          [Idle EXCEPT !.pc = "stamp", !.op = "edit", !.want = want,
                       !.seen = lead.status]]
    /\ UNCHANGED <<lead, log, clock, blind>>

\* MarkNotAppropriate: the same reason again is answered as done, another
\* reason is rejected.
MarkNotAppropriate(r, why) ==
    /\ request[r].pc = "idle"
    /\ Live
    /\ request' = [request EXCEPT ![r] =
          [Idle EXCEPT !.op = "mark", !.want = "IRRELEVANT", !.reason = why,
                       !.pc = IF ~lead.notAppropriate THEN "stamp"
                              ELSE IF lead.reason = why THEN "get" ELSE "rejected"]]
    /\ UNCHANGED <<lead, log, clock, blind>>

\* GET of the lead.
View(r) ==
    /\ request[r].pc = "idle"
    /\ request' = [request EXCEPT ![r] = [Idle EXCEPT !.pc = "get", !.op = "view"]]
    /\ UNCHANGED <<lead, log, clock, blind>>

\* now := time.Now()
Stamp(r) ==
    /\ request[r].pc = "stamp"
    /\ request' = [request EXCEPT ![r].at = clock,
          ![r].pc = IF request[r].op = "mark" THEN "status" ELSE "write"]
    /\ UNCHANGED <<lead, log, clock, blind>>

\* MarkNotAppropriate reads the status after it took the time, and ignores
\* the error of a read that fails or finds no row.
MarkReadStatus(r) ==
    /\ request[r].pc = "status"
    /\ \/ request' = [request EXCEPT ![r].pc = "write", ![r].seen = lead.status]
       \/ request' = [request EXCEPT ![r].pc = "write", ![r].seen = Null, ![r].late = TRUE]
    /\ UNCHANGED <<lead, log, clock, blind>>

-----------------------------------------------------------------------------
(* The transactions                                                        *)

HasRoom == Len(log) < MaxLog

\* The transaction of r took effect, and r goes on to pc.
Committed(r, pc) ==
    /\ request' = [Overtaken(r) EXCEPT ![r].pc = pc]
    /\ blind' = (blind \/ request[r].late)

\* Mutant of PatchCommit: the time of entry is not stamped.
PatchCommitUnstamped(r) ==
    LET q == request[r] IN
    /\ q.pc = "write" /\ q.op = "patch" /\ Live /\ HasRoom
    /\ lead' = [lead EXCEPT !.status = q.want]
    /\ log' = insertQualificationLog(log, q.seen, q.want, q.at, "patch_qual")
    /\ Committed(r, "get")
    /\ UNCHANGED clock

PatchCommit(r) ==
    LET q == request[r] IN
    /\ q.pc = "write" /\ q.op = "patch" /\ Live /\ HasRoom
    /\ lead' = [lead EXCEPT !.status = q.want, !.enteredAt = q.at]
    /\ log' = insertQualificationLog(log, q.seen, q.want, q.at, "patch_qual")
    /\ Committed(r, "get")
    /\ UNCHANGED clock

\* Mutant of EditCommit: the edit writes no log row.
EditCommitUnlogged(r, created) ==
    LET q == request[r] IN
    /\ q.pc = "write" /\ q.op = "edit" /\ Live /\ HasRoom
    /\ lead' = [lead EXCEPT !.status = q.want,
                            !.enteredAt = IF q.want # q.seen THEN q.at ELSE @,
                            !.createdAt = created]
    /\ UNCHANGED <<log, clock>>
    /\ Committed(r, "answer")

\* statusChanged was decided by the read; the status is written regardless.
EditCommit(r, created) ==
    LET q == request[r] IN
    /\ q.pc = "write" /\ q.op = "edit" /\ Live /\ HasRoom
    /\ lead' = [lead EXCEPT !.status = q.want,
                            !.enteredAt = IF q.want # q.seen THEN q.at ELSE @,
                            !.createdAt = created]
    /\ log' = insertQualificationLog(log, q.seen, q.want, q.at, "update")
    /\ Committed(r, "answer")
    /\ UNCHANGED clock

\* What a mark writes over a row.
Marked(q) ==
    [lead EXCEPT !.notAppropriate = TRUE, !.reason = q.reason,
                 !.status = "IRRELEVANT",
                 !.enteredAt = IF lead.status # "IRRELEVANT" THEN q.at ELSE @]

\* Mutant of MarkCommit: the update without its notAppropriate = FALSE.
MarkCommitAgain(r) ==
    LET q == request[r] IN
    /\ q.pc = "write" /\ q.op = "mark" /\ Live /\ HasRoom
    /\ lead' = Marked(q)
    /\ log' = insertQualificationLog(log, q.seen, "IRRELEVANT", q.at, "not_appropriate")
    /\ Committed(r, "get")
    /\ UNCHANGED clock

\* WHERE "notAppropriate" = FALSE: of two marks the second finds no row.
MarkCommit(r) ==
    LET q == request[r] IN
    /\ q.pc = "write" /\ q.op = "mark" /\ Live /\ HasRoom
    /\ ~lead.notAppropriate
    /\ lead' = Marked(q)
    /\ log' = insertQualificationLog(log, q.seen, "IRRELEVANT", q.at, "not_appropriate")
    /\ Committed(r, "get")
    /\ UNCHANGED clock

MarkRejected(r) ==
    /\ request[r].pc = "write" /\ request[r].op = "mark"
    /\ ~Live \/ lead.notAppropriate
    /\ request' = [request EXCEPT ![r].pc = "rejected"]
    /\ UNCHANGED <<lead, log, clock, blind>>

\* The row is gone, or the transaction fails and is rolled back.
WriteFails(r) ==
    /\ request[r].pc = "write"
    /\ request' = [request EXCEPT ![r] = Idle]
    /\ UNCHANGED <<lead, log, clock, blind>>

-----------------------------------------------------------------------------
(* GetByID                                                                 *)

\* The row, which also renews what the request has seen.
GetByID(r) ==
    /\ request[r].pc = "get"
    /\ request' = [request EXCEPT ![r] =
          IF Live THEN [@ EXCEPT !.pc = "count", !.seen = lead.status,
                                 !.at = lead.createdAt, !.late = FALSE]
                  ELSE Idle]
    /\ UNCHANGED <<lead, log, clock, blind>>

\* ensureQualificationLogSeeded counts the rows, outside a transaction.
EnsureSeeded(r) ==
    /\ request[r].pc = "count"
    /\ request' = [request EXCEPT ![r].pc = IF log = <<>> THEN "seed" ELSE "answer"]
    /\ UNCHANGED <<lead, log, clock, blind>>

\* recordQualificationChange: the first row, dated back to createdAt.
RecordQualificationChange(r) ==
    LET q == request[r] IN
    /\ q.pc = "seed" /\ Live /\ HasRoom
    /\ log' = insertQualificationLog(log, Null, q.seen, q.at, "backfill")
    /\ lead' = [lead EXCEPT !.enteredAt = q.at]
    /\ Committed(r, "answer")
    /\ UNCHANGED clock

\* The lead is gone or the transaction failed; GetByID ignores the error.
SeedFails(r) ==
    /\ request[r].pc = "seed"
    /\ request' = [request EXCEPT ![r].pc = "answer"]
    /\ UNCHANGED <<lead, log, clock, blind>>

Answer(r) ==
    /\ request[r].pc \in {"answer", "rejected"}
    /\ request' = [request EXCEPT ![r] = Idle]
    /\ UNCHANGED <<lead, log, clock, blind>>

Tick ==
    /\ clock < MaxTime
    /\ clock' = clock + 1
    /\ UNCHANGED <<lead, log, request, blind>>

-----------------------------------------------------------------------------
Step(r) ==
    \/ \E s \in Statuses : UpdateQualificationStatus(r, s) \/ Update(r, s)
    \/ \E why \in Reasons : MarkNotAppropriate(r, why)
    \/ View(r) \/ Stamp(r) \/ MarkReadStatus(r)
    \/ PatchCommit(r) \/ MarkCommit(r) \/ MarkRejected(r) \/ WriteFails(r)
    \/ \E t \in CreatedAts \cup {lead.createdAt} : EditCommit(r, t)
    \/ GetByID(r) \/ EnsureSeeded(r) \/ RecordQualificationChange(r)
    \/ SeedFails(r) \/ Answer(r)

Next ==
    \/ \E s \in Statuses, t \in CreatedAts : Create(s, t)
    \/ \E r \in Requests : Step(r)
    \/ DeleteLeads
    \/ Tick

Spec == Init /\ [][Next]_vars

-----------------------------------------------------------------------------
(* Properties                                                              *)

PCs == {"idle", "stamp", "status", "write", "get", "count", "seed", "answer", "rejected"}
Sources == {"create", "patch_qual", "update", "not_appropriate", "backfill"}

LeadRows ==
    [row : {"absent", "live", "deleted"}, status : Statuses \cup {Null},
     enteredAt : Times \cup {Never}, createdAt : Times,
     notAppropriate : BOOLEAN, reason : Reasons \cup {Null}]
LogRows == [from : Statuses \cup {Null}, to : Statuses, at : Times, source : Sources]
RequestRows ==
    [pc : PCs, op : {"none", "patch", "edit", "mark", "view"},
     want : Statuses \cup {Null}, reason : Reasons \cup {Null},
     seen : Statuses \cup {Null}, at : Times, late : BOOLEAN]

\* Every variable keeps its shape; no time is past the clock's last instant.
TypeOK ==
    /\ lead \in LeadRows
    /\ log \in Seq(LogRows)
    /\ clock \in Times
    /\ request \in [Requests -> RequestRows]
    /\ blind \in BOOLEAN

\* The log has the row Create wrote, so the lead is not older than the log.
Logged == log # <<>> /\ log[1].source = "create"

\* Whatever the interleaving, the status of a lead that was created with a
\* log is in its history: some row led to it.  (Update writes a status that
\* a concurrent request may have replaced, without a row of its own.)
StatusIsInHistory ==
    Live /\ Logged => \E i \in DOMAIN log : log[i].to = lead.status

\* A mark answered as done is the mark that is stored: two sales executives
\* never both have their reason accepted (MarkNotAppropriate).
AcceptedReasonIsStored ==
    \A r \in Requests :
        request[r].op = "mark" /\ request[r].pc \in {"get", "count", "seed", "answer"} /\ Live
            => lead.notAppropriate /\ lead.reason = request[r].reason

\* As long as no write rested on an overtaken or failed read, each row of the
\* log leaves the status the row before it led to, and the last one is the
\* lead's status, the time it was entered and, unless the first row is dated
\* ahead of it (createdAt may be a day to come), a row the timeline may call
\* current, whichever handlers wrote them.
HistoryIsAChain ==
    Live /\ log # <<>> /\ ~blind =>
        /\ \A i \in 1 .. Len(log) - 1 : log[i].to = log[i + 1].from
        /\ log[Len(log)].to = lead.status
        /\ log[Len(log)].at = lead.enteredAt
        /\ log[1].at <= log[Len(log)].at => IsCurrent(log, Len(log))

\* No step takes the mark, or its reason, off a lead that is not deleted
\* ("clearing not-appropriate flag is not supported").
MarkIsFinal ==
    [][Live /\ lead.notAppropriate /\ lead'.row = "live"
          => lead'.notAppropriate /\ lead'.reason = lead.reason]_vars

=============================================================================
