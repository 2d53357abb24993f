---------------------------- MODULE LeadRequests ----------------------------
(***************************************************************************)
(* Requests that change one lead, from sign-in check to notification: the  *)
(* middleware loads the actor's row, a PATCH checks the lead against it in *)
(* a query of its own (requireLeadAccess) and then writes unconditionally; *)
(* the bulk endpoints put the same scope into the WHERE of the write.      *)
(* Meanwhile users are moved, promoted and deleted, and the lead changes   *)
(* hands.  What the writes do to the lead's status, stage and history is   *)
(* in LeadQualification and LeadSales; here they only count as writes.     *)
(***************************************************************************)
EXTENDS Notifications

CONSTANTS
    Teams,       \* sales teams
    Units,       \* names of analyst teams
    Cast,        \* the users' rows at the start
    Readers,     \* bound: people who mark notifications read
    MaxChanges   \* bound: administrative changes

Roles == {"superadmin", "atl", "analyst", "mtl", "exec"}
None == 0
Row(role, team, unit) == [role |-> role, team |-> team, unit |-> unit, manager |-> None]
Gone == Row("gone", None, None)

Accounts(roles) ==
    [role : roles, team : Teams \cup {None}, unit : Units \cup {None},
     manager : People \cup {None}]

ASSUME CastAssumption ==
    /\ 0 \notin Teams \cup Units /\ Readers \subseteq People
    /\ Cast \in [People -> Accounts(Roles)]

VARIABLES
    user,       \* the User rows
    lead,       \* the Lead row: creator, team and executive
    request,
    changes,
    trespass    \* history: writes of people who were not entitled to them

qvars == <<user, lead, request, changes, trespass, nvars>>

\* "edit" is the PATCH of the qualification as well: both have the same roles.
Patches == {"outcome", "mark", "edit"}
Bulk == {"assignMember", "assignTeamLead", "delete"}

NoRequest == [pc |-> "idle", kind |-> "outcome", actor |-> None, as |-> Gone,
              extra |-> <<>>, stale |-> FALSE]
Ended == [NoRequest EXCEPT !.pc = "ended"]

\* A lead was added by an analyst or its team lead; its creator may be gone.
Leads == [exists : {TRUE}, team : Teams \cup {None},
          creator : {None} \cup {p \in People : Cast[p].role \in {"atl", "analyst"}},
          exec : {None} \cup {p \in People : Cast[p].role = "exec"}]

QInit ==
    /\ user = Cast
    /\ lead \in {l \in Leads : l.exec # None => l.team = Cast[l.exec].team}
    /\ request = [r \in Requests |-> NoRequest]
    /\ changes = 0 /\ trespass = {}
    /\ NInit

-----------------------------------------------------------------------------
(* Who may do what                                                         *)

\* canUpdateSalesOutcome, canMarkNotAppropriate, canChangeQualification,
\* canEditLeadProfile, canMutateLeads, canAssignToTeamLeads, canDeleteLeads.
allowed(kind) ==
    CASE kind = "outcome" -> {"superadmin", "atl", "exec"}
      [] kind = "mark" -> {"exec"}
      [] kind = "edit" -> {"superadmin", "atl", "analyst"}
      [] kind = "assignMember" -> {"superadmin", "atl", "analyst", "mtl"}
      [] kind = "assignTeamLead" -> {"superadmin", "atl", "analyst"}
      [] kind = "delete" -> {"superadmin", "atl"}

\* analystTeamLeadScopeSQL: leads of p itself, of the analysts it manages and
\* of those whose analyst team has the name of p's.
createdByAnalystTeam(p, unit) ==
    LET c == lead.creator IN
    /\ c # None
    /\ \/ c = p
       \/ /\ user[c].role = "analyst"
          /\ user[c].manager = p \/ (unit # None /\ user[c].unit = unit)

\* The scope of requireLeadAccess and of the bulk statements' WHERE, for the
\* actor's row as the middleware loaded it.
inScope(p, as) ==
    CASE as.role = "analyst" -> lead.creator = p
      [] as.role = "exec" -> lead.exec = p
      [] as.role = "atl" -> createdByAnalystTeam(p, as.unit)
      [] as.role = "mtl" -> as.team # None /\ lead.team = as.team
      [] OTHER -> TRUE

\* What the roles' comments promise, by the rows of this very moment.
Entitled(p) ==
    LET u == user[p] c == lead.creator IN
    \/ u.role = "superadmin"
    \/ u.role = "analyst" /\ c = p
    \/ u.role = "exec" /\ lead.exec = p
    \/ u.role = "mtl" /\ u.team \in Teams /\ u.team = lead.team
    \/ u.role = "atl" /\ c \in People /\
          (c = p \/ (user[c].role = "analyst" /\
                        (user[c].manager = p \/ user[c].unit \in Units \cap {u.unit})))

-----------------------------------------------------------------------------
(* The steps of a request                                                  *)

\* requireAuth, and the handler's check of the role.
Authenticate(r, p, kind) ==
    /\ request[r].pc = "idle"
    /\ user[p].role \in allowed(kind)
    /\ request' = [request EXCEPT ![r] = [NoRequest EXCEPT !.pc = "authed", !.kind = kind,
                                            !.actor = p, !.as = user[p]]]
    /\ UNCHANGED <<user, lead, changes, trespass, nvars>>

\* A PATCH looks the lead up before it does anything else.
requireLeadAccess(r) ==
    /\ request[r].pc = "authed" /\ request[r].kind \in Patches
    /\ request' = [request EXCEPT ![r] =
          IF lead.exists /\ inScope(@.actor, @.as) THEN [@ EXCEPT !.pc = "cleared"]
          ELSE Ended]
    /\ UNCHANGED <<user, lead, changes, trespass, nvars>>

\* Requests whose PATCH was checked against a row that now changes.
Overtaken(r) ==
    [q \in Requests |-> IF q # r /\ request[q].pc = "cleared"
                        THEN [request[q] EXCEPT !.stale = TRUE] ELSE request[q]]

\* Accounts for the write of r, which is committed by this step.
Account(r) ==
    trespass' = IF Entitled(request[r].actor) \/ request[r].stale THEN trespass
                ELSE trespass \cup {request[r].kind}

\* What r still needs: its actor, and recipients besides the staff.
Done(r, extra) ==
    [NoRequest EXCEPT !.pc = "written", !.actor = request[r].actor, !.extra = extra]

\* A bulk write of r.
Written(r, extra) ==
    /\ Account(r)
    /\ request' = [Overtaken(r) EXCEPT ![r] = Done(r, extra)]
    /\ UNCHANGED <<user, changes, nvars>>

\* The UPDATE of a PATCH names the lead by its id alone.
Patch(r) ==
    /\ request[r].pc = "cleared" /\ lead.exists
    /\ Account(r)
    /\ request' = [request EXCEPT ![r] = Done(r, <<>>)]
    /\ UNCHANGED <<user, lead, changes, nvars>>

\* Mutant of AssignLeads: the rows are locked by their ids alone.
AssignLeadsByID(r, to) ==
    /\ request[r].pc = "authed" /\ request[r].kind = "assignMember"
    /\ lead.exists /\ user[to].role = "exec"
    /\ lead' = [lead EXCEPT !.exec = to, !.team = user[to].team]
    /\ Written(r, <<to>>)

\* AssignLeads locks the lead with the actor's scope in the WHERE and moves
\* it to an executive, or to a team lead.
AssignLeads(r, to) ==
    LET q == request[r] IN
    /\ q.pc = "authed" /\ q.kind \in {"assignMember", "assignTeamLead"}
    /\ lead.exists /\ inScope(q.actor, q.as)
    /\ q.as.role = "mtl" => user[to].team = q.as.team
    /\ user[to].role \in IF q.kind = "assignMember" THEN {"exec"} ELSE {"mtl", "atl"}
    /\ lead' = [lead EXCEPT !.exec = IF q.kind = "assignMember" THEN to ELSE None,
                            !.team = user[to].team]
    /\ Written(r, <<to>>)

\* DeleteLeads deletes what is in the actor's scope.
DeleteLeads(r) ==
    /\ request[r].pc = "authed" /\ request[r].kind = "delete"
    /\ lead.exists /\ inScope(request[r].actor, request[r].as)
    /\ lead' = [lead EXCEPT !.exists = FALSE]
    /\ Written(r, <<>>)

\* The checks of the request refuse it, or its write fails.
Refuse(r) ==
    /\ request[r].pc \in {"authed", "cleared"}
    /\ request' = [request EXCEPT ![r] = Ended]
    /\ UNCHANGED <<user, lead, changes, trespass, nvars>>

Staff == {p \in People : user[p].role \in {"superadmin", "mtl", "atl"}}

\* The handler notifies the staff, the actor left out, and the assignee.
Notify(r) ==
    /\ request[r].pc = "written"
    /\ NotifyStaff(r, Staff, request[r].actor, request[r].extra)
    /\ request' = [request EXCEPT ![r] = [NoRequest EXCEPT !.pc = "notifying"]]
    /\ UNCHANGED <<user, lead, changes, trespass>>

\* The read of the staff fails, or the detail a PATCH answers with: the
\* write stands and nobody is notified.
NotifyFails(r) ==
    /\ request[r].pc = "written"
    /\ request' = [request EXCEPT ![r] = Ended]
    /\ UNCHANGED <<user, lead, changes, trespass, nvars>>

Insert(r) ==
    /\ request[r].pc = "notifying"
    /\ CreateMany(r) \/ CreateManyFails(r)
    /\ UNCHANGED <<user, lead, request, changes, trespass>>

\* emitLead and the answer.
Answer(r) ==
    /\ request[r].pc = "notifying" /\ notifying[r].left = <<>>
    /\ request' = [request EXCEPT ![r] = Ended]
    /\ notifying' = [notifying EXCEPT ![r] = NotNotifying]
    /\ UNCHANGED <<user, lead, changes, trespass, inbox, notices, due, lost>>

-----------------------------------------------------------------------------
(* Administrators                                                          *)

\* The rows of ps change: requests of theirs and checked PATCHes are stale.
Change(ps) ==
    /\ changes < MaxChanges
    /\ changes' = changes + 1
    /\ request' = [q \in Requests |->
          IF request[q].pc = "cleared" \/ (request[q].pc = "authed" /\ request[q].actor \in ps)
          THEN [request[q] EXCEPT !.stale = TRUE] ELSE request[q]]
    /\ UNCHANGED <<trespass, nvars>>

\* Teams an edit leaves p with: a new executive needs one, everybody else
\* keeps the old one.
salesTeams(p, role) ==
    IF role = "exec" /\ user[p].role # "exec" THEN Teams ELSE {user[p].team}

\* Analyst teams an edit leaves p with, whether or not it names one.
resolveAnalystTeamName(p, role) ==
    CASE role = "atl" -> (Units \cup {user[p].unit}) \ {None}
      [] role = "analyst" -> Units \cup {None, user[p].unit}
      [] OTHER -> {user[p].unit}

\* updateUser and UserStore.Update: another role or analyst team.
UpdateUser(p, role, team, unit) ==
    /\ Change({p})
    /\ user[p] # Gone
    /\ team \in salesTeams(p, role) /\ unit \in resolveAnalystTeamName(p, role)
    /\ user[p].role # role \/ user[p].unit # unit
    /\ user' = [user EXCEPT ![p].role = role, ![p].team = team, ![p].unit = unit]
    /\ UNCHANGED lead

\* TransferLeadAnalyst: the analyst joins the team of another team lead.
TransferLeadAnalyst(p, to) ==
    /\ Change({p})
    /\ user[p].role = "analyst" /\ user[to].role = "atl"
    /\ user[to].unit # None /\ user[p].unit # user[to].unit
    /\ user' = [user EXCEPT ![p].unit = user[to].unit, ![p].manager = to]
    /\ UNCHANGED lead

\* TransferSalesExec: the executive's leads go along.
TransferSalesExec(p, t) ==
    /\ Change({p})
    /\ user[p].role = "exec" /\ user[p].team # t
    /\ user' = [user EXCEPT ![p].team = t]
    /\ lead' = IF lead.exec = p THEN [lead EXCEPT !.team = t] ELSE lead

\* UserStore.Delete: its leads pass to whoever deleted it or are unassigned.
DeleteUser(p, by) ==
    /\ Change({p})
    /\ user[p] # Gone /\ user[by] # Gone /\ p # by
    /\ user' = [q \in People |->
          IF q = p THEN Gone
          ELSE IF user[q].manager = p THEN [user[q] EXCEPT !.manager = None] ELSE user[q]]
    /\ lead' = [lead EXCEPT
          !.creator = IF @ = p THEN by ELSE @,
          !.team = IF lead.exec = p THEN None ELSE @,
          !.exec = IF @ = p THEN None ELSE @]

QNext ==
    \/ \E r \in Requests :
          \/ \E p \in People, kind \in Patches \cup Bulk : Authenticate(r, p, kind)
          \/ requireLeadAccess(r) \/ Patch(r) \/ DeleteLeads(r) \/ Refuse(r)
          \/ \E to \in People : AssignLeads(r, to)
          \/ Notify(r) \/ NotifyFails(r) \/ Insert(r) \/ Answer(r)
    \/ \E p \in People, role \in Roles, team \in Teams \cup {None}, unit \in Units \cup {None} :
          UpdateUser(p, role, team, unit)
    \/ \E p, q \in People : TransferLeadAnalyst(p, q) \/ DeleteUser(p, q)
    \/ \E p \in People, t \in Teams : TransferSalesExec(p, t)
    \/ \E p \in Readers : \E ids \in SUBSET DOMAIN inbox[p] :
          /\ user[p] # Gone /\ ids # {}
          /\ MarkRead(p, ids)
          /\ UNCHANGED <<user, lead, request, changes, trespass>>

QSpec == QInit /\ [][QNext]_qvars

-----------------------------------------------------------------------------
(* Properties                                                              *)

\* Rows, requests and notifications are what the handlers can produce.
QTypeOK ==
    /\ user \in [People -> Accounts(Roles \cup {"gone"})]
    /\ lead \in [exists : BOOLEAN, creator : People \cup {None},
                 team : Teams \cup {None}, exec : People \cup {None}]
    /\ \A r \in Requests :
          /\ request[r].pc \in {"idle", "authed", "cleared", "written", "notifying", "ended"}
          /\ request[r].kind \in Patches \cup Bulk /\ request[r].actor \in People \cup {None}
    /\ changes \in 0 .. MaxChanges /\ notices \in 0 .. Cardinality(Requests)
    /\ \A p \in People : \A i \in DOMAIN inbox[p] : inbox[p][i].of \in 1 .. notices

\* A lead is changed only by someone who, at that moment, is its creator,
\* its executive, the lead of its team or of its creator's analyst team, or
\* superadmin.  Exempt is a PATCH whose lead or people changed after it was
\* checked, and a bulk request whose own actor's row changed after it was
\* loaded: a bulk request is safe from every other change.
NobodyTrespasses == trespass = {}

=============================================================================
