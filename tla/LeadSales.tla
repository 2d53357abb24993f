----------------------------- MODULE LeadSales ------------------------------
(***************************************************************************)
(* One lead on its way through sales: its stage, closing time, revenue,    *)
(* executive and team, and the requests that write them.  An outcome, an   *)
(* assignment and an edit of a user each read before the transaction that  *)
(* writes; a transfer locks what it reads.                                 *)
(***************************************************************************)
EXTENDS Integers

CONSTANTS
    Requests,     \* requests that can be in flight together
    Execs,        \* sales executives, and what edits make of them
    Teams,
    Outcomes,     \* the stages an executive may report
    MaxTime       \* bound: the last instant of the clock

ASSUME SalesAssumption ==
    /\ Outcomes \subseteq {"IN_NEGOTIATION", "NOT_CONNECTED", "NO_RESPONSE_FROM_CLIENT",
                           "CLOSED_WON", "CLOSED_LOST"}
    /\ MaxTime \in Nat
    /\ "NULL" \notin Execs

VARIABLES
    lead,
    role,         \* role[x]: the role of account x
    team,         \* team[x]: its teamId, kept whatever it becomes
    live,         \* the accounts whose rows exist
    deleting,     \* accounts whose Delete has been past the leads, not the user
    clock,
    request,
    raced         \* history: the kinds of write that rested on a stale read, and
                  \* "rejoin", an edit that took the lead's executive to a team
                  \* other than the lead's

vars == <<lead, role, team, live, deleting, clock, request, raced>>

Null == "NULL"
Never == -1          \* a NULL time
NoRevenue == -1      \* a NULL amount; 0 is not a revenue either
Revenues == {NoRevenue, 0, 1}

\* What a patch leaves out.
KeepStage == "keep"
KeepRevenue == -2

\* Every other role stands for the analyst's.
Executive == "SALES_EXECUTIVE"
Roles == {Executive, "LEAD_ANALYST"}

Closed == {"CLOSED_WON", "CLOSED_LOST"}

Idle ==
    [pc |-> "idle", stage |-> KeepStage, revenue |-> KeepRevenue, closedAt |-> Never,
     exec |-> Null, team |-> Null, role |-> Executive, joins |-> FALSE, late |-> FALSE]

\* A lead as LeadStore.Create leaves it, and executives on teams.
Init ==
    /\ lead = [stage |-> "PRE_SALES", closedAt |-> Never, revenue |-> NoRevenue,
               exec |-> Null, team |-> Null]
    /\ role = [x \in Execs |-> Executive]
    /\ team \in [Execs -> Teams]
    /\ live = Execs
    /\ deleting = {}
    /\ clock = 0
    /\ request = [r \in Requests |-> Idle]
    /\ raced = {}

\* r has written the lead: the others have read what it was before.
Overtaken(r) ==
    [q \in Requests |->
        IF q = r THEN Idle
        ELSE [request[q] EXCEPT !.late = @ \/ request[q].pc = "outcome"]]

\* A request of r ends without having written.
Fails(r) ==
    /\ request[r].pc # "idle"
    /\ request' = [request EXCEPT ![r] = Idle]
    /\ UNCHANGED <<lead, role, team, live, deleting, clock, raced>>

-----------------------------------------------------------------------------
(* UpdateSalesOutcome                                                      *)

\* Mutant of ClosingTime: closing again takes a new time.
ClosingTimeNow(stage) == IF stage \in Closed THEN clock ELSE Never

\* The closing time is kept if the row that was read has one.
ClosingTime(stage) ==
    IF stage \notin Closed THEN Never
    ELSE IF lead.closedAt # Never THEN lead.closedAt ELSE clock

\* A won lead has to have revenue, in the patch or in the row.
RevenueRequired(stage, revenue) ==
    LET newStage   == IF stage = KeepStage THEN lead.stage ELSE stage
        newRevenue == IF revenue = KeepRevenue THEN lead.revenue ELSE revenue
    IN  newStage = "CLOSED_WON" /\ newRevenue <= 0

\* Mutant of UpdateSalesOutcome: the check looks at the patch's stage only.
UpdateSalesOutcomePatchOnly(r, stage, revenue) ==
    /\ request[r].pc = "idle"
    /\ ~(stage = "CLOSED_WON" /\ RevenueRequired(stage, revenue))
    /\ request' = [request EXCEPT ![r] =
          [Idle EXCEPT !.pc = "outcome", !.stage = stage, !.revenue = revenue,
                       !.closedAt = ClosingTime(stage)]]
    /\ UNCHANGED <<lead, role, team, live, deleting, clock, raced>>

\* The read, the checks and the assignments they decide on.
UpdateSalesOutcome(r, stage, revenue) ==
    /\ request[r].pc = "idle"
    /\ ~RevenueRequired(stage, revenue)
    /\ request' = [request EXCEPT ![r] =
          [Idle EXCEPT !.pc = "outcome", !.stage = stage, !.revenue = revenue,
                       !.closedAt = ClosingTime(stage)]]
    /\ UNCHANGED <<lead, role, team, live, deleting, clock, raced>>

\* Mutant of OutcomeCommit: a lost lead gets no closing time.
OutcomeCommitWonOnly(r) ==
    LET q == request[r] IN
    /\ q.pc = "outcome"
    /\ lead' = [lead EXCEPT
          !.stage = IF q.stage = KeepStage THEN @ ELSE q.stage,
          !.closedAt = IF q.stage \in {KeepStage, "CLOSED_LOST"} THEN @ ELSE q.closedAt,
          !.revenue = IF q.revenue = KeepRevenue THEN @ ELSE q.revenue]
    /\ request' = Overtaken(r)
    /\ raced' = raced \cup {k \in {"outcome"} : q.late}
    /\ UNCHANGED <<role, team, live, deleting, clock>>

\* The UPDATE names the columns of the patch, and has no condition.
OutcomeCommit(r) ==
    LET q == request[r] IN
    /\ q.pc = "outcome"
    /\ lead' = [lead EXCEPT
          !.stage = IF q.stage = KeepStage THEN @ ELSE q.stage,
          !.closedAt = IF q.stage = KeepStage THEN @ ELSE q.closedAt,
          !.revenue = IF q.revenue = KeepRevenue THEN @ ELSE q.revenue]
    /\ request' = Overtaken(r)
    /\ raced' = raced \cup {k \in {"outcome"} : q.late}
    /\ UNCHANGED <<role, team, live, deleting, clock>>

-----------------------------------------------------------------------------
(* AssignLeads                                                             *)

\* The assignee's role and team are read before the transaction.
AssignMember(r, x) ==
    /\ request[r].pc = "idle"
    /\ x \in live /\ role[x] = Executive
    /\ request' = [request EXCEPT ![r] =
          [Idle EXCEPT !.pc = "member", !.exec = x, !.team = team[x]]]
    /\ UNCHANGED <<lead, role, team, live, deleting, clock, raced>>

\* The lead goes to an executive; the foreign key refuses one who is gone.
AssignMemberCommit(r) ==
    LET q == request[r] IN
    /\ q.pc = "member"
    /\ q.exec \in live
    /\ lead' = [lead EXCEPT
          !.exec = q.exec, !.team = q.team,
          !.stage = IF @ \in {"PRE_SALES", "WITH_TEAM_LEAD", "NOT_CONNECTED"}
                    THEN "WITH_EXECUTIVE" ELSE @]
    /\ request' = Overtaken(r)
    /\ raced' = raced \cup {k \in {"team"} : q.team # team[q.exec]}
    /\ UNCHANGED <<role, team, live, deleting, clock>>

\* A team lead, and the team, if any.
AssignTeamLead(r, t) ==
    /\ request[r].pc = "idle"
    /\ request' = [request EXCEPT ![r] = [Idle EXCEPT !.pc = "team-lead", !.team = t]]
    /\ UNCHANGED <<lead, role, team, live, deleting, clock, raced>>

\* Mutant of AssignTeamLeadCommit: the executive stays on the lead.
AssignTeamLeadKeepsExec(r) ==
    /\ request[r].pc = "team-lead"
    /\ lead' = [lead EXCEPT !.team = request[r].team, !.stage = "WITH_TEAM_LEAD"]
    /\ request' = Overtaken(r)
    /\ UNCHANGED <<role, team, live, deleting, clock, raced>>

\* The lead leaves its executive, with whatever closing time it has.
AssignTeamLeadCommit(r) ==
    /\ request[r].pc = "team-lead"
    /\ lead' = [lead EXCEPT !.exec = Null, !.team = request[r].team,
                            !.stage = "WITH_TEAM_LEAD"]
    /\ request' = Overtaken(r)
    /\ UNCHANGED <<role, team, live, deleting, clock, raced>>

-----------------------------------------------------------------------------
(* Users                                                                   *)

\* TransferSalesExec, under the lock of the executive's row.
TransferSalesExec(x, t) ==
    /\ x \in live /\ role[x] = Executive
    /\ team[x] # t
    /\ team' = [team EXCEPT ![x] = t]
    /\ lead' = IF lead.exec = x THEN [lead EXCEPT !.team = t] ELSE lead
    /\ UNCHANGED <<role, live, deleting, clock, request, raced>>

\* updateUser and UserStore.Update read the row before they write it; their
\* two reads count as one.  The request names a role and may name a team t:
\* somebody who becomes a sales executive needs one and joins it, everybody
\* else keeps the teamId that was read, and an executive's own move is the
\* transfer that follows.
UpdateUser(r, x, newRole, t) ==
    LET joins == newRole = Executive /\ role[x] # Executive IN
    /\ request[r].pc = "idle"
    /\ x \in live
    /\ joins => t # Null
    /\ request' = [request EXCEPT ![r] =
          [Idle EXCEPT !.pc = "user", !.exec = x, !.role = newRole, !.joins = joins,
                       !.team = IF joins THEN t ELSE team[x]]]
    /\ UNCHANGED <<lead, role, team, live, deleting, clock, raced>>

\* The UPDATE writes role and team with the rest, and moves no lead.
UpdateUserCommit(r) ==
    LET q == request[r] IN
    /\ q.pc = "user"
    /\ q.exec \in live
    /\ role' = [role EXCEPT ![q.exec] = q.role]
    /\ team' = [team EXCEPT ![q.exec] = q.team]
    /\ request' = [request EXCEPT ![r] = Idle]
    /\ raced' = raced \cup {k \in {"team"} : ~q.joins /\ q.team # team[q.exec]}
                     \cup {k \in {"rejoin"} :
                              q.joins /\ lead.exec = q.exec /\ lead.team # q.team}
    /\ UNCHANGED <<lead, live, deleting, clock>>

\* The row of x is gone, and its columns with it.
Gone(x) ==
    /\ live' = live \ {x}
    /\ role' = [role EXCEPT ![x] = Executive]
    /\ team' = [team EXCEPT ![x] = Null]

\* What Delete leaves of a lead of the user's.
Unassigned ==
    [lead EXCEPT !.exec = Null, !.team = Null,
                 !.stage = IF @ \in {"WITH_EXECUTIVE", "WITH_TEAM_LEAD"}
                           THEN "PRE_SALES" ELSE @]

\* Mutant of DeleteAssigned: only the foreign key acts on the lead.
DeleteByForeignKey(x) ==
    /\ x \in live \ deleting
    /\ lead.exec = x
    /\ lead' = [lead EXCEPT !.exec = Null]
    /\ Gone(x)
    /\ UNCHANGED <<deleting, clock, request, raced>>

\* UserStore.Delete of the lead's executive: from its first statement the
\* transaction holds the lead, so it counts as one step.
DeleteAssigned(x) ==
    /\ x \in live \ deleting
    /\ lead.exec = x
    /\ lead' = Unassigned
    /\ Gone(x)
    /\ request' = [q \in Requests |->
          [request[q] EXCEPT !.late = @ \/ request[q].pc = "outcome"]]
    /\ UNCHANGED <<deleting, clock, raced>>

\* UserStore.Delete of somebody else: the UPDATE of the leads finds no row ...
DeleteScan(x) ==
    /\ x \in live \ deleting
    /\ lead.exec # x
    /\ deleting' = deleting \cup {x}
    /\ UNCHANGED <<lead, role, team, live, clock, request, raced>>

\* ... and the DELETE of the user sets the pointers that are there by then
\* to NULL (ON DELETE SET NULL).
DeleteUser(x) ==
    /\ x \in deleting
    /\ lead' = IF lead.exec = x THEN [lead EXCEPT !.exec = Null] ELSE lead
    /\ Gone(x)
    /\ deleting' = deleting \ {x}
    /\ raced' = raced \cup {k \in {"delete"} : lead.exec = x}
    /\ UNCHANGED <<clock, request>>

\* A blocked or failed Delete is rolled back.
DeleteFails(x) ==
    /\ x \in deleting
    /\ deleting' = deleting \ {x}
    /\ UNCHANGED <<lead, role, team, live, clock, request, raced>>

Tick ==
    /\ clock < MaxTime
    /\ clock' = clock + 1
    /\ UNCHANGED <<lead, role, team, live, deleting, request, raced>>

-----------------------------------------------------------------------------
Next ==
    \/ \E r \in Requests :
          \/ \E stage \in Outcomes \cup {KeepStage}, revenue \in Revenues \cup {KeepRevenue} :
                UpdateSalesOutcome(r, stage, revenue)
          \/ OutcomeCommit(r)
          \/ \E x \in Execs :
                \/ AssignMember(r, x)
                \/ \E newRole \in Roles, t \in Teams \cup {Null} : UpdateUser(r, x, newRole, t)
          \/ \E t \in Teams \cup {Null} : AssignTeamLead(r, t)
          \/ AssignMemberCommit(r) \/ AssignTeamLeadCommit(r)
          \/ UpdateUserCommit(r) \/ Fails(r)
    \/ \E x \in Execs :
          \/ \E t \in Teams : TransferSalesExec(x, t)
          \/ DeleteAssigned(x) \/ DeleteScan(x) \/ DeleteUser(x) \/ DeleteFails(x)
    \/ Tick

Spec == Init /\ [][Next]_vars

-----------------------------------------------------------------------------
(* Properties                                                              *)

Stages == Outcomes \cup {"PRE_SALES", "WITH_TEAM_LEAD", "WITH_EXECUTIVE"}
Times == 0 .. MaxTime

LeadRows ==
    [stage : Stages, closedAt : Times \cup {Never}, revenue : Revenues,
     exec : Execs \cup {Null}, team : Teams \cup {Null}]
RequestRows ==
    [pc : {"idle", "outcome", "member", "team-lead", "user"},
     stage : Outcomes \cup {KeepStage}, revenue : Revenues \cup {KeepRevenue},
     closedAt : Times \cup {Never}, exec : Execs \cup {Null},
     team : Teams \cup {Null}, role : Roles, joins : BOOLEAN, late : BOOLEAN]

\* Every variable keeps its shape, and the lead's executive exists.
TypeOK ==
    /\ lead \in LeadRows /\ lead.exec \in live \cup {Null}
    /\ role \in [Execs -> Roles]
    /\ team \in [Execs -> Teams \cup {Null}]
    /\ live \subseteq Execs /\ deleting \subseteq live
    /\ clock \in Times
    /\ request \in [Requests -> RequestRows]
    /\ raced \subseteq {"outcome", "team", "delete", "rejoin"}

\* A closed lead has a closing time, however outcomes, assignments and
\* deletions race (UpdateSalesOutcome; what migration 5 repaired once).
ClosedHasTime == lead.stage \in Closed => lead.closedAt # Never

\* A won lead has revenue, as long as no outcome rested on a row that had
\* changed since it was read (UpdateSalesOutcome's check).
WonHasRevenue == "outcome" \notin raced /\ lead.stage = "CLOSED_WON" => lead.revenue > 0

\* A lead that stays closed keeps its closing time, under the same proviso:
\* reporting the outcome again, or won instead of lost, does not move it.
ClosingTimeIsKept ==
    [][lead.stage \in Closed /\ lead'.stage \in Closed /\ "outcome" \notin raced'
          => lead'.closedAt = lead.closedAt]_vars

\* A lead is on its executive's team, whatever that account has become since.
\* Two kinds of write are exempt: one that rested on a team read before a
\* transfer, and the edit that makes the lead's executive, an analyst by
\* then, a sales executive again: it takes the account to the team it names
\* and leaves the lead behind (AssignLeads, TransferSalesExec, Update, Delete).
LeadFollowsExec ==
    raced \cap {"team", "rejoin"} = {} /\ lead.exec # Null => lead.team = team[lead.exec]

\* No lead waits for an executive it does not have, as long as no assignment
\* came between a Delete's update of the leads and of the user.
NobodyIsWaitedFor ==
    "delete" \notin raced /\ lead.stage = "WITH_EXECUTIVE" => lead.exec # Null

=============================================================================
