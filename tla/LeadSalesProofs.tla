-------------------------- MODULE LeadSalesProofs ---------------------------
(***************************************************************************)
(* Proofs about LeadSales for every number of requests, executives and     *)
(* teams, and every bound on the clock.                                    *)
(***************************************************************************)
EXTENDS LeadSales, TLAPS

USE SalesAssumption

\* What a request carries: an outcome that closes has a closing time, and an
\* assignment or an edit of a user has an account.
Shape(x) ==
    /\ x.pc = "outcome" /\ x.stage \in Closed => x.closedAt # Never
    /\ x.pc \in {"member", "user"} => x.exec \in Execs

\* An outcome that was not overtaken would still pass the revenue check.
Checked(x) == x.pc = "outcome" /\ ~x.late => ~RevenueRequired(x.stage, x.revenue)

\* The inductive invariant.
SalesInv ==
    /\ TypeOK
    /\ ClosedHasTime
    /\ WonHasRevenue
    /\ LeadFollowsExec
    /\ NobodyIsWaitedFor
    /\ \A q \in Requests : Shape(request[q]) /\ Checked(request[q])

\* An idle request is well formed.
LEMMA IdleRow == Idle \in RequestRows /\ Shape(Idle) /\ Checked(Idle)
BY DEF Idle, RequestRows, Roles, Shape, Checked

\* A lead just created is nobody's.
LEMMA InitInv == Init => SalesInv
<1> SUFFICES ASSUME Init PROVE SalesInv
  OBVIOUS
<1>1. TypeOK
  <2>1. lead \in LeadRows /\ lead.exec = Null
    BY DEF Init, LeadRows, Stages, Revenues
  <2>2. request \in [Requests -> RequestRows]
    BY IdleRow DEF Init
  <2>3. 0 \in Times
    BY DEF Times
  <2>4. role \in [Execs -> Roles] /\ team \in [Execs -> Teams \cup {Null}]
    BY DEF Init, Roles
  <2>5. QED
    BY <2>1, <2>2, <2>3, <2>4 DEF Init, TypeOK
<1>2. ClosedHasTime /\ WonHasRevenue /\ LeadFollowsExec /\ NobodyIsWaitedFor
  BY DEF Init, ClosedHasTime, WonHasRevenue, LeadFollowsExec, NobodyIsWaitedFor, Closed
<1>3. \A q \in Requests : Shape(request[q]) /\ Checked(request[q])
  BY IdleRow DEF Init
<1>4. QED
  BY <1>1, <1>2, <1>3 DEF SalesInv

\* A step that moves one request and writes neither the lead nor a user.
LEMMA QuietStep ==
    ASSUME SalesInv, NEW r \in Requests, NEW x \in RequestRows,
           request' = [request EXCEPT ![r] = x], Shape(x), Checked(x),
           UNCHANGED <<lead, role, team, live, deleting, clock, raced>>
    PROVE  SalesInv'
<1>1. TypeOK'
  BY DEF SalesInv, TypeOK
<1>2. (ClosedHasTime /\ WonHasRevenue /\ LeadFollowsExec /\ NobodyIsWaitedFor)'
  BY DEF SalesInv, ClosedHasTime, WonHasRevenue, LeadFollowsExec, NobodyIsWaitedFor
<1>3. \A q \in Requests : request'[q] = IF q = r THEN x ELSE request[q]
  BY DEF SalesInv, TypeOK
<1>4. \A q \in Requests : Shape(request[q])' /\ Checked(request[q])'
  BY <1>3 DEF SalesInv, Shape, Checked, RevenueRequired
<1>5. QED
  BY <1>1, <1>2, <1>4 DEF SalesInv

\* A write of the lead: every outcome in flight is overtaken.
LEMMA RequestsOvertaken ==
    ASSUME SalesInv,
           NEW S \in SUBSET Requests,
           request' = [q \in Requests |->
               IF q \in S THEN Idle
               ELSE [request[q] EXCEPT !.late = @ \/ request[q].pc = "outcome"]]
    PROVE  /\ request' \in [Requests -> RequestRows]
           /\ \A q \in Requests : Shape(request[q])' /\ Checked(request[q])'
<1> DEFINE late(q) == request[q].late \/ request[q].pc = "outcome"
           x(q) == [request[q] EXCEPT !.late = late(q)]
<1>1. \A q \in Requests : request[q] \in RequestRows /\ Shape(request[q])
  BY DEF SalesInv, TypeOK
<1>2. \A q \in Requests : late(q) \in BOOLEAN /\ (request[q].pc = "outcome" => late(q))
  OBVIOUS
<1>3. request' = [q \in Requests |-> IF q \in S THEN Idle ELSE x(q)]
  OBVIOUS
<1> HIDE DEF late
<1>4. \A q \in Requests : /\ x(q) \in RequestRows
                          /\ x(q).pc = request[q].pc /\ x(q).stage = request[q].stage
                          /\ x(q).closedAt = request[q].closedAt
                          /\ x(q).exec = request[q].exec /\ x(q).team = request[q].team
                          /\ x(q).late = late(q)
  BY <1>1, <1>2 DEF RequestRows
<1> HIDE DEF x
<1>5. request' \in [Requests -> RequestRows]
  BY <1>3, <1>4, IdleRow
<1>6. ASSUME NEW q \in Requests PROVE Shape(request[q])' /\ Checked(request[q])'
  <2>1. CASE q \in S
    <3>1. request'[q] = Idle
      BY <1>3, <2>1
    <3>2. QED
      BY <3>1 DEF Shape, Checked, Idle
  <2>2. CASE q \notin S
    <3>1. request'[q] = x(q)
      BY <1>3, <2>2
    <3>2. QED
      BY <1>1, <1>2, <1>4, <3>1 DEF Shape, Checked
  <2>3. QED
    BY <2>1, <2>2
<1>7. QED
  BY <1>5, <1>6

\* The reads of a request, and its failure.
LEMMA QuietSteps ==
    ASSUME SalesInv, NEW r \in Requests,
           \/ \E stage \in Outcomes \cup {KeepStage}, revenue \in Revenues \cup {KeepRevenue} :
                 UpdateSalesOutcome(r, stage, revenue)
           \/ \E x \in Execs :
                 \/ AssignMember(r, x)
                 \/ \E newRole \in Roles, t \in Teams \cup {Null} : UpdateUser(r, x, newRole, t)
           \/ \E t \in Teams \cup {Null} : AssignTeamLead(r, t)
           \/ Fails(r)
    PROVE  SalesInv'
<1> DEFINE Good(x) == x \in RequestRows /\ Shape(x) /\ Checked(x)
<1>1. ASSUME NEW x, Good(x), request' = [request EXCEPT ![r] = x],
             UNCHANGED <<lead, role, team, live, deleting, clock, raced>>
      PROVE  SalesInv'
  BY <1>1, QuietStep
<1>2. /\ clock \in Times /\ lead.closedAt \in Times \cup {Never}
      /\ team \in [Execs -> Teams \cup {Null}]
  BY DEF SalesInv, TypeOK, LeadRows
<1>3. ASSUME NEW stage \in Outcomes \cup {KeepStage},
             NEW revenue \in Revenues \cup {KeepRevenue},
             UpdateSalesOutcome(r, stage, revenue)
      PROVE  SalesInv'
  <2> DEFINE x == [Idle EXCEPT !.pc = "outcome", !.stage = stage, !.revenue = revenue,
                               !.closedAt = ClosingTime(stage)]
  <2>1. /\ ClosingTime(stage) \in Times \cup {Never}
        /\ stage \in Closed => ClosingTime(stage) # Never
    BY <1>2 DEF ClosingTime, Times, Never
  <2>2. x \in RequestRows
    BY <2>1, IdleRow DEF RequestRows
  <2>3. /\ x.pc = "outcome" /\ x.stage = stage /\ x.revenue = revenue
        /\ x.closedAt = ClosingTime(stage)
    BY DEF Idle
  <2> HIDE DEF x
  <2>4. Good(x)
    BY <1>3, <2>1, <2>2, <2>3 DEF UpdateSalesOutcome, Shape, Checked
  <2> HIDE DEF Good
  <2>5. QED
    BY <1>1, <1>3, <2>4 DEF UpdateSalesOutcome, x
<1>4. ASSUME NEW e \in Execs, AssignMember(r, e) PROVE SalesInv'
  <2> DEFINE x == [Idle EXCEPT !.pc = "member", !.exec = e, !.team = team[e]]
  <2>1. x \in RequestRows /\ x.pc = "member" /\ x.exec = e
    BY <1>2, IdleRow DEF RequestRows
  <2> HIDE DEF x
  <2>2. Good(x)
    BY <2>1 DEF Shape, Checked
  <2> HIDE DEF Good
  <2>3. QED
    BY <1>1, <1>4, <2>2 DEF AssignMember, x
<1>7. ASSUME NEW e \in Execs, NEW newRole \in Roles, NEW t \in Teams \cup {Null},
             UpdateUser(r, e, newRole, t)
      PROVE  SalesInv'
  <2> DEFINE joins == newRole = Executive /\ role[e] # Executive
             x(j) == [Idle EXCEPT !.pc = "user", !.exec = e, !.role = newRole, !.joins = j,
                                  !.team = IF j THEN t ELSE team[e]]
  <2>1. PICK j \in BOOLEAN : j = joins
    OBVIOUS
  <2>2. x(j) \in RequestRows /\ x(j).pc = "user" /\ x(j).exec = e
    BY <1>2, IdleRow DEF RequestRows
  <2>3. request' = [request EXCEPT ![r] = x(j)]
    BY <1>7, <2>1 DEF UpdateUser
  <2> HIDE DEF x
  <2>4. Good(x(j))
    BY <2>2 DEF Shape, Checked
  <2> HIDE DEF Good
  <2>5. QED
    BY <1>1, <1>7, <2>3, <2>4 DEF UpdateUser
<1>5. ASSUME NEW t \in Teams \cup {Null}, AssignTeamLead(r, t) PROVE SalesInv'
  <2> DEFINE x == [Idle EXCEPT !.pc = "team-lead", !.team = t]
  <2>1. x \in RequestRows
    BY IdleRow DEF RequestRows
  <2>2. x.pc = "team-lead"
    BY DEF Idle
  <2> HIDE DEF x
  <2>3. Good(x)
    BY <2>1, <2>2 DEF Shape, Checked
  <2> HIDE DEF Good
  <2>4. QED
    BY <1>1, <1>5, <2>3 DEF AssignTeamLead, x
<1>6. CASE Fails(r)
  <2>1. Good(Idle)
    BY IdleRow
  <2> HIDE DEF Good
  <2>2. QED
    BY <1>1, <1>6, <2>1 DEF Fails
<1>8. QED
  BY <1>3, <1>4, <1>5, <1>6, <1>7

\* The lead's part of the invariant.
LeadInv ==
    /\ TypeOK
    /\ ClosedHasTime
    /\ WonHasRevenue
    /\ LeadFollowsExec
    /\ NobodyIsWaitedFor

\* The UPDATE of an outcome.
LEMMA OutcomeStep ==
    ASSUME SalesInv, NEW r \in Requests, OutcomeCommit(r)
    PROVE  SalesInv'
<1> DEFINE q == request[r]
           stage == IF q.stage = KeepStage THEN lead.stage ELSE q.stage
           closedAt == IF q.stage = KeepStage THEN lead.closedAt ELSE q.closedAt
           revenue == IF q.revenue = KeepRevenue THEN lead.revenue ELSE q.revenue
<1>1. q \in RequestRows /\ lead \in LeadRows /\ Shape(q) /\ Checked(q) /\ q.pc = "outcome"
  BY DEF SalesInv, TypeOK, OutcomeCommit
<1>2. /\ stage \in Stages /\ closedAt \in Times \cup {Never} /\ revenue \in Revenues
  BY <1>1 DEF RequestRows, LeadRows, Stages
<1>3. lead' = [lead EXCEPT !.stage = stage, !.closedAt = closedAt, !.revenue = revenue]
  BY DEF OutcomeCommit
<1>4. stage \in Closed => closedAt # Never
  BY <1>1 DEF SalesInv, ClosedHasTime, Shape
<1>5. ~q.late => ~(stage = "CLOSED_WON" /\ revenue <= 0)
  BY <1>1 DEF Checked, RevenueRequired
<1>6. stage = "WITH_EXECUTIVE" => lead.stage = "WITH_EXECUTIVE"
  BY <1>1 DEF RequestRows
<1>7. q.late \in BOOLEAN
  BY <1>1 DEF RequestRows
<1>8. /\ request' \in [Requests -> RequestRows]
      /\ \A p \in Requests : Shape(request[p])' /\ Checked(request[p])'
  <2>1. request' = [p \in Requests |->
               IF p \in {r} THEN Idle
               ELSE [request[p] EXCEPT !.late = @ \/ request[p].pc = "outcome"]]
    BY DEF OutcomeCommit, Overtaken
  <2>2. QED
    BY <2>1, RequestsOvertaken
<1>9. /\ UNCHANGED <<role, team, live, deleting, clock>>
      /\ raced \subseteq raced' /\ raced' \subseteq raced \cup {"outcome"}
      /\ q.late => "outcome" \in raced'
  BY DEF OutcomeCommit
<1> HIDE DEF q, stage, closedAt, revenue
<1>10. /\ lead' \in LeadRows /\ lead'.stage = stage /\ lead'.closedAt = closedAt
       /\ lead'.revenue = revenue /\ lead'.exec = lead.exec /\ lead'.team = lead.team
  BY <1>1, <1>2, <1>3 DEF LeadRows
<1>11. TypeOK'
  BY <1>8, <1>9, <1>10 DEF SalesInv, TypeOK
<1>12. ClosedHasTime' /\ LeadFollowsExec' /\ NobodyIsWaitedFor'
  BY <1>4, <1>6, <1>9, <1>10
     DEF SalesInv, ClosedHasTime, LeadFollowsExec, NobodyIsWaitedFor
<1>13. WonHasRevenue'
  <2>1. revenue \in Int
    BY <1>2 DEF Revenues, NoRevenue
  <2>2. QED
    BY <1>5, <1>7, <1>9, <1>10, <2>1 DEF WonHasRevenue
<1>14. QED
  BY <1>8, <1>11, <1>12, <1>13 DEF SalesInv

\* The UPDATE of an assignment.
LEMMA AssignStep ==
    ASSUME SalesInv, NEW r \in Requests, AssignMemberCommit(r) \/ AssignTeamLeadCommit(r)
    PROVE  SalesInv'
<1> DEFINE q == request[r]
<1>1. q \in RequestRows /\ lead \in LeadRows /\ Shape(q)
  BY DEF SalesInv, TypeOK
<1>2. /\ request' \in [Requests -> RequestRows]
      /\ \A p \in Requests : Shape(request[p])' /\ Checked(request[p])'
  <2>1. request' = [p \in Requests |->
               IF p \in {r} THEN Idle
               ELSE [request[p] EXCEPT !.late = @ \/ request[p].pc = "outcome"]]
    BY DEF AssignMemberCommit, AssignTeamLeadCommit, Overtaken
  <2>2. QED
    BY <2>1, RequestsOvertaken
<1>3. UNCHANGED <<role, team, live, deleting, clock>>
  BY DEF AssignMemberCommit, AssignTeamLeadCommit
<1>4. LeadInv'
  <2>1. CASE AssignMemberCommit(r)
    <3> DEFINE stage == IF lead.stage \in {"PRE_SALES", "WITH_TEAM_LEAD", "NOT_CONNECTED"}
                        THEN "WITH_EXECUTIVE" ELSE lead.stage
    <3>1. lead' = [lead EXCEPT !.exec = q.exec, !.team = q.team, !.stage = stage]
      BY <2>1 DEF AssignMemberCommit
    <3>2. /\ q.exec \in live /\ q.exec \in Execs /\ q.team \in Teams \cup {Null}
          /\ q.exec # Null
      BY <1>1, <2>1 DEF AssignMemberCommit, Shape, Null, RequestRows
    <3>3. /\ raced \subseteq raced' /\ raced' \subseteq raced \cup {"team"}
          /\ q.team # team[q.exec] => "team" \in raced'
      BY <2>1 DEF AssignMemberCommit
    <3>4. stage \in Stages /\ (stage \in Closed => lead.stage = stage)
      BY <1>1 DEF LeadRows, Stages, Closed
    <3> HIDE DEF stage, q
    <3>5. /\ lead' \in LeadRows /\ lead'.stage = stage /\ lead'.closedAt = lead.closedAt
          /\ lead'.revenue = lead.revenue /\ lead'.exec = q.exec /\ lead'.team = q.team
      BY <1>1, <3>1, <3>2, <3>4 DEF LeadRows
    <3>6. TypeOK'
      BY <1>2, <1>3, <3>2, <3>3, <3>5 DEF SalesInv, TypeOK
    <3>7. ClosedHasTime' /\ WonHasRevenue'
      BY <3>3, <3>4, <3>5 DEF SalesInv, ClosedHasTime, WonHasRevenue, Closed
    <3>8. LeadFollowsExec' /\ NobodyIsWaitedFor'
      BY <1>3, <3>2, <3>3, <3>5 DEF SalesInv, LeadFollowsExec, NobodyIsWaitedFor
    <3>9. QED
      BY <3>6, <3>7, <3>8 DEF LeadInv
  <2>2. CASE AssignTeamLeadCommit(r)
    <3>1. lead' = [lead EXCEPT !.exec = Null, !.team = q.team, !.stage = "WITH_TEAM_LEAD"]
          /\ raced' = raced
      BY <2>2 DEF AssignTeamLeadCommit
    <3>2. q.team \in Teams \cup {Null}
      BY <1>1 DEF RequestRows
    <3> HIDE DEF q
    <3>3. /\ lead' \in LeadRows /\ lead'.stage = "WITH_TEAM_LEAD" /\ lead'.exec = Null
      BY <1>1, <3>1, <3>2 DEF LeadRows, Stages
    <3>4. TypeOK'
      BY <1>2, <1>3, <3>1, <3>3 DEF SalesInv, TypeOK
    <3>5. ClosedHasTime' /\ WonHasRevenue' /\ LeadFollowsExec' /\ NobodyIsWaitedFor'
      BY <3>3 DEF ClosedHasTime, WonHasRevenue, LeadFollowsExec, NobodyIsWaitedFor, Closed
    <3>6. QED
      BY <3>4, <3>5 DEF LeadInv
  <2>3. QED
    BY <2>1, <2>2
<1>5. QED
  BY <1>2, <1>4 DEF SalesInv, LeadInv

\* Nothing of what the requests rest on changes.
LEMMA RequestsKept ==
    ASSUME SalesInv, request' = request,
           lead'.stage = lead.stage, lead'.revenue = lead.revenue
    PROVE  \A q \in Requests : Shape(request[q])' /\ Checked(request[q])'
BY DEF SalesInv, Shape, Checked, RevenueRequired

\* A transfer moves the executive and the lead together.
LEMMA TransferStep ==
    ASSUME SalesInv, NEW x \in Execs, NEW t \in Teams, TransferSalesExec(x, t)
    PROVE  SalesInv'
<1>1. /\ lead \in LeadRows /\ team \in [Execs -> Teams \cup {Null}]
      /\ UNCHANGED <<role, live, deleting, clock, request, raced>>
  BY DEF SalesInv, TypeOK, TransferSalesExec
<1>2. /\ lead' \in LeadRows /\ lead'.stage = lead.stage /\ lead'.closedAt = lead.closedAt
      /\ lead'.revenue = lead.revenue /\ lead'.exec = lead.exec
      /\ lead'.team = IF lead.exec = x THEN t ELSE lead.team
  BY <1>1 DEF TransferSalesExec, LeadRows
<1>3. team' = [team EXCEPT ![x] = t]
  BY DEF TransferSalesExec
<1>4. TypeOK'
  BY <1>1, <1>2, <1>3 DEF SalesInv, TypeOK
<1>5. ClosedHasTime' /\ WonHasRevenue' /\ NobodyIsWaitedFor'
  BY <1>1, <1>2 DEF SalesInv, ClosedHasTime, WonHasRevenue, NobodyIsWaitedFor
<1>6. LeadFollowsExec'
  <2>1. lead.exec \in Execs \cup {Null}
    BY <1>1 DEF LeadRows
  <2>2. QED
    BY <1>1, <1>2, <1>3, <2>1 DEF SalesInv, LeadFollowsExec
<1>7. QED
  BY <1>1, <1>2, <1>4, <1>5, <1>6, RequestsKept DEF SalesInv

\* An edit of a user writes back the team it read, or, of somebody who
\* becomes a sales executive, the team it names.
LEMMA UpdateUserStep ==
    ASSUME SalesInv, NEW r \in Requests, UpdateUserCommit(r)
    PROVE  SalesInv'
<1> DEFINE q == request[r]
<1>1. /\ UNCHANGED <<lead, live, deleting, clock>>
      /\ request' = [request EXCEPT ![r] = Idle]
      /\ raced \subseteq raced' /\ raced' \subseteq raced \cup {"team", "rejoin"}
      /\ ~q.joins /\ q.team # team[q.exec] => "team" \in raced'
      /\ q.joins /\ lead.exec = q.exec /\ lead.team # q.team => "rejoin" \in raced'
  BY DEF UpdateUserCommit
<1>2. /\ q.exec \in Execs /\ q.team \in Teams \cup {Null} /\ q.role \in Roles
      /\ team \in [Execs -> Teams \cup {Null}] /\ role \in [Execs -> Roles]
      /\ lead.exec \in Execs \cup {Null}
  BY DEF SalesInv, TypeOK, UpdateUserCommit, Shape, RequestRows, LeadRows
<1>3. /\ team' \in [Execs -> Teams \cup {Null}] /\ role' \in [Execs -> Roles]
      /\ \A x \in Execs : team'[x] = IF x = q.exec THEN q.team ELSE team[x]
  BY <1>2 DEF UpdateUserCommit
<1>4. \A p \in Requests : request'[p] = IF p = r THEN Idle ELSE request[p]
  BY <1>1 DEF SalesInv, TypeOK
<1>5. TypeOK'
  BY <1>1, <1>3, IdleRow DEF SalesInv, TypeOK
<1>6. ClosedHasTime' /\ WonHasRevenue' /\ NobodyIsWaitedFor'
  BY <1>1 DEF SalesInv, ClosedHasTime, WonHasRevenue, NobodyIsWaitedFor
<1>7. LeadFollowsExec'
  BY <1>1, <1>2, <1>3 DEF SalesInv, LeadFollowsExec
<1>8. \A p \in Requests : Shape(request[p])' /\ Checked(request[p])'
  BY <1>1, <1>4, IdleRow DEF SalesInv, Shape, Checked, RevenueRequired
<1>9. QED
  BY <1>5, <1>6, <1>7, <1>8 DEF SalesInv

\* A row that goes leaves the others.
LEMMA GoneRows ==
    ASSUME SalesInv, NEW x \in Execs, Gone(x)
    PROVE  /\ live' = live \ {x}
           /\ role' \in [Execs -> Roles] /\ team' \in [Execs -> Teams \cup {Null}]
           /\ \A y \in Execs : y # x => team'[y] = team[y]
BY DEF SalesInv, TypeOK, Gone, Roles

\* Deleting the lead's executive returns the lead to the pool.
LEMMA DeleteAssignedStep ==
    ASSUME SalesInv, NEW x \in Execs, DeleteAssigned(x)
    PROVE  SalesInv'
<1> DEFINE stage == IF lead.stage \in {"WITH_EXECUTIVE", "WITH_TEAM_LEAD"}
                    THEN "PRE_SALES" ELSE lead.stage
<1>1. /\ lead \in LeadRows /\ x \in live \ deleting /\ live' = live \ {x}
      /\ role' \in [Execs -> Roles] /\ team' \in [Execs -> Teams \cup {Null}]
      /\ UNCHANGED <<deleting, clock, raced>>
      /\ lead' = [lead EXCEPT !.exec = Null, !.team = Null, !.stage = stage]
  BY GoneRows DEF SalesInv, TypeOK, DeleteAssigned, Unassigned
<1>2. /\ stage \in Stages /\ stage # "WITH_EXECUTIVE"
      /\ stage \in Closed => stage = lead.stage
  BY <1>1 DEF LeadRows, Stages, Closed
<1> HIDE DEF stage
<1>3. /\ lead' \in LeadRows /\ lead'.stage = stage /\ lead'.exec = Null
      /\ lead'.closedAt = lead.closedAt /\ lead'.revenue = lead.revenue
  BY <1>1, <1>2 DEF LeadRows
<1>4. /\ request' \in [Requests -> RequestRows]
      /\ \A q \in Requests : Shape(request[q])' /\ Checked(request[q])'
  <2> DEFINE none == {q \in Requests : FALSE}
  <2>1. none \in SUBSET Requests
        /\ request' = [q \in Requests |->
               IF q \in none THEN Idle
               ELSE [request[q] EXCEPT !.late = @ \/ request[q].pc = "outcome"]]
    BY DEF DeleteAssigned
  <2> HIDE DEF none
  <2>2. QED
    BY <2>1, RequestsOvertaken
<1>5. TypeOK'
  BY <1>1, <1>3, <1>4 DEF SalesInv, TypeOK
<1>6. ClosedHasTime' /\ WonHasRevenue' /\ LeadFollowsExec' /\ NobodyIsWaitedFor'
  BY <1>1, <1>2, <1>3
     DEF SalesInv, ClosedHasTime, WonHasRevenue, LeadFollowsExec, NobodyIsWaitedFor, Closed
<1>7. QED
  BY <1>4, <1>5, <1>6 DEF SalesInv

\* Deleting anybody else: the foreign key clears what was assigned meanwhile.
LEMMA DeleteOtherStep ==
    ASSUME SalesInv, NEW x \in Execs, DeleteScan(x) \/ DeleteUser(x) \/ DeleteFails(x)
    PROVE  SalesInv'
<1>1. UNCHANGED <<clock, request>> /\ lead \in LeadRows
  BY DEF SalesInv, TypeOK, DeleteScan, DeleteUser, DeleteFails
<1>2. CASE DeleteScan(x) \/ DeleteFails(x)
  <2>1. UNCHANGED <<lead, role, team, live, raced>> /\ deleting' \subseteq live
    BY <1>2 DEF SalesInv, TypeOK, DeleteScan, DeleteFails
  <2>2. TypeOK'
    BY <1>1, <2>1 DEF SalesInv, TypeOK
  <2>3. QED
    BY <1>1, <2>1, <2>2, RequestsKept
       DEF SalesInv, ClosedHasTime, WonHasRevenue, LeadFollowsExec, NobodyIsWaitedFor
<1>3. CASE DeleteUser(x)
  <2>1. /\ live' = live \ {x} /\ deleting' = deleting \ {x}
        /\ raced \subseteq raced' /\ raced' \subseteq raced \cup {"delete"}
        /\ lead.exec = x => "delete" \in raced'
        /\ role' \in [Execs -> Roles] /\ team' \in [Execs -> Teams \cup {Null}]
        /\ \A y \in Execs : y # x => team'[y] = team[y]
        /\ lead.exec \in Execs \cup {Null}
    BY <1>1, <1>3, GoneRows DEF DeleteUser, LeadRows
  <2>2. /\ lead' \in LeadRows /\ lead'.stage = lead.stage /\ lead'.closedAt = lead.closedAt
        /\ lead'.revenue = lead.revenue /\ lead'.team = lead.team
        /\ lead'.exec = IF lead.exec = x THEN Null ELSE lead.exec
    BY <1>1, <1>3 DEF DeleteUser, LeadRows
  <2>3. TypeOK'
    BY <1>1, <2>1, <2>2 DEF SalesInv, TypeOK
  <2>4. ClosedHasTime' /\ WonHasRevenue' /\ LeadFollowsExec' /\ NobodyIsWaitedFor'
    BY <1>1, <2>1, <2>2
       DEF SalesInv, ClosedHasTime, WonHasRevenue, LeadFollowsExec, NobodyIsWaitedFor
  <2>5. QED
    BY <1>1, <2>2, <2>3, <2>4, RequestsKept DEF SalesInv
<1>4. QED
  BY <1>2, <1>3

\* The clock touches nothing else.
LEMMA TickStep ==
    ASSUME SalesInv, UNCHANGED <<lead, role, team, live, deleting, request, raced>>, clock' \in Times
    PROVE  SalesInv'
<1>1. TypeOK'
  BY DEF SalesInv, TypeOK
<1>2. QED
  BY <1>1, RequestsKept
     DEF SalesInv, ClosedHasTime, WonHasRevenue, LeadFollowsExec, NobodyIsWaitedFor

\* Every step keeps the invariant.
LEMMA NextInv == SalesInv /\ [Next]_vars => SalesInv'
<1> SUFFICES ASSUME SalesInv, [Next]_vars PROVE SalesInv'
  OBVIOUS
<1>1. CASE UNCHANGED vars
  BY <1>1, TickStep DEF vars, SalesInv, TypeOK
<1>2. CASE Tick
  <2>1. clock' \in Times
    BY <1>2 DEF Tick, Times, SalesInv, TypeOK
  <2>2. QED
    BY <1>2, <2>1, TickStep DEF Tick
<1>3. QED
  BY <1>1, <1>2, QuietSteps, OutcomeStep, AssignStep, TransferStep, UpdateUserStep,
     DeleteAssignedStep, DeleteOtherStep DEF Next

\* The inductive invariant holds in every reachable state: outcomes,
\* assignments, transfers and deletions, in any order.
THEOREM SalesInvariant == Spec => []SalesInv
<1>1. Init => SalesInv
  BY InitInv
<1>2. SalesInv /\ [Next]_vars => SalesInv'
  BY NextInv
<1>3. QED
  BY <1>1, <1>2, PTL DEF Spec

\* A closed lead has a closing time, whatever races (UpdateSalesOutcome).
THEOREM ClosedTimed == Spec => []ClosedHasTime
<1>1. SalesInv => ClosedHasTime
  BY DEF SalesInv
<1>2. QED
  BY <1>1, SalesInvariant, PTL

\* A won lead has revenue unless an outcome was written over a row that had
\* changed since it was read (UpdateSalesOutcome's check).
THEOREM WonPaid == Spec => []WonHasRevenue
<1>1. SalesInv => WonHasRevenue
  BY DEF SalesInv
<1>2. QED
  BY <1>1, SalesInvariant, PTL

\* A lead is on its executive's team, whatever edits make of the account and
\* back, unless a write rested on a team read before a transfer, or an edit
\* took the lead's executive to another team by its role (AssignLeads,
\* TransferSalesExec, UserStore.Update).
THEOREM FollowsExec == Spec => []LeadFollowsExec
<1>1. SalesInv => LeadFollowsExec
  BY DEF SalesInv
<1>2. QED
  BY <1>1, SalesInvariant, PTL

\* No lead waits for an executive it does not have, unless it was assigned
\* between the two statements of a deletion (UserStore.Delete).
THEOREM NobodyWaited == Spec => []NobodyIsWaitedFor
<1>1. SalesInv => NobodyIsWaitedFor
  BY DEF SalesInv
<1>2. QED
  BY <1>1, SalesInvariant, PTL
-----------------------------------------------------------------------------
(* The closing time                                                        *)

\* An outcome that was not overtaken, and closes a closed lead, carries the
\* lead's own closing time.
Timed(x) ==
    x.pc = "outcome" /\ ~x.late /\ x.stage \in Closed /\ lead.stage \in Closed
        => x.closedAt = lead.closedAt

\* Every request in flight is timed.
AllTimed == \A q \in Requests : Timed(request[q])

\* A write of the lead leaves no outcome that was not overtaken.
LEMMA OvertakenTimed ==
    ASSUME SalesInv, NEW S \in SUBSET Requests,
           request' = [q \in Requests |->
               IF q \in S THEN Idle
               ELSE [request[q] EXCEPT !.late = @ \/ request[q].pc = "outcome"]]
    PROVE  AllTimed'
<1> SUFFICES ASSUME NEW q \in Requests PROVE Timed(request[q])'
  BY DEF AllTimed
<1>1. CASE q \in S
  <2>1. request'[q] = Idle
    BY <1>1
  <2>2. QED
    BY <2>1 DEF Timed, Idle
<1>2. CASE q \notin S
  <2>1. request[q] \in RequestRows
    BY DEF SalesInv, TypeOK
  <2>2. request'[q] = [request[q] EXCEPT !.late = request[q].late \/ request[q].pc = "outcome"]
    BY <1>2
  <2>3. /\ request'[q].pc = request[q].pc
        /\ request'[q].late = (request[q].late \/ request[q].pc = "outcome")
    BY <2>1, <2>2 DEF RequestRows
  <2>4. QED
    BY <2>3 DEF Timed
<1>3. QED
  BY <1>1, <1>2

\* A step that leaves stage and closing time alone, and sends no outcome.
LEMMA KeptTimed ==
    ASSUME AllTimed, lead'.stage = lead.stage, lead'.closedAt = lead.closedAt,
           \A q \in Requests : request'[q] = request[q] \/ request'[q].pc # "outcome"
    PROVE  AllTimed'
BY DEF AllTimed, Timed

\* What a step may do to the stage and the closing time.
LEMMA ClosingStep ==
    ASSUME SalesInv, AllTimed, [Next]_vars
    PROVE  /\ AllTimed'
           /\ lead.stage \in Closed /\ lead'.stage \in Closed /\ "outcome" \notin raced'
                 => lead'.closedAt = lead.closedAt
<1> DEFINE Kept == lead.stage \in Closed /\ lead'.stage \in Closed /\ "outcome" \notin raced'
                      => lead'.closedAt = lead.closedAt
           Quiet == /\ lead'.stage = lead.stage /\ lead'.closedAt = lead.closedAt
                    /\ \A q \in Requests : request'[q] = request[q] \/ request'[q].pc # "outcome"
<1>0. lead \in LeadRows /\ request \in [Requests -> RequestRows]
  BY DEF SalesInv, TypeOK
<1>1. ASSUME Quiet PROVE AllTimed' /\ Kept
  BY <1>1, KeptTimed
<1>2. ASSUME NEW r \in Requests, NEW stage, NEW revenue, UpdateSalesOutcome(r, stage, revenue)
      PROVE  AllTimed' /\ Kept
  <2> DEFINE x == [Idle EXCEPT !.pc = "outcome", !.stage = stage, !.revenue = revenue,
                               !.closedAt = ClosingTime(stage)]
  <2>1. request' = [request EXCEPT ![r] = x] /\ UNCHANGED lead
    BY <1>2 DEF UpdateSalesOutcome
  <2>2. x.stage = stage /\ x.closedAt = ClosingTime(stage)
    BY DEF Idle
  <2> HIDE DEF x
  <2>3. Timed(x)
    BY <2>2 DEF Timed, ClosingTime, SalesInv, ClosedHasTime
  <2>4. \A q \in Requests : request'[q] = IF q = r THEN x ELSE request[q]
    BY <1>0, <2>1
  <2>5. QED
    BY <2>1, <2>3, <2>4 DEF AllTimed, Timed
<1>3. ASSUME NEW r \in Requests, OutcomeCommit(r) PROVE AllTimed' /\ Kept
  <2>1. AllTimed'
    <3>1. request' = [p \in Requests |->
               IF p \in {r} THEN Idle
               ELSE [request[p] EXCEPT !.late = @ \/ request[p].pc = "outcome"]]
      BY <1>3 DEF OutcomeCommit, Overtaken
    <3>2. QED
      BY <3>1, OvertakenTimed
  <2>2. /\ request[r].pc = "outcome" /\ Timed(request[r])
        /\ request[r].late => "outcome" \in raced'
    BY <1>3 DEF OutcomeCommit, AllTimed
  <2>3. CASE request[r].stage = KeepStage
    <3>1. lead'.closedAt = lead.closedAt
      BY <1>0, <1>3, <2>3 DEF OutcomeCommit, LeadRows
    <3>2. QED
      BY <2>1, <3>1
  <2>4. CASE request[r].stage # KeepStage
    <3>1. lead'.stage = request[r].stage /\ lead'.closedAt = request[r].closedAt
      BY <1>0, <1>3, <2>4 DEF OutcomeCommit, LeadRows
    <3>2. QED
      BY <2>1, <2>2, <3>1 DEF Timed
  <2>5. QED
    BY <2>3, <2>4
<1>4. ASSUME NEW r \in Requests, AssignMemberCommit(r) \/ AssignTeamLeadCommit(r)
      PROVE  AllTimed' /\ Kept
  <2>1. request' = [p \in Requests |->
               IF p \in {r} THEN Idle
               ELSE [request[p] EXCEPT !.late = @ \/ request[p].pc = "outcome"]]
    BY <1>4 DEF AssignMemberCommit, AssignTeamLeadCommit, Overtaken
  <2>2. lead'.closedAt = lead.closedAt
    BY <1>0, <1>4 DEF AssignMemberCommit, AssignTeamLeadCommit, LeadRows
  <2>3. QED
    BY <2>1, <2>2, OvertakenTimed
<1>5. ASSUME NEW x \in Execs, DeleteAssigned(x) PROVE AllTimed' /\ Kept
  <2> DEFINE none == {q \in Requests : FALSE}
  <2>1. request' = [p \in Requests |->
               IF p \in none THEN Idle
               ELSE [request[p] EXCEPT !.late = @ \/ request[p].pc = "outcome"]]
        /\ none \in SUBSET Requests
    BY <1>5 DEF DeleteAssigned
  <2> HIDE DEF none
  <2>2. lead'.closedAt = lead.closedAt
    BY <1>0, <1>5 DEF DeleteAssigned, Unassigned, LeadRows
  <2>3. QED
    BY <2>1, <2>2, OvertakenTimed
<1>6. ASSUME NEW r \in Requests, NEW x, x.pc # "outcome", UNCHANGED lead,
             request' = [request EXCEPT ![r] = x]
      PROVE  AllTimed' /\ Kept
  BY <1>0, <1>1, <1>6
<1>7. ASSUME NEW r \in Requests,
             \/ \E x \in Execs :
                   \/ AssignMember(r, x)
                   \/ \E newRole \in Roles, t \in Teams \cup {Null} :
                         UpdateUser(r, x, newRole, t)
             \/ \E t \in Teams \cup {Null} : AssignTeamLead(r, t)
             \/ UpdateUserCommit(r) \/ Fails(r)
      PROVE  AllTimed' /\ Kept
  <2>1. /\ Idle.pc # "outcome"
        /\ \A e, t : [Idle EXCEPT !.pc = "member", !.exec = e, !.team = t].pc = "member"
        /\ \A t : [Idle EXCEPT !.pc = "team-lead", !.team = t].pc = "team-lead"
    BY DEF Idle
  <2> HIDE DEF Kept
  <2>2. ASSUME NEW x \in Execs, AssignMember(r, x) PROVE AllTimed' /\ Kept
    BY <1>6, <2>1, <2>2 DEF AssignMember
  <2>3. ASSUME NEW x \in Execs, NEW newRole, NEW t, UpdateUser(r, x, newRole, t)
        PROVE  AllTimed' /\ Kept
    <3> DEFINE joins == newRole = Executive /\ role[x] # Executive
               row == [Idle EXCEPT !.pc = "user", !.exec = x, !.role = newRole,
                                   !.joins = joins, !.team = IF joins THEN t ELSE team[x]]
    <3>1. request' = [request EXCEPT ![r] = row] /\ UNCHANGED lead
      BY <2>3 DEF UpdateUser
    <3>2. row.pc = "user"
      BY DEF Idle
    <3> HIDE DEF row
    <3>3. QED
      BY <1>6, <3>1, <3>2
  <2>4. ASSUME NEW t \in Teams \cup {Null}, AssignTeamLead(r, t) PROVE AllTimed' /\ Kept
    BY <1>6, <2>1, <2>4 DEF AssignTeamLead
  <2>5. CASE UpdateUserCommit(r) \/ Fails(r)
    BY <1>6, <2>1, <2>5 DEF UpdateUserCommit, Fails
  <2>6. QED
    BY <1>7, <2>2, <2>3, <2>4, <2>5
<1>8. ASSUME NEW x \in Execs,
             \/ \E t \in Teams : TransferSalesExec(x, t)
             \/ DeleteScan(x) \/ DeleteUser(x) \/ DeleteFails(x)
      PROVE  AllTimed' /\ Kept
  <2>1. UNCHANGED request
    BY <1>8 DEF TransferSalesExec, DeleteScan, DeleteUser, DeleteFails
  <2>2. \/ lead' = lead \/ lead' = [lead EXCEPT !.exec = Null]
        \/ \E t \in Teams : lead' = [lead EXCEPT !.team = t]
    BY <1>8 DEF TransferSalesExec, DeleteScan, DeleteUser, DeleteFails
  <2>3. lead'.stage = lead.stage /\ lead'.closedAt = lead.closedAt
    BY <1>0, <2>2 DEF LeadRows
  <2>4. QED
    BY <1>1, <2>1, <2>3
<1>9. ASSUME Tick \/ UNCHANGED vars PROVE AllTimed' /\ Kept
  BY <1>1, <1>9 DEF Tick, vars
<1> HIDE DEF Kept
<1>10. AllTimed' /\ Kept
  <2>1. ASSUME NEW r \in Requests,
               \/ \E stage \in Outcomes \cup {KeepStage},
                     revenue \in Revenues \cup {KeepRevenue} :
                     UpdateSalesOutcome(r, stage, revenue)
               \/ OutcomeCommit(r)
               \/ AssignMemberCommit(r) \/ AssignTeamLeadCommit(r)
        PROVE  AllTimed' /\ Kept
    BY <1>2, <1>3, <1>4, <2>1
  <2>2. CASE \E r \in Requests :
               \/ \E stage \in Outcomes \cup {KeepStage},
                     revenue \in Revenues \cup {KeepRevenue} :
                     UpdateSalesOutcome(r, stage, revenue)
               \/ OutcomeCommit(r)
               \/ \E x \in Execs :
                     \/ AssignMember(r, x)
                     \/ \E newRole \in Roles, t \in Teams \cup {Null} :
                           UpdateUser(r, x, newRole, t)
               \/ \E t \in Teams \cup {Null} : AssignTeamLead(r, t)
               \/ AssignMemberCommit(r) \/ AssignTeamLeadCommit(r)
               \/ UpdateUserCommit(r) \/ Fails(r)
    BY <1>7, <2>1, <2>2
  <2>3. CASE \E x \in Execs :
               \/ \E t \in Teams : TransferSalesExec(x, t)
               \/ DeleteAssigned(x) \/ DeleteScan(x) \/ DeleteUser(x) \/ DeleteFails(x)
    BY <1>5, <1>8, <2>3
  <2>4. QED
    BY <1>9, <2>2, <2>3 DEF Next
<1>11. QED
  BY <1>10 DEF Kept

\* Reporting the outcome of a closed lead again does not move its closing
\* time, unless the write rested on a row that had changed since it was read
\* (UpdateSalesOutcome keeps the closedAt it reads).
THEOREM ClosingTimeKept == Spec => ClosingTimeIsKept
<1>1. Init => AllTimed
  BY DEF Init, AllTimed, Timed, Idle
<1>2. SalesInv /\ AllTimed /\ [Next]_vars => AllTimed'
  BY ClosingStep
<1>3. SalesInv /\ AllTimed /\ [Next]_vars =>
         [lead.stage \in Closed /\ lead'.stage \in Closed /\ "outcome" \notin raced'
             => lead'.closedAt = lead.closedAt]_vars
  BY ClosingStep
<1>4. QED
  BY <1>1, <1>2, <1>3, SalesInvariant, PTL DEF Spec, ClosingTimeIsKept

=============================================================================
