----------------------------- MODULE UserAdmin ------------------------------
(***************************************************************************)
(* Who administers whom: creating users, changing their role, activating,  *)
(* deactivating and deleting them.  A handler takes its actor's role at    *)
(* requireAuth and its target's role from a read, counts the superadmins   *)
(* if one is to go, and writes later; none of it is locked.                *)
(***************************************************************************)
EXTENDS Naturals, FiniteSets

CONSTANTS
    People,       \* ids; every one is used for one account at most
    Roles,        \* the roles accounts are given, SUPERADMIN among them
    Requests

Superadmin == "SUPERADMIN"

AllRoles == {Superadmin, "ANALYST_TEAM_LEAD", "LEAD_ANALYST", "MAIN_TEAM_LEAD",
             "SALES_EXECUTIVE"}

ASSUME AdminAssumption ==
    /\ IsFiniteSet(People) /\ People # {}
    /\ Superadmin \in Roles /\ Roles \subseteq AllRoles

VARIABLES
    user,         \* user[u]: the row, as far as administration uses it
    request,      \* request[r]: a handler's local variables
    raced         \* history: a superadmin was removed on an overtaken read

vars == <<user, request, raced>>

Row(status, role) == [status |-> status, role |-> role, active |-> TRUE]

\* role: what the request asks for; seen: the target's role as last read.
Idle == [pc |-> "idle", op |-> "none", by |-> Superadmin, target |-> "nobody",
         role |-> Superadmin, seen |-> Superadmin, late |-> FALSE]

Live(u) == user[u].status = "live"
Superadmins == {u \in People : Live(u) /\ user[u].role = Superadmin}

\* A database with one superadmin.
Init ==
    /\ \E first \in People :
          user = [u \in People |->
                     Row(IF u = first THEN "live" ELSE "unused", Superadmin)]
    /\ request = [r \in Requests |-> Idle]
    /\ raced = FALSE

-----------------------------------------------------------------------------
(* roles.go                                                                *)

creatableRoles(role) ==
    CASE role = Superadmin           -> AllRoles
      [] role = "ANALYST_TEAM_LEAD"  -> {"LEAD_ANALYST", "MAIN_TEAM_LEAD", "SALES_EXECUTIVE"}
      [] role = "MAIN_TEAM_LEAD"     -> {"SALES_EXECUTIVE"}
      [] OTHER                       -> {}

canManageUsers(role) == role \in {Superadmin, "ANALYST_TEAM_LEAD", "MAIN_TEAM_LEAD"}

\* Mutant of canActOnUser: whoever manages users manages all of them.
canActOnAnyUser(by, target) == canManageUsers(by)

\* actorMayManageTarget without its check of a main team lead's team.
canActOnUser(by, target) == by = Superadmin \/ target \in creatableRoles(by)

-----------------------------------------------------------------------------
(* The handlers up to their writes                                         *)

\* requireAuth admits an active account, and handleUserByID one that manages
\* users.  Nobody deletes or deactivates their own account; everybody may
\* change their own role.
Begin(r, actor, op, target, role) ==
    /\ request[r].pc = "idle"
    /\ Live(actor) /\ user[actor].active
    /\ canManageUsers(user[actor].role)
    /\ op \in {"delete", "deactivate"} => target # actor
    /\ op # "update" => role = Superadmin
    /\ request' = [request EXCEPT ![r] =
          [Idle EXCEPT !.pc = "load", !.op = op, !.by = user[actor].role,
                       !.target = target, !.role = role]]
    /\ UNCHANGED <<user, raced>>

\* A request ends without a write: refused, not found, or failed.
Refuse(r) ==
    /\ request[r].pc # "idle"
    /\ request' = [request EXCEPT ![r] = Idle]
    /\ UNCHANGED <<user, raced>>

\* Takes a superadmin away, going by the role that was read.
Removes(q) ==
    /\ q.seen = Superadmin
    /\ \/ q.op \in {"delete", "deactivate"}
       \/ q.op = "update" /\ q.role # Superadmin

\* The handler's FindByID with the checks of actor and role.  A main team
\* lead gives no role but SALES_EXECUTIVE.
Load(r) ==
    LET q    == request[r]
        role == IF q.op = "update" /\ q.by = "MAIN_TEAM_LEAD"
                THEN "SALES_EXECUTIVE" ELSE q.role
        p    == [q EXCEPT !.seen = user[q.target].role, !.late = FALSE, !.role = role]
    IN
    /\ q.pc = "load"
    /\ Live(q.target)
    /\ canActOnUser(q.by, user[q.target].role)
    /\ q.op = "update" => role \in Roles /\ role \in creatableRoles(q.by)
    /\ request' = [request EXCEPT ![r] =
          [p EXCEPT !.pc = IF q.op # "update" THEN "reload"
                           ELSE IF Removes(p) THEN "count" ELSE "write"]]
    /\ UNCHANGED <<user, raced>>

\* Delete and SetActive read the row once more; an account that is as it
\* should be is left alone.
Reload(r) ==
    LET q == request[r]
        p == [q EXCEPT !.seen = user[q.target].role]
    IN
    /\ q.pc = "reload"
    /\ Live(q.target)
    /\ q.op # "delete" => user[q.target].active = (q.op = "deactivate")
    /\ request' = [request EXCEPT ![r] =
          [p EXCEPT !.pc = IF Removes(p) THEN "count" ELSE "write"]]
    /\ UNCHANGED <<user, raced>>

\* Mutant of Count: one superadmin is enough.
CountOne(r) ==
    /\ request[r].pc = "count"
    /\ Cardinality(Superadmins) >= 1
    /\ request' = [request EXCEPT ![r].pc = "write"]
    /\ UNCHANGED <<user, raced>>

\* CountByRole for a deletion or another role, inactive accounts included;
\* CountActiveByRole for a deactivation.
Count(r) ==
    LET counted == IF request[r].op = "deactivate"
                   THEN {u \in Superadmins : user[u].active} ELSE Superadmins
    IN
    /\ request[r].pc = "count"
    /\ Cardinality(counted) > 1
    /\ request' = [request EXCEPT ![r].pc = "write"]
    /\ UNCHANGED <<user, raced>>

-----------------------------------------------------------------------------
(* The writes                                                              *)

\* r has written: every other request that has read its target or counted
\* is late if that changed who is superadmin.
Written(r) ==
    LET changed == Superadmins # Superadmins' IN
    /\ request' = [q \in Requests |->
          IF q = r THEN Idle
          ELSE [request[q] EXCEPT
                  !.late = @ \/ (changed /\ request[q].pc \notin {"idle", "load"})]]
    /\ raced' = (raced \/ (request[r].late /\ ~(Superadmins \subseteq Superadmins')))

\* UserStore.Update: the UPDATE by id, which finds nothing if the row is gone.
Update(r) ==
    /\ request[r].pc = "write" /\ request[r].op = "update"
    /\ Live(request[r].target)
    /\ user' = [user EXCEPT ![request[r].target].role = request[r].role]
    /\ Written(r)

SetActive(r) ==
    /\ request[r].pc = "write" /\ request[r].op \in {"activate", "deactivate"}
    /\ Live(request[r].target)
    /\ user' = [user EXCEPT ![request[r].target].active = (request[r].op = "activate")]
    /\ Written(r)

\* The transaction of UserStore.Delete as far as the row goes.
Delete(r) ==
    /\ request[r].pc = "write" /\ request[r].op = "delete"
    /\ Live(request[r].target)
    /\ user' = [user EXCEPT ![request[r].target].status = "deleted"]
    /\ Written(r)

\* createUser: the checks rest on the actor's role alone, and the INSERT is
\* of a row nobody has read.
Create(r, actor, target, role) ==
    /\ request[r].pc = "idle"
    /\ Live(actor) /\ user[actor].active
    /\ role \in creatableRoles(user[actor].role)
    /\ request' = [request EXCEPT ![r] =
          [Idle EXCEPT !.pc = "insert", !.op = "create", !.by = user[actor].role,
                       !.target = target, !.role = role]]
    /\ UNCHANGED <<user, raced>>

Insert(r) ==
    /\ request[r].pc = "insert"
    /\ user[request[r].target].status = "unused"
    /\ user' = [user EXCEPT ![request[r].target] = Row("live", request[r].role)]
    /\ Written(r)

-----------------------------------------------------------------------------
Ops == {"update", "delete", "activate", "deactivate"}

Next ==
    \E r \in Requests :
        \/ \E actor, target \in People, role \in Roles :
              \/ Create(r, actor, target, role)
              \/ \E op \in Ops : Begin(r, actor, op, target, role)
        \/ Load(r) \/ Reload(r) \/ Count(r) \/ Refuse(r)
        \/ Update(r) \/ SetActive(r) \/ Delete(r) \/ Insert(r)

Spec == Init /\ [][Next]_vars

-----------------------------------------------------------------------------
(* Properties                                                              *)

\* Every variable keeps its shape.
TypeOK ==
    /\ user \in [People -> [status : {"unused", "live", "deleted"}, role : Roles,
                            active : BOOLEAN]]
    /\ request \in [Requests ->
          [pc : {"idle", "load", "reload", "count", "write", "insert"},
           op : Ops \cup {"none", "create"}, by : Roles,
           target : People \cup {"nobody"}, role : Roles, seen : Roles,
           late : BOOLEAN]]
    /\ raced \in BOOLEAN

\* A superadmin remains, whatever is deleted, demoted and deactivated, as
\* long as no superadmin was removed by a request that had been overtaken by
\* another change of who is superadmin (CountByRole in Delete and updateUser).
SuperadminRemains == ~raced => Superadmins # {}

\* A superadmin is demoted, deactivated or deleted only for a superadmin,
\* unless the target became one after the request had read it: the role an
\* actor had at requireAuth reaches as far as the roles below it.
SuperadminsAnswerToSuperadmins ==
    [][\A u \in Superadmins :
          user'[u] # user[u] /\ ~(user'[u].active /\ ~user[u].active) =>
              \E r \in Requests :
                 /\ request[r].pc = "write" /\ request'[r].pc = "idle"
                 /\ request[r].target = u
                 /\ request[r].by = Superadmin \/ request[r].late]_vars

=============================================================================
