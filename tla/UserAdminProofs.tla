-------------------------- MODULE UserAdminProofs ---------------------------
(* Superadmins, for any number of people, requests and any roles.          *)
EXTENDS UserAdmin, TLAPS, FiniteSetTheorems

Reading == {"reload", "count", "write"}

\* A request that has been sent names an account.
TargetsExist ==
    \A r \in Requests : request[r].pc # "idle" =>
        request[r].target \in People /\ request[r].op # "none"

\* A request that was not overtaken still knows whether its target is a
\* superadmin, ...
SeenIsCurrent ==
    \A r \in Requests : request[r].pc \in {"count", "write"} /\ ~request[r].late =>
        (request[r].seen = Superadmin <=> request[r].target \in Superadmins)

\* ... has counted another one if it removes one, ...
AnotherIsLeft ==
    \A r \in Requests : request[r].pc = "write" /\ ~request[r].late /\ Removes(request[r]) =>
        \E v \in Superadmins : v # request[r].target

\* ... and acts for a superadmin if its target is one.
ActorMay ==
    \A r \in Requests : request[r].pc \in Reading /\ ~request[r].late =>
        (request[r].target \in Superadmins => request[r].by = Superadmin)

AdminInv ==
    /\ TypeOK
    /\ TargetsExist
    /\ SeenIsCurrent
    /\ AnotherIsLeft
    /\ ActorMay
    /\ SuperadminRemains

-----------------------------------------------------------------------------
\* The superadmins are finitely many.
LEMMA SuperadminsFinite == IsFiniteSet(Superadmins)
BY FS_Subset, AdminAssumption DEF Superadmins

\* Of more than one there is another one (the checks n <= 1).
LEMMA MoreThanOne ==
    ASSUME NEW S, IsFiniteSet(S), Cardinality(S) > 1, NEW t
    PROVE  \E v \in S : v # t
<1>1. SUFFICES ASSUME S \subseteq {t} PROVE FALSE
  OBVIOUS
<1>2. IsFiniteSet({t}) /\ Cardinality({t}) = 1
  BY FS_Singleton
<1>3. Cardinality(S) <= 1
  BY <1>1, <1>2, FS_Subset
<1>4. Cardinality(S) \in Nat
  BY FS_CardinalityType
<1> QED
  BY <1>3, <1>4

\* Nobody but a superadmin may act on a superadmin (canActOnUser).
LEMMA OnlySuperadmins ==
    ASSUME NEW by, canActOnUser(by, Superadmin)
    PROVE  by = Superadmin
BY DEF canActOnUser, creatableRoles, Superadmin

\* A request that is not in use is well formed.
LEMMA IdleShape ==
    /\ Idle.pc = "idle" /\ Idle.op = "none" /\ Idle.late = FALSE
    /\ Idle \in [pc : {"idle", "load", "reload", "count", "write", "insert"},
                 op : Ops \cup {"none", "create"}, by : Roles,
                 target : People \cup {"nobody"}, role : Roles, seen : Roles,
                 late : BOOLEAN]
BY AdminAssumption DEF Idle

\* The database with its one superadmin satisfies the invariant.
LEMMA InitInv == Init => AdminInv
<1> SUFFICES ASSUME Init PROVE AdminInv
  OBVIOUS
<1> USE IdleShape
<1>1. PICK first \in People :
         user = [u \in People |-> Row(IF u = first THEN "live" ELSE "unused", Superadmin)]
  BY DEF Init
<1>2. request = [r \in Requests |-> Idle] /\ raced = FALSE
  BY DEF Init
<1>3. \A r \in Requests : request[r].pc = "idle"
  BY <1>2
<1>4. TypeOK
  BY <1>1, <1>2, AdminAssumption DEF TypeOK, Row
<1>5. first \in Superadmins
  BY <1>1 DEF Superadmins, Live, Row
<1> QED
  BY <1>3, <1>4, <1>5
     DEF AdminInv, TargetsExist, SeenIsCurrent, AnotherIsLeft, ActorMay,
         SuperadminRemains, Reading

-----------------------------------------------------------------------------
(* Steps that leave the rows alone                                         *)

\* A step that changes one request and no row keeps what is known of the
\* others.
LEMMA RequestStep ==
    ASSUME AdminInv, UNCHANGED <<user, raced>>, NEW r \in Requests,
           NEW p \in [pc : {"idle", "load", "reload", "count", "write", "insert"},
                      op : Ops \cup {"none", "create"}, by : Roles,
                      target : People \cup {"nobody"}, role : Roles, seen : Roles,
                      late : BOOLEAN],
           request' = [request EXCEPT ![r] = p],
           p.pc # "idle" => p.target \in People /\ p.op # "none",
           p.pc \in {"count", "write"} /\ ~p.late =>
               (p.seen = Superadmin <=> p.target \in Superadmins),
           p.pc = "write" /\ ~p.late /\ Removes(p) =>
               \E v \in Superadmins : v # p.target,
           p.pc \in Reading /\ ~p.late =>
               (p.target \in Superadmins => p.by = Superadmin)
    PROVE  AdminInv'
<1>1. Superadmins' = Superadmins
  BY DEF Superadmins, Live
<1>2. TypeOK'
  BY DEF AdminInv, TypeOK
<1>3. request'[r] = p /\ \A q \in Requests : q # r => request'[q] = request[q]
  BY DEF AdminInv, TypeOK
<1>4. TargetsExist'
  BY <1>3 DEF AdminInv, TargetsExist
<1>5. SeenIsCurrent'
  BY <1>1, <1>3 DEF AdminInv, SeenIsCurrent
<1>6. AnotherIsLeft'
  BY <1>1, <1>3 DEF AdminInv, AnotherIsLeft, Removes
<1>7. ActorMay'
  BY <1>1, <1>3 DEF AdminInv, ActorMay
<1>8. SuperadminRemains'
  BY <1>1 DEF AdminInv, SuperadminRemains
<1> QED
  BY <1>2, <1>4, <1>5, <1>6, <1>7, <1>8 DEF AdminInv

\* A new request has read nothing but its actor's role (requireAuth).
LEMMA BeginKeeps ==
    ASSUME AdminInv, NEW r \in Requests, NEW actor \in People, NEW target \in People,
           NEW role \in Roles, NEW op \in Ops, Begin(r, actor, op, target, role)
    PROVE  AdminInv'
<1> DEFINE p == [Idle EXCEPT !.pc = "load", !.op = op, !.by = user[actor].role,
                             !.target = target, !.role = role]
<1>1. request' = [request EXCEPT ![r] = p] /\ UNCHANGED <<user, raced>>
  BY DEF Begin
<1>2. user[actor].role \in Roles
  BY DEF AdminInv, TypeOK
<1>3. p \in [pc : {"idle", "load", "reload", "count", "write", "insert"},
             op : Ops \cup {"none", "create"}, by : Roles,
             target : People \cup {"nobody"}, role : Roles, seen : Roles,
             late : BOOLEAN]
  BY <1>2, IdleShape, AdminAssumption DEF Idle
<1>4. p.pc = "load" /\ p.target = target /\ p.op = op /\ op # "none"
  BY DEF Idle, Ops
<1> HIDE DEF p
<1> QED
  BY <1>1, <1>3, <1>4, RequestStep DEF Reading

\* createUser reads no row but its actor's.
LEMMA CreateKeeps ==
    ASSUME AdminInv, NEW r \in Requests, NEW actor \in People, NEW target \in People,
           NEW role \in Roles, Create(r, actor, target, role)
    PROVE  AdminInv'
<1> DEFINE p == [Idle EXCEPT !.pc = "insert", !.op = "create", !.by = user[actor].role,
                             !.target = target, !.role = role]
<1>1. request' = [request EXCEPT ![r] = p] /\ UNCHANGED <<user, raced>>
  BY DEF Create
<1>2. user[actor].role \in Roles
  BY DEF AdminInv, TypeOK
<1>3. p \in [pc : {"idle", "load", "reload", "count", "write", "insert"},
             op : Ops \cup {"none", "create"}, by : Roles,
             target : People \cup {"nobody"}, role : Roles, seen : Roles,
             late : BOOLEAN]
  BY <1>2, IdleShape, AdminAssumption DEF Idle
<1>4. p.pc = "insert" /\ p.target = target /\ p.op = "create"
  BY DEF Idle
<1> HIDE DEF p
<1> QED
  BY <1>1, <1>3, <1>4, RequestStep DEF Reading

\* A refused or failed request leaves nothing behind.
LEMMA RefuseKeeps ==
    ASSUME AdminInv, NEW r \in Requests, Refuse(r)
    PROVE  AdminInv'
<1>1. request' = [request EXCEPT ![r] = Idle] /\ UNCHANGED <<user, raced>>
  BY DEF Refuse
<1> QED
  BY <1>1, IdleShape, RequestStep DEF Reading

\* The handler's FindByID gives it the target's role, and the check of the
\* actor (actorMayManageTarget) holds for that role.
LEMMA LoadKeeps ==
    ASSUME AdminInv, NEW r \in Requests, Load(r)
    PROVE  AdminInv'
<1> DEFINE q == request[r]
           role == IF q.op = "update" /\ q.by = "MAIN_TEAM_LEAD"
                   THEN "SALES_EXECUTIVE" ELSE q.role
           p == [q EXCEPT !.seen = user[q.target].role, !.late = FALSE, !.role = role]
           next == IF q.op # "update" THEN "reload"
                   ELSE IF Removes(p) THEN "count" ELSE "write"
           n == [p EXCEPT !.pc = next]
<1>1. /\ q.pc = "load" /\ Live(q.target)
      /\ canActOnUser(q.by, user[q.target].role)
      /\ q.op = "update" => role \in Roles /\ role \in creatableRoles(q.by)
      /\ request' = [request EXCEPT ![r] = n]
      /\ UNCHANGED <<user, raced>>
  BY DEF Load
<1>2. q.target \in People /\ q.op # "none"
  BY <1>1 DEF AdminInv, TargetsExist
<1>3. q \in [pc : {"idle", "load", "reload", "count", "write", "insert"},
             op : Ops \cup {"none", "create"}, by : Roles,
             target : People \cup {"nobody"}, role : Roles, seen : Roles,
             late : BOOLEAN]
  BY DEF AdminInv, TypeOK
<1>4. user[q.target].role \in Roles
  BY <1>2 DEF AdminInv, TypeOK
<1>5. role \in Roles
  BY <1>1, <1>3
<1>6. next \in {"reload", "count", "write"}
  BY DEF p
<1>7. next = "write" => ~Removes(p)
  <2> HIDE DEF p
  <2> QED
    OBVIOUS
<1> HIDE DEF next, role, q
<1>8. p \in [pc : {"idle", "load", "reload", "count", "write", "insert"},
             op : Ops \cup {"none", "create"}, by : Roles,
             target : People \cup {"nobody"}, role : Roles, seen : Roles,
             late : BOOLEAN]
  BY <1>3, <1>4, <1>5
<1>9. /\ p.target = q.target /\ p.op = q.op /\ p.by = q.by
      /\ p.seen = user[q.target].role /\ p.late = FALSE
  BY <1>3
<1> HIDE DEF p
<1>10. n \in [pc : {"idle", "load", "reload", "count", "write", "insert"},
              op : Ops \cup {"none", "create"}, by : Roles,
              target : People \cup {"nobody"}, role : Roles, seen : Roles,
              late : BOOLEAN]
  BY <1>6, <1>8
<1>11. /\ n.pc = next /\ n.target = q.target /\ n.op = q.op /\ n.by = q.by
       /\ n.seen = user[q.target].role
  BY <1>8, <1>9
<1>12. n.pc = "write" => ~Removes(n)
  BY <1>7, <1>8, <1>11 DEF Removes
<1>13. n.seen = Superadmin <=> n.target \in Superadmins
  BY <1>1, <1>2, <1>11 DEF Superadmins
<1>14. n.target \in Superadmins => n.by = Superadmin
  BY <1>1, <1>11, <1>13, OnlySuperadmins
<1> HIDE DEF n
<1> QED
  BY <1>1, <1>2, <1>6, <1>10, <1>11, <1>12, <1>13, <1>14, RequestStep

\* The second FindByID, of Delete and SetActive: a target that has become a
\* superadmin since the first has made the request late.
LEMMA ReloadKeeps ==
    ASSUME AdminInv, NEW r \in Requests, Reload(r)
    PROVE  AdminInv'
<1> DEFINE q == request[r]
           p == [q EXCEPT !.seen = user[q.target].role]
           next == IF Removes(p) THEN "count" ELSE "write"
           n == [p EXCEPT !.pc = next]
<1>1. /\ q.pc = "reload" /\ Live(q.target)
      /\ request' = [request EXCEPT ![r] = n]
      /\ UNCHANGED <<user, raced>>
  BY DEF Reload
<1>2. q.target \in People /\ q.op # "none"
  BY <1>1 DEF AdminInv, TargetsExist
<1>3. q \in [pc : {"idle", "load", "reload", "count", "write", "insert"},
             op : Ops \cup {"none", "create"}, by : Roles,
             target : People \cup {"nobody"}, role : Roles, seen : Roles,
             late : BOOLEAN]
  BY DEF AdminInv, TypeOK
<1>4. user[q.target].role \in Roles
  BY <1>2 DEF AdminInv, TypeOK
<1>5. next \in {"count", "write"} /\ (next = "write" => ~Removes(p))
  <2> HIDE DEF p
  <2> QED
    OBVIOUS
<1> HIDE DEF next, q
<1>6. p \in [pc : {"idle", "load", "reload", "count", "write", "insert"},
             op : Ops \cup {"none", "create"}, by : Roles,
             target : People \cup {"nobody"}, role : Roles, seen : Roles,
             late : BOOLEAN]
  BY <1>3, <1>4
<1>7. /\ p.target = q.target /\ p.op = q.op /\ p.by = q.by
      /\ p.seen = user[q.target].role /\ p.late = q.late
  BY <1>3
<1> HIDE DEF p
<1>8. n \in [pc : {"idle", "load", "reload", "count", "write", "insert"},
             op : Ops \cup {"none", "create"}, by : Roles,
             target : People \cup {"nobody"}, role : Roles, seen : Roles,
             late : BOOLEAN]
  BY <1>5, <1>6
<1>9. /\ n.pc = next /\ n.target = q.target /\ n.op = q.op /\ n.by = q.by
      /\ n.seen = user[q.target].role /\ n.late = q.late
  BY <1>6, <1>7
<1>10. n.pc = "write" => ~Removes(n)
  BY <1>5, <1>6, <1>9 DEF Removes
<1>11. n.seen = Superadmin <=> n.target \in Superadmins
  BY <1>1, <1>2, <1>9 DEF Superadmins
<1>12. ~n.late => (n.target \in Superadmins => n.by = Superadmin)
  BY <1>1, <1>9 DEF AdminInv, ActorMay, Reading, q
<1> HIDE DEF n
<1> QED
  BY <1>1, <1>2, <1>5, <1>8, <1>9, <1>10, <1>11, <1>12, RequestStep

\* CountByRole and CountActiveByRole find a superadmin who is not the target.
LEMMA CountKeeps ==
    ASSUME AdminInv, NEW r \in Requests, Count(r)
    PROVE  AdminInv'
<1> DEFINE q == request[r]
           counted == IF q.op = "deactivate"
                      THEN {u \in Superadmins : user[u].active} ELSE Superadmins
           n == [q EXCEPT !.pc = "write"]
<1>1. /\ q.pc = "count" /\ Cardinality(counted) > 1
      /\ request' = [request EXCEPT ![r].pc = "write"]
      /\ UNCHANGED <<user, raced>>
  BY DEF Count
<1>2. counted \subseteq Superadmins /\ IsFiniteSet(counted)
  BY SuperadminsFinite, FS_Subset
<1>3. \E v \in Superadmins : v # q.target
  <2>1. \E v \in counted : v # q.target
    <3> HIDE DEF counted
    <3> QED
      BY <1>1, <1>2, MoreThanOne
  <2> QED
    BY <1>2, <2>1
<1>4. q \in [pc : {"idle", "load", "reload", "count", "write", "insert"},
             op : Ops \cup {"none", "create"}, by : Roles,
             target : People \cup {"nobody"}, role : Roles, seen : Roles,
             late : BOOLEAN]
  BY DEF AdminInv, TypeOK
<1>5. request' = [request EXCEPT ![r] = n]
  BY <1>1
<1>6. n \in [pc : {"idle", "load", "reload", "count", "write", "insert"},
             op : Ops \cup {"none", "create"}, by : Roles,
             target : People \cup {"nobody"}, role : Roles, seen : Roles,
             late : BOOLEAN]
  BY <1>4
<1>7. /\ n.pc = "write" /\ n.target = q.target /\ n.op = q.op /\ n.by = q.by
      /\ n.seen = q.seen /\ n.late = q.late
  BY <1>4
<1>8. n.target \in People /\ n.op # "none"
  BY <1>1, <1>7 DEF AdminInv, TargetsExist
<1>9. ~n.late => (n.seen = Superadmin <=> n.target \in Superadmins)
  BY <1>1, <1>7 DEF AdminInv, SeenIsCurrent
<1>10. ~n.late => (n.target \in Superadmins => n.by = Superadmin)
  BY <1>1, <1>7 DEF AdminInv, ActorMay, Reading
<1> HIDE DEF n, counted
<1>11. UNCHANGED <<user, raced>>
  BY <1>1
<1>12. ~n.late /\ Removes(n) => \E v \in Superadmins : v # n.target
  BY <1>3, <1>7
<1> QED
  BY <1>5, <1>6, <1>7, <1>8, <1>9, <1>10, <1>11, <1>12, RequestStep

-----------------------------------------------------------------------------
(* Steps that write a row                                                  *)

\* A write keeps the invariant if, not overtaken, it leaves a superadmin:
\* requests that have read are late when the superadmins change.
LEMMA WriteStep ==
    ASSUME AdminInv, NEW r \in Requests, Written(r),
           user' \in [People -> [status : {"unused", "live", "deleted"}, role : Roles,
                                 active : BOOLEAN]],
           ~request[r].late /\ ~(Superadmins \subseteq Superadmins') => Superadmins' # {}
    PROVE  AdminInv'
<1> DEFINE changed == Superadmins # Superadmins'
           Overtaken(q) == [request[q] EXCEPT
                  !.late = @ \/ (changed /\ request[q].pc \notin {"idle", "load"})]
<1>1. /\ request' = [q \in Requests |-> IF q = r THEN Idle ELSE Overtaken(q)]
      /\ raced' = (raced \/ (request[r].late /\ ~(Superadmins \subseteq Superadmins')))
  BY DEF Written
<1>2. \A q \in Requests :
         request[q] \in [pc : {"idle", "load", "reload", "count", "write", "insert"},
                         op : Ops \cup {"none", "create"}, by : Roles,
                         target : People \cup {"nobody"}, role : Roles, seen : Roles,
                         late : BOOLEAN]
  BY DEF AdminInv, TypeOK
<1> HIDE DEF changed
<1>3. \A q \in Requests :
         /\ Overtaken(q) \in [pc : {"idle", "load", "reload", "count", "write", "insert"},
                              op : Ops \cup {"none", "create"}, by : Roles,
                              target : People \cup {"nobody"}, role : Roles, seen : Roles,
                              late : BOOLEAN]
         /\ Overtaken(q).pc = request[q].pc /\ Overtaken(q).op = request[q].op
         /\ Overtaken(q).by = request[q].by /\ Overtaken(q).target = request[q].target
         /\ Overtaken(q).role = request[q].role /\ Overtaken(q).seen = request[q].seen
         /\ Overtaken(q).late =
               (request[q].late \/ (changed /\ request[q].pc \notin {"idle", "load"}))
  BY <1>2
<1>4. TypeOK'
  BY <1>1, <1>3, IdleShape DEF AdminInv, TypeOK
<1> HIDE DEF Overtaken
<1>5. \A q \in Requests : request'[q].pc # "idle" =>
         /\ request'[q].pc = request[q].pc /\ request'[q].op = request[q].op
         /\ request'[q].by = request[q].by /\ request'[q].target = request[q].target
         /\ request'[q].role = request[q].role /\ request'[q].seen = request[q].seen
         /\ request'[q].late =
               (request[q].late \/ (changed /\ request[q].pc \notin {"idle", "load"}))
  BY <1>1, <1>3, IdleShape
<1>6. \A q \in Requests : request'[q].pc \in Reading /\ ~request'[q].late =>
         ~request[q].late /\ Superadmins' = Superadmins
  BY <1>5 DEF Reading, changed
<1>7. TargetsExist'
  BY <1>5 DEF AdminInv, TargetsExist
<1>8. SeenIsCurrent'
  BY <1>5, <1>6 DEF AdminInv, SeenIsCurrent, Reading
<1>9. AnotherIsLeft'
  BY <1>5, <1>6 DEF AdminInv, AnotherIsLeft, Removes, Reading
<1>10. ActorMay'
  BY <1>5, <1>6 DEF AdminInv, ActorMay, Reading
<1>11. SuperadminRemains'
  <2> SUFFICES ASSUME ~raced' PROVE Superadmins' # {}
    BY Zenon DEF SuperadminRemains
  <2>1. ~raced /\ (request[r].late => Superadmins \subseteq Superadmins')
    BY <1>1, Zenon
  <2>2. Superadmins # {}
    BY <2>1, Zenon DEF AdminInv, SuperadminRemains
  <2>3. CASE Superadmins \subseteq Superadmins'
    BY <2>2, <2>3
  <2>4. CASE ~(Superadmins \subseteq Superadmins')
    BY <2>1, <2>4, Zenon
  <2> QED
    BY <2>3, <2>4
<1> QED
  BY <1>4, <1>7, <1>8, <1>9, <1>10, <1>11 DEF AdminInv

\* What a request at its write knows: its target is there, and if it is a
\* superadmin that the request takes away unovertaken, another one is left.
LEMMA WriterKnows ==
    ASSUME AdminInv, NEW r \in Requests, request[r].pc = "write", ~request[r].late,
           request[r].target \in Superadmins,
           \/ request[r].op \in {"delete", "deactivate"}
           \/ request[r].op = "update" /\ request[r].role # Superadmin
    PROVE  \E v \in Superadmins : v # request[r].target
<1>1. request[r].seen = Superadmin
  BY DEF AdminInv, SeenIsCurrent
<1>2. Removes(request[r])
  BY <1>1 DEF Removes
<1> QED
  BY <1>2 DEF AdminInv, AnotherIsLeft

\* A changed role (UserStore.Update) leaves the superadmin that was counted.
LEMMA UpdateKeeps ==
    ASSUME AdminInv, NEW r \in Requests, Update(r)
    PROVE  AdminInv'
<1> DEFINE t == request[r].target
<1>1. /\ request[r].pc = "write" /\ request[r].op = "update" /\ Live(t)
      /\ user' = [user EXCEPT ![t].role = request[r].role]
      /\ Written(r)
  BY DEF Update
<1>2. t \in People /\ request[r].role \in Roles
  BY <1>1 DEF AdminInv, TargetsExist, TypeOK
<1>3. user' \in [People -> [status : {"unused", "live", "deleted"}, role : Roles,
                            active : BOOLEAN]]
  BY <1>1, <1>2 DEF AdminInv, TypeOK
<1>4. \A v \in People : v # t => user'[v] = user[v]
  BY <1>1, <1>2 DEF AdminInv, TypeOK
<1>5. user'[t].role = request[r].role /\ user'[t].status = user[t].status
  BY <1>1, <1>2 DEF AdminInv, TypeOK
<1>6. ~request[r].late /\ ~(Superadmins \subseteq Superadmins') => Superadmins' # {}
  <2> SUFFICES ASSUME ~request[r].late, ~(Superadmins \subseteq Superadmins')
               PROVE  Superadmins' # {}
    OBVIOUS
  <2>1. t \in Superadmins /\ request[r].role # Superadmin
    BY <1>2, <1>4, <1>5 DEF Superadmins, Live
  <2>2. PICK v \in Superadmins : v # t
    BY <1>1, <2>1, WriterKnows
  <2>3. v \in Superadmins'
    BY <1>4, <2>2 DEF Superadmins, Live
  <2> QED
    BY <2>3
<1> QED
  BY <1>1, <1>3, <1>6, WriteStep

\* SetActive changes nobody's role.
LEMMA SetActiveKeeps ==
    ASSUME AdminInv, NEW r \in Requests, SetActive(r)
    PROVE  AdminInv'
<1> DEFINE t == request[r].target
           on == request[r].op = "activate"
<1>1. /\ request[r].pc = "write" /\ Live(t)
      /\ user' = [user EXCEPT ![t].active = on]
      /\ Written(r)
  BY DEF SetActive
<1>0. on \in BOOLEAN
  OBVIOUS
<1> HIDE DEF on
<1>2. t \in People
  BY <1>1 DEF AdminInv, TargetsExist
<1>3. user' \in [People -> [status : {"unused", "live", "deleted"}, role : Roles,
                            active : BOOLEAN]]
  BY <1>0, <1>1, <1>2 DEF AdminInv, TypeOK
<1>4. \A v \in People : user'[v].status = user[v].status /\ user'[v].role = user[v].role
  BY <1>0, <1>1, <1>2 DEF AdminInv, TypeOK
<1>5. Superadmins' = Superadmins
  BY <1>4 DEF Superadmins, Live
<1> QED
  BY <1>1, <1>3, <1>5, WriteStep

\* A deletion (UserStore.Delete) leaves the superadmin that was counted.
LEMMA DeleteKeeps ==
    ASSUME AdminInv, NEW r \in Requests, Delete(r)
    PROVE  AdminInv'
<1> DEFINE t == request[r].target
<1>1. /\ request[r].pc = "write" /\ request[r].op = "delete" /\ Live(t)
      /\ user' = [user EXCEPT ![t].status = "deleted"]
      /\ Written(r)
  BY DEF Delete
<1>2. t \in People
  BY <1>1 DEF AdminInv, TargetsExist
<1>3. user' \in [People -> [status : {"unused", "live", "deleted"}, role : Roles,
                            active : BOOLEAN]]
  BY <1>1, <1>2 DEF AdminInv, TypeOK
<1>4. \A v \in People : v # t => user'[v] = user[v]
  BY <1>1, <1>2 DEF AdminInv, TypeOK
<1>5. ~request[r].late /\ ~(Superadmins \subseteq Superadmins') => Superadmins' # {}
  <2> SUFFICES ASSUME ~request[r].late, ~(Superadmins \subseteq Superadmins')
               PROVE  Superadmins' # {}
    OBVIOUS
  <2>1. t \in Superadmins
    BY <1>2, <1>4 DEF Superadmins, Live
  <2>2. PICK v \in Superadmins : v # t
    BY <1>1, <2>1, WriterKnows
  <2>3. v \in Superadmins'
    BY <1>4, <2>2 DEF Superadmins, Live
  <2> QED
    BY <2>3
<1> QED
  BY <1>1, <1>3, <1>5, WriteStep

\* The row that UserStore.Create inserts takes no superadmin away.
LEMMA InsertKeeps ==
    ASSUME AdminInv, NEW r \in Requests, Insert(r)
    PROVE  AdminInv'
<1> DEFINE t == request[r].target
<1>1. /\ request[r].pc = "insert" /\ user[t].status = "unused"
      /\ user' = [user EXCEPT ![t] = Row("live", request[r].role)]
      /\ Written(r)
  BY DEF Insert
<1>2. t \in People /\ request[r].role \in Roles
  BY <1>1 DEF AdminInv, TargetsExist, TypeOK
<1>3. user' \in [People -> [status : {"unused", "live", "deleted"}, role : Roles,
                            active : BOOLEAN]]
  BY <1>1, <1>2 DEF AdminInv, TypeOK, Row
<1>4. \A v \in People : v # t => user'[v] = user[v]
  BY <1>1, <1>2 DEF AdminInv, TypeOK
<1>5. Superadmins \subseteq Superadmins'
  BY <1>1, <1>4 DEF Superadmins, Live
<1> QED
  BY <1>1, <1>3, <1>5, WriteStep

\* Every step keeps the invariant.
LEMMA NextKeeps == AdminInv /\ [Next]_vars => AdminInv'
<1> SUFFICES ASSUME AdminInv, [Next]_vars PROVE AdminInv'
  OBVIOUS
<1>1. CASE Next
  <2>1. PICK r \in Requests :
           \/ \E actor, target \in People, role \in Roles :
                 \/ Create(r, actor, target, role)
                 \/ \E op \in Ops : Begin(r, actor, op, target, role)
           \/ Load(r) \/ Reload(r) \/ Count(r) \/ Refuse(r)
           \/ Update(r) \/ SetActive(r) \/ Delete(r) \/ Insert(r)
    BY <1>1 DEF Next
  <2> QED
    BY <2>1, CreateKeeps, BeginKeeps, LoadKeeps, ReloadKeeps, CountKeeps, RefuseKeeps,
       UpdateKeeps, SetActiveKeeps, DeleteKeeps, InsertKeeps
<1>2. CASE UNCHANGED vars
  <2>1. UNCHANGED <<user, request, raced>>
    BY <1>2 DEF vars
  <2>2. Superadmins' = Superadmins
    BY <2>1 DEF Superadmins, Live
  <2> QED
    BY <2>1, <2>2
       DEF AdminInv, TypeOK, TargetsExist, SeenIsCurrent, AnotherIsLeft, ActorMay,
           SuperadminRemains, Removes
<1> QED
  BY <1>1, <1>2

-----------------------------------------------------------------------------
\* The invariant holds in every reachable state.
LEMMA AdminInvariant == Spec => []AdminInv
<1> QED
  BY InitInv, NextKeeps, PTL DEF Spec

\* Every reachable state of UserAdmin is well formed (the rows and the
\* handlers' variables).
THEOREM AdminTypeCorrect == Spec => []TypeOK
<1>1. AdminInv => TypeOK
  BY DEF AdminInv
<1> QED
  BY <1>1, AdminInvariant, PTL

\* A superadmin remains as long as none was removed by an overtaken request
\* (CountByRole in updateUser and Delete), for any number of people.
THEOREM SuperadminLeft == Spec => []SuperadminRemains
<1>1. AdminInv => SuperadminRemains
  BY DEF AdminInv
<1> QED
  BY <1>1, AdminInvariant, PTL

\* Nobody but a superadmin's request takes a superadmin's rights, unless it
\* was overtaken (actorMayManageTarget with the actor requireAuth loaded).
THEOREM SuperadminsProtected == Spec => SuperadminsAnswerToSuperadmins
<1> DEFINE Step ==
      \A u \in Superadmins :
          user'[u] # user[u] /\ ~(user'[u].active /\ ~user[u].active) =>
              \E r \in Requests :
                 /\ request[r].pc = "write" /\ request'[r].pc = "idle"
                 /\ request[r].target = u
                 /\ request[r].by = Superadmin \/ request[r].late
<1>1. AdminInv /\ [Next]_vars => [Step]_vars
  <2> SUFFICES ASSUME AdminInv, Next, NEW u \in Superadmins, user'[u] # user[u]
               PROVE  \E r \in Requests :
                         /\ request[r].pc = "write" /\ request'[r].pc = "idle"
                         /\ request[r].target = u
                         /\ request[r].by = Superadmin \/ request[r].late
    OBVIOUS
  <2>1. u \in People /\ user[u].status = "live"
    BY DEF Superadmins, Live
  <2>2. PICK r \in Requests :
           \/ \E actor, target \in People, role \in Roles :
                 \/ Create(r, actor, target, role)
                 \/ \E op \in Ops : Begin(r, actor, op, target, role)
           \/ Load(r) \/ Reload(r) \/ Count(r) \/ Refuse(r)
           \/ Update(r) \/ SetActive(r) \/ Delete(r) \/ Insert(r)
    BY DEF Next
  <2>3. Update(r) \/ SetActive(r) \/ Delete(r) \/ Insert(r)
    BY <2>2 DEF Create, Begin, Load, Reload, Count, Refuse
  <2>4. Written(r) /\ \A v \in People : v # request[r].target => user'[v] = user[v]
    BY <2>3 DEF Update, SetActive, Delete, Insert, AdminInv, TypeOK
  <2>5. request[r].target = u
    BY <2>1, <2>4
  <2>6. request[r].pc = "write"
    BY <2>1, <2>3, <2>5 DEF Update, SetActive, Delete, Insert
  <2>7. request'[r].pc = "idle"
    BY <2>4, IdleShape DEF Written
  <2>8. request[r].by = Superadmin \/ request[r].late
    BY <2>5, <2>6 DEF AdminInv, ActorMay, Reading
  <2> QED
    BY <2>5, <2>6, <2>7, <2>8
<1> QED
  BY <1>1, AdminInvariant, PTL DEF Spec, SuperadminsAnswerToSuperadmins

=============================================================================
