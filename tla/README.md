# LeadFlow backend: TLA+ models, checks and proofs

The LeadFlow backend is a Go HTTP server over PostgreSQL for a sales CRM. Every
request is a goroutine; handlers talk to the database through a pool, mostly one
statement at a time, and share an in-process event hub and a response cache.
Several server instances may share one Redis. Nearly everything that is hard about
it comes from that: a handler reads a row, decides, and writes later, and between
any two statements any other handler may run.

This directory models the parts where that matters, checks them with TLC and proves
the main invariants with TLAPS. `PROJECT.json` lists components, runs, mutants, the
definitions with the source lines they stand for, findings, hazards and theorems.

## 1. Inventory

| Part | State | Operations | Talks to |
|---|---|---|---|
| Sessions (`handlers_auth.go`, `session.go`, `cookie_auth.go`, `httpx.go`, `auth.go`, part of `users.go`) | `User.activeSessionHash`, `isActive`, `passwordHash`; cookies and session ids in browsers | login, claim, logout; `requireAuth` of every request | event hub, login limiter |
| Event hub (`realtime.go`) | map of SSE clients with a 64-message channel each | `add`, `remove`, `DropUser`, `DropUserExcept`, `Broadcast`, `BroadcastToUser`, presence snapshot | sessions (who may connect), every mutating handler |
| Response cache (`response_cache.go`) | map of payloads with expiry, at most 4096 | `Get`, `Set`, `Clear` under one lock | cached GET endpoints; `emitLead`, `emitUser`, KPI targets |
| Redis cache (`redis_cache.go`) | generation counter and payloads in Redis; per instance a remembered generation and an in-memory fallback | `generation`, `Get`, `Set`, `Clear` | as above, and the other instances |
| Lead qualification (`leads.go`, `qualification_log.go`) | status, time of entry, not-appropriate mark of a lead; append-only log | `Create`, `UpdateQualificationStatus`, `Update`, `MarkNotAppropriate`, `GetByID` (which may write), `DeleteLeads` | hub and cache through `emitLead` |
| Lead sales (`leads.go`, `assign.go`, `users.go`) | stage, closing time, revenue, executive and team of a lead; team of a user | `UpdateSalesOutcome`, `AssignLeads`, `TransferSalesExec`, `UserStore.Update`, `UserStore.Delete` | as above |
| User administration (`users.go`, `handlers_users.go`, `user_admin.go`, `roles.go`) | users, roles, teams | create, update, activate, delete, two transfers | sessions, leads |
| Lead access (`handlers.go`, `roles.go`, `assign.go`) | none; reads the users and the lead | role check, `requireLeadAccess`, scope in the `WHERE` of bulk writes | every write of a lead |
| Lead lists (`leads.go`, `transfers.go`, `leads_export.go`, `handlers_leads_http.go`, `handlers_analytics.go`) | none; the client holds the cursor or the offset, the response cache holds pages | keyset paging in eight orders, two transfer lists, the export, `OFFSET` paging of summary buckets | leads and users that change between pages; response cache |
| Export lock (`handlers_leads_export.go`) | start time of each user's export | `acquire`, `release` | export |
| Notifications (`notifications.go`) | rows per recipient | fan-out in batches, mark read | handlers that change leads |
| Login limiter (`ratelimit.go`) | buckets per address and e-mail | `allow`, `pruneLocked` | login |
| Migrations (`migrate.go`, `main.go`) | `schema_migrations`, the schema | check, apply, record, one after another at start | several servers that start together |
| Search and filters (`search.go`, `geo_filter.go`) | none | SQL text | lists |
| Analytics (`dashboard.go`, `kpi*.go`, `report.go`) | KPI targets | SQL aggregates | cache |
| Uploads | files | file I/O | |

What makes the parts correct, and where it is hard:

* **Sessions**: one live session per account; whoever loses it also loses the event
  streams opened with it; a logout ends only its own session; a revocation is final.
  Hard because a login is a read, an `UPDATE`, two lock regions of the hub and an
  answer, and all of them interleave with other logins and with administrators.
* **Cache**: an answer sent after a change was announced includes the change. Hard
  because payloads are computed outside the lock, and with Redis because the
  generation is cached and any command may fail with or without effect.
* **Qualification**: the log explains the status. Hard because status and time are
  read before the transaction, and because a GET backfills the log.
* **Sales**: stage, closing time, revenue, executive and team agree. Hard because four
  handlers write overlapping columns on the strength of earlier reads, and a deletion
  takes two statements.
* **User administration**: somebody is left who administers everybody, and nobody acts
  on a role above their own. Hard because roles are checked and superadmins counted in
  statements of their own, before the write.
* **Event hub**: whoever has read all events knows who is online, and no send meets a
  closed channel. Hard because the map changes under the lock and is announced after it,
  because buffers are finite, and because a drop announces nothing.
* **Lead access**: a lead is changed only by somebody who may change it at that moment.
  Hard because a PATCH checks in one statement and writes in another.
* **Lists**: paging through a list shows every lead once. Hard because the leads change
  between the pages, the position is only in the client's cursor, and the response cache
  may answer any page with an older one.
* **Notifications**: staff and assignee hear of a change once, the actor never.
* **Migrations**: what is recorded is in effect, and in order. Hard because no lock and no
  transaction covers a migration, and servers crash and start side by side.
* **Login limiter**: a bounded number of failures told apart from a refusal in any stretch
  of time, and nobody is refused without reason. It does not bound guesses, although
  `ratelimit.go:17` speaks of brute-force protection: `handleLogin` tries the password
  first (`handlers_auth.go:77`) and asks the limiter only when it was wrong (line 80), so
  a right guess signs in past any limit.

## 2. Modules

| Module | Models |
|---|---|
| `SessionLifecycle` | abstract: each account has a slot that holds no session or a fresh one of its own |
| `StreamRegistry` | abstract: the hub's map of streams, and drops that are called for an account, mark its streams and take them out |
| `Session` | the handlers in detail and the hub as far as they drop streams; implements `SessionLifecycle` and `StreamRegistry` |
| `CacheMap` | the map of `ResponseCache` as operators |
| `CachedDatabase` | what the two caches stand in front of: the count of committed mutations |
| `ResponseCache` | readers and mutating handlers around one map |
| `RedisCache` | several instances, Redis, and a `CacheMap` in each instance |
| `LeadQualification` | one lead's status, mark and log |
| `LeadSales` | one lead's sales columns, the executives and their teams |
| `UserAdmin` | accounts, their roles and activation, and the handlers that change them |
| `RealtimeHub` | streams, channels, presence events, and what clients come to believe; implements `StreamRegistry` |
| `LeadPaging` | walks through keyset-paged lists while leads change and the response cache serves pages of other ages; the export |
| `BucketPaging` | walks through the summary buckets by offset, with cached pages |
| `ExportFlights` | the lock of one export per user |
| `Notifications` | recipients, batches and rows, as actions for the requests that notify |
| `LeadRequests` | requests that change a lead, from sign-in to notification, and who may; extends `Notifications` |
| `Migrations` | servers that migrate one database as they start |
| `LoginLimiter` | the buckets of failed logins |
| `ServerStart` | composes `Migrations` and `LoginLimiter`: a server that serves limits logins, a crash empties its limiter |
| `MC*` | symmetry sets and instances for TLC; `MCLeadPaging` runs the three paging modules, which share no state, side by side |
| `*Proofs` | theorems, in eight modules; `ResponseCacheProofs` is about both caches, `LeadPagingProofs` about the three paging modules, `HubAndRequestsProofs` about `RealtimeHub` and `LeadRequests`, `ServerStartProofs` about `Migrations` and `LoginLimiter` |

One lead is enough in the two lead modules because no handler relates one lead to
another; bulk requests lock their leads and treat each alike.

### Session

`account` is the `User` row as far as sessions use it, `issued` the tokens (a token's
jti is its index), `cookie` and `held` what a browser was answered, `request[r]` the
local variables of a handler with its place in the code, `stream[c]` an event stream
that is admitted, open (in the hub) or closed. A SHA-256 digest is a constructor.

* `Login`/`UpdatePasswordHash`: `Authenticate`, with the upgrade of a plain-text password.
* `Claim`/`ClaimReload`: `handleClaimSession`.
* `ReplaceActiveSession`, `ReplaceActiveSessionError`: `issueLiveSession` up to its
  `UPDATE`; the error case includes an `UPDATE` that took effect and was not answered.
* `Logout`, `LogoutNoToken`, `ClearActiveSessionIfCurrent`: `handleLogout`.
* `DropCollect`, `DropRemove`: `DropUserExcept`, collecting under the read lock and
  removing one stream per write lock.
* `Respond`, `ResponseLost`: the answer.
* `StreamAdmit`, `StreamRegister`, `StreamLeave`: `handleEvents`.
* `Deactivate`, `Activate`, `ResetPassword`, `DeleteUser`: the administrators.

`revision`, `lastReset`, `unannounced`, and the fields `basis`, `overtaken` and `late`
are history: no guard reads them, except the bound `MaxRevision`. Left out: JWT expiry
(a token that expires only loses rights) and the events broadcast on replacement.

### StreamRegistry

`registry` is the hub's map, an entry being a stream id with its account and session,
`call[d]` the arguments of a drop that has been called and has not looked at the map yet,
and `marked[d]` the ids it still has to remove. `Register` is `hub.add` with its fresh id,
`Leave` the handler's deferred `remove`; `SignIn` calls a drop for an account with the
session that was just minted for it, which no stream may carry yet, `SignOut` one that
spares nothing. `Mark` is the loop under the read lock, for the arguments of the call and
no others; it cannot be skipped, because a call ends only by it. `TakeOut` is one `remove`.
Two models implement it. In `Session` (through `Registry`, with the requests as drops) the
arguments of a call are the handler's account and the session it minted (`Call`), so it is
the handlers that count: that they drop the account they sign in or out, spare the new
session and not the old, and give up no drop half way. In `RealtimeHub` (with the logins as
drops) it is the hub: removals in two steps, closed channels, panics and announcements in
between. There all streams are of earlier sessions, because the session a login has minted
has no stream before its browser is answered, so its drop has to take out all of them.

### ResponseCache and RedisCache

The database is a counter of committed mutations, a payload the count it was computed
from (`CachedDatabase`). `late` marks a payload that was computed when a `Clear` ran and stored after it.
`CommitSilently` stands for handlers that commit without `Clear`: both transfer
endpoints, and `updateUser` when its second step fails. In `RedisCache`, whose requests are
`getter` and `mutator` and whose specification is `RSpec`, an instance has
the generation it remembers, whether that is recent, and its fallback map; any
command may fail (`MaxFailures` of them), `SET` and `INCR` with or without effect. A payload above
`redisMaxValue` is not cached (`QueryUncached`). An expired entry of the in-memory map
still counts towards its limit, as in the code.

### LeadQualification

A request reads (`UpdateQualificationStatus`, `Update`, `MarkNotAppropriate`), takes the
time (`Stamp`), in a mark reads the status once more (`MarkReadStatus`, whose error is
ignored), and writes row and log in one transaction (`PatchCommit`, `EditCommit`,
`MarkCommit`). `GetByID` follows a patch and a mark, and a view: it counts the log's
rows (`EnsureSeeded`) and may write the first (`RecordQualificationChange`). The initial
state is no lead, or a lead older than the log. `blind` is history: some write rested on
a read that was overtaken or failed. The first row is dated by the lead's `createdAt`, which
may be ahead of the clock. An edit that keeps the stored status because the
role may not change it is not modelled: the two role sets are equal in `roles.go`, so
that branch is never taken.

### LeadSales

`UpdateSalesOutcome` reads and checks, `OutcomeCommit` is the unconditional `UPDATE`.
`AssignMember` and `AssignTeamLead` read before the transaction that the matching commit
stands for. `TransferSalesExec` is one step: it locks the user's row first. `UpdateUser`
reads the user and is told a role: somebody who becomes a sales executive joins the team
the request names (`users.go:575`), everybody else keeps the team that was read;
`UpdateUserCommit` writes role and team and moves no lead. An account that has been made
an analyst keeps its team and its leads. `Delete` of the lead's executive
is one step, because it holds the lead from its update on; of anybody else it is two
(`DeleteScan`, `DeleteUser`), with `ON DELETE SET NULL` of migration 6 in the second.
`raced` is history: which kinds of write rested on a stale read, and `rejoin`, an edit that
made the lead's executive one again on another team than the lead's. Abstracted:
`assignedMainTeamLeadId` (written with the team, read by nothing here), the guard that a
lead is qualified (it only forbids assignments), payments and notes, all roles but the
sales executive's and the analyst's.

### UserAdmin

`user[u]` is the row with its role, whether it is active and whether it exists (an id is
used once); `request[r]` is a handler with its actor's role as `requireAuth` read it and
the target's role as last read. `Begin` is `handleUserByID` up to the handler, `Load` the
handler's `FindByID` with the checks of actor and role, `Reload` the second `FindByID` in
`UserStore.Delete` and `SetActive`, `Count` the two counts of superadmins, `Update`,
`SetActive`, `Delete` and `Insert` the writes, `Create` the handler `createUser`, `Refuse`
every end without a write. Superadmins are counted with the inactive ones for a deletion
and a demotion, among the active ones for a deactivation, as in the code. `late` and
`raced` are history. Left out: teams, which restrict a main team lead further (a check
that is left out only allows more), names, emails and passwords.

### RealtimeHub

`clients` is the hub's map, `ch[c]` the buffered channel of a stream, `stream[c]` its
handler with its place in `handleEvents`, `view[c]` what its client has concluded from
what it was sent (a union of three kinds of event). `Add` is `hub.add`; `AnnounceOnline`, `TakeSnapshot` and `SendSync` are
the three calls after it, `Deliver` the read loop, `RemoveStream`, `CloseChannel` and
`AnnounceOffline` the deferred function. `login[r]` is a request that drops streams: a
login tells the user's streams first (`BroadcastToUser`), a logout nobody (`DropUser`, of
any user at any time: it acts for the session it read as live, whatever has replaced it
since). `DropUserExcept`, `DropRemove`, `DropClose` and `DropDone` are what both do next,
and both can run beside each other. `Emit` stands for lead and user events. `SendSyncPanics` is the
send on a channel that a drop has closed, which the middleware recovers. History:
`astray` (a user whose announcements cross, or whose last stream was dropped without
one), `missed` (what a stream lost to a full buffer or to its own older snapshot),
`unwarned` (a stream that the session-replaced event could not reach, or that a logout
has listed). Left out: the
heartbeat, which only finds out that a client is gone, and the contents of events.

### LeadPaging, BucketPaging, ExportFlights

A row is its id and the two columns the chosen order reads. `Before` is the `ORDER BY`,
`AfterCursor` the condition the cursor adds, `CursorOf` the cursor of the last row,
`UsedCursor` the rule that a cursor of another order is ignored. A request for a page is
answered from the response cache (`Hit`) or not (`Miss`); then the fetch is a `Count` and
a page (`List`, `ListSalesExecTeamTransfers`, `ListLeadTransfers`, `ExportLeadsPDF`) in
statements of their own, then `Answer`, `Fail`, or `Leave` of a client that does not wait.
`kept` is what `GET /api/leads` has stored, each payload under its cursor (the rest of the
query does not change during a behaviour); the other lists are not cached. A payload goes by
`Expire` or `Clear`, which may come at any time, because most handlers clear after most
changes and the transfers never do; when they clear is the matter of `ResponseCache`.
`Create`, `Update` and `Delete` stand
for whatever brings a row into the request's `WHERE`, changes its columns or takes it
out: filters and search are no more than that to a walk. `RenameUser` and `DeleteUser`
change the column of the analyst order for many rows at once. History: the `since` of an
answer (rows that changed since its first statement, also while it is kept), `moved` (rows
that changed during the walk, with the `since` of every answer it was shown) and `astray`
(a cursor does not name the key of the row it was cut at: the dash of a lead without
creator, or a name that Go's `strings.ToLower` maps otherwise than the database's `LOWER`;
`ToLower` is a constant, any function on keys).

In `BucketPaging` the buckets are ordered by size and name; analysts and executives may
share a name, reasons and portals do not. `Skipped` and `BucketPage` are `OFFSET` and
`LIMIT`, which may choose anew among equals in every query. `bkept` holds the pages that
`handleLeadsSummaryBuckets` has stored, each under its offset (`HitPage`, `MissPage`,
`StorePage`, `ExpirePage`, `ClearPages`). History: `stirred` (a lead changed its bucket
since the walk began, or since the oldest page it was shown was read) and `clamped` (the
server used a smaller offset than it was sent). Users are not renamed during a walk; a walk
during which anything changed is promised nothing anyway.

`ExportFlights` is the map of start times with a clock that may pass the ten minutes of
a lock; `outlived` is history (a user began an export while an older one still ran).

### Notifications and LeadRequests

A request is authenticated (`Authenticate` keeps the actor's row as loaded), a PATCH is
checked (`requireLeadAccess`) and written (`Patch`, by the lead's id alone), a bulk
request is written with its scope in the `WHERE` (`AssignLeads`, `DeleteLeads`). It then
reads the staff (`Notify`), inserts the batches (`Insert`) and answers. `UpdateUser`,
`TransferLeadAnalyst`, `TransferSalesExec` and `DeleteUser` move people and leads in the
meantime. `inScope` is the code's check, with the actor's row of the middleware;
`Entitled` says what it is meant to establish, with the rows of the moment of the write.
History: `stale` (a PATCH was overtaken after its check, or the actor's own row changed),
`trespass`, `due` and `lost` (who should hear of a change, and who is in a failed batch).
What the writes do to status, stage and log is in the two lead modules.

### Migrations, LoginLimiter, ServerStart

`Body` is the sequence of migration files, each a sequence of statements that create,
drop or add one object; a soft statement is one whose failure is passed over (the
trigram indexes). A file that drops an object adds it again further on, and no other file is
about it (`ReplaceAssumption`, as in migration 6). `Check`, `Exec` and `Record` are the statements of `RunCRMMigrations`,
each of which may fail, with or without effect where the database may have done it;
`GiveUp` is the error `main` logs before it serves all the same. `StartUnpinged` is a
server that serves without having reached the database, `Crash` the end of a process
anywhere. The first state has any subset of the objects, because earlier start-up code
created some. `torn` is history: objects that a server left dropped when it stopped in
the middle of a migration another one was at or had recorded. `LoginLimiter` has `allow`
with `pruneLocked` in one step, as under the mutex, and `NotAsked`, a login whose password
is right and which the limiter never hears of; `ServerStart` calls them as `LoginFails` and
`LoginSucceeds`. `answered`, the times at which failures of a key were answered as such and
not refused, is history.

## 3. Runs

Passing runs:

| Run | Shows | Bounds |
|---|---|---|
| `session_streams` | `StaleStreamsAreDropped`, `DropsKeepToTheirOwn` | 2 accounts, one of them stored as plain text, one browser, 2 requests, 2 streams, 2 sessions, no revocation |
| `session_store` | `NoSessionOutlivesRevocation`, `ResetPasswordSticks`, `LogoutEndsOnlyItsOwnSession`, `ImplementsLifecycle`, `StaleStreamsAreClosed` | one account, one browser, 2 requests, one stream, 2 sessions, one revocation |
| `cache_memory` | `CachedPayloadsAreCurrent`, `AnswersSeeAnnouncedWrites`, `MapIsBounded` | 3 keys for room for 2, 2 readers, 2 writers, 2 commits |
| `cache_redis` | `SharedPayloadsAreCurrent`, `NobodyIsAhead`, `FallbackPayloadsAreCurrent` | 2 instances, one reader, one writer, 2 commits, one failing command |
| `lead_history` | `StatusIsInHistory`, `AcceptedReasonIsStored`, `HistoryIsAChain`, `MarkIsFinal` | 2 requests, 2 statuses, 2 reasons, 3 log rows, clock 0..1, a lead dated 1 |
| `sales_lead` | `ClosedHasTime`, `WonHasRevenue`, `LeadFollowsExec`, `NobodyIsWaitedFor`, `ClosingTimeIsKept` | 2 requests, one account that is an executive or an analyst, 2 teams, 3 outcomes, clock 0..1 |
| `admin_roles` | `SuperadminRemains`, `SuperadminsAnswerToSuperadmins` | 3 accounts, the roles superadmin, analyst team lead and lead analyst, 2 requests |
| `lead_pages` | `NoLeadTwice`, `NoLeadMissed`, `TotalIsTheWalk`, `NoBucketTwice`, `NoBucketMissed`, `ExportsAreSerial` | 3 leads (2 in the four orders of two columns), 2 keys one of which is lower-cased differently, 2 times, pages of one, all 11 lists, one payload kept, one lead changes under a walk or payload; 3 leads in 3 buckets, offset at most 1, one page kept; 3 exports of 2 users |
| `hub_presence` | `BroadcastNeverPanics`, `PresenceIsKnown`, `KickedClientsWereTold` | 2 users, 2 streams, one login or logout at a time, buffers of 2, one other event |
| `server_start` | `RecordedIsApplied`, `RecordedInOrder`, `ServingMeansMigrated`, `FailuresAnsweredAreBounded`, `RefusedForARecentReason` | 2 servers, 3 files with each kind of statement; 2 keys, limit 2, clock 0..2 |
| `lead_requests` | `NobodyTrespasses`, `ToldExactlyOnce` | 5 people, of all roles but superadmin and with one analyst outside any team, 2 teams, 2 requests, batches of 2, one administrative change |

Two requests are what every race in this code needs: one that read and one that
overtakes it. Administrators, transfers and deletions come on top of them. Two
sessions let a login or claim replace a live one while its streams are still dropped, and
a second account has streams no drop may touch; two commits let a second `Clear`
meet what the first one left; three log rows hold a first row and two changes; a lead
dated 1 is ahead of a clock at 0 and level with one at 1. One
failure is enough to leave a payload in a fallback map or to lose an `INCR`. Of the
outcomes one is open, one is won and one is lost, which is all that the handlers tell
apart. Of the roles one is above all, one manages and one is managed. With three leads and
pages of one a walk has a first, a middle and a last page, and the lead that changes can
be before, at or behind the cursor; equal keys and equal times both occur. One kept
payload beside fresh pages already gives a walk pages of two ages, in either order; the
proofs allow any number of them. An offset of at
most 1 lets a walk run into the limit. With two streams one can watch while the other's
user comes and goes, or both belong to one user; a buffer of two is filled by an
announcement and another event. Two servers can be at the same statement, a file apart,
or one restarted while the other serves; the three files have a soft statement, the
drop-and-add pair of migration 6, and a plain one. A superadmin is above every check of
`lead_requests`, and is reached there by a promotion. The proofs remove the bounds where
there are theorems.

Sessions and their bound run out (`MaxSid`), and people need not send anything, so the
session runs do not check for deadlock; nor does `admin_roles`, where everything stops
once no active account may manage users, nor `lead_pages` and `lead_requests`, whose
exports and requests are each made once. The other passing runs do.

The type invariants of the modules are conjuncts of the inductive invariants of section 4 and
proved with them for every instance, so no run repeats them. The same holds of
`ImplementsRegistry`, the hub's refinement of `StreamRegistry`: TLC found it right on 2 users,
2 streams, two logins at a time and buffers of one, and `MapIsRegistry` proves it for all.

**Fairness.** Only `session_store` assumes any, for `StaleStreamsAreClosed`: weak
fairness of each handler that has been started (`Proceed(r)`). A runnable goroutine runs,
and a statement is answered or fails by the pool's timeout, so a handler does not stay
at one place for ever. Nothing is assumed of people, browsers, streams or administrators.

One run finds a disagreement between the code and what the repository says of it (the
finding in `PROJECT.json` quotes it): in `session_late_stream` a stream is registered
after the login that should have closed it.

The invariants of the passing runs say what remains true in spite of such races: each
names its exemption with a history variable, so that what it promises is exactly what
the code keeps. What the exemptions stand for in the code:

* `late` of a stream: `session_late_stream`. `unannounced`: deactivation, password change
  and deletion end a session and tell no stream.
* `overtaken`: a login or claim stores its session after a revocation that came between
  its check and its `UPDATE`.
* `late` of a payload: it was computed before a change and stored after its `Clear`, and
  is then served for its TTL, although `realtime.go:268` says that clients never see stale
  summaries. `silent`: the transfer endpoints, which clear
  nothing.
* `bumped` and `clearedAt`: a failed `INCR` leaves the old generation in use, and a
  `Clear` empties the fallback map of its own instance only.
* `blind`: a change of status, or the backfill of the log, that rested on a read
  overtaken by another one; two views of an old lead may both write its first row. Of two
  such changes the later row of the timeline may not be the lead's status, which is why
  the last part of `HistoryIsAChain` (the newest row by time is the status) needs it too. That
  part also exempts a lead whose first row is dated ahead of its last, which the timeline
  would call current.
* `raced`: an outcome checked against an older row, an assignment or a user edit that
  writes a team read before a transfer, an assignment between the two statements of a
  deletion. `rejoin` needs no race: an executive made an analyst keeps team and leads, and
  made an executive of another team leaves its leads on the old one. In the first case a won lead can be left without revenue, which
  `leads.go:2751` refuses to a single request.
* `late` and `raced` of `UserAdmin`: a request was past its first read when another one
  changed who is superadmin, and wrote all the same: two superadmins demoted at once, of
  whom none is left, or an analyst team lead who removes somebody promoted meanwhile.
* `astray`, `missed`, `unwarned`: after a drop of its last stream a user looks online until
  it connects and leaves again; two announcements about one user can be sent in the wrong
  order; an announcement between a stream's snapshot and its sending is overwritten. A logout's
  drop tells nobody; one that read the old session as live can close streams between a
  login's `UPDATE` and its event.
* `moved`: a lead whose sort key changes may be shown twice or not at all; and so may one
  that a transfer, which clears nothing, has moved since a page of this walk was stored by
  an earlier one, up to 15 seconds before. Every other lead is shown once. `astray`: the
  cursor of the analyst order names a dash where the `ORDER BY` has the empty name, so
  leads of analysts whose names sort before the dash are left out; a name whose lower case
  differs between Go and the database puts its cursor ahead of its row or behind others.
* `stirred`, `Tied`, `clamped`: offsets shift when buckets grow or shrink, also between a
  kept page and a fresh one; users of one name and one size have no fixed order; past
  offset 5000 the same page comes again.
* `outlived`: an export of more than ten minutes releases the lock of the next one.
* `torn`: a server that stops between `DROP CONSTRAINT` and `ADD CONSTRAINT` of a migration
  which another server has recorded leaves the constraint dropped for good.
* `stale`: the lead changed hands, or the actor was moved, between check and write.
* `lost`: a batch of notifications that failed is not tried again.

## 4. Proofs

All theorems hold for every value of the constants that satisfies the `ASSUME` of the
module: bounds are naturals, the sets that must be non-empty are, what is enumerated is
finite, and the migration files put back in the same file what they drop.

* **`SessionProofs`**. `TypeCorrect` needs `RequestShape` (what a handler's place in the
  code says of its variables: none that is still to mint has a session, and a logout's
  tab names the token's session or none). `StaleStreamsDropped` adds to it that the only
  steps that can make a stream stale are the ones that leave their handler on its way
  to the hub or set `unannounced`; one lemma per kind of step. Four others rest on one
  classification (`SlotStep`): a step leaves an account's slot alone, stores a fresh session
  of that account, or empties it, and in the last case it is a logout of that very session, a
  revocation or a deletion. `LogoutEndsItsOwn` and `StoreImplementsLifecycle`, the refinement
  of `SessionLifecycle`, follow step by step; `SessionsEndWithRevocation` adds what a handler
  that has not stored its session yet knows of the revision. `ResetStands` needs
  `PasswordInv`: a login that is about to write the column works for a plain-text account.
  `DropsAreSelective`, the refinement of `StreamRegistry`, needs `MapInv`: only a handler
  that removes streams has any to remove, a stream it has to remove is not being admitted
  (its id is not used again), and every stream carries a session that was minted.
* **`ResponseCacheProofs`**. `CacheInv` strengthens the two properties of the in-memory
  cache by the same statement about payloads that are computed and not stored yet, and by
  `WritersAreApart`: a mutation belongs to one handler and is announced only after its
  `Clear`. Without the latter an announced mutation could look pending.
  `CachedCurrent` and `AnswersSeeWrites` follow. `BoundedMap` is about cardinalities: `Set`
  adds one key at most to a map with room. For `RedisCache`, `RedisInv` says that nothing is
  stored under a generation Redis has not reached (so the next `INCR` cannot bring it back),
  that a payload on its way to Redis misses only mutations whose `INCR` has had no effect,
  one on its way to the instance's map only what that instance has not cleared, unless
  overtaken, and that what is not committed is neither bumped nor cleared. `SharedCurrent`,
  `FallbackCurrent` and `NoneAhead` follow, for any number of failing commands.
* **`LeadQualificationProofs`**. `StatusIsInHistory` alone is not inductive: an edit may
  write a status without a row. `QualInv` adds that every status a request has seen was
  logged before it was seen, that an accepted mark is stored, and that nobody works on a
  lead that does not exist. `StatusLogged`, `MarkAccepted` and `MarkStays` follow.
  `HistoryChained` needs `ChainInv`: while nothing is `blind`, a request that is about to
  write has read the status the log ends in and has taken a time not before those of the
  rows after the first (the first may carry a `createdAt` in the future), and a backfill has counted a log that is still empty.
* **`LeadSalesProofs`**. `SalesInv` adds that an outcome which was not overtaken would
  still pass its check, and that a request that closes carries a time. `ClosedTimed`,
  `WonPaid`, `FollowsExec` and `NobodyWaited` follow; `ClosingTimeKept` needs also that such
  an outcome has the lead's own closing time if the lead is closed.
* **`UserAdminProofs`**. That a superadmin remains is not inductive: nothing in it says
  what a request about to write has seen. `AdminInv` adds that a request which was not
  overtaken still knows whether its target is a superadmin, has counted another one if
  it removes one, and acts for a superadmin if its target is one. `AdminTypeCorrect`,
  `SuperadminLeft` and `SuperadminsProtected` follow.
* **`ServerStartProofs`**. `ServersMigrate`: the composition with the limiter implements
  `Migrations` alone, so what follows holds of both. That the records have no gap is not
  inductive: a server about to record a version must have met all earlier ones. `StartInv`
  adds that every version before the one a server is at is recorded, and all of them once
  it got through without a failure. `RecordsInOrder` and `ServesMigrated` follow, from the
  assumption that there is a file and that no file is empty. `RecordedHasEffect` needs
  `AppliedInv`: what the statements a server has behind it created is there, is owed by a
  server that dropped it, or is torn; and it needs `ReplaceAssumption`, without which a later
  file could drop what an earlier one made. `FailuresBounded` and `RefusalsJustified` rest on
  `LimiterInv`: the bucket of a key counts the last answers, all of them in the window that
  began with its start, the answers before them came no later than that start, and those a limit or
  more before the first counted one more than a window before it.
* **`HubAndRequestsProofs`**. `HubInv` is the type invariant with `ClosingInv`: a channel is
  closed by one party, which is named, and nobody can reach it through the map from the
  moment somebody is to close it. `HubTypes` and `NoPanicUnderTheLock` follow.
  `KickedWereTold` needs `WarnedInv`: a stream a login has collected has the event in its
  buffer, has read it, or is `unwarned`. `PresenceKnown` needs two invariants. `AnnounceInv`
  says that a user who is not `astray` has at most one announcement to come, and that it
  will be right. `PresenceInv` says what a client will conclude when it has read its buffer:
  that ends in the truth about every user, or in what the announcement to come will mend. The
  proof goes through the last event of a buffer that concerns a user, so no induction over
  the buffer is needed. `MapIsRegistry`, the refinement of `StreamRegistry`, needs `HubInv` (a
  handler that panics or closes is out of the map) and `DropsInv` (a login or logout has
  nothing to drop before it has looked, and acts for a user). For `LeadRequests`, `AccessInv` says that a request which is not
  `stale` acts for an actor whose row is up to date as far as a check reads it, and that a
  checked `PATCH` would still pass its check; `NoTrespass` follows, because whoever is in
  scope by such a row is entitled. `ToldOnce` rests on `NoticeInv`: what a request has yet
  to insert lists no recipient twice, belongs to a mutation of its own (one that no other
  request has in hand), and goes to people who have no row for it yet, are due one and are
  not counted as lost; every row is of a mutation that has notified. That a list has no
  repetitions is shown by lemmas about the operators: `Ascending` lists a finite set by
  rank, and ranks are an injection into `1..Cardinality(S)`, hence onto; `Picked` and
  `mergeRecipientIDs` keep a set of positions. So nothing is proved by induction over a list.
* **`LeadPagingProofs`**. Three lemmas about cursors: a cursor of a row puts behind it exactly
  the rows that come later in the order, the rows of a page are behind the cursor they were
  fetched with, and cursors advance. That the rows shown and the rows to come are parted by
  the client's cursor is not inductive, because a page may be older than the cursor it is
  asked with. `PagingInv` therefore makes the statement of every answer by itself, under way
  or kept (`AnswersInv`): the rows that have not changed since it was begun are on its page
  if it is behind its cursor and before its next one, and not otherwise. This survives any
  change, since a row that changes enters `since`; and when an answer is shown its `since`
  enters `moved`, so `WalkInv` (the walk's cursor parts what was shown from what is to come,
  as far as it has not moved) follows whatever the answer's age. `NoneTwice`, `NoneMissed` and
  `TotalAddsUp` are consequences. For the buckets `BAnswersInv` says the same of pages and
  offsets while nothing is `stirred`, and `BWalkInv` that what was shown is the topmost
  part of the order as long as the offset, which holds because topmost parts of different
  sizes nest when there are no ties; `NoBucketRepeats` and `NoBucketLeftOut` follow.
  `OneExportEach` rests on `FlightInv`: at most one export of a user who never `outlived` a
  lock runs, and the user's lock is held exactly while it does.

Each inductive invariant was checked by TLC on the instance of its run before it was proved.

Every safety and action property of the passing runs is stated by a theorem. Only
model-checked: liveness (`StaleStreamsAreClosed`), since fairness is outside the prover. No
module uses `RECURSIVE`.

## 5. Not modelled, and the plan

Not modelled by choice: SQL aggregates (dashboard, KPI, report), the SQL of search and
filters (a walk sees them as rows inside or outside its `WHERE`), the layout of exports,
uploads, duplicate lookup, CORS, validation, configuration and the command-line tools.
They keep no state of their own or are I/O. Of user administration, names, e-mails and the
list of teams are left out, and the order in which transfer and deletion lock their rows:
PostgreSQL breaks such a cycle by aborting one of them, and both may fail in the models.

Composition: `CacheMap` is shared by the two caches, `Notifications` is part of every
request of `LeadRequests`, and `ServerStart` ties the limiter to the life of its server.
`Session` keeps a simple picture of the streams (admitted, open, closed) and `RealtimeHub`
a detailed one; the two meet in `DropUserExcept`, and both implement `StreamRegistry`.
