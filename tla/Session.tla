------------------------------ MODULE Session -------------------------------
(***************************************************************************)
(* Sign-in, the sole live session of an account, and the event streams     *)
(* that session may hold open.                                             *)
(*                                                                         *)
(* A request is a goroutine of net/http: between two statements it sends   *)
(* to Postgres, and between two lock regions of the hub, any other request *)
(* may run.  Every such point is a value of request[r].pc.                 *)
(***************************************************************************)
EXTENDS Naturals, Sequences, FiniteSets

CONSTANTS
    Users,         \* accounts
    LegacyUsers,   \* accounts whose stored password is still plain text
    Browsers,      \* cookie jars
    Requests,      \* handler goroutines that can be in flight together
    Streams,       \* event streams that can be open together
    MaxSid,        \* bound: sessions minted in a behaviour
    MaxRevision    \* bound: deactivations plus password changes of an account

ASSUME SessionAssumption ==
    /\ LegacyUsers \subseteq Users
    /\ Users # {} /\ Browsers # {}
    /\ MaxSid \in Nat /\ MaxRevision \in Nat

VARIABLES
    account,       \* the rows of "User", as far as sessions read them
    issued,        \* the signed tokens; a token's jti is its place here
    cookie,        \* cookie[b]: jti of the token in the jar, NoSid if none
    held,          \* held[b]: session ids answered to the tabs of b
    request,
    stream,
    revision,      \* history: how often access of u was revoked
    lastReset,     \* history: the password an administrator last set for u
    unannounced    \* history: u's slot last changed with nobody told to drop

vars == <<account, issued, cookie, held, request, stream,
          revision, lastReset, unannounced>>

NoSid == 0
SidRange == 0 .. Len(issued)

\* "activeSessionHash": SQL NULL, or the digest of a jti.  SHA-256 is a
\* constructor: equal digests mean equal ids and none is NULL.
NULL == <<>>
sessionHash(jti) == <<"sha256", jti>>

\* sessionMatchesHash: a NULL column or an empty jti matches nothing.
sessionMatches(u, jti) ==
    /\ account[u].status # "deleted"
    /\ jti # NoSid
    /\ account[u].activeSessionHash = sessionHash(jti)

\* logoutAction: (clearLive, clearCookie) are equal on every return.
logoutAction(presented, jwtSessionID, jwtIsLive) ==
    /\ ~(presented # NoSid /\ jwtSessionID # NoSid /\ presented # jwtSessionID)
    /\ jwtIsLive

\* loadAuthedUser: the token parses, its account exists and is active, its
\* session is the live one and the tab, if it says, holds the same session.
loadAuthedUser(token, presented) ==
    /\ token # NoSid
    /\ LET u == issued[token].user IN
         /\ account[u].status = "active"
         /\ sessionMatches(u, token)
    /\ presented # NoSid => presented = token

\* accessToken: the Bearer token when the client sends one, else the cookie.
\* Only a login answers the token in its body.
accessTokens(b) ==
    {cookie[b]} \cup {j \in held[b] : issued[j].by = "login"}

\* clientPresentedSessionID: none, or an id some tab of b was answered.
presentedSids(b) == {NoSid} \cup held[b]

-----------------------------------------------------------------------------
PCs == {"idle", "upgrade", "reload", "replace", "clear", "drop", "remove",
        "respond"}

AnyUser == CHOOSE u \in Users : TRUE
AnyBrowser == CHOOSE b \in Browsers : TRUE

\* The local variables of a handler when it reaches pc.
Handler(pc, kind, b, u, token, tab, password, basis) ==
    [pc |-> pc, kind |-> kind, browser |-> b, user |-> u, token |-> token,
     tab |-> tab, new |-> NoSid, password |-> password, basis |-> basis,
     ids |-> {}]

Idle == Handler("idle", "none", AnyBrowser, AnyUser, NoSid, NoSid, 0, 0)

\* A finished handler leaves its slot as it was found.
Finished(r) == request' = [request EXCEPT ![r] = Idle]

Closed == [pc |-> "closed", user |-> AnyUser, sid |-> NoSid, late |-> FALSE]

CloseStream(c) == stream' = [stream EXCEPT ![c] = Closed]

Init ==
    /\ account = [u \in Users |->
                    [status |-> "active", activeSessionHash |-> NULL,
                     password |-> 0, legacy |-> u \in LegacyUsers]]
    /\ issued = <<>>
    /\ cookie = [b \in Browsers |-> NoSid]
    /\ held = [b \in Browsers |-> {}]
    /\ request = [r \in Requests |-> Idle]
    /\ stream = [c \in Streams |-> Closed]
    /\ revision = [u \in Users |-> 0]
    /\ lastReset = [u \in Users |-> 0]
    /\ unannounced = [u \in Users |-> FALSE]

history == <<revision, lastReset, unannounced>>
browserState == <<cookie, held>>

-----------------------------------------------------------------------------
(* handleLogin and handleClaimSession                                      *)

\* Mutant of Login: every login re-hashes the password it read.
LoginAlwaysUpgrades(r, b, u) ==
    /\ request[r].pc = "idle"
    /\ account[u].status = "active"
    /\ request' = [request EXCEPT ![r] =
          Handler("upgrade", "login", b, u, NoSid, NoSid,
                  account[u].password, revision[u])]
    /\ UNCHANGED <<account, issued, browserState, stream, history>>

\* handleLogin up to the end of Authenticate's read: an active account and
\* the stored password.  A refused login changes nothing here (LoginLimiter
\* counts it).  A plain-text row is upgraded next.
Login(r, b, u) ==
    /\ request[r].pc = "idle"
    /\ account[u].status = "active"
    /\ request' = [request EXCEPT ![r] =
          Handler(IF account[u].legacy THEN "upgrade" ELSE "replace", "login",
                  b, u, NoSid, NoSid, account[u].password, revision[u])]
    /\ UNCHANGED <<account, issued, browserState, stream, history>>

\* UpdatePasswordHash writes the digest of the password that was read; its
\* error is ignored, and a deleted row is not there to be written.
UpdatePasswordHash(r) ==
    /\ request[r].pc = "upgrade"
    /\ LET u == request[r].user IN
         \/ /\ account[u].status # "deleted"
            /\ account' = [account EXCEPT ![u].password = request[r].password,
                                          ![u].legacy = FALSE]
         \/ UNCHANGED account
    /\ request' = [request EXCEPT ![r].pc = "replace"]
    /\ UNCHANGED <<issued, browserState, stream, history>>

\* POST /session/claim: requireAuth admitted the tab's current token.
Claim(r, b, token, presented) ==
    /\ request[r].pc = "idle"
    /\ loadAuthedUser(token, presented)
    /\ request' = [request EXCEPT ![r] =
          Handler("reload", "claim", b, issued[token].user, token, NoSid,
                  0, issued[token].basis)]
    /\ UNCHANGED <<account, issued, browserState, stream, history>>

\* handleClaimSession reads the row again, and only asks whether it exists.
ClaimReload(r) ==
    /\ request[r].pc = "reload"
    /\ \/ /\ account[request[r].user].status # "deleted"
          /\ request' = [request EXCEPT ![r].pc = "replace"]
       \/ /\ account[request[r].user].status = "deleted"
          /\ Finished(r)
    /\ UNCHANGED <<account, issued, browserState, stream, history>>

\* The session a request would mint, and whether its right to it has been
\* revoked since it was checked.
Minted(r) ==
    [user |-> request[r].user,
     by |-> request[r].kind,
     basis |-> request[r].basis,
     overtaken |-> request[r].basis # revision[request[r].user]]

\* Mutant of WriteSession: a claim writes back the session it was sent with.
WriteSessionOrReuse(r) ==
    LET u == request[r].user
        j == IF request[r].kind = "claim" THEN request[r].token ELSE Len(issued) + 1 IN
    /\ Len(issued) < MaxSid
    /\ issued' = Append(issued, Minted(r))
    /\ account' = IF account[u].status = "deleted" THEN account
                  ELSE [account EXCEPT ![u].activeSessionHash = sessionHash(j)]

\* Issue, and the unconditional UPDATE of ReplaceActiveSession.
WriteSession(r) ==
    LET u == request[r].user IN
    /\ Len(issued) < MaxSid
    /\ issued' = Append(issued, Minted(r))
    /\ account' = IF account[u].status = "deleted" THEN account
                  ELSE [account EXCEPT ![u].activeSessionHash =
                                             sessionHash(Len(issued) + 1)]

\* issueLiveSession up to the return of ReplaceActiveSession.
ReplaceActiveSession(r) ==
    /\ request[r].pc = "replace"
    /\ WriteSession(r)
    /\ request' = [request EXCEPT ![r].pc = "drop", ![r].new = Len(issued) + 1]
    /\ unannounced' = [unannounced EXCEPT ![request[r].user] = FALSE]
    /\ UNCHANGED <<browserState, stream, revision, lastReset>>

\* The UPDATE fails, or commits and its answer is lost with the request's
\* context: either way the handler returns before it reaches the hub.
ReplaceActiveSessionError(r) ==
    /\ request[r].pc = "replace"
    /\ \/ UNCHANGED <<account, issued, unannounced>>
       \/ /\ WriteSession(r)
          /\ unannounced' = [unannounced EXCEPT ![request[r].user] = TRUE]
    /\ Finished(r)
    /\ UNCHANGED <<browserState, stream, revision, lastReset>>

-----------------------------------------------------------------------------
(* handleLogout                                                            *)

\* Without a token the answer clears the jar and nothing else.
LogoutNoToken(r, b) ==
    /\ request[r].pc = "idle"
    /\ cookie[b] = NoSid
    /\ request' = [request EXCEPT ![r] =
          Handler("respond", "logout", b, AnyUser, NoSid, NoSid, 0, 0)]
    /\ UNCHANGED <<account, issued, browserState, stream, history>>

\* The read that decides: is the token's session live, and is this its tab?
Logout(r, b, token, presented) ==
    /\ request[r].pc = "idle"
    /\ token # NoSid
    /\ logoutAction(presented, token, sessionMatches(issued[token].user, token))
    /\ request' = [request EXCEPT ![r] =
          Handler("clear", "logout", b, issued[token].user, token, presented,
                  0, 0)]
    /\ UNCHANGED <<account, issued, browserState, stream, history>>

\* Mutant of ClearActiveSessionIfCurrent: WHERE id = $1 only.
ClearActiveSession(r) ==
    /\ request[r].pc = "clear"
    /\ account' = [account EXCEPT ![request[r].user].activeSessionHash = NULL]
    /\ request' = [request EXCEPT ![r].pc = "drop"]
    /\ UNCHANGED <<issued, browserState, stream, history>>

\* Mutant of ClearActiveSessionIfCurrent: the handler answers without DropUser.
ClearWithoutDrop(r) ==
    /\ request[r].pc = "clear"
    /\ \/ /\ sessionMatches(request[r].user, request[r].token)
          /\ account' = [account EXCEPT ![request[r].user].activeSessionHash = NULL]
       \/ UNCHANGED account
    /\ request' = [request EXCEPT ![r].pc = "respond"]
    /\ UNCHANGED <<issued, browserState, stream, history>>

\* ClearActiveSessionIfCurrent; its error is only logged.
ClearActiveSessionIfCurrent(r) ==
    /\ request[r].pc = "clear"
    /\ \/ /\ sessionMatches(request[r].user, request[r].token)
          /\ account' = [account EXCEPT ![request[r].user].activeSessionHash = NULL]
       \/ UNCHANGED account
    /\ request' = [request EXCEPT ![r].pc = "drop"]
    /\ UNCHANGED <<issued, browserState, stream, history>>

-----------------------------------------------------------------------------
(* RealtimeHub.DropUserExcept, and the answer                              *)

\* Mutant of DropTargets: only the first connection found is closed.
DropTargetsOne(r) ==
    LET all == {c \in Streams : /\ stream[c].pc = "open"
                                /\ stream[c].user = request[r].user
                                /\ stream[c].sid # request[r].new}
    IN  IF all = {} THEN {} ELSE {CHOOSE c \in all : TRUE}

\* Mutant of DropTargets: the session the request came with is spared.
DropTargetsKeepSent(r) ==
    {c \in Streams : /\ stream[c].pc = "open"
                     /\ stream[c].user = request[r].user
                     /\ ~(request[r].new # NoSid /\ stream[c].sid = request[r].token)}

\* The connections to close, collected under the read lock.  DropUser keeps
\* none: its keepSID is empty, as request[r].new is in a logout.
DropTargets(r) ==
    {c \in Streams : /\ stream[c].pc = "open"
                     /\ stream[c].user = request[r].user
                     /\ ~(request[r].new # NoSid /\ stream[c].sid = request[r].new)}

DropCollect(r) ==
    /\ request[r].pc = "drop"
    /\ request' = [request EXCEPT
          ![r].ids = DropTargets(r),
          ![r].pc = IF DropTargets(r) = {} THEN "respond" ELSE "remove"]
    /\ UNCHANGED <<account, issued, browserState, stream, history>>

\* remove(id) for one collected id, each under its own write lock.
DropRemove(r, c) ==
    /\ request[r].pc = "remove"
    /\ c \in request[r].ids
    /\ request' = [request EXCEPT
          ![r].ids = @ \ {c},
          ![r].pc = IF request[r].ids = {c} THEN "respond" ELSE "remove"]
    /\ CloseStream(c)
    /\ UNCHANGED <<account, issued, browserState, history>>

\* The answer reaches the browser: authCookie.set and the session id of a
\* login or claim, authCookie.clear of a logout.
Respond(r) ==
    /\ request[r].pc = "respond"
    /\ LET b == request[r].browser
           j == request[r].new IN
         /\ cookie' = [cookie EXCEPT ![b] = j]
         /\ held' = IF j = NoSid THEN held ELSE [held EXCEPT ![b] = @ \cup {j}]
    /\ Finished(r)
    /\ UNCHANGED <<account, issued, stream, history>>

\* ... or the connection is gone and nobody reads it.
ResponseLost(r) ==
    /\ request[r].pc = "respond"
    /\ Finished(r)
    /\ UNCHANGED <<account, issued, browserState, stream, history>>

-----------------------------------------------------------------------------
(* handleEvents                                                            *)

\* A stream id is a fresh uuid: a slot is reused when nobody remembers it.
Reusable(c) ==
    /\ stream[c].pc = "closed"
    /\ \A r \in Requests : c \notin request[r].ids

\* GET /events is admitted ...
StreamAdmit(c, token, presented) ==
    /\ Reusable(c)
    /\ loadAuthedUser(token, presented)
    /\ stream' = [stream EXCEPT ![c] =
          [pc |-> "admitted", user |-> issued[token].user, sid |-> token,
           late |-> FALSE]]
    /\ UNCHANGED <<account, issued, browserState, request, history>>

\* ... and hub.add registers it.  late: its session had ended in between.
StreamRegister(c) ==
    /\ stream[c].pc = "admitted"
    /\ stream' = [stream EXCEPT
          ![c].pc = "open",
          ![c].late = ~sessionMatches(stream[c].user, stream[c].sid)]
    /\ UNCHANGED <<account, issued, browserState, request, history>>

\* The client goes away and the handler's deferred remove runs.
StreamLeave(c) ==
    /\ stream[c].pc = "open"
    /\ CloseStream(c)
    /\ UNCHANGED <<account, issued, browserState, request, history>>

-----------------------------------------------------------------------------
(* Administrators.  Their handlers tell no stream to close.                *)

Revoke(u) ==
    /\ revision[u] < MaxRevision
    /\ revision' = [revision EXCEPT ![u] = @ + 1]
    /\ unannounced' = [unannounced EXCEPT ![u] = TRUE]

\* SetActive(FALSE).  It returns early when the row it read was inactive; a
\* request that read an active row repeats the UPDATE however late it runs.
Deactivate(u) ==
    /\ account[u].status # "deleted"
    /\ account' = [account EXCEPT ![u].status = "inactive",
                                  ![u].activeSessionHash = NULL]
    /\ Revoke(u)
    /\ UNCHANGED <<issued, browserState, request, stream, lastReset>>

\* SetActive(TRUE).
Activate(u) ==
    /\ account[u].status = "inactive"
    /\ account' = [account EXCEPT ![u].status = "active"]
    /\ UNCHANGED <<issued, browserState, request, stream, history>>

\* Mutant of ResetPassword: the session column is left alone.
ResetPasswordKeepsSession(u) ==
    /\ account[u].status # "deleted"
    /\ account' = [account EXCEPT ![u].password = revision[u] + 1,
                                  ![u].legacy = FALSE]
    /\ Revoke(u)
    /\ lastReset' = [lastReset EXCEPT ![u] = revision[u] + 1]
    /\ UNCHANGED <<issued, browserState, request, stream>>

\* Update with a new password.
ResetPassword(u) ==
    /\ account[u].status # "deleted"
    /\ account' = [account EXCEPT ![u].password = revision[u] + 1,
                                  ![u].legacy = FALSE,
                                  ![u].activeSessionHash = NULL]
    /\ Revoke(u)
    /\ lastReset' = [lastReset EXCEPT ![u] = revision[u] + 1]
    /\ UNCHANGED <<issued, browserState, request, stream>>

\* Delete: the row goes, with the session it holds.
DeleteUser(u) ==
    /\ account[u].status # "deleted"
    /\ account' = [account EXCEPT ![u].status = "deleted",
                                  ![u].activeSessionHash = NULL]
    /\ unannounced' = [unannounced EXCEPT ![u] = TRUE]
    /\ UNCHANGED <<issued, browserState, request, stream, revision, lastReset>>

-----------------------------------------------------------------------------
\* What a request does once it has been sent.
Proceed(r) ==
    \/ UpdatePasswordHash(r)
    \/ ClaimReload(r)
    \/ ReplaceActiveSession(r)
    \/ ReplaceActiveSessionError(r)
    \/ ClearActiveSessionIfCurrent(r)
    \/ DropCollect(r)
    \/ \E c \in Streams : DropRemove(r, c)
    \/ Respond(r)
    \/ ResponseLost(r)

\* What the people behind the browsers do.
Send(r, b) ==
    \/ \E u \in Users : Login(r, b, u)
    \/ LogoutNoToken(r, b)
    \/ \E token \in accessTokens(b), presented \in presentedSids(b) :
          Claim(r, b, token, presented) \/ Logout(r, b, token, presented)

StreamStep(c) ==
    \/ \E b \in Browsers : \E token \in accessTokens(b), presented \in presentedSids(b) :
          StreamAdmit(c, token, presented)
    \/ StreamRegister(c)
    \/ StreamLeave(c)

Administer(u) == Deactivate(u) \/ Activate(u) \/ ResetPassword(u) \/ DeleteUser(u)

Next ==
    \/ \E r \in Requests : Proceed(r) \/ \E b \in Browsers : Send(r, b)
    \/ \E c \in Streams : StreamStep(c)
    \/ \E u \in Users : Administer(u)

Spec == Init /\ [][Next]_vars

\* A goroutine that can run does run, and Postgres answers or errors within
\* statement_timeout; nothing makes people send requests or streams leave.
FairSpec == Spec /\ \A r \in Requests : WF_vars(Proceed(r))

-----------------------------------------------------------------------------
(* Properties                                                              *)

\* Every variable keeps its shape; a token, a session id and a stream's
\* session are ids that were minted.
AccountRow == [status : {"active", "inactive", "deleted"},
               activeSessionHash : {NULL} \cup {sessionHash(j) : j \in 1 .. Len(issued)},
               password : 0 .. MaxRevision,
               legacy : BOOLEAN]

Token == [user : Users, by : {"login", "claim"}, basis : 0 .. MaxRevision,
          overtaken : BOOLEAN]

RequestRow == [pc : PCs, kind : {"none", "login", "claim", "logout"},
               browser : Browsers, user : Users, token : SidRange,
               tab : SidRange, new : SidRange, password : 0 .. MaxRevision,
               basis : 0 .. MaxRevision, ids : SUBSET Streams]

StreamRow == [pc : {"closed", "admitted", "open"}, user : Users,
              sid : SidRange, late : BOOLEAN]

TypeOK ==
    /\ account \in [Users -> AccountRow]
    /\ issued \in Seq(Token)
    /\ cookie \in [Browsers -> SidRange]
    /\ held \in [Browsers -> SUBSET (1 .. Len(issued))]
    /\ request \in [Requests -> RequestRow]
    /\ stream \in [Streams -> StreamRow]
    /\ revision \in [Users -> 0 .. MaxRevision]
    /\ lastReset \in [Users -> 0 .. MaxRevision]
    /\ unannounced \in [Users -> BOOLEAN]

\* An open stream whose session is no longer the live one.
Stale(c) ==
    /\ stream[c].pc = "open"
    /\ ~sessionMatches(stream[c].user, stream[c].sid)

\* Some request is still going to close stream c.
DropPending(c) ==
    \E r \in Requests :
        \/ /\ request[r].pc = "drop"
           /\ request[r].user = stream[c].user
           /\ ~(request[r].new # NoSid /\ request[r].new = stream[c].sid)
        \/ /\ request[r].pc = "remove"
           /\ c \in request[r].ids

\* A stream that was registered while its session was live does not survive
\* the login, claim or logout that ends the session: until the hub has
\* dropped it, some handler is still on its way to do so.  Exempt are a slot
\* last changed by a handler that never reaches the hub (an administrator's,
\* or a failed one) and a stream registered after its session had ended.
StaleStreamsAreDropped ==
    \A c \in Streams :
        Stale(c) => \/ stream[c].late
                    \/ unannounced[stream[c].user]
                    \/ DropPending(c)

\* A session that became live with rights that still stood does not survive
\* a deactivation or a password change: a live session was minted under the
\* account's current revision, or its handler was overtaken by the
\* revocation between its check and its UPDATE.
NoSessionOutlivesRevocation ==
    \A u \in Users : \A j \in 1 .. Len(issued) :
        sessionMatches(u, j) =>
            \/ issued[j].basis = revision[u]
            \/ issued[j].overtaken

\* The password an administrator sets stays until the next one, whatever
\* logins are in flight, for every account not stored as legacy plain text.
ResetPasswordSticks ==
    \A u \in Users \ LegacyUsers : account[u].password = lastReset[u]

\* A session ends by revocation or deletion, by a newer session of the same
\* account, or by a logout sent with that very session's token from a tab
\* that claims no other: a stale tab or a replaced device ends nothing.
LogoutEndsOnlyItsOwnSession ==
    [][\A u \in Users : \A j \in 1 .. Len(issued) :
          sessionMatches(u, j) /\ ~sessionMatches(u, j)' =>
              \/ revision'[u] # revision[u]
              \/ account'[u].status = "deleted"
              \/ Len(issued') > Len(issued)
              \/ \E r \in Requests :
                    /\ request[r].pc = "clear" /\ request'[r].pc # "clear"
                    /\ request[r].token = j
                    /\ request[r].tab \in {NoSid, j}]_vars

\* The session id in u's slot, 0 when the column is NULL.
LiveSid(u) ==
    IF account[u].activeSessionHash = NULL THEN NoSid
    ELSE CHOOSE j \in 1 .. Len(issued) :
            account[u].activeSessionHash = sessionHash(j)

Lifecycle == INSTANCE SessionLifecycle WITH
                 owner <- [j \in 1 .. Len(issued) |-> issued[j].user],
                 live <- [u \in Users |-> LiveSid(u)]

\* The store with its concurrent handlers implements the abstract session
\* slot: no session id is ever live twice, and none in another's slot.
ImplementsLifecycle == Lifecycle!Spec

\* What the map of the hub holds of a stream.
Entry(c) == [id |-> c, user |-> stream[c].user, session |-> stream[c].sid]

\* The arguments of the DropUserExcept a handler is about to make: its
\* account, and the session it has minted (none in a logout).
Call(r) ==
    IF request[r].pc = "drop"
    THEN {[user |-> request[r].user, keep |-> request[r].new]} ELSE {}

Registry == INSTANCE StreamRegistry WITH
                Drops <- Requests,
                Sessions <- 1 .. MaxSid,
                NoSession <- NoSid,
                registry <- {Entry(c) : c \in {d \in Streams : stream[d].pc = "open"}},
                call <- [r \in Requests |-> Call(r)],
                marked <- [r \in Requests |-> request[r].ids]

\* The handlers that sign in and out use the map of streams as its abstract
\* form allows.  A login or claim closes the streams of the account it signs
\* in that were open when it looked, all of them but those of the session it
\* has just minted; a logout all of its account's; neither skips the look,
\* gives up half way or touches another account ("Other accounts are never
\* touched"), although requests and streams run in between.
DropsKeepToTheirOwn == Registry!Spec

\* Under fair scheduling of handlers, such a stale stream is closed.
StaleStreamsAreClosed ==
    \A c \in Streams :
        (Stale(c) /\ ~stream[c].late /\ ~unannounced[stream[c].user])
            ~> (stream[c].pc # "open")

-----------------------------------------------------------------------------
(* What comments and tests say of the program and it does not do           *)

\* issueLiveSession "kicks every other SSE connection for this account":
\* once no handler is left to drop it, no stream of a replaced session is open.
EveryOtherStreamIsKicked ==
    \A c \in Streams :
        Stale(c) => unannounced[stream[c].user] \/ DropPending(c)

=============================================================================
