--------------------------- MODULE SessionProofs ----------------------------
(***************************************************************************)
(* Proofs about Session for every number of accounts, browsers, requests   *)
(* and streams.                                                            *)
(***************************************************************************)
EXTENDS Session, TLAPS

USE SessionAssumption

\* The arbitrary account and browser an idle slot names exist.
LEMMA SomeUserAndBrowser ==
    AnyUser \in Users /\ AnyBrowser \in Browsers
BY DEF SessionAssumption, AnyUser, AnyBrowser

\* A handler's local variables are well typed when what it read is.
LEMMA HandlerType ==
    ASSUME 0 \in SidRange,
           NEW pc \in PCs, NEW kind \in {"none", "login", "claim", "logout"},
           NEW b \in Browsers, NEW u \in Users,
           NEW token \in SidRange, NEW tab \in SidRange,
           NEW password \in 0 .. MaxRevision, NEW basis \in 0 .. MaxRevision
    PROVE  Handler(pc, kind, b, u, token, tab, password, basis) \in RequestRow
BY DEF Handler, RequestRow, NoSid

\* An unused request slot is well typed.
LEMMA IdleType == 0 \in SidRange => Idle \in RequestRow
BY SomeUserAndBrowser, HandlerType DEF Idle, PCs, NoSid

\* The server starts well typed.
LEMMA InitTypeOK == Init => TypeOK
<1> SUFFICES ASSUME Init PROVE TypeOK
  OBVIOUS
<1>1. account \in [Users -> AccountRow]
  BY DEF Init, AccountRow
<1>2. issued \in Seq(Token) /\ SidRange = {0}
  BY DEF Init, SidRange
<1>3. request \in [Requests -> RequestRow]
  BY <1>2, IdleType DEF Init
<1>4. stream \in [Streams -> StreamRow]
  BY <1>2, SomeUserAndBrowser DEF Init, StreamRow, Closed, NoSid
<1>5. QED
  BY <1>1, <1>2, <1>3, <1>4 DEF Init, TypeOK, NoSid

-----------------------------------------------------------------------------
(* Type correctness                                                        *)

\* Minting a token keeps every id that was in range in range.
LEMMA MintGrows ==
    ASSUME TypeOK, NEW t \in Token, issued' = Append(issued, t)
    PROVE  /\ issued' \in Seq(Token)
           /\ Len(issued') = Len(issued) + 1
           /\ \A j \in 1 .. Len(issued) : issued'[j] = issued[j]
           /\ issued'[Len(issued) + 1] = t
           /\ SidRange \subseteq SidRange'
           /\ Len(issued) + 1 \in SidRange'
           /\ AccountRow \subseteq AccountRow'
           /\ RequestRow \subseteq RequestRow'
           /\ StreamRow \subseteq StreamRow'
<1>1. Len(issued) \in Nat
  BY DEF TypeOK
<1>2. /\ issued' \in Seq(Token) /\ Len(issued') = Len(issued) + 1
      /\ \A j \in 1 .. Len(issued) : issued'[j] = issued[j]
      /\ issued'[Len(issued) + 1] = t
  BY DEF TypeOK
<1>3. SidRange \subseteq SidRange' /\ Len(issued) + 1 \in SidRange'
  BY <1>1, <1>2 DEF SidRange
<1>4. AccountRow \subseteq AccountRow'
  <2>1. 1 .. Len(issued) \subseteq 1 .. Len(issued')
    BY <1>1, <1>2
  <2>2. QED
    BY <2>1 DEF AccountRow
<1>5. RequestRow \subseteq RequestRow' /\ StreamRow \subseteq StreamRow'
  BY <1>3 DEF RequestRow, StreamRow
<1>6. QED
  BY <1>2, <1>3, <1>4, <1>5

\* Nothing but a mint changes the ranges.
LEMMA SameRanges ==
    ASSUME UNCHANGED issued
    PROVE  /\ SidRange' = SidRange /\ AccountRow' = AccountRow
           /\ RequestRow' = RequestRow /\ StreamRow' = StreamRow
BY DEF SidRange, AccountRow, RequestRow, StreamRow

\* A finished request is well typed.
LEMMA FinishedType ==
    ASSUME TypeOK, SidRange \subseteq SidRange', NEW r \in Requests,
           RequestRow \subseteq RequestRow', Finished(r), Len(issued) \in Nat
    PROVE  request' \in [Requests -> RequestRow']
<1>1. Idle \in RequestRow
  BY IdleType DEF SidRange
<1>2. QED
  BY <1>1 DEF Finished, TypeOK

\* A token's owner is an account, and its basis a revision.
LEMMA TokenType ==
    ASSUME TypeOK, NEW j \in SidRange, j # NoSid
    PROVE  issued[j] \in Token /\ issued[j].user \in Users
           /\ issued[j].basis \in 0 .. MaxRevision
<1>1. j \in 1 .. Len(issued)
  BY DEF SidRange, NoSid, TypeOK
<1>2. issued[j] \in Token
  BY <1>1 DEF TypeOK
<1>3. QED
  BY <1>2 DEF Token

\* What a client can send: minted ids.
LEMMA SentIds ==
    ASSUME TypeOK, NEW b \in Browsers
    PROVE  accessTokens(b) \subseteq SidRange /\ presentedSids(b) \subseteq SidRange
BY DEF TypeOK, accessTokens, presentedSids, SidRange, NoSid

\* The steps of WriteSession keep the types of rows and tokens.
LEMMA WriteSessionType ==
    ASSUME TypeOK, NEW r \in Requests, WriteSession(r),
           request[r].kind \in {"login", "claim"}
    PROVE  /\ Minted(r) \in Token
           /\ issued' = Append(issued, Minted(r))
           /\ account' \in [Users -> AccountRow']
<1>1. request[r] \in RequestRow /\ request[r].user \in Users
      /\ request[r].basis \in 0 .. MaxRevision
  BY DEF TypeOK, RequestRow
<1>2. Minted(r) \in Token
  BY <1>1 DEF Minted, Token
<1>3. issued' = Append(issued, Minted(r))
  BY DEF WriteSession
<1>4. account' \in [Users -> AccountRow']
  <2>1. AccountRow \subseteq AccountRow' /\ Len(issued') = Len(issued) + 1
    BY <1>2, <1>3, MintGrows
  <2>2. sessionHash(Len(issued) + 1) \in {sessionHash(j) : j \in 1 .. Len(issued')}
    <3>1. Len(issued) + 1 \in 1 .. Len(issued')
      BY <2>1 DEF TypeOK
    <3>2. QED
      BY <3>1
  <2> DEFINE u == request[r].user
             h == sessionHash(Len(issued) + 1)
  <2>3. CASE account[u].status = "deleted"
    BY <2>1, <2>3 DEF WriteSession, TypeOK
  <2>4. CASE account[u].status # "deleted"
    <3>1. account' = [account EXCEPT ![u].activeSessionHash = h]
      BY <2>4 DEF WriteSession
    <3>2. account[u] \in AccountRow /\ u \in Users
      BY <1>1 DEF TypeOK
    <3>3. [account[u] EXCEPT !.activeSessionHash = h] \in AccountRow'
      BY <2>2, <3>2 DEF AccountRow
    <3>4. account' = [account EXCEPT ![u] = [account[u] EXCEPT !.activeSessionHash = h]]
      BY <3>1, <3>2 DEF TypeOK
    <3>5. QED
      BY <2>1, <3>2, <3>3, <3>4 DEF TypeOK
  <2>5. QED
    BY <2>3, <2>4
<1>5. QED
  BY <1>2, <1>3, <1>4

\* What a handler's place in the code says about its local variables.
RequestShape ==
    \A r \in Requests :
        /\ request[r].pc \in {"upgrade", "reload", "replace"} =>
              request[r].kind \in {"login", "claim"} /\ request[r].new = NoSid
        /\ request[r].pc = "clear" =>
              /\ request[r].new = NoSid
              /\ request[r].tab \in {NoSid, request[r].token}

\* No handler is running when the server starts.
LEMMA InitShape == Init => RequestShape
BY DEF Init, RequestShape, Idle, Handler

\* Requests: the row a request writes into its slot decides the types.
LEMMA RequestSlotType ==
    ASSUME TypeOK, UNCHANGED issued, NEW r \in Requests, NEW row \in RequestRow,
           request' = [request EXCEPT ![r] = row]
    PROVE  request' \in [Requests -> RequestRow']
BY SameRanges DEF TypeOK

\* Sending a login, a claim or a logout keeps the types.
LEMMA TypeSend ==
    ASSUME TypeOK, NEW r \in Requests, NEW b \in Browsers, Send(r, b)
    PROVE  TypeOK'
<1>0. UNCHANGED <<account, issued, cookie, held, stream, revision, lastReset, unannounced>>
  BY DEF Send, Login, LogoutNoToken, Claim, Logout, browserState, history
<1>1. SUFFICES request' \in [Requests -> RequestRow']
  BY <1>0, SameRanges DEF TypeOK
<1>2. Len(issued) \in Nat /\ 0 \in SidRange
  BY DEF TypeOK, SidRange
<1>3. 0 \in 0 .. MaxRevision
  OBVIOUS
<1>4. ASSUME NEW u \in Users, Login(r, b, u) PROVE request' \in [Requests -> RequestRow']
  <2>1. account[u].password \in 0 .. MaxRevision /\ revision[u] \in 0 .. MaxRevision
    BY DEF TypeOK, AccountRow
  <2>2. (IF account[u].legacy THEN "upgrade" ELSE "replace") \in PCs
    BY DEF PCs
  <2>3. QED
    BY <1>0, <1>2, <1>4, <2>1, <2>2, HandlerType, RequestSlotType DEF Login, NoSid
<1>5. CASE LogoutNoToken(r, b)
  BY <1>0, <1>2, <1>3, <1>5, SomeUserAndBrowser, HandlerType, RequestSlotType
     DEF LogoutNoToken, NoSid, PCs
<1>6. ASSUME NEW token \in accessTokens(b), NEW presented \in presentedSids(b),
             Claim(r, b, token, presented)
      PROVE  request' \in [Requests -> RequestRow']
  <2>1. token \in SidRange /\ token # NoSid
    BY <1>6, SentIds DEF Claim, loadAuthedUser
  <2>2. issued[token].user \in Users /\ issued[token].basis \in 0 .. MaxRevision
    BY <2>1, TokenType
  <2>3. QED
    BY <1>0, <1>2, <1>3, <1>6, <2>1, <2>2, HandlerType, RequestSlotType
       DEF Claim, NoSid, PCs
<1>7. ASSUME NEW token \in accessTokens(b), NEW presented \in presentedSids(b),
             Logout(r, b, token, presented)
      PROVE  request' \in [Requests -> RequestRow']
  <2>1. token \in SidRange /\ token # NoSid /\ presented \in SidRange
    BY <1>7, SentIds DEF Logout
  <2>2. issued[token].user \in Users
    BY <2>1, TokenType
  <2>3. QED
    BY <1>0, <1>2, <1>3, <1>7, <2>1, <2>2, HandlerType, RequestSlotType
       DEF Logout, PCs
<1>8. QED
  BY <1>4, <1>5, <1>6, <1>7 DEF Send

\* A record of a request with one or two fields replaced keeps its type.
LEMMA RequestFieldType ==
    ASSUME TypeOK, NEW r \in Requests, NEW pc \in PCs, NEW new \in SidRange',
           NEW ids \in SUBSET Streams, RequestRow \subseteq RequestRow'
    PROVE  /\ [request EXCEPT ![r].pc = pc] \in [Requests -> RequestRow']
           /\ [request EXCEPT ![r].pc = pc, ![r].new = new] \in [Requests -> RequestRow']
           /\ [request EXCEPT ![r].ids = ids, ![r].pc = pc] \in [Requests -> RequestRow']
<1>1. request[r] \in RequestRow /\ request[r] \in RequestRow'
  BY DEF TypeOK
<1>2. [request[r] EXCEPT !.pc = pc] \in RequestRow'
  BY <1>1 DEF RequestRow
<1>3. [request[r] EXCEPT !.pc = pc, !.new = new] \in RequestRow'
  BY <1>1 DEF RequestRow
<1>4. [request[r] EXCEPT !.ids = ids, !.pc = pc] \in RequestRow'
  BY <1>1 DEF RequestRow
<1>5. QED
  BY <1>2, <1>3, <1>4 DEF TypeOK

\* The same for an account's row.
LEMMA AccountFieldType ==
    ASSUME TypeOK, UNCHANGED issued, NEW u \in Users,
           NEW st \in {"active", "inactive", "deleted"}, NEW p \in 0 .. MaxRevision
    PROVE  /\ [account EXCEPT ![u].activeSessionHash = NULL] \in [Users -> AccountRow']
           /\ [account EXCEPT ![u].status = st] \in [Users -> AccountRow']
           /\ [account EXCEPT ![u].status = st, ![u].activeSessionHash = NULL]
                 \in [Users -> AccountRow']
           /\ [account EXCEPT ![u].password = p, ![u].legacy = FALSE]
                 \in [Users -> AccountRow']
           /\ [account EXCEPT ![u].password = p, ![u].legacy = FALSE,
                              ![u].activeSessionHash = NULL] \in [Users -> AccountRow']
<1>1. account[u] \in AccountRow /\ AccountRow' = AccountRow
  BY SameRanges DEF TypeOK
<1>2. /\ [account[u] EXCEPT !.activeSessionHash = NULL] \in AccountRow
      /\ [account[u] EXCEPT !.status = st] \in AccountRow
  BY <1>1 DEF AccountRow
<1>3. [account[u] EXCEPT !.status = st, !.activeSessionHash = NULL] \in AccountRow
  BY <1>1 DEF AccountRow
<1>4. [account[u] EXCEPT !.password = p, !.legacy = FALSE] \in AccountRow
  BY <1>1 DEF AccountRow
<1>5. [account[u] EXCEPT !.password = p, !.legacy = FALSE, !.activeSessionHash = NULL]
         \in AccountRow
  BY <1>1 DEF AccountRow
<1>6. QED
  BY <1>1, <1>2, <1>3, <1>4, <1>5 DEF TypeOK

\* A closed stream leaves a well-typed slot.
LEMMA CloseStreamType ==
    ASSUME TypeOK, UNCHANGED issued, NEW c \in Streams, CloseStream(c)
    PROVE  stream' \in [Streams -> StreamRow']
<1>1. Closed \in StreamRow
  BY SomeUserAndBrowser DEF Closed, StreamRow, NoSid, SidRange, TypeOK
<1>2. QED
  BY <1>1, SameRanges DEF CloseStream, TypeOK

\* Every later step of a handler keeps the types.
LEMMA TypeProceed ==
    ASSUME TypeOK, RequestShape, NEW r \in Requests, Proceed(r)
    PROVE  TypeOK'
<1>0. /\ Len(issued) \in Nat /\ 0 \in SidRange
      /\ request[r] \in RequestRow /\ request[r].user \in Users
      /\ request[r].browser \in Browsers /\ request[r].ids \in SUBSET Streams
      /\ request[r].new \in SidRange /\ request[r].password \in 0 .. MaxRevision
  BY DEF TypeOK, SidRange, RequestRow
<1>1. CASE UpdatePasswordHash(r)
  <2>1. UNCHANGED issued /\ request' = [request EXCEPT ![r].pc = "replace"]
    BY <1>1 DEF UpdatePasswordHash
  <2>2. account' \in [Users -> AccountRow']
    <3>1. \/ account' = account
          \/ account' = [account EXCEPT ![request[r].user].password = request[r].password,
                                            ![request[r].user].legacy = FALSE]
      BY <1>1 DEF UpdatePasswordHash
    <3>2. [account EXCEPT ![request[r].user].password = request[r].password,
                                         ![request[r].user].legacy = FALSE] \in [Users -> AccountRow']
      BY <1>0, <2>1, AccountFieldType
    <3>3. QED
      BY <2>1, <3>1, <3>2, SameRanges DEF TypeOK
  <2>3. request' \in [Requests -> RequestRow']
    BY <1>0, <2>1, SameRanges, RequestFieldType DEF PCs
  <2>4. QED
    BY <1>1, <2>1, <2>2, <2>3, SameRanges
       DEF UpdatePasswordHash, TypeOK, browserState, history
<1>2. CASE ClaimReload(r)
  <2>1. UNCHANGED <<account, issued, cookie, held, stream, revision, lastReset, unannounced>>
    BY <1>2 DEF ClaimReload, browserState, history
  <2>2. request' \in [Requests -> RequestRow']
    <3>1. CASE request' = [request EXCEPT ![r].pc = "replace"]
      BY <1>0, <2>1, <3>1, SameRanges, RequestFieldType DEF PCs
    <3>2. CASE Finished(r)
      BY <1>0, <2>1, <3>2, SameRanges, FinishedType
    <3>3. QED
      BY <1>2, <3>1, <3>2 DEF ClaimReload
  <2>3. QED
    BY <2>1, <2>2, SameRanges DEF TypeOK
<1>3. CASE ReplaceActiveSession(r)
  <2>1. request[r].kind \in {"login", "claim"} /\ WriteSession(r)
    BY <1>3 DEF ReplaceActiveSession, RequestShape
  <2>2. /\ Minted(r) \in Token /\ issued' = Append(issued, Minted(r))
        /\ account' \in [Users -> AccountRow']
    BY <2>1, WriteSessionType
  <2>3. /\ issued' \in Seq(Token) /\ SidRange \subseteq SidRange'
        /\ Len(issued) + 1 \in SidRange' /\ Len(issued') = Len(issued) + 1
        /\ RequestRow \subseteq RequestRow' /\ StreamRow \subseteq StreamRow'
    BY <2>2, MintGrows
  <2>4. request' \in [Requests -> RequestRow']
    BY <1>0, <1>3, <2>3, RequestFieldType DEF ReplaceActiveSession, PCs
  <2>5. 1 .. Len(issued) \subseteq 1 .. Len(issued')
    BY <1>0, <2>3
  <2>6. UNCHANGED <<cookie, held, stream, revision, lastReset>>
        /\ unannounced' \in [Users -> BOOLEAN]
    BY <1>3 DEF ReplaceActiveSession, browserState, TypeOK
  <2>7. QED
    BY <2>2, <2>3, <2>4, <2>5, <2>6 DEF TypeOK
<1>4. CASE ReplaceActiveSessionError(r)
  <2>0. UNCHANGED <<cookie, held, stream, revision, lastReset>> /\ Finished(r)
    BY <1>4 DEF ReplaceActiveSessionError, browserState
  <2>1. CASE UNCHANGED <<account, issued, unannounced>>
    BY <1>0, <2>0, <2>1, SameRanges, FinishedType DEF TypeOK
  <2>2. CASE WriteSession(r) /\ unannounced' = [unannounced EXCEPT ![request[r].user] = TRUE]
    <3>1. request[r].kind \in {"login", "claim"}
      BY <1>4 DEF ReplaceActiveSessionError, RequestShape
    <3>2. /\ Minted(r) \in Token /\ issued' = Append(issued, Minted(r))
          /\ account' \in [Users -> AccountRow']
      BY <2>2, <3>1, WriteSessionType
    <3>3. /\ issued' \in Seq(Token) /\ SidRange \subseteq SidRange'
          /\ Len(issued') = Len(issued) + 1
          /\ RequestRow \subseteq RequestRow' /\ StreamRow \subseteq StreamRow'
      BY <3>2, MintGrows
    <3>4. request' \in [Requests -> RequestRow']
      BY <1>0, <2>0, <3>3, FinishedType
    <3>5. 1 .. Len(issued) \subseteq 1 .. Len(issued')
      BY <1>0, <3>3
    <3>6. QED
      BY <2>0, <2>2, <3>2, <3>3, <3>4, <3>5 DEF TypeOK
  <2>3. QED
    BY <1>4, <2>1, <2>2 DEF ReplaceActiveSessionError
<1>5. CASE ClearActiveSessionIfCurrent(r)
  <2>1. UNCHANGED issued /\ request' = [request EXCEPT ![r].pc = "drop"]
    BY <1>5 DEF ClearActiveSessionIfCurrent
  <2>2. account' \in [Users -> AccountRow']
    <3>1. \/ account' = account
          \/ account' = [account EXCEPT ![request[r].user].activeSessionHash = NULL]
      BY <1>5 DEF ClearActiveSessionIfCurrent
    <3>2. [account EXCEPT ![request[r].user].activeSessionHash = NULL] \in [Users -> AccountRow']
      BY <1>0, <2>1, AccountFieldType
    <3>3. QED
      BY <2>1, <3>1, <3>2, SameRanges DEF TypeOK
  <2>3. request' \in [Requests -> RequestRow']
    BY <1>0, <2>1, SameRanges, RequestFieldType DEF PCs
  <2>4. QED
    BY <1>5, <2>1, <2>2, <2>3, SameRanges
       DEF ClearActiveSessionIfCurrent, TypeOK, browserState, history
<1>6. CASE DropCollect(r)
  <2>1. DropTargets(r) \in SUBSET Streams
        /\ (IF DropTargets(r) = {} THEN "respond" ELSE "remove") \in PCs
    BY DEF DropTargets, PCs
  <2>2. UNCHANGED issued
    BY <1>6 DEF DropCollect
  <2>3. request' \in [Requests -> RequestRow']
    BY <1>0, <1>6, <2>1, <2>2, SameRanges, RequestFieldType DEF DropCollect
  <2>4. QED
    BY <1>6, <2>3, SameRanges DEF DropCollect, TypeOK, browserState, history
<1>7. ASSUME NEW c \in Streams, DropRemove(r, c) PROVE TypeOK'
  <2>1. UNCHANGED issued /\ CloseStream(c)
    BY <1>7 DEF DropRemove
  <2>2. request' \in [Requests -> RequestRow']
    <3>1. request[r].ids \ {c} \in SUBSET Streams
          /\ (IF request[r].ids = {c} THEN "respond" ELSE "remove") \in PCs
      BY <1>0 DEF PCs
    <3>2. request' = [request EXCEPT ![r].ids = request[r].ids \ {c},
             ![r].pc = IF request[r].ids = {c} THEN "respond" ELSE "remove"]
      BY <1>7 DEF DropRemove, TypeOK
    <3>3. QED
      BY <1>0, <2>1, <3>1, <3>2, SameRanges, RequestFieldType
  <2>3. QED
    BY <1>7, <2>1, <2>2, CloseStreamType, SameRanges
       DEF DropRemove, TypeOK, browserState, history
<1>8. CASE Respond(r)
  <2>1. UNCHANGED <<account, issued, stream, revision, lastReset, unannounced>> /\ Finished(r)
    BY <1>8 DEF Respond, history
  <2>2. request' \in [Requests -> RequestRow']
    BY <1>0, <2>1, FinishedType, SameRanges
  <2>3. cookie' \in [Browsers -> SidRange]
    BY <1>0, <1>8 DEF Respond, TypeOK
  <2>4. held' \in [Browsers -> SUBSET (1 .. Len(issued))]
    <3>1. request[r].new # NoSid => request[r].new \in 1 .. Len(issued)
      BY <1>0 DEF NoSid, SidRange
    <3>2. QED
      BY <1>0, <1>8, <3>1 DEF Respond, TypeOK
  <2>5. QED
    BY <2>1, <2>2, <2>3, <2>4, SameRanges DEF TypeOK
<1>9. CASE ResponseLost(r)
  <2>1. UNCHANGED <<account, issued, cookie, held, stream, revision, lastReset, unannounced>>
        /\ Finished(r)
    BY <1>9 DEF ResponseLost, browserState, history
  <2>2. QED
    BY <1>0, <2>1, FinishedType, SameRanges DEF TypeOK
<1>10. QED
  BY <1>1, <1>2, <1>3, <1>4, <1>5, <1>6, <1>7, <1>8, <1>9 DEF Proceed

\* The steps of handleEvents keep the types.
LEMMA TypeStream ==
    ASSUME TypeOK, NEW c \in Streams, StreamStep(c)
    PROVE  TypeOK'
<1>0. UNCHANGED <<account, issued, cookie, held, request, revision, lastReset, unannounced>>
  BY DEF StreamStep, StreamAdmit, StreamRegister, StreamLeave, browserState, history
<1>1. SUFFICES stream' \in [Streams -> StreamRow']
  BY <1>0, SameRanges DEF TypeOK
<1>2. ASSUME NEW b \in Browsers, NEW token \in accessTokens(b),
             NEW presented \in presentedSids(b), StreamAdmit(c, token, presented)
      PROVE  stream' \in [Streams -> StreamRow']
  <2>1. token \in SidRange /\ token # NoSid
    BY <1>2, SentIds DEF StreamAdmit, loadAuthedUser
  <2>2. issued[token].user \in Users
    BY <2>1, TokenType
  <2>3. [pc |-> "admitted", user |-> issued[token].user, sid |-> token, late |-> FALSE]
           \in StreamRow
    BY <2>1, <2>2 DEF StreamRow
  <2>4. QED
    BY <1>0, <1>2, <2>3, SameRanges DEF StreamAdmit, TypeOK
<1>3. CASE StreamRegister(c)
  <2>1. stream[c] \in StreamRow
        /\ (~sessionMatches(stream[c].user, stream[c].sid)) \in BOOLEAN
    BY DEF TypeOK, sessionMatches
  <2>2. \A l \in BOOLEAN : [stream[c] EXCEPT !.pc = "open", !.late = l] \in StreamRow
    BY <2>1 DEF StreamRow
  <2>3. stream' = [stream EXCEPT ![c] = [stream[c] EXCEPT !.pc = "open",
                        !.late = ~sessionMatches(stream[c].user, stream[c].sid)]]
    BY <1>3 DEF StreamRegister, TypeOK
  <2>4. QED
    BY <1>0, <2>1, <2>2, <2>3, SameRanges DEF TypeOK
<1>4. CASE StreamLeave(c)
  BY <1>0, <1>4, CloseStreamType DEF StreamLeave
<1>5. QED
  BY <1>2, <1>3, <1>4 DEF StreamStep

\* An administrator's change of a row keeps the types.
LEMMA TypeAdminister ==
    ASSUME TypeOK, NEW u \in Users, Administer(u)
    PROVE  TypeOK'
<1>0. UNCHANGED <<issued, cookie, held, request, stream>>
  BY DEF Administer, Deactivate, Activate, ResetPassword, DeleteUser, browserState
<1>1. revision[u] \in 0 .. MaxRevision /\ unannounced \in [Users -> BOOLEAN]
  BY DEF TypeOK
<1>2. CASE Activate(u)
  BY <1>0, <1>2, AccountFieldType, SameRanges, <1>1 DEF Activate, TypeOK, history
<1>3. CASE DeleteUser(u)
  BY <1>0, <1>1, <1>3, AccountFieldType, SameRanges DEF DeleteUser, TypeOK
<1>4. ASSUME Revoke(u)
      PROVE  /\ revision' \in [Users -> 0 .. MaxRevision]
             /\ unannounced' \in [Users -> BOOLEAN]
             /\ revision[u] + 1 \in 0 .. MaxRevision
  BY <1>1, <1>4 DEF Revoke, TypeOK
<1>5. CASE Deactivate(u)
  BY <1>0, <1>1, <1>4, <1>5, AccountFieldType, SameRanges DEF Deactivate, TypeOK
<1>6. CASE ResetPassword(u)
  <2>1. revision[u] + 1 \in 0 .. MaxRevision
    BY <1>4, <1>6 DEF ResetPassword
  <2>2. account' \in [Users -> AccountRow']
    BY <1>0, <1>6, <2>1, AccountFieldType DEF ResetPassword
  <2>3. lastReset' \in [Users -> 0 .. MaxRevision]
    BY <1>6, <2>1 DEF ResetPassword, TypeOK
  <2>4. QED
    BY <1>0, <1>4, <1>6, <2>2, <2>3, SameRanges DEF ResetPassword, TypeOK
<1>7. QED
  BY <1>2, <1>3, <1>5, <1>6 DEF Administer

\* Every step keeps what a pc says about a handler.
LEMMA ShapeStep == TypeOK /\ RequestShape /\ [Next]_vars => RequestShape'
<1> SUFFICES ASSUME TypeOK, RequestShape, [Next]_vars PROVE RequestShape'
  OBVIOUS
<1> USE DEF RequestShape
<1>1. ASSUME NEW r \in Requests, NEW b \in Browsers, Send(r, b) PROVE RequestShape'
  <2>1. ASSUME NEW u \in Users, Login(r, b, u) PROVE RequestShape'
    <3>1. /\ request'[r].kind = "login" /\ request'[r].new = NoSid
          /\ request'[r].pc # "clear"
      BY <2>1 DEF Login, Handler, TypeOK
    <3>2. \A q \in Requests \ {r} : request'[q] = request[q]
      BY <2>1 DEF Login, TypeOK
    <3>3. QED
      BY <3>1, <3>2
  <2>2. CASE LogoutNoToken(r, b)
    BY <2>2 DEF LogoutNoToken, Handler, TypeOK
  <2>3. ASSUME NEW token, NEW presented, Claim(r, b, token, presented) PROVE RequestShape'
    BY <2>3 DEF Claim, Handler, TypeOK
  <2>4. ASSUME NEW token, NEW presented, Logout(r, b, token, presented) PROVE RequestShape'
    BY <2>4 DEF Logout, logoutAction, Handler, TypeOK
  <2>5. QED
    BY <1>1, <2>1, <2>2, <2>3, <2>4 DEF Send
<1>2. ASSUME NEW r \in Requests, Proceed(r) PROVE RequestShape'
  <2>1. CASE UpdatePasswordHash(r)
    BY <2>1 DEF UpdatePasswordHash, TypeOK, RequestRow
  <2>2. CASE ClaimReload(r)
    <3>1. CASE request' = [request EXCEPT ![r].pc = "replace"]
      BY <2>2, <3>1 DEF ClaimReload, TypeOK, RequestRow
    <3>2. CASE Finished(r)
      BY <3>2 DEF Finished, Idle, Handler, TypeOK
    <3>3. QED
      BY <2>2, <3>1, <3>2 DEF ClaimReload
  <2>3. CASE ReplaceActiveSession(r)
    BY <2>3 DEF ReplaceActiveSession, TypeOK, RequestRow
  <2>4. CASE ReplaceActiveSessionError(r)
    BY <2>4 DEF ReplaceActiveSessionError, Finished, Idle, Handler, TypeOK
  <2>5. CASE ClearActiveSessionIfCurrent(r)
    BY <2>5 DEF ClearActiveSessionIfCurrent, TypeOK, RequestRow
  <2>6. CASE DropCollect(r)
    BY <2>6 DEF DropCollect, TypeOK, RequestRow
  <2>7. ASSUME NEW c \in Streams, DropRemove(r, c) PROVE RequestShape'
    BY <2>7 DEF DropRemove, TypeOK, RequestRow
  <2>8. CASE Respond(r)
    BY <2>8 DEF Respond, Finished, Idle, Handler, TypeOK
  <2>9. CASE ResponseLost(r)
    BY <2>9 DEF ResponseLost, Finished, Idle, Handler, TypeOK
  <2>10. QED
    BY <1>2, <2>1, <2>2, <2>3, <2>4, <2>5, <2>6, <2>7, <2>8, <2>9 DEF Proceed
<1>3. ASSUME UNCHANGED request PROVE RequestShape'
  BY <1>3
<1>4. ASSUME NEW c \in Streams, StreamStep(c) PROVE UNCHANGED request
  BY <1>4 DEF StreamStep, StreamAdmit, StreamRegister, StreamLeave
<1>5. ASSUME NEW u \in Users, Administer(u) PROVE UNCHANGED request
  BY <1>5 DEF Administer, Deactivate, Activate, ResetPassword, DeleteUser
<1>6. CASE UNCHANGED vars
  BY <1>3, <1>6 DEF vars
<1>7. QED
  BY <1>1, <1>2, <1>3, <1>4, <1>5, <1>6 DEF Next

\* Every step keeps the types.
LEMMA TypeStep == TypeOK /\ RequestShape /\ [Next]_vars => TypeOK'
<1> SUFFICES ASSUME TypeOK, RequestShape, [Next]_vars PROVE TypeOK'
  OBVIOUS
<1>1. CASE UNCHANGED vars
  BY <1>1, SameRanges DEF vars, TypeOK
<1>2. QED
  BY <1>1, TypeSend, TypeProceed, TypeStream, TypeAdminister DEF Next

\* Every behaviour keeps the types: in particular a cookie, a token in
\* flight and a stream's session are always ids that were minted.
THEOREM TypeCorrect == Spec => [](TypeOK /\ RequestShape)
BY InitTypeOK, InitShape, TypeStep, ShapeStep, PTL DEF Spec

-----------------------------------------------------------------------------
(* Stale streams                                                           *)

\* The slot of an account the step leaves alone matches what it matched.
LEMMA SameMatches ==
    ASSUME TypeOK, NEW u \in Users, NEW j,
           account'[u].activeSessionHash = account[u].activeSessionHash,
           (account'[u].status = "deleted") = (account[u].status = "deleted")
    PROVE  sessionMatches(u, j)' = sessionMatches(u, j)
BY DEF sessionMatches

\* A step that touches neither rows, tokens nor streams, and takes no
\* pending drop away, preserves the invariant.
LEMMA QuietStep ==
    ASSUME TypeOK, StaleStreamsAreDropped,
           UNCHANGED <<account, stream, unannounced>>,
           \A c \in Streams : Stale(c) /\ DropPending(c) => DropPending(c)'
    PROVE  StaleStreamsAreDropped'
BY DEF StaleStreamsAreDropped, Stale, sessionMatches

\* The slot of r was not dropping, so what was pending is pending still.
LEMMA OtherDropsPending ==
    ASSUME TypeOK, NEW r \in Requests, request[r].pc \notin {"drop", "remove"},
           UNCHANGED stream,
           \A q \in Requests \ {r} : request'[q] = request[q],
           NEW c \in Streams, DropPending(c)
    PROVE  DropPending(c)'
BY DEF DropPending

\* A request that was only sent has closed nothing and ended nothing.
LEMMA StaleSend ==
    ASSUME TypeOK, StaleStreamsAreDropped,
           NEW r \in Requests, NEW b \in Browsers, Send(r, b)
    PROVE  StaleStreamsAreDropped'
<1>1. /\ UNCHANGED <<account, stream, unannounced>>
      /\ request[r].pc = "idle"
      /\ \A q \in Requests \ {r} : request'[q] = request[q]
  BY DEF Send, Login, LogoutNoToken, Claim, Logout, history, TypeOK
<1>2. QED
  BY <1>1, OtherDropsPending, QuietStep

\* A mint in u's slot leaves every older stream of u to r's own drop.
LEMMA StaleReplace ==
    ASSUME TypeOK, RequestShape, StaleStreamsAreDropped,
           NEW r \in Requests, ReplaceActiveSession(r)
    PROVE  StaleStreamsAreDropped'
<1> DEFINE u == request[r].user
<1>0. /\ request[r] \in RequestRow /\ u \in Users /\ Len(issued) \in Nat
      /\ \A c \in Streams : stream[c] \in StreamRow /\ stream[c].user \in Users
                            /\ stream[c].sid \in 0 .. Len(issued)
  BY DEF TypeOK, RequestRow, StreamRow, SidRange
<1>1. /\ request'[r].pc = "drop" /\ request'[r].user = u
      /\ request'[r].new = Len(issued) + 1
      /\ \A q \in Requests \ {r} : request'[q] = request[q]
      /\ request[r].pc = "replace" /\ UNCHANGED stream
  BY <1>0 DEF ReplaceActiveSession, TypeOK, RequestRow
<1>2. ASSUME NEW c \in Streams, Stale(c)', ~stream[c].late,
             ~unannounced'[stream[c].user]
      PROVE  DropPending(c)'
  <2>1. CASE stream[c].user = u
    BY <1>0, <1>1, <2>1 DEF DropPending, NoSid
  <2>2. CASE stream[c].user # u
    <3>1. account'[stream[c].user] = account[stream[c].user]
          /\ unannounced'[stream[c].user] = unannounced[stream[c].user]
      BY <1>0, <2>2 DEF ReplaceActiveSession, WriteSession, TypeOK
    <3>2. Stale(c)
      BY <1>0, <1>1, <1>2, <3>1, SameMatches DEF Stale
    <3>3. DropPending(c)
      BY <1>2, <3>1, <3>2 DEF StaleStreamsAreDropped
    <3>4. QED
      BY <1>1, <3>3, OtherDropsPending
  <2>3. QED
    BY <2>1, <2>2
<1>3. QED
  BY <1>1, <1>2 DEF StaleStreamsAreDropped

\* A slot changed by somebody who tells no one: its account is exempt, the
\* others are as they were.
LEMMA StaleUnannounced ==
    ASSUME TypeOK, StaleStreamsAreDropped, NEW u \in Users,
           unannounced'[u], UNCHANGED stream,
           \A v \in Users \ {u} : account'[v] = account[v]
                                  /\ unannounced'[v] = unannounced[v],
           \A c \in Streams : DropPending(c) => DropPending(c)'
    PROVE  StaleStreamsAreDropped'
<1>1. \A c \in Streams : stream[c].user \in Users
  BY DEF TypeOK, StreamRow
<1>2. ASSUME NEW c \in Streams, stream[c].user # u, Stale(c)'
      PROVE  Stale(c)
  BY <1>1, <1>2, SameMatches DEF Stale
<1>3. QED
  BY <1>1, <1>2 DEF StaleStreamsAreDropped

\* A mint whose answer is lost exempts its own account only.
LEMMA StaleReplaceError ==
    ASSUME TypeOK, StaleStreamsAreDropped,
           NEW r \in Requests, ReplaceActiveSessionError(r)
    PROVE  StaleStreamsAreDropped'
<1> DEFINE u == request[r].user
<1>0. u \in Users /\ unannounced \in [Users -> BOOLEAN] /\ account \in [Users -> AccountRow]
  BY DEF TypeOK, RequestRow
<1>1. /\ request[r].pc = "replace" /\ UNCHANGED stream
      /\ \A q \in Requests \ {r} : request'[q] = request[q]
  BY DEF ReplaceActiveSessionError, Finished, TypeOK
<1>2. \A c \in Streams : DropPending(c) => DropPending(c)'
  BY <1>1, OtherDropsPending
<1>3. CASE UNCHANGED <<account, issued, unannounced>>
  BY <1>1, <1>2, <1>3, QuietStep
<1>4. CASE WriteSession(r) /\ unannounced' = [unannounced EXCEPT ![u] = TRUE]
  <2>1. \A v \in Users \ {u} : account'[v] = account[v] /\ unannounced'[v] = unannounced[v]
    BY <1>0, <1>4 DEF WriteSession
  <2>2. unannounced'[u]
    BY <1>0, <1>4
  <2>3. QED
    BY <1>0, <1>1, <1>2, <2>1, <2>2, StaleUnannounced
<1>5. QED
  BY <1>3, <1>4 DEF ReplaceActiveSessionError

\* A logout that empties the slot goes on to drop every stream of the account.
LEMMA StaleClear ==
    ASSUME TypeOK, RequestShape, StaleStreamsAreDropped,
           NEW r \in Requests, ClearActiveSessionIfCurrent(r)
    PROVE  StaleStreamsAreDropped'
<1> DEFINE u == request[r].user
<1>0. /\ request[r] \in RequestRow /\ u \in Users
      /\ \A c \in Streams : stream[c].user \in Users
  BY DEF TypeOK, RequestRow, StreamRow
<1>1. /\ request'[r].pc = "drop" /\ request'[r].user = u /\ request'[r].new = NoSid
      /\ \A q \in Requests \ {r} : request'[q] = request[q]
      /\ request[r].pc = "clear" /\ UNCHANGED <<stream, unannounced>>
  BY <1>0 DEF ClearActiveSessionIfCurrent, TypeOK, RequestRow, RequestShape, history
<1>2. ASSUME NEW c \in Streams, Stale(c)', ~stream[c].late,
             ~unannounced[stream[c].user]
      PROVE  DropPending(c)'
  <2>1. CASE stream[c].user = u
    BY <1>0, <1>1, <2>1 DEF DropPending
  <2>2. CASE stream[c].user # u
    <3>1. account'[stream[c].user] = account[stream[c].user]
      BY <1>0, <2>2 DEF ClearActiveSessionIfCurrent, TypeOK
    <3>2. Stale(c)
      BY <1>0, <1>1, <1>2, <3>1, SameMatches DEF Stale
    <3>3. QED
      BY <1>1, <1>2, <3>2, OtherDropsPending DEF StaleStreamsAreDropped
  <2>3. QED
    BY <2>1, <2>2
<1>3. QED
  BY <1>1, <1>2 DEF StaleStreamsAreDropped

\* Every stream r had still to drop is among the ids it collects.
LEMMA StaleCollect ==
    ASSUME TypeOK, StaleStreamsAreDropped, NEW r \in Requests, DropCollect(r)
    PROVE  StaleStreamsAreDropped'
<1>0. request[r] \in RequestRow
  BY DEF TypeOK
<1>1. /\ UNCHANGED <<account, stream, unannounced>> /\ request[r].pc = "drop"
      /\ \A q \in Requests \ {r} : request'[q] = request[q]
      /\ request'[r].ids = DropTargets(r)
      /\ request'[r].pc = IF DropTargets(r) = {} THEN "respond" ELSE "remove"
  BY <1>0 DEF DropCollect, history, TypeOK, RequestRow
<1>2. ASSUME NEW c \in Streams, Stale(c), DropPending(c)
      PROVE  DropPending(c)'
  <2>1. PICK q \in Requests :
            \/ /\ request[q].pc = "drop"
               /\ request[q].user = stream[c].user
               /\ ~(request[q].new # NoSid /\ request[q].new = stream[c].sid)
            \/ request[q].pc = "remove" /\ c \in request[q].ids
    BY <1>2 DEF DropPending
  <2>2. CASE q = r
    <3>1. c \in DropTargets(r)
      BY <1>1, <1>2, <2>1, <2>2 DEF DropTargets, Stale
    <3>2. QED
      BY <1>1, <3>1 DEF DropPending
  <2>3. CASE q # r
    BY <1>1, <2>1, <2>3 DEF DropPending
  <2>4. QED
    BY <2>2, <2>3
<1>3. QED
  BY <1>1, <1>2, QuietStep

\* Closing one stream leaves the others to whoever was to drop them.
LEMMA StaleRemove ==
    ASSUME TypeOK, StaleStreamsAreDropped,
           NEW r \in Requests, NEW d \in Streams, DropRemove(r, d)
    PROVE  StaleStreamsAreDropped'
<1>0. request[r] \in RequestRow /\ stream \in [Streams -> StreamRow]
  BY DEF TypeOK
<1>1. /\ UNCHANGED <<account, unannounced>>
      /\ request[r].pc = "remove" /\ d \in request[r].ids
      /\ \A q \in Requests \ {r} : request'[q] = request[q]
      /\ request'[r].ids = request[r].ids \ {d}
      /\ request'[r].pc = IF request[r].ids = {d} THEN "respond" ELSE "remove"
      /\ stream'[d].pc = "closed"
      /\ \A c \in Streams \ {d} : stream'[c] = stream[c]
  BY <1>0 DEF DropRemove, history, TypeOK, RequestRow, CloseStream, Closed
<1>2. ASSUME NEW c \in Streams \ {d}, DropPending(c)
      PROVE  DropPending(c)'
  <2>1. PICK q \in Requests :
            \/ /\ request[q].pc = "drop"
               /\ request[q].user = stream[c].user
               /\ ~(request[q].new # NoSid /\ request[q].new = stream[c].sid)
            \/ request[q].pc = "remove" /\ c \in request[q].ids
    BY <1>2 DEF DropPending
  <2>2. CASE q = r
    BY <1>1, <1>2, <2>1, <2>2 DEF DropPending
  <2>3. CASE q # r
    BY <1>1, <2>1, <2>3 DEF DropPending
  <2>4. QED
    BY <2>2, <2>3
<1>3. \A c \in Streams : Stale(c)' => c # d /\ Stale(c) /\ stream'[c] = stream[c]
  BY <1>1 DEF Stale, sessionMatches
<1>4. QED
  BY <1>1, <1>2, <1>3 DEF StaleStreamsAreDropped

\* Every later step of a handler keeps the promise about stale streams.
LEMMA StaleProceed ==
    ASSUME TypeOK, RequestShape, StaleStreamsAreDropped, NEW r \in Requests, Proceed(r)
    PROVE  StaleStreamsAreDropped'
<1>1. CASE UpdatePasswordHash(r)
  <2>1. /\ request[r].pc = "upgrade" /\ UNCHANGED <<stream, unannounced>>
        /\ \A q \in Requests \ {r} : request'[q] = request[q]
    BY <1>1 DEF UpdatePasswordHash, TypeOK, history
  <2>2. ASSUME NEW v \in Users
        PROVE  /\ account'[v].activeSessionHash = account[v].activeSessionHash
               /\ account'[v].status = account[v].status
    <3>1. request[r].user \in Users /\ account[request[r].user] \in AccountRow
          /\ account \in [Users -> AccountRow]
      BY DEF TypeOK, RequestRow
    <3>2. CASE UNCHANGED account
      BY <3>2
    <3>3. CASE account' = [account EXCEPT ![request[r].user].password = request[r].password,
                                          ![request[r].user].legacy = FALSE]
      BY <3>1, <3>3 DEF AccountRow
    <3>4. QED
      BY <1>1, <3>2, <3>3 DEF UpdatePasswordHash
  <2>3. \A c \in Streams : Stale(c)' => Stale(c)
    BY <2>1, <2>2 DEF Stale, sessionMatches, TypeOK, StreamRow
  <2>4. QED
    BY <2>1, <2>3, OtherDropsPending DEF StaleStreamsAreDropped
<1>2. CASE ClaimReload(r) \/ Respond(r) \/ ResponseLost(r)
  <2>1. /\ UNCHANGED <<account, stream, unannounced>>
        /\ request[r].pc \notin {"drop", "remove"}
        /\ \A q \in Requests \ {r} : request'[q] = request[q]
    BY <1>2 DEF ClaimReload, Respond, ResponseLost, Finished, history, TypeOK
  <2>2. QED
    BY <2>1, OtherDropsPending, QuietStep
<1>3. QED
  BY <1>1, <1>2, StaleReplace, StaleReplaceError, StaleClear, StaleCollect, StaleRemove
     DEF Proceed

\* A stream can only become stale at registration by being late.
LEMMA StaleStream ==
    ASSUME TypeOK, StaleStreamsAreDropped, NEW d \in Streams, StreamStep(d)
    PROVE  StaleStreamsAreDropped'
<1>1. /\ UNCHANGED <<account, request, unannounced>>
      /\ \A c \in Streams \ {d} : stream'[c] = stream[c]
  BY DEF StreamStep, StreamAdmit, StreamRegister, StreamLeave, CloseStream, history, TypeOK
<1>2. ASSUME NEW c \in Streams \ {d}, Stale(c)'
      PROVE  /\ Stale(c) /\ stream'[c] = stream[c]
             /\ DropPending(c) => DropPending(c)'
  BY <1>1, <1>2 DEF Stale, sessionMatches, DropPending
<1>3. Stale(d)' => stream'[d].late
  <2>1. CASE StreamRegister(d)
    <3>1. /\ stream'[d].user = stream[d].user /\ stream'[d].sid = stream[d].sid
          /\ stream'[d].late = ~sessionMatches(stream[d].user, stream[d].sid)
      BY <2>1 DEF StreamRegister, TypeOK, StreamRow
    <3>2. QED
      BY <1>1, <3>1 DEF Stale, sessionMatches
  <2>2. CASE StreamLeave(d)
    BY <2>2 DEF StreamLeave, CloseStream, Closed, Stale, TypeOK
  <2>3. ASSUME NEW token, NEW presented, StreamAdmit(d, token, presented)
        PROVE  ~Stale(d)'
    BY <2>3 DEF StreamAdmit, Stale, TypeOK
  <2>4. QED
    BY <2>1, <2>2, <2>3 DEF StreamStep, Stale
<1>4. QED
  BY <1>1, <1>2, <1>3 DEF StaleStreamsAreDropped

\* An administrator ends sessions of accounts that are then exempt.
LEMMA StaleAdminister ==
    ASSUME TypeOK, StaleStreamsAreDropped, NEW u \in Users, Administer(u)
    PROVE  StaleStreamsAreDropped'
<1>1. UNCHANGED <<stream, request>>
  BY DEF Administer, Deactivate, Activate, ResetPassword, DeleteUser
<1>2. \A c \in Streams : DropPending(c) => DropPending(c)'
  BY <1>1 DEF DropPending
<1>3. CASE Activate(u)
  <2>1. \A v \in Users :
           /\ account'[v].activeSessionHash = account[v].activeSessionHash
           /\ (account'[v].status = "deleted") = (account[v].status = "deleted")
    BY <1>3 DEF Activate, TypeOK, AccountRow
  <2>2. \A c \in Streams : Stale(c)' => Stale(c)
    BY <1>1, <2>1 DEF Stale, sessionMatches, TypeOK, StreamRow
  <2>3. QED
    BY <1>1, <1>2, <1>3, <2>2 DEF Activate, history, StaleStreamsAreDropped
<1>4. CASE Deactivate(u) \/ ResetPassword(u) \/ DeleteUser(u)
  <2>1. /\ unannounced' = [unannounced EXCEPT ![u] = TRUE]
        /\ \A v \in Users \ {u} : account'[v] = account[v]
    BY <1>4 DEF Deactivate, ResetPassword, DeleteUser, Revoke, TypeOK
  <2>2. unannounced'[u] /\ \A v \in Users \ {u} : unannounced'[v] = unannounced[v]
    BY <2>1 DEF TypeOK
  <2>3. QED
    BY <1>1, <1>2, <2>1, <2>2, StaleUnannounced
<1>5. QED
  BY <1>3, <1>4 DEF Administer

\* Login, claim and logout close every stream that was registered while the
\* session they end was live, whatever they race with (issueLiveSession and
\* handleLogout with DropUserExcept).
THEOREM StaleStreamsDropped == Spec => []StaleStreamsAreDropped
<1>1. Init => StaleStreamsAreDropped
  BY DEF Init, StaleStreamsAreDropped, Stale, Closed
<1>2. TypeOK /\ RequestShape /\ StaleStreamsAreDropped /\ [Next]_vars
         => StaleStreamsAreDropped'
  <2> SUFFICES ASSUME TypeOK, RequestShape, StaleStreamsAreDropped, [Next]_vars
               PROVE  StaleStreamsAreDropped'
    OBVIOUS
  <2>1. CASE UNCHANGED vars
    <3>1. UNCHANGED <<account, stream, request, unannounced>>
      BY <2>1 DEF vars
    <3>2. QED
      BY <3>1, QuietStep DEF DropPending
  <2>2. QED
    BY <2>1, StaleSend, StaleProceed, StaleStream, StaleAdminister DEF Next
<1>3. QED
  BY <1>1, <1>2, TypeCorrect, PTL DEF Spec

-----------------------------------------------------------------------------
(* What a step may do to the session slots                                 *)

\* Digests of two ids are equal for equal ids only, and none is NULL.
LEMMA HashInjective ==
    ASSUME NEW i, NEW j
    PROVE  /\ sessionHash(i) = sessionHash(j) => i = j
           /\ sessionHash(i) # NULL
BY DEF sessionHash, NULL

\* A session in a slot was minted.
LEMMA LiveIsMinted ==
    ASSUME TypeOK, NEW u \in Users, NEW j, account[u].activeSessionHash = sessionHash(j)
    PROVE  j \in 1 .. Len(issued)
<1>1. sessionHash(j) \in {NULL} \cup {sessionHash(i) : i \in 1 .. Len(issued)}
  BY DEF TypeOK, AccountRow
<1>2. QED
  BY <1>1, HashInjective

\* No session starts or ends, no right is revoked.
SlotsKept ==
    /\ UNCHANGED <<issued, revision>>
    /\ \A u \in Users :
          /\ account'[u].activeSessionHash = account[u].activeSessionHash
          /\ account'[u].status = "deleted" <=> account[u].status = "deleted"

\* A login or a claim mints a session.
SlotTaken(r) ==
    request[r].pc = "replace" /\ WriteSession(r) /\ UNCHANGED revision

\* A logout empties the slot it was sent from.
SlotCleared(r) ==
    /\ request[r].pc = "clear" /\ request'[r].pc = "drop"
    /\ sessionMatches(request[r].user, request[r].token)
    /\ account' = [account EXCEPT ![request[r].user].activeSessionHash = NULL]
    /\ UNCHANGED <<issued, revision>>

\* An administrator empties u's slot, and revokes u's access or deletes u.
SlotRevoked(u) ==
    /\ UNCHANGED issued
    /\ account'[u].activeSessionHash = NULL
    /\ \A v \in Users \ {u} : account'[v] = account[v] /\ revision'[v] = revision[v]
    /\ revision'[u] # revision[u] \/ account'[u].status = "deleted"

\* The steps of the server, as far as the slots are concerned.
LEMMA SlotStep ==
    ASSUME TypeOK, [Next]_vars
    PROVE  \/ SlotsKept
           \/ \E r \in Requests : SlotTaken(r) \/ SlotCleared(r)
           \/ \E u \in Users : SlotRevoked(u)
<1>1. ASSUME UNCHANGED <<account, issued, revision>> PROVE SlotsKept
  BY <1>1 DEF SlotsKept
<1>2. CASE UNCHANGED vars
  BY <1>1, <1>2 DEF vars
<1>3. ASSUME NEW r \in Requests, NEW b \in Browsers, Send(r, b) PROVE SlotsKept
  BY <1>1, <1>3 DEF Send, Login, LogoutNoToken, Claim, Logout, history
<1>4. ASSUME NEW c \in Streams, StreamStep(c) PROVE SlotsKept
  BY <1>1, <1>4 DEF StreamStep, StreamAdmit, StreamRegister, StreamLeave, history
<1>5. ASSUME NEW r \in Requests, Proceed(r)
      PROVE  SlotsKept \/ SlotTaken(r) \/ SlotCleared(r)
  <2>1. CASE UpdatePasswordHash(r)
    <3>1. request[r].user \in Users /\ account[request[r].user] \in AccountRow
          /\ account \in [Users -> AccountRow] /\ UNCHANGED <<issued, revision>>
      BY <2>1 DEF TypeOK, RequestRow, UpdatePasswordHash, history
    <3>2. CASE UNCHANGED account
      BY <1>1, <3>1, <3>2
    <3>3. CASE account' = [account EXCEPT ![request[r].user].password = request[r].password,
                                          ![request[r].user].legacy = FALSE]
      BY <3>1, <3>3 DEF AccountRow, SlotsKept
    <3>4. QED
      BY <2>1, <3>2, <3>3 DEF UpdatePasswordHash
  <2>2. CASE \/ ClaimReload(r) \/ DropCollect(r) \/ Respond(r) \/ ResponseLost(r)
             \/ \E c \in Streams : DropRemove(r, c)
    BY <1>1, <2>2 DEF ClaimReload, DropCollect, Respond, ResponseLost, DropRemove, history
  <2>3. CASE ReplaceActiveSession(r)
    BY <2>3 DEF ReplaceActiveSession, SlotTaken
  <2>4. CASE ReplaceActiveSessionError(r)
    BY <1>1, <2>4 DEF ReplaceActiveSessionError, SlotTaken
  <2>5. CASE ClearActiveSessionIfCurrent(r)
    <3>1. request'[r].pc = "drop" /\ UNCHANGED <<issued, revision>>
      BY <2>5 DEF ClearActiveSessionIfCurrent, TypeOK, RequestRow, history
    <3>2. QED
      BY <1>1, <2>5, <3>1 DEF ClearActiveSessionIfCurrent, SlotCleared
  <2>6. QED
    BY <1>5, <2>1, <2>2, <2>3, <2>4, <2>5 DEF Proceed
<1>6. ASSUME NEW u \in Users, Administer(u) PROVE SlotsKept \/ SlotRevoked(u)
  <2>0. /\ account[u] \in AccountRow /\ account \in [Users -> AccountRow]
        /\ revision[u] \in Nat /\ revision \in [Users -> 0 .. MaxRevision]
    BY DEF TypeOK
  <2>1. CASE Activate(u)
    BY <2>0, <2>1 DEF Activate, history, SlotsKept, AccountRow
  <2>2. ASSUME Revoke(u)
        PROVE  revision'[u] # revision[u] /\ \A v \in Users \ {u} : revision'[v] = revision[v]
    BY <2>0, <2>2 DEF Revoke
  <2>3. CASE Deactivate(u)
    BY <2>0, <2>2, <2>3 DEF Deactivate, SlotRevoked, AccountRow
  <2>4. CASE ResetPassword(u)
    BY <2>0, <2>2, <2>4 DEF ResetPassword, SlotRevoked, AccountRow
  <2>5. CASE DeleteUser(u)
    BY <2>0, <2>5 DEF DeleteUser, SlotRevoked, AccountRow
  <2>6. QED
    BY <1>6, <2>1, <2>3, <2>4, <2>5 DEF Administer
<1>7. QED
  BY <1>2, <1>3, <1>4, <1>5, <1>6 DEF Next
-----------------------------------------------------------------------------
(* Revocation, logout and the abstract session slot                        *)

\* What a mint does: the new id, and the slot it may enter.
LEMMA MintStep ==
    ASSUME TypeOK, RequestShape, NEW r \in Requests, SlotTaken(r)
    PROVE  /\ request[r].user \in Users /\ Len(issued) \in Nat
           /\ Len(issued') = Len(issued) + 1
           /\ \A j \in 1 .. Len(issued) : issued'[j] = issued[j]
           /\ issued'[Len(issued) + 1] = Minted(r)
           /\ issued' \in Seq(Token)
           /\ \A v \in Users \ {request[r].user} : account'[v] = account[v]
           /\ IF account[request[r].user].status = "deleted"
              THEN account' = account
              ELSE /\ account'[request[r].user].activeSessionHash =
                          sessionHash(Len(issued) + 1)
                   /\ account'[request[r].user].status = account[request[r].user].status
<1>1. request[r].kind \in {"login", "claim"}
  BY DEF SlotTaken, RequestShape
<1>2. Minted(r) \in Token /\ issued' = Append(issued, Minted(r))
  BY <1>1, WriteSessionType DEF SlotTaken
<1>3. request[r].user \in Users /\ Len(issued) \in Nat
      /\ account[request[r].user] \in AccountRow /\ account \in [Users -> AccountRow]
  BY DEF TypeOK, RequestRow
<1>4. QED
  BY <1>2, <1>3, MintGrows DEF SlotTaken, WriteSession, AccountRow

\* Deactivation and a password change end the live session, and a login or
\* claim whose UPDATE comes later is the only way round it: SetActive and
\* Update null the column in the statement that revokes, and no other
\* statement restores an older id.
THEOREM SessionsEndWithRevocation == Spec => []NoSessionOutlivesRevocation
<1>1. Init => NoSessionOutlivesRevocation
  BY DEF Init, NoSessionOutlivesRevocation
<1>2. ASSUME TypeOK, RequestShape, NoSessionOutlivesRevocation, [Next]_vars
      PROVE  NoSessionOutlivesRevocation'
  <2> SUFFICES ASSUME NEW u \in Users, NEW j \in 1 .. Len(issued'), sessionMatches(u, j)'
               PROVE  issued'[j].basis = revision'[u] \/ issued'[j].overtaken
    BY DEF NoSessionOutlivesRevocation
  <2>1. CASE SlotsKept
    <3>1. sessionMatches(u, j) /\ j \in 1 .. Len(issued)
      BY <2>1 DEF SlotsKept, sessionMatches
    <3>2. QED
      BY <1>2, <2>1, <3>1 DEF SlotsKept, NoSessionOutlivesRevocation
  <2>2. ASSUME NEW r \in Requests, SlotTaken(r)
        PROVE  issued'[j].basis = revision'[u] \/ issued'[j].overtaken
    <3>1. CASE j \in 1 .. Len(issued)
      <4>1. account'[u] = account[u] \/ u = request[r].user
        BY <1>2, <2>2, MintStep
      <4>2. account'[u] = account[u]
        <5>1. CASE u = request[r].user /\ account[u].status # "deleted"
          <6>1. account'[u].activeSessionHash = sessionHash(Len(issued) + 1)
            BY <1>2, <2>2, <5>1, MintStep
          <6>2. j = Len(issued) + 1
            BY <6>1, HashInjective DEF sessionMatches
          <6>3. QED
            BY <1>2, <3>1, <6>2 DEF TypeOK
        <5>2. QED
          BY <1>2, <2>2, <4>1, <5>1, MintStep
      <4>3. sessionMatches(u, j)
        BY <4>2 DEF sessionMatches
      <4>4. issued'[j] = issued[j] /\ revision' = revision
        BY <1>2, <2>2, <3>1, MintStep DEF SlotTaken
      <4>5. QED
        BY <1>2, <3>1, <4>3, <4>4 DEF NoSessionOutlivesRevocation
    <3>2. CASE j = Len(issued) + 1
      <4>1. u = request[r].user
        <5>1. account'[u] # account[u]
          <6>1. j \notin 1 .. Len(issued)
            BY <1>2, <3>2 DEF TypeOK
          <6>2. account[u].activeSessionHash # sessionHash(j)
            BY <1>2, <6>1, LiveIsMinted
          <6>3. QED
            BY <6>2 DEF sessionMatches
        <5>2. QED
          BY <1>2, <2>2, <5>1, MintStep
      <4>2. issued'[j] = Minted(r) /\ revision' = revision
        BY <1>2, <2>2, <3>2, MintStep DEF SlotTaken
      <4>3. Minted(r).basis = revision[u] \/ Minted(r).overtaken
        BY <4>1 DEF Minted
      <4>4. QED
        BY <4>2, <4>3
    <3>3. QED
      BY <1>2, <2>2, <3>1, <3>2, MintStep
  <2>3. ASSUME NEW r \in Requests, SlotCleared(r)
        PROVE  issued'[j].basis = revision'[u] \/ issued'[j].overtaken
    <3>0. account \in [Users -> AccountRow] /\ request[r].user \in Users
          /\ account[u] \in AccountRow /\ UNCHANGED <<issued, revision>>
      BY <1>2, <2>3 DEF TypeOK, RequestRow, SlotCleared
    <3>1. CASE u = request[r].user
      <4>1. account'[u].activeSessionHash = NULL
        BY <2>3, <3>0, <3>1 DEF SlotCleared, AccountRow
      <4>2. QED
        BY <4>1, HashInjective DEF sessionMatches
    <3>2. CASE u # request[r].user
      <4>1. account'[u] = account[u]
        BY <2>3, <3>0, <3>2 DEF SlotCleared
      <4>2. sessionMatches(u, j)
        BY <4>1 DEF sessionMatches
      <4>3. QED
        BY <1>2, <3>0, <4>2 DEF NoSessionOutlivesRevocation
    <3>3. QED
      BY <3>1, <3>2
  <2>4. ASSUME NEW v \in Users, SlotRevoked(v)
        PROVE  issued'[j].basis = revision'[u] \/ issued'[j].overtaken
    <3>1. CASE u = v
      BY <2>4, <3>1, HashInjective DEF SlotRevoked, sessionMatches
    <3>2. CASE u # v
      <4>1. account'[u] = account[u] /\ revision'[u] = revision[u] /\ UNCHANGED issued
        BY <2>4, <3>2 DEF SlotRevoked
      <4>2. sessionMatches(u, j)
        BY <4>1 DEF sessionMatches
      <4>3. QED
        BY <1>2, <4>1, <4>2 DEF NoSessionOutlivesRevocation
    <3>3. QED
      BY <3>1, <3>2
  <2>5. QED
    BY <1>2, <2>1, <2>2, <2>3, <2>4, SlotStep
<1>3. QED
  BY <1>1, <1>2, TypeCorrect, PTL DEF Spec

\* ClearActiveSessionIfCurrent compares before it clears, and logoutAction
\* refuses a tab that presents another session: a logout ends the session it
\* was sent with and no other.
THEOREM LogoutEndsItsOwn == Spec => LogoutEndsOnlyItsOwnSession
<1> DEFINE Ended(u, j) == sessionMatches(u, j) /\ ~sessionMatches(u, j)'
           Reason(u, j) ==
              \/ revision'[u] # revision[u]
              \/ account'[u].status = "deleted"
              \/ Len(issued') > Len(issued)
              \/ \E r \in Requests :
                    /\ request[r].pc = "clear" /\ request'[r].pc # "clear"
                    /\ request[r].token = j
                    /\ request[r].tab \in {NoSid, j}
           OneStep == \A u \in Users : \A j \in 1 .. Len(issued) :
                         Ended(u, j) => Reason(u, j)
<1>1. ASSUME TypeOK, RequestShape, [Next]_vars PROVE OneStep
  <2> SUFFICES ASSUME NEW u \in Users, NEW j \in 1 .. Len(issued), Ended(u, j)
               PROVE  Reason(u, j)
    OBVIOUS
  <2>1. CASE SlotsKept
    BY <2>1 DEF SlotsKept, sessionMatches
  <2>2. ASSUME NEW r \in Requests, SlotTaken(r) PROVE Reason(u, j)
    BY <1>1, <2>2, MintStep
  <2>3. ASSUME NEW r \in Requests, SlotCleared(r) PROVE Reason(u, j)
    <3>0. account \in [Users -> AccountRow] /\ request[r].user \in Users
      BY <1>1 DEF TypeOK, RequestRow
    <3>1. u = request[r].user
      BY <2>3, <3>0 DEF SlotCleared, sessionMatches
    <3>2. request[r].token = j
      BY <2>3, <3>1, HashInjective DEF SlotCleared, sessionMatches
    <3>3. request[r].tab \in {NoSid, j}
      BY <1>1, <2>3, <3>2 DEF RequestShape, SlotCleared
    <3>4. QED
      BY <2>3, <3>2, <3>3 DEF SlotCleared
  <2>4. ASSUME NEW v \in Users, SlotRevoked(v) PROVE Reason(u, j)
    <3>1. CASE u = v
      BY <2>4, <3>1 DEF SlotRevoked
    <3>2. CASE u # v
      BY <2>4, <3>2 DEF SlotRevoked, sessionMatches
    <3>3. QED
      BY <3>1, <3>2
  <2>5. QED
    BY <1>1, <2>1, <2>2, <2>3, <2>4, SlotStep
<1>2. TypeOK /\ RequestShape /\ [Next]_vars => [OneStep]_vars
  BY <1>1
<1>3. QED
  BY <1>2, TypeCorrect, PTL DEF Spec, LogoutEndsOnlyItsOwnSession
-----------------------------------------------------------------------------
(* The stored password                                                     *)

\* Only the plain-text rows of old are ever re-hashed by a login: no other
\* row says it is plain text, and no login of another account re-hashes.
PasswordInv ==
    /\ ResetPasswordSticks
    /\ \A u \in Users \ LegacyUsers : ~account[u].legacy
    /\ \A r \in Requests : request[r].pc = "upgrade" => request[r].user \in LegacyUsers

\* The rows are as they were, and no login went on to re-hash.
LEMMA SamePasswords ==
    ASSUME PasswordInv, UNCHANGED lastReset,
           \A u \in Users \ LegacyUsers :
              account'[u].password = account[u].password
              /\ (account'[u].legacy => account[u].legacy),
           \A q \in Requests : request'[q].pc = "upgrade" =>
              request[q].pc = "upgrade" /\ request'[q].user = request[q].user
    PROVE  PasswordInv'
BY DEF PasswordInv, ResetPasswordSticks

\* A login goes on to re-hash when the row it read was plain text.
LEMMA PasswordSend ==
    ASSUME TypeOK, PasswordInv, NEW r \in Requests, NEW b \in Browsers, Send(r, b)
    PROVE  PasswordInv'
<1>1. UNCHANGED <<account, lastReset>>
  BY DEF Send, Login, LogoutNoToken, Claim, Logout, history
<1>2. \A q \in Requests \ {r} : request'[q] = request[q]
  BY DEF Send, Login, LogoutNoToken, Claim, Logout, TypeOK
<1>3. request'[r].pc = "upgrade" => request'[r].user \in LegacyUsers
  <2>1. ASSUME NEW u \in Users, Login(r, b, u), request'[r].pc = "upgrade"
        PROVE  request'[r].user \in LegacyUsers
    <3>1. request'[r].user = u /\ account[u].legacy
      BY <2>1 DEF Login, Handler, TypeOK
    <3>2. QED
      BY <3>1 DEF PasswordInv
  <2>2. CASE LogoutNoToken(r, b)
    BY <2>2 DEF LogoutNoToken, Handler, TypeOK
  <2>3. ASSUME NEW token, NEW presented,
               Claim(r, b, token, presented) \/ Logout(r, b, token, presented)
        PROVE  request'[r].pc # "upgrade"
    BY <2>3 DEF Claim, Logout, Handler, TypeOK
  <2>4. QED
    BY <2>1, <2>2, <2>3 DEF Send
<1>4. QED
  BY <1>1, <1>2, <1>3 DEF PasswordInv, ResetPasswordSticks

\* A handler writes a password only into a row that was plain text.
LEMMA PasswordProceed ==
    ASSUME TypeOK, PasswordInv, NEW r \in Requests, Proceed(r)
    PROVE  PasswordInv'
<1>0. /\ account \in [Users -> AccountRow] /\ request \in [Requests -> RequestRow]
      /\ request[r] \in RequestRow /\ request[r].user \in Users
      /\ account[request[r].user] \in AccountRow
  BY DEF TypeOK, RequestRow
<1>1. UNCHANGED lastReset
  BY DEF Proceed, UpdatePasswordHash, ClaimReload, ReplaceActiveSession,
         ReplaceActiveSessionError, ClearActiveSessionIfCurrent, DropCollect,
         DropRemove, Respond, ResponseLost, history
<1>2. request'[r].pc # "upgrade" /\ \A q \in Requests \ {r} : request'[q] = request[q]
  <2>1. ASSUME Finished(r)
        PROVE  request'[r].pc # "upgrade" /\ \A q \in Requests \ {r} : request'[q] = request[q]
    BY <1>0, <2>1 DEF Finished, Idle, Handler
  <2>2. CASE ClaimReload(r) \/ ReplaceActiveSessionError(r) \/ Respond(r) \/ ResponseLost(r)
    BY <1>0, <2>1, <2>2 DEF ClaimReload, ReplaceActiveSessionError, Respond, ResponseLost,
                            RequestRow
  <2>3. CASE UpdatePasswordHash(r) \/ ReplaceActiveSession(r) \/ ClearActiveSessionIfCurrent(r)
    BY <1>0, <2>3 DEF UpdatePasswordHash, ReplaceActiveSession, ClearActiveSessionIfCurrent,
                      RequestRow
  <2>4. CASE DropCollect(r) \/ \E c \in Streams : DropRemove(r, c)
    BY <1>0, <2>4 DEF DropCollect, DropRemove, RequestRow
  <2>5. QED
    BY <2>2, <2>3, <2>4 DEF Proceed
<1>3. ASSUME NEW u \in Users \ LegacyUsers
      PROVE  account'[u].password = account[u].password
             /\ (account'[u].legacy => account[u].legacy)
  <2>1. CASE UpdatePasswordHash(r)
    <3>1. u # request[r].user
      BY <2>1 DEF UpdatePasswordHash, PasswordInv
    <3>2. account'[u] = account[u]
      BY <1>0, <2>1, <3>1 DEF UpdatePasswordHash
    <3>3. QED
      BY <3>2
  <2>2. CASE WriteSession(r)
    <3>1. CASE account' = [account EXCEPT ![request[r].user].activeSessionHash =
                                              sessionHash(Len(issued) + 1)]
      BY <1>0, <3>1 DEF AccountRow
    <3>2. QED
      BY <2>2, <3>1 DEF WriteSession
  <2>3. CASE ClearActiveSessionIfCurrent(r)
    <3>1. CASE account' = [account EXCEPT ![request[r].user].activeSessionHash = NULL]
      BY <1>0, <3>1 DEF AccountRow
    <3>2. QED
      BY <2>3, <3>1 DEF ClearActiveSessionIfCurrent
  <2>4. CASE UNCHANGED account
    BY <2>4
  <2>5. QED
    BY <2>1, <2>2, <2>3, <2>4
       DEF Proceed, ClaimReload, ReplaceActiveSession, ReplaceActiveSessionError,
           DropCollect, DropRemove, Respond, ResponseLost
<1>4. QED
  BY <1>1, <1>2, <1>3, SamePasswords

\* An administrator's new password is recorded as the last one set.
LEMMA PasswordAdminister ==
    ASSUME TypeOK, PasswordInv, NEW v \in Users, Administer(v)
    PROVE  PasswordInv'
<1>0. /\ account \in [Users -> AccountRow] /\ account[v] \in AccountRow
      /\ lastReset \in [Users -> 0 .. MaxRevision] /\ UNCHANGED request
  BY DEF TypeOK, Administer, Deactivate, Activate, ResetPassword, DeleteUser
<1>1. CASE ResetPassword(v)
  <2>1. /\ account'[v].password = lastReset'[v] /\ ~account'[v].legacy
        /\ \A u \in Users \ {v} : account'[u] = account[u] /\ lastReset'[u] = lastReset[u]
    BY <1>0, <1>1 DEF ResetPassword, AccountRow
  <2>2. QED
    BY <1>0, <2>1 DEF PasswordInv, ResetPasswordSticks
<1>2. CASE Deactivate(v) \/ Activate(v) \/ DeleteUser(v)
  <2>1. UNCHANGED lastReset
    BY <1>2 DEF Deactivate, Activate, DeleteUser, history
  <2>2. \A u \in Users : /\ account'[u].password = account[u].password
                         /\ account'[u].legacy = account[u].legacy
    <3>1. CASE Activate(v)
      BY <1>0, <3>1 DEF Activate, AccountRow
    <3>2. CASE Deactivate(v)
      BY <1>0, <3>2 DEF Deactivate, AccountRow
    <3>3. CASE DeleteUser(v)
      BY <1>0, <3>3 DEF DeleteUser, AccountRow
    <3>4. QED
      BY <1>2, <3>1, <3>2, <3>3
  <2>3. QED
    BY <1>0, <2>1, <2>2, SamePasswords
<1>3. QED
  BY <1>1, <1>2 DEF Administer

\* A login that read the old password never puts it back over the one an
\* administrator sets in the meantime (Authenticate re-hashes plain-text rows
\* only), so the reset stands for every account that is not such a row.
THEOREM ResetStands == Spec => []ResetPasswordSticks
<1>1. ASSUME Init PROVE PasswordInv
  <2>1. ResetPasswordSticks
    BY <1>1 DEF Init, ResetPasswordSticks
  <2>2. ASSUME NEW u \in Users \ LegacyUsers PROVE ~account[u].legacy
    <3>1. account[u].legacy = (u \in LegacyUsers)
      BY <1>1 DEF Init
    <3>2. QED
      BY <3>1
  <2>3. \A r \in Requests : request[r].pc # "upgrade"
    BY <1>1 DEF Init, Idle, Handler
  <2>4. QED
    BY <2>1, <2>2, <2>3 DEF PasswordInv
<1>2. TypeOK /\ PasswordInv /\ [Next]_vars => PasswordInv'
  <2> SUFFICES ASSUME TypeOK, PasswordInv, [Next]_vars PROVE PasswordInv'
    OBVIOUS
  <2>1. CASE UNCHANGED vars
    BY <2>1, SamePasswords DEF vars
  <2>2. ASSUME NEW c \in Streams, StreamStep(c) PROVE PasswordInv'
    <3>1. UNCHANGED <<account, request, lastReset>>
      BY <2>2 DEF StreamStep, StreamAdmit, StreamRegister, StreamLeave, history
    <3>2. QED
      BY <3>1, SamePasswords
  <2>3. QED
    BY <2>1, <2>2, PasswordSend, PasswordProceed, PasswordAdminister DEF Next
<1>3. PasswordInv => ResetPasswordSticks
  BY DEF PasswordInv
<1>4. QED
  BY <1>1, <1>2, <1>3, TypeCorrect, PTL DEF Spec
-----------------------------------------------------------------------------
(* The store implements the abstract session slot                          *)

\* LiveSid reads the column back.
LEMMA LiveSidReads ==
    ASSUME TypeOK, NEW u \in Users
    PROVE  /\ account[u].activeSessionHash = NULL => LiveSid(u) = NoSid
           /\ \A j : account[u].activeSessionHash = sessionHash(j) => LiveSid(u) = j
<1>1. ASSUME NEW j, account[u].activeSessionHash = sessionHash(j) PROVE LiveSid(u) = j
  <2>1. j \in 1 .. Len(issued) /\ account[u].activeSessionHash # NULL
    BY <1>1, LiveIsMinted, HashInjective
  <2>2. \A i \in 1 .. Len(issued) : account[u].activeSessionHash = sessionHash(i) => i = j
    BY <1>1, HashInjective
  <2>3. QED
    BY <1>1, <2>1, <2>2 DEF LiveSid
<1>2. QED
  BY <1>1 DEF LiveSid

\* A column that keeps its value keeps its session, whatever was minted.
LEMMA LiveSidKept ==
    ASSUME TypeOK, TypeOK', NEW u \in Users,
           account'[u].activeSessionHash = account[u].activeSessionHash
    PROVE  LiveSid(u)' = LiveSid(u)
<1>1. CASE account[u].activeSessionHash = NULL
  BY <1>1 DEF LiveSid
<1>2. ASSUME NEW j, account[u].activeSessionHash = sessionHash(j)
      PROVE  LiveSid(u)' = LiveSid(u)
  <2>1. LiveSid(u) = j
    BY <1>2, LiveSidReads
  <2>2. j \in 1 .. Len(issued') /\ account'[u].activeSessionHash # NULL
    <3>1. account'[u].activeSessionHash
             \in {NULL} \cup {sessionHash(i) : i \in 1 .. Len(issued')}
      BY DEF TypeOK, AccountRow
    <3>2. QED
      BY <1>2, <3>1, HashInjective
  <2>3. \A i \in 1 .. Len(issued') : account'[u].activeSessionHash = sessionHash(i) => i = j
    BY <1>2, HashInjective
  <2>4. QED
    BY <1>2, <2>1, <2>2, <2>3 DEF LiveSid
<1>3. account[u].activeSessionHash \in {NULL} \cup {sessionHash(j) : j \in 1 .. Len(issued)}
  BY DEF TypeOK, AccountRow
<1>4. QED
  BY <1>1, <1>2, <1>3

\* The abstract state a state of the store stands for.
owners == [j \in 1 .. Len(issued) |-> issued[j].user]
slots == [u \in Users |-> LiveSid(u)]

\* A mint is a Start, or a StartNowhere when the row is gone.
LEMMA MintRefines ==
    ASSUME TypeOK, TypeOK', RequestShape, NEW r \in Requests, SlotTaken(r),
           NEW u \in Users, u = request[r].user
    PROVE  Lifecycle!Start(u) \/ Lifecycle!StartNowhere(u)
<1> DEFINE n == Len(issued) + 1
<1>1. /\ Len(issued) \in Nat /\ Len(issued') = n
      /\ \A j \in 1 .. Len(issued) : issued'[j] = issued[j]
      /\ issued'[n].user = u
      /\ \A v \in Users \ {u} : account'[v] = account[v]
  <2>1. issued'[n] = Minted(r)
    BY MintStep
  <2>2. issued'[n].user = u
    BY <2>1 DEF Minted
  <2>3. QED
    BY <2>2, MintStep
<1>2. owners' = Append(owners, u)
  <2>1. owners \in Seq(Users) /\ Len(owners) = Len(issued)
    <3>1. \A j \in 1 .. Len(issued) : issued[j].user \in Users
      BY <1>1, TokenType DEF SidRange, NoSid
    <3>2. QED
      BY <1>1, <3>1 DEF owners
  <2>2. owners' = [j \in 1 .. n |-> issued'[j].user]
    BY <1>1 DEF owners
  <2>3. Append(owners, u) = [j \in 1 .. n |-> IF j = n THEN u ELSE owners[j]]
    BY <1>1, <2>1
  <2>4. \A j \in 1 .. n : issued'[j].user = IF j = n THEN u ELSE owners[j]
    BY <1>1 DEF owners
  <2>5. QED
    BY <2>2, <2>3, <2>4
<1>3. \A v \in Users \ {u} : LiveSid(v)' = LiveSid(v)
  BY <1>1, LiveSidKept
<1>4. CASE account[u].status = "deleted"
  <2>1. account' = account
    BY <1>4, MintStep
  <2>2. slots' = slots
    BY <2>1, LiveSidKept DEF slots
  <2>3. QED
    BY <1>2, <2>2 DEF Lifecycle!StartNowhere, owners, slots
<1>5. CASE account[u].status # "deleted"
  <2>1. account'[u].activeSessionHash = sessionHash(n)
    BY <1>5, MintStep
  <2>2. LiveSid(u)' = n
    <3>1. n \in 1 .. Len(issued')
      BY <1>1
    <3>2. \A i \in 1 .. Len(issued') : account'[u].activeSessionHash = sessionHash(i) => i = n
      BY <2>1, HashInjective
    <3>3. account'[u].activeSessionHash # NULL
      BY <2>1, HashInjective
    <3>4. QED
      BY <2>1, <3>1, <3>2, <3>3 DEF LiveSid
  <2>3. Len(owners) = Len(issued)
    BY <1>1 DEF owners, TypeOK, Token
  <2>4. slots' = [slots EXCEPT ![u] = Len(owners) + 1]
    BY <1>1, <1>3, <2>2, <2>3 DEF slots
  <2>5. QED
    BY <1>2, <2>4 DEF Lifecycle!Start, owners, slots
<1>6. QED
  BY <1>4, <1>5

\* A slot that becomes NULL is an End.
LEMMA ClearRefines ==
    ASSUME TypeOK, TypeOK', NEW u \in Users, UNCHANGED issued,
           account'[u].activeSessionHash = NULL,
           \A v \in Users \ {u} :
              account'[v].activeSessionHash = account[v].activeSessionHash
    PROVE  Lifecycle!End(u)
<1>1. LiveSid(u)' = 0
  BY DEF LiveSid, NoSid
<1>2. \A v \in Users \ {u} : LiveSid(v)' = LiveSid(v)
  BY LiveSidKept
<1>3. slots' = [slots EXCEPT ![u] = 0]
  BY <1>1, <1>2 DEF slots
<1>4. owners' = owners
  BY DEF owners
<1>5. QED
  BY <1>3, <1>4 DEF Lifecycle!End, owners, slots

\* The store, with its concurrent handlers, errors and lost answers, does
\* nothing the abstract slot does not allow: a session id enters its owner's
\* slot when it is minted or never, and one that left it never comes back.
THEOREM StoreImplementsLifecycle == Spec => ImplementsLifecycle
<1>1. Init => Lifecycle!Init
  <2> SUFFICES ASSUME Init PROVE Lifecycle!Init
    OBVIOUS
  <2>1. owners = <<>>
    BY DEF Init, owners
  <2>2. slots = [u \in Users |-> 0]
    BY DEF Init, slots, LiveSid, NoSid
  <2>3. QED
    BY <2>1, <2>2 DEF Lifecycle!Init, owners, slots
<1>2. TypeOK /\ TypeOK' /\ RequestShape /\ [Next]_vars => [Lifecycle!Next]_(Lifecycle!vars)
  <2> SUFFICES ASSUME TypeOK, TypeOK', RequestShape, [Next]_vars
               PROVE  Lifecycle!Next \/ UNCHANGED Lifecycle!vars
    OBVIOUS
  <2>1. CASE SlotsKept
    <3>1. slots' = slots
      BY <2>1, LiveSidKept DEF SlotsKept, slots
    <3>2. owners' = owners
      BY <2>1 DEF SlotsKept, owners
    <3>3. QED
      BY <3>1, <3>2 DEF Lifecycle!vars, owners, slots
  <2>2. ASSUME NEW r \in Requests, SlotTaken(r) PROVE Lifecycle!Next
    <3>1. PICK u \in Users : u = request[r].user
      BY <2>2, MintStep
    <3>2. QED
      BY <2>2, <3>1, MintRefines DEF Lifecycle!Next
  <2>3. ASSUME NEW r \in Requests, SlotCleared(r) PROVE Lifecycle!Next
    <3>1. PICK u \in Users : u = request[r].user
      BY DEF TypeOK, RequestRow
    <3>2. account \in [Users -> AccountRow] /\ account[u] \in AccountRow
      BY DEF TypeOK
    <3>3. /\ account'[u].activeSessionHash = NULL
          /\ \A v \in Users \ {u} : account'[v] = account[v]
          /\ UNCHANGED issued
      BY <2>3, <3>1, <3>2 DEF SlotCleared, AccountRow
    <3>4. Lifecycle!End(u)
      BY <3>3, ClearRefines
    <3>5. QED
      BY <3>4 DEF Lifecycle!Next
  <2>4. ASSUME NEW u \in Users, SlotRevoked(u) PROVE Lifecycle!Next
    <3>1. Lifecycle!End(u)
      BY <2>4, ClearRefines DEF SlotRevoked
    <3>2. QED
      BY <3>1 DEF Lifecycle!Next
  <2>5. QED
    BY <2>1, <2>2, <2>3, <2>4, SlotStep
<1>3. QED
  BY <1>1, <1>2, TypeCorrect, PTL DEF Spec, ImplementsLifecycle, Lifecycle!Spec

-----------------------------------------------------------------------------
(* The map of streams                                                      *)

\* A stream carries a minted session, only a handler that removes has streams
\* to remove, and what it has to remove was registered, so it is not entering.
MapInv ==
    /\ Len(issued) <= MaxSid
    /\ \A c \in Streams : stream[c].pc # "closed" => stream[c].sid \in 1 .. Len(issued)
    /\ \A r \in Requests :
          /\ request[r].pc # "remove" => request[r].ids = {}
          /\ \A c \in request[r].ids : stream[c].pc # "admitted"

\* The map, the calls and the marks of the drops, as the abstract map names
\* them.
Opened == {c \in Streams : stream[c].pc = "open"}
Entries == {Entry(c) : c \in Opened}
Calls == [r \in Requests |-> Call(r)]
Marks == [r \in Requests |-> request[r].ids]

\* A step after which the map is as it was: no stream and no mark changes.
MapKept ==
    /\ UNCHANGED stream
    /\ \A q \in Requests :
          /\ request'[q].ids = request[q].ids
          /\ request'[q].pc # "remove" => request'[q].ids = {}
    /\ Len(issued) <= Len(issued') /\ Len(issued') <= MaxSid

\* A step that writes one request's slot, with nothing to remove in it, and
\* mints at most one session.
LEMMA KeptBy ==
    ASSUME TypeOK, MapInv, NEW r \in Requests, request[r].pc # "remove",
           UNCHANGED stream,
           \A q \in Requests \ {r} : request'[q] = request[q],
           request'[r].ids = {},
           \/ UNCHANGED issued
           \/ Len(issued) < MaxSid /\ Len(issued') = Len(issued) + 1
    PROVE  /\ MapKept
           /\ request[r].pc # "drop" /\ request'[r].pc # "drop" => Calls' = Calls
<1>1. Len(issued) \in Nat /\ MaxSid \in Nat
  BY DEF TypeOK, SessionAssumption
<1>2. Len(issued) <= Len(issued') /\ Len(issued') <= MaxSid
  BY <1>1 DEF MapInv
<1>3. MapKept
  BY <1>2 DEF MapKept, MapInv
<1>4. ASSUME request[r].pc # "drop" /\ request'[r].pc # "drop" PROVE Calls' = Calls
  <2>1. \A q \in Requests : Call(q)' = Call(q)
    BY <1>4 DEF Call
  <2>2. QED
    BY <2>1 DEF Calls
<1>5. QED
  BY <1>3, <1>4

\* Sending a request is no business of the map.
LEMMA KeptSend ==
    ASSUME TypeOK, MapInv, NEW r \in Requests, NEW b \in Browsers, Send(r, b)
    PROVE  MapKept /\ Calls' = Calls
<1>1. /\ UNCHANGED <<stream, issued>>
      /\ request[r].pc = "idle"
      /\ \A q \in Requests \ {r} : request'[q] = request[q]
  BY DEF Send, Login, LogoutNoToken, Claim, Logout, history, TypeOK
<1> DEFINE Early(row) == row.ids = {} /\ row.pc # "drop"
<1>2. Early(request'[r])
  <2>1. ASSUME NEW u \in Users, Login(r, b, u) PROVE Early(request'[r])
    BY <2>1 DEF Login, Handler, TypeOK
  <2>2. CASE LogoutNoToken(r, b)
    BY <2>2 DEF LogoutNoToken, Handler, TypeOK
  <2>3. ASSUME NEW token, NEW presented, Claim(r, b, token, presented)
        PROVE  Early(request'[r])
    BY <2>3 DEF Claim, Handler, TypeOK
  <2>4. ASSUME NEW token, NEW presented, Logout(r, b, token, presented)
        PROVE  Early(request'[r])
    BY <2>4 DEF Logout, Handler, TypeOK
  <2>5. QED
    BY <2>1, <2>2, <2>3, <2>4 DEF Send
<1>3. QED
  BY <1>1, <1>2, KeptBy

\* A finished request has nothing to remove.
LEMMA FinishedEmpty ==
    ASSUME TypeOK, NEW r \in Requests, Finished(r)
    PROVE  /\ request'[r].ids = {} /\ request'[r].pc = "idle"
           /\ \A q \in Requests \ {r} : request'[q] = request[q]
BY DEF Finished, Idle, Handler, TypeOK

\* Two steps of a handler are a call: the mint of a login or claim, and the
\* clear of a logout.
Calling(r) == ReplaceActiveSession(r) \/ ClearActiveSessionIfCurrent(r)

\* A step of a handler leaves the map as it was, unless it is one of its drop.
LEMMA KeptProceed ==
    ASSUME TypeOK, MapInv, NEW r \in Requests, Proceed(r)
    PROVE  \/ MapKept /\ (Calls' = Calls \/ Calling(r))
           \/ DropCollect(r)
           \/ \E c \in Streams : DropRemove(r, c)
<1>0. request[r] \in RequestRow /\ (request[r].pc # "remove" => request[r].ids = {})
  BY DEF TypeOK, MapInv
<1>1. ASSUME NEW pc, request' = [request EXCEPT ![r].pc = pc], request[r].pc # "remove"
      PROVE  /\ request'[r].ids = {} /\ request'[r].pc = pc
             /\ \A q \in Requests \ {r} : request'[q] = request[q]
  BY <1>0, <1>1 DEF TypeOK, RequestRow
<1>2. WriteSession(r) => Len(issued) < MaxSid /\ Len(issued') = Len(issued) + 1
  BY DEF WriteSession, TypeOK
<1>3. CASE UpdatePasswordHash(r)
  <2>1. /\ request[r].pc = "upgrade"
        /\ request' = [request EXCEPT ![r].pc = "replace"]
        /\ UNCHANGED <<stream, issued>>
    BY <1>3 DEF UpdatePasswordHash
  <2>2. /\ request'[r].ids = {} /\ request'[r].pc = "replace"
        /\ \A q \in Requests \ {r} : request'[q] = request[q]
    BY <1>1, <2>1
  <2>3. QED
    BY <2>1, <2>2, KeptBy
<1>4. CASE ClaimReload(r)
  BY <1>1, <1>4, FinishedEmpty, KeptBy DEF ClaimReload
<1>5. CASE ReplaceActiveSession(r)
  <2>1. request'[r].ids = {} /\ \A q \in Requests \ {r} : request'[q] = request[q]
    BY <1>0, <1>5 DEF ReplaceActiveSession, TypeOK, RequestRow
  <2>2. QED
    BY <1>2, <1>5, <2>1, KeptBy DEF ReplaceActiveSession, Calling
<1>6. CASE ReplaceActiveSessionError(r)
  BY <1>2, <1>6, FinishedEmpty, KeptBy DEF ReplaceActiveSessionError
<1>7. CASE ClearActiveSessionIfCurrent(r)
  BY <1>1, <1>7, KeptBy DEF ClearActiveSessionIfCurrent, Calling
<1>8. CASE Respond(r)
  BY <1>8, FinishedEmpty, KeptBy DEF Respond
<1>9. CASE ResponseLost(r)
  BY <1>9, FinishedEmpty, KeptBy DEF ResponseLost, browserState, history
<1>10. QED
  BY <1>3, <1>4, <1>5, <1>6, <1>7, <1>8, <1>9 DEF Proceed

\* Which steps are the map's business.
LEMMA MapStep ==
    ASSUME TypeOK, MapInv, [Next]_vars
    PROVE  \/ MapKept /\ (Calls' = Calls \/ \E r \in Requests : Calling(r))
           \/ \E c \in Streams : StreamStep(c)
           \/ \E r \in Requests : DropCollect(r) \/ \E c \in Streams : DropRemove(r, c)
<1>1. Len(issued) \in Nat /\ MaxSid \in Nat
  BY DEF TypeOK, SessionAssumption
<1>2. ASSUME UNCHANGED <<request, stream, issued>> PROVE MapKept /\ Calls' = Calls
  BY <1>1, <1>2 DEF MapKept, MapInv, Calls, Call
<1>3. CASE UNCHANGED vars
  BY <1>2, <1>3 DEF vars
<1>4. ASSUME NEW u \in Users, Administer(u) PROVE MapKept /\ Calls' = Calls
  BY <1>2, <1>4 DEF Administer, Deactivate, Activate, ResetPassword, DeleteUser
<1>5. QED
  BY <1>3, <1>4, KeptSend, KeptProceed DEF Next

\* What a drop's look writes.
LEMMA CollectWrites ==
    ASSUME TypeOK, NEW r \in Requests, DropCollect(r)
    PROVE  /\ UNCHANGED <<stream, issued>>
           /\ \A q \in Requests \ {r} : request'[q] = request[q]
           /\ request'[r].user = request[r].user /\ request'[r].new = request[r].new
           /\ request'[r].ids = DropTargets(r)
           /\ request'[r].pc = IF DropTargets(r) = {} THEN "respond" ELSE "remove"
<1> DEFINE pc == IF DropTargets(r) = {} THEN "respond" ELSE "remove"
           ids == DropTargets(r)
<1>1. UNCHANGED <<stream, issued>> /\ request' = [request EXCEPT ![r].ids = ids, ![r].pc = pc]
  BY DEF DropCollect
<1>2. request[r] \in RequestRow /\ request \in [Requests -> RequestRow]
  BY DEF TypeOK
<1> HIDE DEF pc, ids
<1>3. /\ request'[r].ids = ids /\ request'[r].pc = pc
      /\ request'[r].user = request[r].user /\ request'[r].new = request[r].new
      /\ \A q \in Requests \ {r} : request'[q] = request[q]
  BY <1>1, <1>2 DEF RequestRow
<1>4. QED
  BY <1>1, <1>3 DEF pc, ids

\* A stream that a drop has yet to remove is not reused, and one that is
\* admitted carries the session of its token.
LEMMA MapInvStep ==
    ASSUME TypeOK, TypeOK', MapInv, [Next]_vars
    PROVE  MapInv'
<1>0. Len(issued) \in Nat /\ Len(issued') \in Nat
  BY DEF TypeOK
<1>1. CASE MapKept
  BY <1>0, <1>1 DEF MapKept, MapInv
<1>2. ASSUME NEW c \in Streams, StreamStep(c) PROVE MapInv'
  <2>0. /\ UNCHANGED <<request, issued>>
        /\ \A d \in Streams \ {c} : stream'[d] = stream[d]
    BY <1>2 DEF StreamStep, StreamAdmit, StreamRegister, StreamLeave, CloseStream, TypeOK
  <2>1. SUFFICES /\ stream'[c].pc # "closed" => stream'[c].sid \in 1 .. Len(issued)
                 /\ stream'[c].pc = "admitted" =>
                       \A r \in Requests : c \notin request[r].ids
    <3>1. \A r \in Requests : request[r].ids \subseteq Streams
      BY DEF TypeOK, RequestRow
    <3>2. QED
      BY <2>0, <3>1 DEF MapInv
  <2>2. ASSUME NEW b \in Browsers, NEW token \in accessTokens(b), NEW presented,
               StreamAdmit(c, token, presented)
        PROVE  /\ stream'[c].sid \in 1 .. Len(issued)
               /\ \A r \in Requests : c \notin request[r].ids
    <3>1. token \in SidRange /\ token # NoSid
      BY <2>2, SentIds DEF StreamAdmit, loadAuthedUser
    <3>2. stream'[c].sid = token
      BY <2>2 DEF StreamAdmit, TypeOK
    <3>3. QED
      BY <1>0, <2>2, <3>1, <3>2 DEF StreamAdmit, Reusable, SidRange, NoSid
  <2>3. CASE StreamRegister(c)
    BY <2>3 DEF StreamRegister, TypeOK, StreamRow, MapInv
  <2>4. CASE StreamLeave(c)
    BY <2>4 DEF StreamLeave, CloseStream, Closed, TypeOK
  <2>5. QED
    BY <1>2, <2>2, <2>3, <2>4 DEF StreamStep
<1>3. ASSUME NEW r \in Requests, DropCollect(r) PROVE MapInv'
  <2>1. /\ UNCHANGED <<stream, issued>>
        /\ \A q \in Requests \ {r} : request'[q] = request[q]
        /\ request'[r].ids = DropTargets(r)
        /\ request'[r].pc = IF DropTargets(r) = {} THEN "respond" ELSE "remove"
    BY <1>3, CollectWrites
  <2>2. \A c \in DropTargets(r) : stream[c].pc # "admitted"
    BY DEF DropTargets
  <2>3. QED
    BY <2>1, <2>2 DEF MapInv
<1>4. ASSUME NEW r \in Requests, NEW c \in Streams, DropRemove(r, c) PROVE MapInv'
  <2>1. /\ UNCHANGED issued
        /\ \A q \in Requests \ {r} : request'[q] = request[q]
        /\ request'[r].ids = request[r].ids \ {c}
        /\ request'[r].pc = IF request[r].ids = {c} THEN "respond" ELSE "remove"
        /\ stream'[c].pc = "closed"
        /\ \A d \in Streams \ {c} : stream'[d] = stream[d]
    BY <1>4 DEF DropRemove, CloseStream, Closed, TypeOK, RequestRow
  <2>2. \A q \in Requests : request'[q].ids \subseteq request[q].ids
                            /\ request[q].ids \subseteq Streams
    BY <2>1 DEF TypeOK, RequestRow
  <2>3. \A q \in Requests : \A d \in request'[q].ids : stream'[d].pc # "admitted"
    BY <2>1, <2>2 DEF MapInv
  <2>4. QED
    BY <2>1, <2>3 DEF MapInv
<1>5. QED
  BY <1>1, <1>2, <1>3, <1>4, MapStep

\* What has been entered, by its members.
LEMMA EntryOf ==
    ASSUME NEW c \in Streams
    PROVE  /\ Entry(c).id = c /\ Entry(c).user = stream[c].user
           /\ Entry(c).session = stream[c].sid
           /\ \A d \in Streams : Entry(c) = Entry(d) => c = d
BY DEF Entry

\* Marks change only where a request's do, and so do calls.
LEMMA SameMarks ==
    ASSUME \A q \in Requests : request'[q].ids = request[q].ids
    PROVE  Marks' = Marks
BY DEF Marks

LEMMA NewMarks ==
    ASSUME NEW r \in Requests, NEW ids, request'[r].ids = ids,
           \A q \in Requests \ {r} : request'[q] = request[q]
    PROVE  Marks' = [Marks EXCEPT ![r] = ids]
BY DEF Marks

LEMMA NewCalls ==
    ASSUME NEW r \in Requests, NEW args, Call(r)' = args,
           \A q \in Requests \ {r} : request'[q] = request[q]
    PROVE  Calls' = [Calls EXCEPT ![r] = args]
<1>1. \A q \in Requests \ {r} : Call(q)' = Call(q)
  BY DEF Call
<1>2. QED
  BY <1>1 DEF Calls

\* A stream whose slot is not open before or after is in no map.
LEMMA SameEntries ==
    ASSUME NEW c \in Streams, stream[c].pc # "open", stream'[c].pc # "open",
           \A d \in Streams \ {c} : stream'[d] = stream[d]
    PROVE  Entries' = Entries
<1>1. Opened' = Opened /\ \A d \in Opened : Entry(d)' = Entry(d)
  BY DEF Opened, Entry
<1>2. QED
  BY <1>1 DEF Entries

\* Closing a stream takes exactly its entry out.
LEMMA ClosedEntries ==
    ASSUME NEW c \in Streams, stream'[c].pc = "closed",
           \A d \in Streams \ {c} : stream'[d] = stream[d]
    PROVE  /\ Entries' = {e \in Entries : e.id # c}
           /\ stream[c].pc = "open" => Entry(c) \in Entries /\ Entries' = Entries \ {Entry(c)}
<1>1. Opened' = Opened \ {c} /\ \A d \in Opened' : Entry(d)' = Entry(d)
  BY DEF Opened, Entry
<1>2. Entries' = {Entry(d) : d \in Opened \ {c}}
  BY <1>1 DEF Entries
<1>3. \A d \in Opened : Entry(d).id = d
  BY EntryOf DEF Opened
<1>4. Entries' = {e \in Entries : e.id # c}
  BY <1>2, <1>3 DEF Entries
<1>5. ASSUME stream[c].pc = "open"
      PROVE  Entry(c) \in Entries /\ \A e \in Entries : e.id = c <=> e = Entry(c)
  BY <1>3, <1>5 DEF Entries, Opened
<1>6. QED
  BY <1>4, <1>5

\* Each step of a stream is one of the abstract map, or none.
LEMMA StreamRefines ==
    ASSUME TypeOK, MapInv, NEW c \in Streams, StreamStep(c)
    PROVE  Registry!Next \/ (Entries' = Entries /\ Calls' = Calls /\ Marks' = Marks)
<1>0. /\ Marks' = Marks /\ Calls' = Calls
      /\ \A d \in Streams \ {c} : stream'[d] = stream[d]
  BY SameMarks
     DEF StreamStep, StreamAdmit, StreamRegister, StreamLeave, CloseStream, TypeOK, Calls, Call
<1>1. ASSUME NEW token, NEW presented, StreamAdmit(c, token, presented)
      PROVE  Entries' = Entries
  <2>1. stream[c].pc # "open" /\ stream'[c].pc # "open"
    BY <1>1 DEF StreamAdmit, Reusable, TypeOK
  <2>2. QED
    BY <1>0, <2>1, SameEntries
<1>2. CASE StreamRegister(c)
  <2>1. /\ stream[c].pc = "admitted" /\ stream'[c].pc = "open"
        /\ stream'[c].user = stream[c].user /\ stream'[c].sid = stream[c].sid
        /\ stream[c].user \in Users
    BY <1>2 DEF StreamRegister, TypeOK, StreamRow
  <2>2. stream[c].sid \in 1 .. MaxSid
    BY <2>1 DEF MapInv, TypeOK, SessionAssumption
  <2>3. \A r \in Requests : c \notin request[r].ids
    BY <2>1 DEF MapInv
  <2>4. c \notin Opened /\ Opened' = Opened \cup {c}
    BY <1>0, <2>1 DEF Opened
  <2>5. \A d \in Opened : Entry(d)' = Entry(d)
    BY <1>0, <2>4 DEF Opened, Entry
  <2>6. Entry(c)' = [id |-> c, user |-> stream[c].user, session |-> stream[c].sid]
    BY <2>1 DEF Entry
  <2>7. Entries' = Entries \cup {[id |-> c, user |-> stream[c].user,
                                  session |-> stream[c].sid]}
    BY <2>4, <2>5, <2>6 DEF Entries
  <2>8. \A e \in Entries : e.id # c
    BY <2>4, EntryOf DEF Entries, Opened
  <2>9. \A r \in Requests : c \notin Marks[r]
    BY <2>3 DEF Marks
  <2>10. PICK u \in Users, s \in 1 .. MaxSid : u = stream[c].user /\ s = stream[c].sid
    BY <2>1, <2>2
  <2>11. Registry!Register(c, u, s)
    BY <1>0, <2>7, <2>8, <2>9, <2>10 DEF Registry!Register, Entries, Opened, Marks, Calls
  <2>12. Entries' # Entries
    <3> DEFINE e == [id |-> c, user |-> stream[c].user, session |-> stream[c].sid]
    <3>1. e.id = c /\ e \in Entries'
      BY <2>7
    <3> HIDE DEF e
    <3>2. QED
      BY <2>8, <3>1
  <2>13. QED
    BY <2>11, <2>12 DEF Registry!Next, Entries, Opened
<1>3. CASE StreamLeave(c)
  <2>1. stream[c].pc = "open" /\ stream'[c].pc = "closed"
    BY <1>3 DEF StreamLeave, CloseStream, Closed, TypeOK
  <2>2. Entry(c) \in Entries /\ Entries' = Entries \ {Entry(c)}
    BY <1>0, <2>1, ClosedEntries
  <2>3. PICK e \in Entries : e = Entry(c)
    BY <2>2
  <2>4. Registry!Leave(e)
    BY <1>0, <2>2, <2>3 DEF Registry!Leave, Entries, Opened, Marks, Calls
  <2>5. QED
    BY <2>2, <2>4 DEF Registry!Next, Entries, Opened
<1>4. QED
  BY <1>0, <1>1, <1>2, <1>3 DEF StreamStep

\* The mint of a login or claim calls for the account it signs in, and spares
\* a session that no stream carries; the clear of a logout spares none.
LEMMA CallingRefines ==
    ASSUME TypeOK, MapInv, RequestShape, NEW r \in Requests, Calling(r), MapKept
    PROVE  Registry!Next
<1>0. request[r] \in RequestRow /\ Len(issued) \in Nat /\ request[r].user \in Users
  BY DEF TypeOK, RequestRow
<1>1. Marks' = Marks /\ Entries' = Entries
  BY SameMarks DEF MapKept, Entries, Opened, Entry
<1>2. Calls[r] = {} /\ Marks[r] = {}
  BY DEF Calling, ReplaceActiveSession, ClearActiveSessionIfCurrent, Calls, Call, Marks, MapInv
<1>3. PICK u \in Users : u = request[r].user
  BY <1>0
<1>4. CASE ReplaceActiveSession(r)
  <2>1. /\ Len(issued) < MaxSid
        /\ request' = [request EXCEPT ![r].pc = "drop", ![r].new = Len(issued) + 1]
    BY <1>4 DEF ReplaceActiveSession, WriteSession
  <2>2. PICK s \in 1 .. MaxSid : s = Len(issued) + 1
    BY <1>0, <2>1 DEF SessionAssumption
  <2>3. /\ request'[r].pc = "drop" /\ request'[r].new = s /\ request'[r].user = u
        /\ \A q \in Requests \ {r} : request'[q] = request[q]
    BY <1>0, <1>3, <2>1, <2>2 DEF TypeOK, RequestRow
  <2>4. Call(r)' = {[user |-> u, keep |-> s]}
    BY <2>3 DEF Call
  <2>5. Calls' = [Calls EXCEPT ![r] = {[user |-> u, keep |-> s]}]
    BY <2>3, <2>4, NewCalls
  <2>6. \A e \in Entries : e.session # s
    BY <1>0, <2>2, EntryOf DEF Entries, Opened, MapInv
  <2>7. Registry!SignIn(r, u, s)
    BY <1>1, <1>2, <2>5, <2>6 DEF Registry!SignIn, Entries, Opened, Calls, Marks
  <2>8. Calls'[r] # Calls[r]
    <3>1. [user |-> u, keep |-> s] \in Calls'[r]
      BY <2>4 DEF Calls
    <3>2. QED
      BY <1>2, <3>1
  <2>9. QED
    BY <2>7, <2>8 DEF Registry!Next, Calls
<1>5. CASE ClearActiveSessionIfCurrent(r)
  <2>1. request[r].new = NoSid /\ request' = [request EXCEPT ![r].pc = "drop"]
    BY <1>5 DEF ClearActiveSessionIfCurrent, RequestShape
  <2>2. /\ request'[r].pc = "drop" /\ request'[r].new = NoSid /\ request'[r].user = u
        /\ \A q \in Requests \ {r} : request'[q] = request[q]
    BY <1>0, <1>3, <2>1 DEF TypeOK, RequestRow
  <2>3. Call(r)' = {[user |-> u, keep |-> NoSid]}
    BY <2>2 DEF Call
  <2>4. Calls' = [Calls EXCEPT ![r] = {[user |-> u, keep |-> NoSid]}]
    BY <2>2, <2>3, NewCalls
  <2>5. Registry!SignOut(r, u)
    BY <1>1, <1>2, <2>4 DEF Registry!SignOut, Entries, Opened, Calls, Marks
  <2>6. Calls'[r] # Calls[r]
    <3>1. [user |-> u, keep |-> NoSid] \in Calls'[r]
      BY <2>3 DEF Calls
    <3>2. QED
      BY <1>2, <3>1
  <2>7. QED
    BY <2>5, <2>6 DEF Registry!Next, Calls
<1>6. QED
  BY <1>4, <1>5 DEF Calling

\* A drop's look marks the targets of its call, by their ids.
LEMMA MarkRefines ==
    ASSUME TypeOK, MapInv, NEW r \in Requests, DropCollect(r)
    PROVE  Registry!Next
<1> DEFINE a == [user |-> request[r].user, keep |-> request[r].new]
           T == {e \in Entries : e.user = a.user /\ ~(a.keep # NoSid /\ e.session = a.keep)}
<1>1. /\ request[r].pc = "drop"
      /\ \A q \in Requests \ {r} : request'[q] = request[q]
      /\ request'[r].user = request[r].user /\ request'[r].new = request[r].new
      /\ request'[r].ids = DropTargets(r)
      /\ request'[r].pc = IF DropTargets(r) = {} THEN "respond" ELSE "remove"
      /\ UNCHANGED stream
  BY CollectWrites DEF DropCollect
<1>2. Entries' = Entries
  BY <1>1 DEF Entries, Opened, Entry
<1>3. Marks' = [Marks EXCEPT ![r] = DropTargets(r)]
  BY <1>1, NewMarks
<1>4. Calls[r] = {a}
  BY <1>1 DEF Calls, Call
<1>5. Calls' = [Calls EXCEPT ![r] = {}]
  <2>1. Call(r)' = {}
    BY <1>1 DEF Call
  <2>2. QED
    BY <1>1, <2>1, NewCalls
<1>6. DropTargets(r) = {e.id : e \in T}
  <2>1. \A c \in DropTargets(r) : Entry(c) \in T /\ Entry(c).id = c
    BY EntryOf DEF DropTargets, Entries, Opened
  <2>2. \A e \in T : e.id \in DropTargets(r)
    <3>1. SUFFICES ASSUME NEW c \in Opened, Entry(c) \in T PROVE Entry(c).id \in DropTargets(r)
      BY DEF Entries
    <3>2. QED
      BY <3>1, EntryOf DEF DropTargets, Opened
  <2>3. QED
    BY <2>1, <2>2
<1>7. DropTargets(r) = Registry!Targets(a)
  BY <1>6 DEF Registry!Targets, Entries, Opened
<1>8. PICK x \in Calls[r] : x = a
  BY <1>4
<1> HIDE DEF a, T
<1>9. Registry!Mark(r, x)
  BY <1>2, <1>3, <1>5, <1>7, <1>8 DEF Registry!Mark, Entries, Opened, Marks, Calls
<1>10. QED
  BY <1>8, <1>9 DEF Registry!Next, Calls

\* Removing a collected stream takes it out, if it is still there.
LEMMA TakeOutRefines ==
    ASSUME TypeOK, NEW r \in Requests, NEW c \in Streams, DropRemove(r, c)
    PROVE  Registry!Next
<1>1. /\ request[r].pc = "remove" /\ c \in request[r].ids
      /\ request'[r].ids = request[r].ids \ {c} /\ request'[r].pc # "drop"
      /\ \A q \in Requests \ {r} : request'[q] = request[q]
      /\ stream'[c].pc = "closed"
      /\ \A d \in Streams \ {c} : stream'[d] = stream[d]
  BY DEF DropRemove, CloseStream, Closed, TypeOK, RequestRow
<1>2. Entries' = {e \in Entries : e.id # c}
  BY <1>1, ClosedEntries
<1>3. /\ c \in Marks[r]
      /\ Marks' = [Marks EXCEPT ![r] = Marks[r] \ {c}]
  BY <1>1, NewMarks DEF Marks
<1>4. Calls' = Calls
  <2>1. \A q \in Requests : Call(q)' = Call(q)
    BY <1>1 DEF Call
  <2>2. QED
    BY <2>1 DEF Calls
<1>5. Registry!TakeOut(r, c)
  BY <1>2, <1>3, <1>4 DEF Registry!TakeOut, Entries, Opened, Marks, Calls
<1>6. QED
  BY <1>3, <1>5 DEF Registry!Next, Marks

\* The handlers that sign people in and out close exactly the streams they
\* should: of the account they were sent for, every one that was open when
\* they looked, but those of the session just minted, and none of another
\* account or of a later time.
THEOREM DropsAreSelective == Spec => DropsKeepToTheirOwn
<1>1. Init => MapInv /\ Registry!Init
  <2> SUFFICES ASSUME Init PROVE MapInv /\ Registry!Init
    OBVIOUS
  <2>1. MapInv
    BY DEF Init, MapInv, Closed, Idle, Handler, SessionAssumption
  <2>2. /\ Entries = {} /\ Marks = [r \in Requests |-> {}]
        /\ Calls = [r \in Requests |-> {}]
    BY DEF Init, Entries, Opened, Marks, Calls, Call, Closed, Idle, Handler
  <2>3. QED
    BY <2>1, <2>2 DEF Registry!Init, Entries, Opened, Marks, Calls
<1>2. TypeOK /\ TypeOK' /\ RequestShape /\ MapInv /\ [Next]_vars
         => MapInv' /\ [Registry!Next]_(Registry!vars)
  <2> SUFFICES ASSUME TypeOK, TypeOK', RequestShape, MapInv, [Next]_vars
               PROVE  Registry!Next \/ UNCHANGED Registry!vars
    BY MapInvStep
  <2>1. CASE Entries' = Entries /\ Calls' = Calls /\ Marks' = Marks
    BY <2>1 DEF Registry!vars, Entries, Opened, Calls, Marks
  <2>2. CASE MapKept /\ Calls' = Calls
    <3>1. Marks' = Marks
      BY <2>2, SameMarks DEF MapKept
    <3>2. Entries' = Entries
      BY <2>2 DEF MapKept, Entries, Opened, Entry
    <3>3. QED
      BY <2>1, <2>2, <3>1, <3>2
  <2>3. QED
    BY <2>1, <2>2, MapStep, CallingRefines, StreamRefines, MarkRefines, TakeOutRefines
<1>3. QED
  BY <1>1, <1>2, TypeCorrect, PTL DEF Spec, DropsKeepToTheirOwn, Registry!Spec

=============================================================================
