------------------------- MODULE HubAndRequestsProofs --------------------------
(***************************************************************************)
(* Proofs about the event hub, about who may change a lead and about who   *)
(* is told of it.  First RealtimeHub, for any number of users, streams and *)
(* logins, and any size of the channels' buffers; then LeadRequests, for   *)
(* any number of people and requests and any size of a batch of rows.  The *)
(* two share no state.                                                     *)
(***************************************************************************)
EXTENDS RealtimeHub, LeadRequests, FiniteSetTheorems, TLAPS

Rows == [pc : {"closed", "added", "ready", "sync", "live", "close", "removed"},
         user : Users \cup {Nobody}, announce : BOOLEAN, snapshot : SUBSET Users]
Channels == [buffer : Seq(Events), closed : BOOLEAN]
LoginRows == [pc : {"idle", "told", "logout", "drop"}, user : Users \cup {Nobody},
              ids : SUBSET Streams, closing : SUBSET Streams]

\* The handler of c still serves its client.
Active(c) == stream[c].pc \in {"added", "ready", "sync", "live"}

\* Who is to close a channel: its handler, one drop, or nobody yet.  Only a
\* channel that nobody can reach through the map is closed.
ClosingInv ==
    /\ \A c \in clients : ~ch[c].closed /\ Active(c)
    /\ \A c \in Streams : stream[c].pc = "close" => ~ch[c].closed
    /\ \A r \in Logins : \A c \in login[r].closing :
          /\ ~ch[c].closed /\ c \notin clients /\ stream[c].pc # "close"
          /\ \A q \in Logins : q # r => c \notin login[q].closing

\* The handler that announces its user's coming is registered and alone, and
\* the one that announces its going has left nobody behind, unless astray
\* says otherwise; nobody else announces anything.
Announces(c) == stream[c].announce
AnnounceInv ==
    \A c \in Streams :
        /\ Announces(c) => stream[c].pc \in {"added", "close", "removed"}
        /\ stream[c].pc \in {"added", "removed"} => Announces(c)
        /\ Announces(c) /\ UserOf(c) \notin astray =>
              /\ \/ stream[c].pc = "added" /\ c \in clients /\ LastFor(c)
                 \/ stream[c].pc # "added" /\ ~IsOnline(UserOf(c))
              /\ \A d \in Streams : Announces(d) /\ UserOf(d) = UserOf(c) => d = c

\* What event e says about user u.
Concerns(e, u) == e.type = "sync" \/ (e.type \in {"online", "offline"} /\ e.user = u)
SaysOnline(e, u) == IF e.type = "sync" THEN u \in e.users ELSE e.type = "online"

\* Whoever reads buffer b, having been told of the users in told, comes to
\* believe that u is online, or that it is not: the last word counts.
Learns(b, told, u, online) ==
    \/ \E i \in 1 .. Len(b) :
          /\ Concerns(b[i], u) /\ (SaysOnline(b[i], u) <=> online)
          /\ \A j \in 1 .. Len(b) : j > i => ~Concerns(b[j], u)
    \/ /\ \A j \in 1 .. Len(b) : ~Concerns(b[j], u)
       /\ (u \in told) <=> online

\* The strengthening of PresenceIsKnown: the buffered events complete what
\* the client was told, and a snapshot that is yet to be sent is still right.
Owed(c, u) == Announcing(u) = {} /\ u \notin astray /\ u \notin missed[c]
Knows(c, u) ==
    /\ stream[c].pc = "live" => Learns(ch[c].buffer, view[c].online, u, IsOnline(u))
    /\ stream[c].pc = "sync" => (u \in stream[c].snapshot <=> IsOnline(u))
PresenceInv == \A c \in clients, u \in Users : Owed(c, u) => Knows(c, u)

HoldsReplaced(b) == \E i \in 1 .. Len(b) : b[i].type = "replaced"

\* The client of c was told that its session is replaced, will read it, or
\* is one the event could not reach.
Warned(c) ==
    \/ c \in unwarned \/ view[c].replaced
    \/ HoldsReplaced(ch[c].buffer)

\* The strengthening of KickedClientsWereTold: every stream that a request
\* drops, has dropped, or (a login) is about to list was warned.
Replaced(c) ==
    \/ ch[c].closed
    \/ \E r \in Logins : \/ c \in login[r].ids \/ c \in login[r].closing
                         \/ login[r].pc = "told" /\ c \in clients /\ login[r].user = UserOf(c)
WarnedInv == \A c \in Streams : Active(c) /\ Replaced(c) => Warned(c)
\* Streams are of users, and the map holds only streams that are served.
HubInv ==
    /\ TypeOK
    /\ ClosingInv
    /\ \A c \in Streams : stream[c].pc # "closed" => UserOf(c) \in Users

-----------------------------------------------------------------------------
(* What the steps do to the state                                          *)

\* The shapes, one variable at a time.
LEMMA Shapes ==
    ASSUME TypeOK
    PROVE  /\ clients \subseteq Streams
           /\ stream \in [Streams -> Rows]
           /\ ch \in [Streams -> Channels] /\ \A c \in Streams : Len(ch[c].buffer) <= Buffer
           /\ login \in [Logins -> LoginRows]
BY DEF TypeOK, Rows, Channels, LoginRows

\* Events are well formed.
LEMMA EventShapes ==
    ASSUME NEW u \in Users, NEW us \in SUBSET Users,
           NEW type \in {"online", "offline", "replaced"}
    PROVE  Event(type, u) \in Events /\ Event("changed", Nobody) \in Events /\ Sync(us) \in Events
BY DEF Event, Sync, Events

\* A send leaves the channel open or closed, and adds at most its event.
LEMMA OfferResult ==
    ASSUME NEW x \in Channels, NEW e \in Events, Len(x.buffer) <= Buffer
    PROVE  /\ Offer(x, e) \in Channels
           /\ Offer(x, e).closed = x.closed
           /\ Offer(x, e).buffer = IF Len(x.buffer) < Buffer THEN Append(x.buffer, e)
                                   ELSE x.buffer
           /\ Len(Offer(x, e).buffer) <= Buffer
<1> DEFINE b == Append(x.buffer, e)
           y == [x EXCEPT !.buffer = b]
<1>1. x.buffer \in Seq(Events) /\ Len(x.buffer) \in Nat
  BY DEF Channels
<1>2. b \in Seq(Events) /\ Len(b) = Len(x.buffer) + 1
  BY <1>1
<1> HIDE DEF b
<1>3. y \in Channels /\ y.closed = x.closed /\ y.buffer = b
  BY <1>2 DEF Channels
<1>4. Offer(x, e) = IF Len(x.buffer) < Buffer THEN y ELSE x
  BY DEF Offer, b
<1> HIDE DEF y
<1>5. CASE Len(x.buffer) < Buffer
  <2>1. Offer(x, e) = y
    BY <1>4, <1>5
  <2>2. Len(b) <= Buffer
    BY <1>1, <1>2, <1>5, HubAssumption
  <2>3. QED
    BY <1>3, <1>5, <2>1, <2>2 DEF b
<1>6. CASE ~(Len(x.buffer) < Buffer)
  BY <1>4, <1>6
<1>7. QED
  BY <1>5, <1>6

\* The channels after a broadcast.
LEMMA SentResult ==
    ASSUME TypeOK, NEW to, NEW e \in Events, ch' = Sent(to, e)
    PROVE  /\ ch' \in [Streams -> Channels]
           /\ \A c \in Streams :
                 /\ Len(ch'[c].buffer) <= Buffer
                 /\ ch'[c].closed = ch[c].closed
                 /\ ch'[c].buffer = IF c \in to /\ Fits(c) THEN Append(ch[c].buffer, e)
                                    ELSE ch[c].buffer
<1>1. ch \in [Streams -> Channels] /\ \A c \in Streams : Len(ch[c].buffer) <= Buffer
  BY Shapes
<1>2. \A c \in Streams : ch'[c] = IF c \in to THEN Offer(ch[c], e) ELSE ch[c]
  BY DEF Sent
<1>3. ASSUME NEW c \in Streams
      PROVE  /\ ch'[c] \in Channels
             /\ Len(ch'[c].buffer) <= Buffer
             /\ ch'[c].closed = ch[c].closed
             /\ ch'[c].buffer = IF c \in to /\ Fits(c) THEN Append(ch[c].buffer, e)
                                ELSE ch[c].buffer
  <2>1. ch[c] \in Channels /\ Len(ch[c].buffer) <= Buffer
    BY <1>1
  <2>2. CASE c \in to
    BY <1>2, <2>1, <2>2, OfferResult DEF Fits
  <2>3. CASE c \notin to
    BY <1>2, <2>1, <2>3
  <2>4. QED
    BY <2>2, <2>3
<1>4. ch' = [c \in Streams |-> ch'[c]]
  BY DEF Sent
<1>5. QED
  BY <1>3, <1>4

\* Stream c moves, and takes no other along.
Moves(c, row) ==
    /\ stream' \in [Streams -> Rows]
    /\ stream'[c] = row
    /\ \A d \in Streams : d # c => stream'[d] = stream[d]

LEMMA MovesTo ==
    ASSUME TypeOK, NEW c \in Streams, NEW row \in Rows, stream' = [stream EXCEPT ![c] = row]
    PROVE  Moves(c, row)
BY Shapes DEF Moves

\* A stream that is gone.
LEMMA NoStreamRow ==
    NoStream \in Rows /\ NoStream.pc = "closed" /\ NoStream.announce = FALSE
BY DEF NoStream, Rows

\* Handlers that go on, by their steps.
LEMMA AddMoves ==
    ASSUME HubInv, NEW c \in Streams, NEW u \in Users, Add(c, u)
    PROVE  \E row \in Rows :
              /\ Moves(c, row) /\ row.user = u
              /\ row.pc = IF IsOnline(u) THEN "ready" ELSE "added"
              /\ row.announce = ~IsOnline(u)
<1> DEFINE row == [NoStream EXCEPT !.pc = IF IsOnline(u) THEN "ready" ELSE "added",
                                   !.user = u, !.announce = ~IsOnline(u)]
<1>1. IsOnline(u) \in BOOLEAN
  BY DEF IsOnline
<1>2. stream' = [stream EXCEPT ![c] = row]
  BY DEF Add
<1>3. /\ row \in Rows /\ row.user = u
      /\ row.pc = IF IsOnline(u) THEN "ready" ELSE "added"
      /\ row.announce = ~IsOnline(u)
  BY <1>1, NoStreamRow DEF Rows
<1> HIDE DEF row
<1>4. Moves(c, row)
  BY <1>2, <1>3, MovesTo DEF HubInv
<1>5. QED
  BY <1>3, <1>4

\* A handler that only turns to its next step.
LEMMA TurnMoves ==
    ASSUME HubInv, NEW c \in Streams, NEW row \in Rows, stream' = [stream EXCEPT ![c] = row],
           row.user = UserOf(c)
    PROVE  /\ Moves(c, row)
           /\ \A d \in Streams : stream'[d].user = UserOf(d)
<1>1. Moves(c, row)
  BY MovesTo DEF HubInv
<1>2. QED
  BY <1>1 DEF Moves, UserOf

LEMMA AnnounceOnlineMoves ==
    ASSUME HubInv, NEW c \in Streams, AnnounceOnline(c)
    PROVE  \E row \in Rows : /\ Moves(c, row) /\ row.pc = "ready" /\ row.user = UserOf(c)
                             /\ row.announce = FALSE
<1> DEFINE row == [stream[c] EXCEPT !.pc = "ready", !.announce = FALSE]
<1>1. stream[c] \in Rows /\ stream \in [Streams -> Rows]
  BY Shapes DEF HubInv
<1>2. stream' = [stream EXCEPT ![c] = row]
  BY <1>1 DEF AnnounceOnline
<1>3. row \in Rows /\ row.pc = "ready" /\ row.user = UserOf(c) /\ row.announce = FALSE
  BY <1>1 DEF Rows, UserOf
<1> HIDE DEF row
<1>4. QED
  BY <1>2, <1>3, TurnMoves

\* Whom the snapshot names.
LEMMA SnapshotUsers ==
    ASSUME HubInv
    PROVE  Snapshot \subseteq Users /\ \A u : u \in Snapshot <=> IsOnline(u)
<1>1. \A c \in clients : c \in Streams /\ UserOf(c) \in Users
  BY DEF HubInv, TypeOK, ClosingInv, Active
<1>2. QED
  BY <1>1 DEF Snapshot, IsOnline

LEMMA TakeSnapshotMoves ==
    ASSUME HubInv, NEW c \in Streams, TakeSnapshot(c)
    PROVE  \E row \in Rows : /\ Moves(c, row) /\ row.pc = "sync" /\ row.user = UserOf(c)
                             /\ row.announce = stream[c].announce
                             /\ row.snapshot = Snapshot
<1> DEFINE row == [stream[c] EXCEPT !.pc = "sync", !.snapshot = Snapshot]
<1>1. stream[c] \in Rows /\ stream \in [Streams -> Rows] /\ Snapshot \subseteq Users
  BY Shapes, SnapshotUsers DEF HubInv
<1>2. stream' = [stream EXCEPT ![c] = row]
  BY <1>1 DEF TakeSnapshot
<1>3. /\ row \in Rows /\ row.pc = "sync" /\ row.user = UserOf(c)
      /\ row.announce = stream[c].announce /\ row.snapshot = Snapshot
  BY <1>1 DEF Rows, UserOf
<1> HIDE DEF row
<1>4. QED
  BY <1>2, <1>3, TurnMoves

LEMMA SendSyncMoves ==
    ASSUME HubInv, NEW c \in Streams, SendSync(c)
    PROVE  \E row \in Rows : /\ Moves(c, row) /\ row.pc = "live" /\ row.user = UserOf(c)
                             /\ row.announce = stream[c].announce
<1> DEFINE row == [stream[c] EXCEPT !.pc = "live", !.snapshot = {}]
<1>1. stream[c] \in Rows /\ stream \in [Streams -> Rows]
  BY Shapes DEF HubInv
<1>2. stream' = [stream EXCEPT ![c] = row]
  BY <1>1 DEF SendSync
<1>3. /\ row \in Rows /\ row.pc = "live" /\ row.user = UserOf(c)
      /\ row.announce = stream[c].announce
  BY <1>1 DEF Rows, UserOf
<1> HIDE DEF row
<1>4. QED
  BY <1>2, <1>3, TurnMoves

LEMMA RemoveMoves ==
    ASSUME HubInv, NEW c \in Streams, RemoveStream(c)
    PROVE  /\ c \notin clients => Moves(c, NoStream)
           /\ c \in clients =>
                 \E row \in Rows : /\ Moves(c, row) /\ row.pc = "close"
                                   /\ row.user = UserOf(c) /\ row.announce = LastFor(c)
<1> DEFINE row == [stream[c] EXCEPT !.pc = "close", !.announce = LastFor(c)]
<1>1. stream[c] \in Rows /\ stream \in [Streams -> Rows] /\ LastFor(c) \in BOOLEAN
  BY Shapes DEF HubInv, LastFor
<1>2. CASE c \in clients
  <2>1. stream' = [stream EXCEPT ![c] = row]
    BY <1>1, <1>2 DEF RemoveStream
  <2>2. /\ row \in Rows /\ row.pc = "close" /\ row.user = UserOf(c)
        /\ row.announce = LastFor(c)
    BY <1>1 DEF Rows, UserOf
  <2> HIDE DEF row
  <2>3. QED
    BY <1>2, <2>1, <2>2, TurnMoves
<1>3. CASE c \notin clients
  <2>1. stream' = [stream EXCEPT ![c] = NoStream]
    BY <1>3 DEF RemoveStream
  <2>2. QED
    BY <1>3, <2>1, NoStreamRow, MovesTo DEF HubInv
<1>4. QED
  BY <1>2, <1>3

LEMMA CloseMoves ==
    ASSUME HubInv, NEW c \in Streams, CloseChannel(c)
    PROVE  /\ ~stream[c].announce => Moves(c, NoStream)
           /\ stream[c].announce =>
                 \E row \in Rows : /\ Moves(c, row) /\ row.pc = "removed"
                                   /\ row.user = UserOf(c)
                                   /\ row.announce = stream[c].announce
<1> DEFINE row == [stream[c] EXCEPT !.pc = "removed"]
<1>1. stream[c] \in Rows /\ stream \in [Streams -> Rows]
  BY Shapes DEF HubInv
<1>2. CASE stream[c].announce
  <2>1. stream' = [stream EXCEPT ![c] = row]
    BY <1>1, <1>2 DEF CloseChannel
  <2>2. /\ row \in Rows /\ row.pc = "removed" /\ row.user = UserOf(c)
        /\ row.announce = stream[c].announce
    BY <1>1 DEF Rows, UserOf
  <2> HIDE DEF row
  <2>3. QED
    BY <1>2, <2>1, <2>2, TurnMoves
<1>3. CASE ~stream[c].announce
  <2>1. stream' = [stream EXCEPT ![c] = NoStream]
    BY <1>3 DEF CloseChannel
  <2>2. QED
    BY <1>3, <2>1, NoStreamRow, MovesTo DEF HubInv
<1>4. QED
  BY <1>2, <1>3

LEMMA GoneMoves ==
    ASSUME HubInv, NEW c \in Streams, SendSyncPanics(c) \/ AnnounceOffline(c)
    PROVE  Moves(c, NoStream)
BY NoStreamRow, MovesTo DEF HubInv, SendSyncPanics, AnnounceOffline
\* The channel of c becomes x, and no other changes.
Rewires(c, x) ==
    /\ ch' \in [Streams -> Channels] /\ \A d \in Streams : Len(ch'[d].buffer) <= Buffer
    /\ ch'[c] = x
    /\ \A d \in Streams : d # c => ch'[d] = ch[d]

LEMMA RewiresTo ==
    ASSUME TypeOK, NEW c \in Streams, NEW x \in Channels, Len(x.buffer) <= Buffer,
           ch' = [ch EXCEPT ![c] = x]
    PROVE  Rewires(c, x)
BY Shapes DEF Rewires

LEMMA AddRewires ==
    ASSUME HubInv, NEW c \in Streams, ch' = [ch EXCEPT ![c] = NewChannel]
    PROVE  Rewires(c, NewChannel) /\ NewChannel.closed = FALSE /\ NewChannel.buffer = <<>>
<1>1. NewChannel \in Channels /\ NewChannel.buffer = <<>> /\ NewChannel.closed = FALSE
  BY DEF NewChannel, Channels
<1>2. Len(<<>>) <= Buffer
  BY HubAssumption
<1>3. QED
  BY <1>1, <1>2, RewiresTo DEF HubInv

LEMMA StopRewires ==
    ASSUME HubInv, NEW c \in Streams, ch' = [ch EXCEPT ![c].buffer = <<>>]
    PROVE  \E x \in Channels : Rewires(c, x) /\ x.closed = ch[c].closed
<1> DEFINE b == <<>>
           x == [ch[c] EXCEPT !.buffer = b]
<1>1. ch[c] \in Channels /\ ch \in [Streams -> Channels]
  BY Shapes DEF HubInv
<1>2. ch' = [ch EXCEPT ![c] = x]
  BY <1>1
<1>3. b \in Seq(Events) /\ Len(b) <= Buffer
  BY HubAssumption
<1> HIDE DEF b
<1>4. x \in Channels /\ x.closed = ch[c].closed /\ x.buffer = b
  BY <1>1, <1>3 DEF Channels
<1> HIDE DEF x
<1>5. QED
  BY <1>2, <1>3, <1>4, RewiresTo DEF HubInv

LEMMA CloseRewires ==
    ASSUME HubInv, NEW c \in Streams, ch' = [ch EXCEPT ![c].closed = TRUE]
    PROVE  \E x \in Channels : Rewires(c, x) /\ x.closed = TRUE /\ x.buffer = ch[c].buffer
<1> DEFINE x == [ch[c] EXCEPT !.closed = TRUE]
<1>1. ch[c] \in Channels /\ ch \in [Streams -> Channels] /\ Len(ch[c].buffer) <= Buffer
  BY Shapes DEF HubInv
<1>2. ch' = [ch EXCEPT ![c] = x]
  BY <1>1
<1>3. x \in Channels /\ x.closed = TRUE /\ x.buffer = ch[c].buffer
  BY <1>1 DEF Channels
<1> HIDE DEF x
<1>4. QED
  BY <1>1, <1>2, <1>3, RewiresTo DEF HubInv

LEMMA DeliverRewires ==
    ASSUME HubInv, NEW c \in Streams, Deliver(c)
    PROVE  \E x \in Channels : /\ Rewires(c, x) /\ x.closed = ch[c].closed
                               /\ x.buffer = Tail(ch[c].buffer)
<1> DEFINE b == Tail(ch[c].buffer)
           x == [ch[c] EXCEPT !.buffer = b]
<1>1. ch[c] \in Channels /\ ch \in [Streams -> Channels] /\ Len(ch[c].buffer) <= Buffer
  BY Shapes DEF HubInv
<1>2. ch' = [ch EXCEPT ![c] = x]
  BY <1>1 DEF Deliver
<1>3. ch[c].buffer \in Seq(Events) /\ ch[c].buffer # <<>>
  BY <1>1 DEF Channels, Deliver
<1>4. b \in Seq(Events) /\ Len(b) <= Len(ch[c].buffer) /\ Len(b) \in Nat
      /\ Len(ch[c].buffer) \in Nat
  BY <1>3
<1>5. Len(b) <= Buffer
  BY <1>1, <1>4, HubAssumption
<1> HIDE DEF b
<1>6. x \in Channels /\ x.closed = ch[c].closed /\ x.buffer = b
  BY <1>1, <1>4 DEF Channels
<1> HIDE DEF x
<1>7. QED
  BY <1>2, <1>5, <1>6, RewiresTo DEF HubInv, b

\* Login r goes on to row, and no other login moves.
Proceeds(r, row) ==
    /\ login' \in [Logins -> LoginRows]
    /\ login'[r] = row
    /\ \A q \in Logins : q # r => login'[q] = login[q]

LEMMA ProceedsTo ==
    ASSUME TypeOK, NEW r \in Logins, NEW row \in LoginRows, login' = [login EXCEPT ![r] = row]
    PROVE  Proceeds(r, row)
BY Shapes DEF Proceeds

LEMMA NoLoginRow ==
    /\ NoLogin \in LoginRows /\ NoLogin.pc = "idle" /\ NoLogin.ids = {} /\ NoLogin.closing = {}
BY DEF NoLogin, LoginRows

LEMMA ToldProceeds ==
    ASSUME HubInv, NEW r \in Logins, NEW u \in Users, BroadcastToUser(r, u)
    PROVE  \E row \in LoginRows : /\ Proceeds(r, row) /\ row.pc = "told" /\ row.user = u
                                  /\ row.ids = {} /\ row.closing = {}
<1> DEFINE row == [NoLogin EXCEPT !.pc = "told", !.user = u]
<1>1. login' = [login EXCEPT ![r] = row]
  BY DEF BroadcastToUser
<1>2. row \in LoginRows /\ row.pc = "told" /\ row.user = u /\ row.ids = {} /\ row.closing = {}
  BY NoLoginRow DEF LoginRows
<1> HIDE DEF row
<1>3. QED
  BY <1>1, <1>2, ProceedsTo DEF HubInv

LEMMA LogoutProceeds ==
    ASSUME HubInv, NEW r \in Logins, NEW u \in Users, DropUser(r, u)
    PROVE  \E row \in LoginRows : /\ Proceeds(r, row) /\ row.pc = "logout" /\ row.user = u
                                  /\ row.ids = {} /\ row.closing = {}
<1> DEFINE row == [NoLogin EXCEPT !.pc = "logout", !.user = u]
<1>1. login' = [login EXCEPT ![r] = row]
  BY DEF DropUser
<1>2. row \in LoginRows /\ row.pc = "logout" /\ row.user = u /\ row.ids = {} /\ row.closing = {}
  BY NoLoginRow DEF LoginRows
<1> HIDE DEF row
<1>3. QED
  BY <1>1, <1>2, ProceedsTo DEF HubInv

LEMMA ListProceeds ==
    ASSUME HubInv, NEW r \in Logins, DropUserExcept(r)
    PROVE  \E row \in LoginRows : /\ Proceeds(r, row) /\ row.pc = "drop"
                                  /\ row.ids = {c \in clients : UserOf(c) = login[r].user}
                                  /\ row.closing = login[r].closing
<1> DEFINE own == {c \in clients : UserOf(c) = login[r].user}
           row == [login[r] EXCEPT !.pc = "drop", !.ids = own]
<1>1. login[r] \in LoginRows /\ login \in [Logins -> LoginRows] /\ own \subseteq Streams
  BY Shapes DEF HubInv
<1> HIDE DEF own
<1>2. login' = [login EXCEPT ![r] = row]
  BY <1>1 DEF DropUserExcept, own
<1>3. row \in LoginRows /\ row.pc = "drop" /\ row.ids = own /\ row.closing = login[r].closing
  BY <1>1 DEF LoginRows
<1> HIDE DEF row
<1>4. QED
  BY <1>2, <1>3, ProceedsTo DEF HubInv, own

LEMMA DropProceeds ==
    ASSUME HubInv, NEW r \in Logins, NEW c \in Streams, DropRemove(r, c)
    PROVE  \E row \in LoginRows : /\ Proceeds(r, row) /\ row.pc = "drop"
                                  /\ row.ids = login[r].ids \ {c}
                                  /\ row.closing = {c} \cap clients
<1> DEFINE left == login[r].ids \ {c}
           own == {c} \cap clients
           row == [login[r] EXCEPT !.ids = left, !.closing = own]
<1>1. login[r] \in LoginRows /\ login \in [Logins -> LoginRows]
  BY Shapes DEF HubInv
<1>2. left \subseteq Streams /\ own \subseteq Streams /\ login[r].pc = "drop"
  BY <1>1 DEF LoginRows, DropRemove
<1>3. login' = [login EXCEPT ![r] = row]
  BY <1>1 DEF DropRemove
<1> HIDE DEF left, own
<1>4. row \in LoginRows /\ row.pc = "drop" /\ row.ids = left /\ row.closing = own
  BY <1>1, <1>2 DEF LoginRows
<1> HIDE DEF row
<1>5. QED
  BY <1>3, <1>4, ProceedsTo DEF HubInv, left, own

LEMMA ClosedProceeds ==
    ASSUME HubInv, NEW r \in Logins, NEW c \in Streams, DropClose(r, c)
    PROVE  \E row \in LoginRows : /\ Proceeds(r, row) /\ row.pc = login[r].pc
                                  /\ row.user = login[r].user
                                  /\ row.ids = login[r].ids /\ row.closing = {}
<1> DEFINE row == [login[r] EXCEPT !.closing = {}]
<1>1. login[r] \in LoginRows /\ login \in [Logins -> LoginRows]
  BY Shapes DEF HubInv
<1>2. login' = [login EXCEPT ![r] = row]
  BY <1>1 DEF DropClose
<1>3. /\ row \in LoginRows /\ row.ids = login[r].ids /\ row.closing = {}
      /\ row.pc = login[r].pc /\ row.user = login[r].user
  BY <1>1 DEF LoginRows
<1> HIDE DEF row
<1>4. QED
  BY <1>2, <1>3, ProceedsTo DEF HubInv

LEMMA DoneProceeds ==
    ASSUME HubInv, NEW r \in Logins, DropDone(r)
    PROVE  Proceeds(r, NoLogin)
BY NoLoginRow, ProceedsTo DEF HubInv, DropDone
-----------------------------------------------------------------------------
(* Types                                                                   *)

ViewRows == [online : SUBSET Users, replaced : BOOLEAN]

\* The variables that only describe what clients learn or lose.
Aside ==
    /\ view \in [Streams -> ViewRows]
    /\ missed \in [Streams -> SUBSET Users]
    /\ astray \subseteq Users /\ unwarned \subseteq Streams /\ emits \in 0 .. MaxEmits

LEMMA TypeParts ==
    TypeOK <=> /\ clients \subseteq Streams
               /\ stream \in [Streams -> Rows]
               /\ ch \in [Streams -> Channels] /\ \A c \in Streams : Len(ch[c].buffer) <= Buffer
               /\ login \in [Logins -> LoginRows]
               /\ Aside
BY DEF TypeOK, Aside, Rows, Channels, LoginRows, ViewRows

LEMMA TypePartsNext ==
    ASSUME clients' \subseteq Streams, stream' \in [Streams -> Rows],
           ch' \in [Streams -> Channels], \A c \in Streams : Len(ch'[c].buffer) <= Buffer,
           login' \in [Logins -> LoginRows], Aside'
    PROVE  TypeOK'
BY DEF TypeOK, Aside, Rows, Channels, LoginRows, ViewRows

LEMMA NoViewRow == NoView \in ViewRows /\ NoView.replaced = FALSE
BY DEF NoView, ViewRows

\* An announcement by a handler of user u.
LEMMA AnnounceAside ==
    ASSUME HubInv, NEW c \in Streams, NEW u \in Users, NEW type \in {"online", "offline"},
           Announce(c, type, u), UNCHANGED <<view, unwarned, emits>>
    PROVE  /\ Aside'
           /\ ch' \in [Streams -> Channels] /\ \A d \in Streams : Len(ch'[d].buffer) <= Buffer
           /\ \A d \in Streams : ch'[d].closed = ch[d].closed
<1>1. Aside /\ TypeOK
  BY TypeParts DEF HubInv
<1>2. missed' \in [Streams -> SUBSET Users]
  BY <1>1 DEF Announce, Aside
<1>3. astray' \subseteq Users
  BY <1>1 DEF Announce, Aside
<1>4. Event(type, u) \in Events
  BY EventShapes
<1>5. QED
  BY <1>1, <1>2, <1>3, <1>4, SentResult DEF Aside, Announce

\* What a client was told, after it read one more event.
LEMMA DeliverView ==
    ASSUME HubInv, NEW c \in Streams, Deliver(c)
    PROVE  LET e == Head(ch[c].buffer) IN
           /\ e \in Events
           /\ view' \in [Streams -> ViewRows]
           /\ \A d \in Streams : d # c => view'[d] = view[d]
           /\ view'[c].replaced = (view[c].replaced \/ e.type = "replaced")
           /\ view'[c].online = CASE e.type = "sync" -> e.users
                                  [] e.type = "online" -> view[c].online \cup {e.user}
                                  [] e.type = "offline" -> view[c].online \ {e.user}
                                  [] OTHER -> view[c].online
<1> DEFINE e == Head(ch[c].buffer)
           replaced == view[c].replaced \/ e.type = "replaced"
           online == CASE e.type = "sync" -> e.users
                       [] e.type = "online" -> view[c].online \cup {e.user}
                       [] e.type = "offline" -> view[c].online \ {e.user}
                       [] OTHER -> view[c].online
           x == [view[c] EXCEPT !.replaced = replaced, !.online = online]
<1>1. ch[c] \in Channels /\ view \in [Streams -> ViewRows] /\ view[c] \in ViewRows
  BY TypeParts DEF HubInv, Aside
<1>2. ch[c].buffer \in Seq(Events) /\ ch[c].buffer # <<>>
  BY <1>1 DEF Channels, Deliver
<1>3. e \in Events
  BY <1>2
<1>4. view' = [view EXCEPT ![c] = x]
  BY <1>1 DEF Deliver
<1>5. replaced \in BOOLEAN
  BY <1>1 DEF ViewRows
<1> HIDE DEF e, replaced
<1>6. online \subseteq Users
  <2>1. view[c].online \subseteq Users
    BY <1>1 DEF ViewRows
  <2>2. e.users \subseteq Users /\ (e.type = "online" => e.user \in Users)
    BY <1>3 DEF Events
  <2>3. QED
    BY <2>1, <2>2
<1> HIDE DEF online
<1>7. x \in ViewRows /\ x.replaced = replaced /\ x.online = online
  BY <1>1, <1>5, <1>6 DEF ViewRows
<1> HIDE DEF x
<1>8. /\ view' \in [Streams -> ViewRows] /\ view'[c] = x
      /\ \A d \in Streams : d # c => view'[d] = view[d]
  BY <1>1, <1>4, <1>7
<1>9. QED
  BY <1>3, <1>7, <1>8 DEF e, replaced, online
-----------------------------------------------------------------------------
(* The steps of the streams' handlers                                      *)

\* A served stream is told apart from one that is leaving or gone.
LEMMA Served ==
    ASSUME HubInv
    PROVE  /\ \A c \in clients : c \in Streams /\ Active(c) /\ UserOf(c) \in Users
           /\ \A c \in Streams : Active(c) => UserOf(c) \in Users
           /\ \A r \in Logins : login[r].ids \subseteq Streams /\ login[r].closing \subseteq Streams
BY Shapes DEF HubInv, ClosingInv, Active, LoginRows

LEMMA AddStep ==
    ASSUME HubInv, NEW c \in Streams, NEW u \in Users, Add(c, u)
    PROVE  HubInv'
<1>1. PICK row \in Rows :
          /\ Moves(c, row) /\ row.user = u
          /\ row.pc = IF IsOnline(u) THEN "ready" ELSE "added"
  BY AddMoves
<1>2. Rewires(c, NewChannel) /\ NewChannel.closed = FALSE
  BY AddRewires DEF Add
<1>3. Aside'
  <2>1. Aside
    BY TypeParts DEF HubInv
  <2>2. view' \in [Streams -> ViewRows] /\ missed' \in [Streams -> SUBSET Users]
    BY <2>1, NoViewRow DEF Aside, Add
  <2>3. astray' \subseteq Users /\ unwarned' \subseteq Streams
    BY <2>1 DEF Aside, Add
  <2>4. QED
    BY <2>1, <2>2, <2>3 DEF Aside, Add
<1>4. TypeOK'
  BY <1>1, <1>2, <1>3, TypeParts, TypePartsNext DEF HubInv, Add, Moves, Rewires
<1>5. ClosingInv'
  <2>1. clients' = clients \cup {c} /\ login' = login
        /\ \A r \in Logins : c \notin login[r].closing
    BY DEF Add
  <2>2. \A d \in clients' : ~ch'[d].closed /\ stream'[d].pc \in {"added", "ready", "sync", "live"}
    BY <1>1, <1>2, <2>1, Served DEF HubInv, ClosingInv, Active, Moves, Rewires
  <2>3. \A d \in Streams : stream'[d].pc = "close" => ~ch'[d].closed
    BY <1>1, <1>2 DEF HubInv, ClosingInv, Moves, Rewires
  <2>4. \A r \in Logins : \A d \in login'[r].closing :
            /\ ~ch'[d].closed /\ d \notin clients' /\ stream'[d].pc # "close"
            /\ \A q \in Logins : q # r => d \notin login'[q].closing
    BY <1>1, <1>2, <2>1, Served DEF HubInv, ClosingInv, Moves, Rewires
  <2>5. QED
    BY <2>2, <2>3, <2>4 DEF ClosingInv, Active
<1>6. QED
  BY <1>1, <1>4, <1>5 DEF HubInv, UserOf, Moves

\* A step of c's handler that leaves the map and all channels open or closed
\* as they are.
LEMMA HandlerStep ==
    ASSUME HubInv, NEW c \in Streams, NEW row \in Rows, Moves(c, row),
           row.pc # "closed" => row.user \in Users, row.pc # "close",
           c \in clients => row.pc \in {"added", "ready", "sync", "live"},
           ch' \in [Streams -> Channels], \A d \in Streams : Len(ch'[d].buffer) <= Buffer,
           \A d \in Streams : ch'[d].closed = ch[d].closed,
           Aside', UNCHANGED <<clients, login>>
    PROVE  HubInv'
<1>1. TypeOK'
  BY TypeParts, TypePartsNext DEF HubInv, Moves
<1>2. \A d \in clients' : ~ch'[d].closed /\ stream'[d].pc \in {"added", "ready", "sync", "live"}
  BY Served DEF HubInv, ClosingInv, Active, Moves
<1>3. \A d \in Streams : stream'[d].pc = "close" => ~ch'[d].closed
  BY DEF HubInv, ClosingInv, Moves
<1>4. \A r \in Logins : \A d \in login'[r].closing :
          /\ ~ch'[d].closed /\ d \notin clients' /\ stream'[d].pc # "close"
          /\ \A q \in Logins : q # r => d \notin login'[q].closing
  BY Served DEF HubInv, ClosingInv, Moves
<1>5. QED
  BY <1>1, <1>2, <1>3, <1>4 DEF HubInv, ClosingInv, Active, UserOf, Moves

LEMMA HandlerSteps ==
    ASSUME HubInv, NEW c \in Streams,
           \/ AnnounceOnline(c) \/ TakeSnapshot(c) \/ SendSync(c)
           \/ SendSyncPanics(c) \/ AnnounceOffline(c)
    PROVE  HubInv'
<1>1. /\ Aside /\ TypeOK /\ ch \in [Streams -> Channels]
      /\ \A d \in Streams : Len(ch[d].buffer) <= Buffer
      /\ stream[c].pc # "closed" => UserOf(c) \in Users
      /\ c \in clients => stream[c].pc \in {"added", "ready", "sync", "live"} /\ ~ch[c].closed
  BY TypeParts, Served DEF HubInv, Active, ClosingInv
<1>2. CASE AnnounceOnline(c)
  <2>1. PICK row \in Rows : Moves(c, row) /\ row.pc = "ready" /\ row.user = UserOf(c)
    BY <1>2, AnnounceOnlineMoves
  <2>2. /\ stream[c].pc = "added" /\ Announce(c, "online", UserOf(c))
        /\ UNCHANGED <<clients, view, login, emits, unwarned>>
    BY <1>2 DEF AnnounceOnline
  <2>3. /\ Aside'
        /\ ch' \in [Streams -> Channels] /\ \A d \in Streams : Len(ch'[d].buffer) <= Buffer
        /\ \A d \in Streams : ch'[d].closed = ch[d].closed
    BY <1>1, <2>2, AnnounceAside
  <2>4. QED
    BY <1>1, <2>1, <2>2, <2>3, HandlerStep
<1>3. CASE TakeSnapshot(c)
  <2>1. PICK row \in Rows : Moves(c, row) /\ row.pc = "sync" /\ row.user = UserOf(c)
    BY <1>3, TakeSnapshotMoves
  <2>2. Aside' /\ stream[c].pc = "ready" /\ UNCHANGED <<clients, ch, login>>
    BY <1>1, <1>3 DEF TakeSnapshot, Aside
  <2>3. QED
    BY <1>1, <2>1, <2>2, HandlerStep
<1>4. CASE SendSync(c)
  <2>1. PICK row \in Rows : Moves(c, row) /\ row.pc = "live" /\ row.user = UserOf(c)
    BY <1>4, SendSyncMoves
  <2>2. stream[c].snapshot \subseteq Users
    BY <1>1, Shapes DEF Rows
  <2>3. Sync(stream[c].snapshot) \in Events
    BY <2>2 DEF Sync, Events
  <2>4. /\ ch' \in [Streams -> Channels] /\ \A d \in Streams : Len(ch'[d].buffer) <= Buffer
        /\ \A d \in Streams : ch'[d].closed = ch[d].closed
    BY <1>1, <1>4, <2>3, SentResult DEF SendSync
  <2>5. Aside' /\ stream[c].pc = "sync" /\ UNCHANGED <<clients, login>>
    BY <1>1, <1>4 DEF SendSync, Aside
  <2>6. QED
    BY <1>1, <2>1, <2>4, <2>5, HandlerStep
<1>5. CASE SendSyncPanics(c)
  <2>1. Moves(c, NoStream)
    BY <1>5, GoneMoves
  <2>2. /\ c \notin clients /\ StopReading(c) /\ UNCHANGED <<clients, login, emits, astray>>
    BY <1>1, <1>5 DEF SendSyncPanics
  <2>3. PICK x \in Channels : Rewires(c, x) /\ x.closed = ch[c].closed
    BY <2>2, StopRewires DEF StopReading
  <2>4. /\ ch' \in [Streams -> Channels] /\ \A d \in Streams : Len(ch'[d].buffer) <= Buffer
        /\ \A d \in Streams : ch'[d].closed = ch[d].closed
    BY <2>3 DEF Rewires
  <2>5. Aside'
    <3>1. view' \in [Streams -> ViewRows]
      BY <1>1, <2>2, NoViewRow DEF Aside, StopReading
    <3>2. missed' \in [Streams -> SUBSET Users] /\ unwarned' \subseteq Streams
      BY <1>1, <2>2 DEF Aside, StopReading
    <3>3. QED
      BY <1>1, <2>2, <3>1, <3>2 DEF Aside
  <2>6. QED
    BY <2>1, <2>2, <2>4, <2>5, NoStreamRow, HandlerStep
<1>6. CASE AnnounceOffline(c)
  <2>1. Moves(c, NoStream)
    BY <1>6, GoneMoves
  <2>2. /\ stream[c].pc = "removed" /\ Announce(c, "offline", UserOf(c))
        /\ UNCHANGED <<clients, view, login, emits, unwarned>>
    BY <1>6 DEF AnnounceOffline
  <2>3. /\ Aside'
        /\ ch' \in [Streams -> Channels] /\ \A d \in Streams : Len(ch'[d].buffer) <= Buffer
        /\ \A d \in Streams : ch'[d].closed = ch[d].closed
    BY <1>1, <2>2, AnnounceAside
  <2>4. QED
    BY <1>1, <2>1, <2>2, <2>3, NoStreamRow, HandlerStep
<1>7. QED
  BY <1>2, <1>3, <1>4, <1>5, <1>6

\* Reading moves nobody.
LEMMA DeliverStep ==
    ASSUME HubInv, NEW c \in Streams, Deliver(c)
    PROVE  HubInv'
<1>1. PICK x \in Channels : Rewires(c, x) /\ x.closed = ch[c].closed
  BY DeliverRewires
<1>2. view' \in [Streams -> ViewRows] /\ UNCHANGED <<clients, stream, login, emits, astray, missed, unwarned>>
  BY DeliverView DEF Deliver
<1>3. TypeOK'
  <2>1. Aside'
    BY <1>2, TypeParts DEF HubInv, Aside
  <2>2. QED
    BY <1>1, <1>2, <2>1, TypeParts, TypePartsNext DEF HubInv, Rewires
<1>4. \A d \in Streams : ch'[d].closed = ch[d].closed
  BY <1>1 DEF Rewires
<1>5. QED
  BY <1>2, <1>3, <1>4, Served DEF HubInv, ClosingInv, Active, UserOf

LEMMA RemoveStep ==
    ASSUME HubInv, NEW c \in Streams, RemoveStream(c)
    PROVE  HubInv'
<1>1. PICK row \in Rows :
          /\ Moves(c, row)
          /\ IF c \in clients THEN row.pc = "close" /\ row.user = UserOf(c)
             ELSE row.pc = "closed"
  BY RemoveMoves, NoStreamRow
<1>2. /\ stream[c].pc = "live" /\ clients' = clients \ {c} /\ StopReading(c)
      /\ UNCHANGED <<login, emits, astray>>
  BY DEF RemoveStream
<1>3. PICK x \in Channels : Rewires(c, x) /\ x.closed = ch[c].closed
  BY <1>2, StopRewires DEF StopReading
<1>4. Aside'
  <2>1. Aside
    BY TypeParts DEF HubInv
  <2>2. view' \in [Streams -> ViewRows]
    BY <1>2, <2>1, NoViewRow DEF Aside, StopReading
  <2>3. missed' \in [Streams -> SUBSET Users] /\ unwarned' \subseteq Streams
    BY <1>2, <2>1 DEF Aside, StopReading
  <2>4. QED
    BY <1>2, <2>1, <2>2, <2>3 DEF Aside
<1>5. TypeOK'
  BY <1>1, <1>2, <1>3, <1>4, TypeParts, TypePartsNext DEF HubInv, Moves, Rewires
<1>6. \A d \in Streams : ch'[d].closed = ch[d].closed
  BY <1>3 DEF Rewires
<1>7. \A d \in clients' : ~ch'[d].closed /\ stream'[d].pc \in {"added", "ready", "sync", "live"}
  BY <1>1, <1>2, <1>6, Served DEF HubInv, ClosingInv, Active, Moves
<1>8. \A d \in Streams : stream'[d].pc = "close" => ~ch'[d].closed
  BY <1>1, <1>6 DEF HubInv, ClosingInv, Moves
<1>9. \A r \in Logins : \A d \in login'[r].closing :
          /\ ~ch'[d].closed /\ d \notin clients' /\ stream'[d].pc # "close"
          /\ \A q \in Logins : q # r => d \notin login'[q].closing
  BY <1>1, <1>2, <1>6, Served DEF HubInv, ClosingInv, Moves
<1>10. \A d \in Streams : stream'[d].pc # "closed" => stream'[d].user \in Users
  BY <1>1, <1>2, Served DEF HubInv, Moves, UserOf
<1>11. QED
  BY <1>5, <1>7, <1>8, <1>9, <1>10 DEF HubInv, ClosingInv, Active, UserOf

LEMMA CloseStep ==
    ASSUME HubInv, NEW c \in Streams, CloseChannel(c)
    PROVE  HubInv'
<1>1. PICK row \in Rows :
          /\ Moves(c, row) /\ row.pc \in {"removed", "closed"}
          /\ row.pc = "removed" => row.user = UserOf(c)
  BY CloseMoves, NoStreamRow
<1>2. /\ stream[c].pc = "close" /\ ch' = [ch EXCEPT ![c].closed = TRUE]
      /\ UNCHANGED <<clients, view, login, emits, astray, missed, unwarned>>
  BY DEF CloseChannel
<1>3. PICK x \in Channels : Rewires(c, x)
  BY <1>2, CloseRewires
<1>4. Aside'
  BY <1>2, TypeParts DEF HubInv, Aside
<1>5. TypeOK'
  BY <1>1, <1>2, <1>3, <1>4, TypeParts, TypePartsNext DEF HubInv, Moves, Rewires
<1>6. c \notin clients /\ \A r \in Logins : c \notin login[r].closing
  BY <1>2 DEF HubInv, ClosingInv, Active
<1>7. \A d \in clients' : ~ch'[d].closed /\ stream'[d].pc \in {"added", "ready", "sync", "live"}
  BY <1>1, <1>2, <1>3, <1>6, Served DEF HubInv, ClosingInv, Active, Moves, Rewires
<1>8. \A d \in Streams : stream'[d].pc = "close" => ~ch'[d].closed
  BY <1>1, <1>3 DEF HubInv, ClosingInv, Moves, Rewires
<1>9. \A r \in Logins : \A d \in login'[r].closing :
          /\ ~ch'[d].closed /\ d \notin clients' /\ stream'[d].pc # "close"
          /\ \A q \in Logins : q # r => d \notin login'[q].closing
  BY <1>1, <1>2, <1>3, <1>6, Served DEF HubInv, ClosingInv, Moves, Rewires
<1>10. \A d \in Streams : stream'[d].pc # "closed" => stream'[d].user \in Users
  BY <1>1, <1>2 DEF HubInv, Moves, UserOf
<1>11. QED
  BY <1>5, <1>7, <1>8, <1>9, <1>10 DEF HubInv, ClosingInv, Active, UserOf
-----------------------------------------------------------------------------
(* The steps of the logins, and the events of mutations                    *)

\* A step that moves no stream and registers none.
LEMMA LoginStep ==
    ASSUME HubInv, clients' \subseteq clients, stream' = stream,
           ch' \in [Streams -> Channels], \A d \in Streams : Len(ch'[d].buffer) <= Buffer,
           login' \in [Logins -> LoginRows], Aside',
           \A d \in clients' : ~ch'[d].closed,
           \A d \in Streams : stream[d].pc = "close" => ~ch'[d].closed,
           \A r \in Logins : \A d \in login'[r].closing :
               /\ ~ch'[d].closed /\ d \notin clients' /\ stream[d].pc # "close"
               /\ \A q \in Logins : q # r => d \notin login'[q].closing
    PROVE  HubInv'
<1>1. TypeOK'
  BY TypeParts, TypePartsNext DEF HubInv
<1>2. QED
  BY <1>1, Served DEF HubInv, ClosingInv, Active, UserOf

LEMMA LoginSteps ==
    ASSUME HubInv, NEW r \in Logins,
           \/ \E u \in Users : BroadcastToUser(r, u) \/ DropUser(r, u)
           \/ DropUserExcept(r) \/ DropDone(r)
    PROVE  HubInv'
<1>1. /\ Aside /\ TypeOK /\ ch \in [Streams -> Channels]
      /\ \A d \in Streams : Len(ch[d].buffer) <= Buffer
  BY TypeParts DEF HubInv
<1>2. \A q \in Logins : \A d \in login[q].closing :
          /\ d \in Streams /\ ~ch[d].closed /\ d \notin clients /\ stream[d].pc # "close"
          /\ \A z \in Logins : z # q => d \notin login[z].closing
  BY Served DEF HubInv, ClosingInv
<1>3. /\ \A d \in clients : d \in Streams /\ ~ch[d].closed
      /\ \A d \in Streams : stream[d].pc = "close" => ~ch[d].closed
  BY Served DEF HubInv, ClosingInv
<1>4. ASSUME NEW u \in Users, BroadcastToUser(r, u) PROVE HubInv'
  <2>1. PICK row \in LoginRows : Proceeds(r, row) /\ row.closing = {}
    BY <1>4, ToldProceeds
  <2>2. Event("replaced", u) \in Events
    BY EventShapes
  <2>3. /\ ch' \in [Streams -> Channels] /\ \A d \in Streams : Len(ch'[d].buffer) <= Buffer
        /\ \A d \in Streams : ch'[d].closed = ch[d].closed
    BY <1>1, <1>4, <2>2, SentResult DEF BroadcastToUser
  <2>4. Aside' /\ clients' = clients /\ stream' = stream
    BY <1>1, <1>3, <1>4 DEF BroadcastToUser, Aside
  <2>5. \A q \in Logins : login'[q].closing \subseteq login[q].closing
    BY <2>1 DEF Proceeds
  <2>6. QED
    BY <1>2, <1>3, <2>1, <2>3, <2>4, <2>5, LoginStep DEF Proceeds
<1>5. CASE DropUserExcept(r)
  <2>1. PICK row \in LoginRows : Proceeds(r, row) /\ row.closing = login[r].closing
    BY <1>5, ListProceeds
  <2>2. Aside' /\ UNCHANGED <<clients, stream, ch>>
    BY <1>1, <1>3, <1>5 DEF DropUserExcept, Aside
  <2>3. \A q \in Logins : login'[q].closing = login[q].closing
    BY <2>1 DEF Proceeds
  <2>4. QED
    BY <1>1, <1>2, <1>3, <2>1, <2>2, <2>3, LoginStep DEF Proceeds
<1>6. CASE DropDone(r)
  <2>1. Proceeds(r, NoLogin)
    BY <1>6, DoneProceeds
  <2>2. Aside' /\ UNCHANGED <<clients, stream, ch>>
    BY <1>1, <1>6 DEF DropDone, Aside
  <2>3. \A q \in Logins : login'[q].closing \subseteq login[q].closing
    BY <2>1, NoLoginRow DEF Proceeds
  <2>4. QED
    BY <1>1, <1>2, <1>3, <2>1, <2>2, <2>3, LoginStep DEF Proceeds
<1>7. ASSUME NEW u \in Users, DropUser(r, u) PROVE HubInv'
  <2>1. PICK row \in LoginRows : Proceeds(r, row) /\ row.closing = {}
    BY <1>7, LogoutProceeds
  <2>2. Aside' /\ UNCHANGED <<clients, stream, ch>>
    BY <1>1, <1>7 DEF DropUser, Aside
  <2>3. \A q \in Logins : login'[q].closing \subseteq login[q].closing
    BY <2>1 DEF Proceeds
  <2>4. QED
    BY <1>1, <1>2, <1>3, <2>1, <2>2, <2>3, LoginStep DEF Proceeds
<1>8. QED
  BY <1>4, <1>5, <1>6, <1>7

LEMMA DropSteps ==
    ASSUME HubInv, NEW r \in Logins, NEW c \in Streams, DropRemove(r, c) \/ DropClose(r, c)
    PROVE  HubInv'
<1>1. /\ Aside /\ TypeOK /\ ch \in [Streams -> Channels]
      /\ \A d \in Streams : Len(ch[d].buffer) <= Buffer
  BY TypeParts DEF HubInv
<1>2. \A q \in Logins : \A d \in login[q].closing :
          /\ d \in Streams /\ ~ch[d].closed /\ d \notin clients /\ stream[d].pc # "close"
          /\ \A z \in Logins : z # q => d \notin login[z].closing
  BY Served DEF HubInv, ClosingInv
<1>3. /\ \A d \in clients : d \in Streams /\ ~ch[d].closed /\ stream[d].pc # "close"
                            /\ UserOf(d) \in Users
      /\ \A d \in Streams : stream[d].pc = "close" => ~ch[d].closed
  BY Served DEF HubInv, ClosingInv, Active
<1>4. CASE DropRemove(r, c)
  <2>1. PICK row \in LoginRows : Proceeds(r, row) /\ row.closing = {c} \cap clients
    BY <1>4, DropProceeds
  <2>2. Aside' /\ clients' = clients \ {c} /\ UNCHANGED <<stream, ch>>
    BY <1>1, <1>3, <1>4 DEF DropRemove, Aside
  <2>3. ASSUME NEW q \in Logins, NEW d \in login'[q].closing
        PROVE  /\ ~ch'[d].closed /\ d \notin clients' /\ stream[d].pc # "close"
               /\ \A z \in Logins : z # q => d \notin login'[z].closing
    BY <1>2, <1>3, <2>1, <2>2, <2>3 DEF Proceeds
  <2>4. QED
    BY <1>1, <1>3, <2>1, <2>2, <2>3, LoginStep DEF Proceeds
<1>5. CASE DropClose(r, c)
  <2>1. PICK row \in LoginRows : Proceeds(r, row) /\ row.closing = {}
    BY <1>5, ClosedProceeds
  <2>2. Aside' /\ c \in login[r].closing /\ UNCHANGED <<clients, stream>>
    BY <1>1, <1>5 DEF DropClose, Aside
  <2>3. PICK x \in Channels : Rewires(c, x)
    BY <1>5, CloseRewires DEF DropClose
  <2>4. ASSUME NEW q \in Logins, NEW d \in login'[q].closing
        PROVE  /\ ~ch'[d].closed /\ d \notin clients' /\ stream[d].pc # "close"
               /\ \A z \in Logins : z # q => d \notin login'[z].closing
    <3>1. q # r /\ d \in login[q].closing
      BY <2>1, <2>4 DEF Proceeds
    <3>2. d # c /\ d \in Streams
      BY <1>2, <2>2, <3>1
    <3>3. QED
      BY <1>2, <2>1, <2>2, <2>3, <3>1, <3>2 DEF Proceeds, Rewires
  <2>5. \A d \in clients' : ~ch'[d].closed
    BY <1>2, <1>3, <2>2, <2>3 DEF Rewires
  <2>6. \A d \in Streams : stream[d].pc = "close" => ~ch'[d].closed
    BY <1>2, <1>3, <2>2, <2>3 DEF Rewires
  <2>7. QED
    BY <2>1, <2>2, <2>3, <2>4, <2>5, <2>6, LoginStep DEF Proceeds, Rewires
<1>6. QED
  BY <1>4, <1>5

LEMMA EmitStep ==
    ASSUME HubInv, Emit
    PROVE  HubInv'
<1>1. Aside /\ TypeOK /\ login \in [Logins -> LoginRows]
  BY TypeParts DEF HubInv
<1>2. Event("changed", Nobody) \in Events
  BY DEF Event, Events
<1>3. /\ ch' \in [Streams -> Channels] /\ \A d \in Streams : Len(ch'[d].buffer) <= Buffer
      /\ \A d \in Streams : ch'[d].closed = ch[d].closed
  BY <1>1, <1>2, SentResult DEF Emit
<1>4. Aside'
  BY <1>1, HubAssumption DEF Emit, Aside
<1>5. UNCHANGED <<clients, stream, login>>
  BY DEF Emit
<1>6. QED
  BY <1>1, <1>3, <1>4, <1>5, Served, LoginStep DEF HubInv, ClosingInv

LEMMA HubNext == HubInv /\ [Next]_vars => HubInv'
<1> SUFFICES ASSUME HubInv, [Next]_vars PROVE HubInv'
  OBVIOUS
<1>1. CASE UNCHANGED vars
  <2>1. Aside'
    BY <1>1, TypeParts DEF HubInv, Aside, vars
  <2>2. UNCHANGED <<clients, stream, ch, login>>
    BY <1>1 DEF vars
  <2>3. QED
    BY <2>1, <2>2, TypeParts, Served, LoginStep DEF HubInv, ClosingInv
<1>2. ASSUME NEW c \in Streams,
             \/ \E u \in Users : Add(c, u)
             \/ AnnounceOnline(c) \/ TakeSnapshot(c) \/ SendSync(c)
             \/ SendSyncPanics(c) \/ Deliver(c) \/ RemoveStream(c)
             \/ CloseChannel(c) \/ AnnounceOffline(c)
      PROVE  HubInv'
  BY <1>2, AddStep, HandlerSteps, DeliverStep, RemoveStep, CloseStep
<1>3. QED
  BY <1>1, <1>2, LoginSteps, DropSteps, EmitStep DEF Next

LEMMA HubInit == Init => HubInv
<1> SUFFICES ASSUME Init PROVE HubInv
  OBVIOUS
<1>1. NewChannel \in Channels /\ NewChannel.buffer = <<>> /\ Len(<<>>) <= Buffer
  BY HubAssumption DEF NewChannel, Channels
<1>2. ch \in [Streams -> Channels] /\ \A c \in Streams : Len(ch[c].buffer) <= Buffer
  BY <1>1 DEF Init
<1>3. stream \in [Streams -> Rows] /\ \A c \in Streams : stream[c].pc = "closed"
  BY NoStreamRow DEF Init
<1>4. login \in [Logins -> LoginRows] /\ \A r \in Logins : login[r].closing = {}
  BY NoLoginRow DEF Init
<1>5. Aside
  BY NoViewRow, HubAssumption DEF Init, Aside
<1>6. TypeOK
  BY <1>2, <1>3, <1>4, <1>5, TypeParts DEF Init
<1>7. QED
  BY <1>3, <1>4, <1>6 DEF Init, HubInv, ClosingInv

LEMMA HubInductive == Spec => []HubInv
BY HubInit, HubNext, PTL DEF Spec

\* The hub keeps its shape for every number of streams, users and logins,
\* and no buffer outgrows its channel.
THEOREM HubTypes == Spec => []TypeOK
<1>1. HubInv => TypeOK
  BY DEF HubInv
<1>2. QED
  BY <1>1, HubInductive, PTL

\* RealtimeHub.Broadcast never sends on a closed channel, and no channel is
\* closed twice, although remove and DropUserExcept close after they have
\* released the lock: whoever takes a stream out of the map closes it.
THEOREM NoPanicUnderTheLock == Spec => []BroadcastNeverPanics
<1>1. HubInv => BroadcastNeverPanics
  BY Served DEF HubInv, ClosingInv, BroadcastNeverPanics
<1>2. QED
  BY <1>1, HubInductive, PTL
-----------------------------------------------------------------------------
(* Who is kicked was told                                                  *)

LEMMA ReplacedAppended ==
    ASSUME NEW b \in Seq(Events), NEW e \in Events
    PROVE  HoldsReplaced(b) \/ e.type = "replaced" => HoldsReplaced(Append(b, e))
<1>1. /\ Len(Append(b, e)) = Len(b) + 1 /\ Len(b) \in Nat
      /\ \A i \in 1 .. Len(b) : Append(b, e)[i] = b[i]
      /\ Append(b, e)[Len(b) + 1] = e
  OBVIOUS
<1>2. Len(b) + 1 \in 1 .. Len(Append(b, e)) /\ \A i \in 1 .. Len(b) : i \in 1 .. Len(Append(b, e))
  BY <1>1
<1>3. QED
  BY <1>1, <1>2 DEF HoldsReplaced

LEMMA ReplacedRead ==
    ASSUME NEW b \in Seq(Events), b # <<>>, HoldsReplaced(b), Head(b).type # "replaced"
    PROVE  HoldsReplaced(Tail(b))
<1>1. /\ Len(Tail(b)) = Len(b) - 1 /\ Len(b) \in Nat
      /\ \A i \in 1 .. Len(b) - 1 : Tail(b)[i] = b[i + 1]
      /\ Head(b) = b[1]
  OBVIOUS
<1>2. PICK i \in 1 .. Len(b) : b[i].type = "replaced"
  BY DEF HoldsReplaced
<1>3. i # 1
  BY <1>1, <1>2
<1>4. PICK j \in 1 .. Len(b) - 1 : j + 1 = i
  <2>1. i - 1 \in 1 .. Len(b) - 1 /\ (i - 1) + 1 = i
    BY <1>1, <1>2, <1>3
  <2>2. QED
    BY <2>1
<1>5. Tail(b)[j].type = "replaced" /\ j \in 1 .. Len(Tail(b))
  BY <1>1, <1>2, <1>4
<1>6. QED
  BY <1>5 DEF HoldsReplaced

\* A step that replaces no session and takes no warning back.
LEMMA WarnedKept ==
    ASSUME HubInv, WarnedInv, clients' \subseteq clients,
           \A d \in Streams :
               stream'[d].pc \in {"added", "ready", "sync", "live"} =>
                   /\ Active(d) /\ stream'[d].user = UserOf(d)
                   /\ ch'[d].closed => ch[d].closed
                   /\ d \in unwarned => d \in unwarned'
                   /\ view[d].replaced => view'[d].replaced
                   /\ HoldsReplaced(ch[d].buffer) =>
                         HoldsReplaced(ch'[d].buffer) \/ view'[d].replaced,
           \A r \in Logins : \A d \in Streams :
               /\ d \in login'[r].ids \/ d \in login'[r].closing
                     => d \in login[r].ids \/ d \in login[r].closing
               /\ login'[r].pc = "told" => login[r].pc = "told" /\ login'[r].user = login[r].user
    PROVE  WarnedInv'
<1> SUFFICES ASSUME NEW d \in Streams, Active(d)', Replaced(d)' PROVE Warned(d)'
  BY DEF WarnedInv
<1>1. stream'[d].pc \in {"added", "ready", "sync", "live"}
  BY DEF Active
<1>2. Active(d) /\ Replaced(d)
  BY <1>1 DEF Replaced, UserOf
<1>3. Warned(d)
  BY <1>2 DEF WarnedInv
<1>4. QED
  BY <1>1, <1>3 DEF Warned

\* A broadcast takes no warning out of a buffer.
LEMMA SentHolds ==
    ASSUME TypeOK, NEW to, NEW e \in Events, ch' = Sent(to, e), NEW d \in Streams
    PROVE  /\ ch'[d].closed = ch[d].closed
           /\ HoldsReplaced(ch[d].buffer) => HoldsReplaced(ch'[d].buffer)
           /\ d \in to /\ Fits(d) /\ e.type = "replaced" => HoldsReplaced(ch'[d].buffer)
<1>1. ch[d].buffer \in Seq(Events)
  BY Shapes DEF Channels
<1>2. /\ ch'[d].closed = ch[d].closed
      /\ ch'[d].buffer = IF d \in to /\ Fits(d) THEN Append(ch[d].buffer, e) ELSE ch[d].buffer
  BY SentResult
<1>3. QED
  BY <1>1, <1>2, ReplacedAppended

LEMMA AddWarned ==
    ASSUME HubInv, WarnedInv, NEW c \in Streams, NEW u \in Users, Add(c, u)
    PROVE  WarnedInv'
<1>1. PICK row \in Rows : Moves(c, row) /\ row.user = u
  BY AddMoves
<1>2. Rewires(c, NewChannel) /\ NewChannel.closed = FALSE
  BY AddRewires DEF Add
<1>3. /\ clients' = clients \cup {c} /\ login' = login
      /\ \A r \in Logins : c \notin login[r].ids /\ c \notin login[r].closing
      /\ unwarned' = IF \E r \in Logins : login[r].pc = "told" /\ login[r].user = u
                     THEN unwarned \cup {c} ELSE unwarned
      /\ \A d \in Streams : d # c => view'[d] = view[d]
  BY TypeParts DEF Add, HubInv, Aside
<1> SUFFICES ASSUME NEW d \in Streams, Active(d)', Replaced(d)' PROVE Warned(d)'
  BY DEF WarnedInv
<1>4. CASE d = c
  <2>1. \E r \in Logins : login[r].pc = "told" /\ login[r].user = u
    BY <1>1, <1>2, <1>3, <1>4 DEF Replaced, Moves, Rewires, UserOf
  <2>2. QED
    BY <1>3, <1>4, <2>1 DEF Warned
<1>5. CASE d # c
  <2>1. stream'[d] = stream[d] /\ ch'[d] = ch[d]
    BY <1>1, <1>2, <1>5 DEF Moves, Rewires
  <2>2. Active(d) /\ Replaced(d)
    BY <1>3, <1>5, <2>1 DEF Active, Replaced, UserOf
  <2>3. QED
    BY <1>3, <1>5, <2>1, <2>2 DEF WarnedInv, Warned
<1>6. QED
  BY <1>4, <1>5

LEMMA HandlersWarned ==
    ASSUME HubInv, WarnedInv, NEW c \in Streams,
           \/ AnnounceOnline(c) \/ TakeSnapshot(c) \/ SendSync(c)
           \/ SendSyncPanics(c) \/ AnnounceOffline(c) \/ RemoveStream(c) \/ CloseChannel(c)
    PROVE  WarnedInv'
<1>1. TypeOK /\ clients \subseteq Streams /\ view \in [Streams -> ViewRows]
  BY TypeParts DEF HubInv, Aside
<1>2. login' = login /\ clients' \subseteq clients
  BY DEF AnnounceOnline, TakeSnapshot, SendSync, SendSyncPanics, AnnounceOffline, RemoveStream,
         CloseChannel
<1>3. ASSUME NEW row \in Rows, Moves(c, row), row.user = UserOf(c), Active(c),
             UNCHANGED <<view, unwarned>>,
             \A d \in Streams : /\ ch'[d].closed = ch[d].closed
                                /\ HoldsReplaced(ch[d].buffer) => HoldsReplaced(ch'[d].buffer)
      PROVE  WarnedInv'
  BY <1>2, <1>3, WarnedKept DEF Moves, Active, UserOf
<1>4. ASSUME NEW row \in Rows, Moves(c, row), row.pc \in {"close", "closed", "removed"},
             \A d \in Streams : d # c => /\ ch'[d] = ch[d] /\ view'[d] = view[d]
                                         /\ d \in unwarned => d \in unwarned'
      PROVE  WarnedInv'
  BY <1>2, <1>4, WarnedKept DEF Moves, Active, UserOf
<1>5. CASE AnnounceOnline(c)
  <2>1. PICK row \in Rows : Moves(c, row) /\ row.user = UserOf(c)
    BY <1>5, AnnounceOnlineMoves
  <2>2. Active(c) /\ UserOf(c) \in Users /\ UNCHANGED <<view, unwarned>>
        /\ ch' = Sent(clients, Event("online", UserOf(c)))
    BY <1>5, Served DEF AnnounceOnline, Announce, Active
  <2>3. QED
    BY <1>1, <1>3, <2>1, <2>2, EventShapes, SentHolds
<1>6. CASE TakeSnapshot(c)
  <2>1. PICK row \in Rows : Moves(c, row) /\ row.user = UserOf(c)
    BY <1>6, TakeSnapshotMoves
  <2>2. QED
    BY <1>3, <1>6, <2>1 DEF TakeSnapshot, Active
<1>7. CASE SendSync(c)
  <2>1. PICK row \in Rows : Moves(c, row) /\ row.user = UserOf(c)
    BY <1>7, SendSyncMoves
  <2>2. Sync(stream[c].snapshot) \in Events
    BY <1>1, Shapes DEF Rows, Sync, Events
  <2>3. QED
    BY <1>1, <1>3, <1>7, <2>1, <2>2, SentHolds DEF SendSync, Active
<1>8. CASE SendSyncPanics(c) \/ RemoveStream(c)
  <2>1. PICK row \in Rows : Moves(c, row) /\ row.pc \in {"close", "closed"}
    BY <1>8, GoneMoves, RemoveMoves, NoStreamRow
  <2>2. StopReading(c)
    BY <1>8 DEF SendSyncPanics, RemoveStream
  <2>3. PICK x \in Channels : Rewires(c, x)
    BY <2>2, StopRewires DEF StopReading
  <2>4. \A d \in Streams : d # c => /\ ch'[d] = ch[d] /\ view'[d] = view[d]
                                    /\ d \in unwarned => d \in unwarned'
    BY <1>1, <2>2, <2>3 DEF StopReading, Rewires
  <2>5. QED
    BY <1>4, <2>1, <2>4
<1>9. CASE CloseChannel(c)
  <2>1. PICK row \in Rows : Moves(c, row) /\ row.pc \in {"removed", "closed"}
    BY <1>9, CloseMoves, NoStreamRow
  <2>2. PICK x \in Channels : Rewires(c, x)
    BY <1>9, CloseRewires DEF CloseChannel
  <2>3. \A d \in Streams : d # c => /\ ch'[d] = ch[d] /\ view'[d] = view[d]
                                    /\ d \in unwarned => d \in unwarned'
    BY <1>9, <2>2 DEF CloseChannel, Rewires
  <2>4. QED
    BY <1>4, <2>1, <2>3
<1>10. CASE AnnounceOffline(c)
  <2>1. Moves(c, NoStream)
    BY <1>10, GoneMoves
  <2>2. UserOf(c) \in Users /\ UNCHANGED <<view, unwarned>>
        /\ ch' = Sent(clients, Event("offline", UserOf(c)))
    BY <1>10 DEF AnnounceOffline, Announce, HubInv
  <2>3. \A d \in Streams : /\ ch'[d].closed = ch[d].closed
                           /\ HoldsReplaced(ch[d].buffer) => HoldsReplaced(ch'[d].buffer)
    BY <1>1, <2>2, EventShapes, SentHolds
  <2>4. QED
    BY <1>2, <2>1, <2>2, <2>3, NoStreamRow, WarnedKept DEF Moves, Active, UserOf
<1>11. QED
  BY <1>5, <1>6, <1>7, <1>8, <1>9, <1>10

LEMMA DeliverWarned ==
    ASSUME HubInv, WarnedInv, NEW c \in Streams, Deliver(c)
    PROVE  WarnedInv'
<1>1. PICK x \in Channels : /\ Rewires(c, x) /\ x.closed = ch[c].closed
                            /\ x.buffer = Tail(ch[c].buffer)
  BY DeliverRewires
<1>2. /\ \A d \in Streams : d # c => view'[d] = view[d]
      /\ view'[c].replaced = (view[c].replaced \/ Head(ch[c].buffer).type = "replaced")
  BY DeliverView
<1>3. ch[c].buffer \in Seq(Events) /\ ch[c].buffer # <<>>
  BY Shapes DEF HubInv, Channels, Deliver
<1>4. HoldsReplaced(ch[c].buffer) => HoldsReplaced(ch'[c].buffer) \/ view'[c].replaced
  BY <1>1, <1>2, <1>3, ReplacedRead DEF Rewires
<1>5. UNCHANGED <<clients, stream, login, unwarned>>
  BY DEF Deliver
<1>6. QED
  BY <1>1, <1>2, <1>4, <1>5, WarnedKept DEF Rewires, Active, UserOf

LEMMA LoginsWarned ==
    ASSUME HubInv, WarnedInv, NEW r \in Logins,
           \/ \E u \in Users : BroadcastToUser(r, u) \/ DropUser(r, u)
           \/ DropUserExcept(r) \/ DropDone(r)
           \/ \E c \in Streams : DropRemove(r, c) \/ DropClose(r, c)
    PROVE  WarnedInv'
<1>1. TypeOK /\ clients \subseteq Streams
  BY TypeParts DEF HubInv
<1>2. ASSUME NEW u \in Users, BroadcastToUser(r, u) PROVE WarnedInv'
  <2> DEFINE own == {c \in clients : UserOf(c) = u}
  <2>1. PICK row \in LoginRows : /\ Proceeds(r, row) /\ row.user = u
                                 /\ row.ids = {} /\ row.closing = {}
    BY <1>2, ToldProceeds
  <2>2. /\ ch' = Sent(own, Event("replaced", u)) /\ UNCHANGED <<clients, stream, view>>
        /\ unwarned' = unwarned \cup {c \in own : ~Fits(c)}
    BY <1>2 DEF BroadcastToUser
  <2>3. Event("replaced", u) \in Events /\ Event("replaced", u).type = "replaced"
    BY EventShapes DEF Event
  <2> SUFFICES ASSUME NEW d \in Streams, Active(d)', Replaced(d)' PROVE Warned(d)'
    BY DEF WarnedInv
  <2>4. /\ ch'[d].closed = ch[d].closed
        /\ HoldsReplaced(ch[d].buffer) => HoldsReplaced(ch'[d].buffer)
        /\ d \in own /\ Fits(d) => HoldsReplaced(ch'[d].buffer)
    BY <1>1, <2>2, <2>3, SentHolds
  <2>5. CASE d \in own
    BY <2>2, <2>4, <2>5 DEF Warned
  <2>6. CASE d \notin own
    <3>1. Active(d) /\ Replaced(d)
      BY <2>1, <2>2, <2>4, <2>6 DEF Active, Replaced, UserOf, Proceeds
    <3>2. QED
      BY <2>2, <2>4, <3>1 DEF WarnedInv, Warned
  <2>7. QED
    BY <2>5, <2>6
<1>3. CASE DropUserExcept(r)
  <2>1. PICK row \in LoginRows : /\ Proceeds(r, row) /\ row.pc = "drop"
                                 /\ row.ids = {c \in clients : UserOf(c) = login[r].user}
                                 /\ row.closing = login[r].closing
    BY <1>3, ListProceeds
  <2>2. /\ UNCHANGED <<clients, stream, ch, view>>
        /\ login[r].pc \in {"told", "logout"}
        /\ unwarned' = IF login[r].pc = "logout" THEN unwarned \cup row.ids ELSE unwarned
    BY <1>3, <2>1 DEF DropUserExcept
  <2> SUFFICES ASSUME NEW d \in Streams, Active(d)', Replaced(d)', d \notin unwarned'
               PROVE  Warned(d)'
    BY DEF WarnedInv, Warned
  <2>3. Active(d) /\ Replaced(d)
    BY <2>1, <2>2 DEF Active, Replaced, UserOf, Proceeds
  <2>4. QED
    BY <2>2, <2>3 DEF WarnedInv, Warned
<1>4. CASE DropDone(r)
  <2>1. Proceeds(r, NoLogin) /\ UNCHANGED <<clients, stream, ch, view, unwarned>>
    BY <1>4, DoneProceeds DEF DropDone
  <2>2. QED
    BY <2>1, NoLoginRow, WarnedKept DEF Proceeds, Active, UserOf
<1>5. ASSUME NEW c \in Streams, DropRemove(r, c) PROVE WarnedInv'
  <2>1. PICK row \in LoginRows : /\ Proceeds(r, row) /\ row.pc = "drop"
                                 /\ row.ids = login[r].ids \ {c}
                                 /\ row.closing = {c} \cap clients
    BY <1>5, DropProceeds
  <2>2. /\ clients' = clients \ {c} /\ UNCHANGED <<stream, ch, view, unwarned>>
        /\ c \in login[r].ids
    BY <1>5 DEF DropRemove
  <2>3. QED
    BY <2>1, <2>2, WarnedKept DEF Proceeds, Active, UserOf
<1>6. ASSUME NEW c \in Streams, DropClose(r, c) PROVE WarnedInv'
  <2>1. PICK row \in LoginRows : /\ Proceeds(r, row) /\ row.pc = login[r].pc
                                 /\ row.user = login[r].user
                                 /\ row.ids = login[r].ids /\ row.closing = {}
    BY <1>6, ClosedProceeds
  <2>2. c \in login[r].closing /\ UNCHANGED <<clients, stream, view, unwarned>>
    BY <1>6 DEF DropClose
  <2>3. PICK x \in Channels : Rewires(c, x) /\ x.buffer = ch[c].buffer
    BY <1>6, CloseRewires DEF DropClose
  <2> SUFFICES ASSUME NEW d \in Streams, Active(d)', Replaced(d)' PROVE Warned(d)'
    BY DEF WarnedInv
  <2>4. ch'[d].buffer = ch[d].buffer
    BY <2>3 DEF Rewires
  <2>5. Active(d) /\ Replaced(d)
    <3>1. CASE d = c
      BY <2>2, <3>1 DEF Active, Replaced
    <3>2. CASE d # c
      BY <2>1, <2>2, <2>3, <3>2 DEF Active, Replaced, UserOf, Proceeds, Rewires
    <3>3. QED
      BY <3>1, <3>2
  <2>6. QED
    BY <2>2, <2>4, <2>5 DEF WarnedInv, Warned
<1>7. ASSUME NEW u \in Users, DropUser(r, u) PROVE WarnedInv'
  <2>1. PICK row \in LoginRows : /\ Proceeds(r, row) /\ row.pc = "logout"
                                 /\ row.ids = {} /\ row.closing = {}
    BY <1>7, LogoutProceeds
  <2>2. UNCHANGED <<clients, stream, ch, view, unwarned>>
    BY <1>7 DEF DropUser
  <2>3. QED
    BY <2>1, <2>2, WarnedKept DEF Proceeds, Active, UserOf
<1>8. QED
  BY <1>2, <1>3, <1>4, <1>5, <1>6, <1>7

LEMMA WarnedNext == HubInv /\ WarnedInv /\ [Next]_vars => WarnedInv'
<1> SUFFICES ASSUME HubInv, WarnedInv, [Next]_vars PROVE WarnedInv'
  OBVIOUS
<1>1. CASE UNCHANGED vars
  BY <1>1, WarnedKept DEF vars, Active, UserOf
<1>2. CASE Emit
  <2>1. ch' = Sent(clients, Event("changed", Nobody)) /\ TypeOK
        /\ UNCHANGED <<clients, stream, view, login, unwarned>>
    BY <1>2 DEF Emit, HubInv
  <2>2. Event("changed", Nobody) \in Events
    BY DEF Event, Events
  <2>3. QED
    BY <2>1, <2>2, SentHolds, WarnedKept DEF Active, UserOf
<1>3. QED
  BY <1>1, <1>2, AddWarned, HandlersWarned, DeliverWarned, LoginsWarned DEF Next

\* A stream the server ends has told its client that its session was
\* replaced, for any number of logins and logouts that drop streams side by
\* side (issueLiveSession, DropUserExcept), but for the streams that unwarned
\* records: a full buffer, a late arrival, the drop of a logout.
THEOREM KickedWereTold == Spec => []KickedClientsWereTold
<1>1. Init => WarnedInv
  BY NoStreamRow DEF Init, WarnedInv, Active
<1>2. WarnedInv => KickedClientsWereTold
  <2> SUFFICES ASSUME WarnedInv, NEW c \in Streams, stream[c].pc = "live", ch[c].closed,
                      ch[c].buffer = <<>>
               PROVE  view[c].replaced \/ c \in unwarned
    BY DEF KickedClientsWereTold
  <2>1. Warned(c)
    BY DEF WarnedInv, Active, Replaced
  <2>2. ~HoldsReplaced(<<>>)
    BY DEF HoldsReplaced
  <2>3. QED
    BY <2>1, <2>2 DEF Warned
<1>3. QED
  BY <1>1, <1>2, WarnedNext, HubInductive, PTL DEF Spec

-----------------------------------------------------------------------------
(* What a client comes to know                                             *)

\* A word on u is the last one, and any other event leaves the last word.
LEMMA LearnsAppended ==
    ASSUME NEW b \in Seq(Events), NEW e \in Events, NEW told, NEW u, NEW online \in BOOLEAN,
           \/ Concerns(e, u) /\ (SaysOnline(e, u) <=> online)
           \/ ~Concerns(e, u) /\ Learns(b, told, u, online)
    PROVE  Learns(Append(b, e), told, u, online)
<1> DEFINE a == Append(b, e)
<1>1. PICK n \in Nat : n = Len(b)
  OBVIOUS
<1>2. /\ Len(a) = n + 1 /\ a[n + 1] = e
      /\ \A i \in 1 .. n : a[i] = b[i]
  BY <1>1
<1>3. /\ \A i \in 1 .. n : i \in 1 .. n + 1
      /\ n + 1 \in 1 .. n + 1 /\ \A j \in 1 .. n + 1 : j \in 1 .. n \/ j = n + 1
      /\ \A j \in 1 .. n + 1 : ~(j > n + 1)
  BY <1>1
<1> HIDE DEF a
<1>4. CASE Concerns(e, u) /\ (SaysOnline(e, u) <=> online)
  BY <1>2, <1>3, <1>4 DEF Learns, a
<1>5. CASE ~Concerns(e, u) /\ Learns(b, told, u, online)
  <2>1. CASE \E i \in 1 .. n : /\ Concerns(b[i], u) /\ (SaysOnline(b[i], u) <=> online)
                               /\ \A j \in 1 .. n : j > i => ~Concerns(b[j], u)
    <3>1. PICK i \in 1 .. n : /\ Concerns(b[i], u) /\ (SaysOnline(b[i], u) <=> online)
                              /\ \A j \in 1 .. n : j > i => ~Concerns(b[j], u)
      BY <2>1
    <3>2. Concerns(a[i], u) /\ (SaysOnline(a[i], u) <=> online)
      BY <1>2, <3>1
    <3>3. \A j \in 1 .. n + 1 : j > i => ~Concerns(a[j], u)
      BY <1>2, <1>3, <1>5, <3>1
    <3>4. QED
      BY <1>2, <1>3, <3>2, <3>3 DEF Learns, a
  <2>2. CASE /\ \A j \in 1 .. n : ~Concerns(b[j], u)
             /\ (u \in told) <=> online
    <3>1. \A j \in 1 .. n + 1 : ~Concerns(a[j], u)
      BY <1>2, <1>3, <1>5, <2>2
    <3>2. QED
      BY <1>2, <2>2, <3>1 DEF Learns, a
  <2>3. QED
    BY <1>1, <1>5, <2>1, <2>2 DEF Learns
<1>6. QED
  BY <1>4, <1>5

\* Reading an event turns it into what the client was told.
LEMMA LearnsRead ==
    ASSUME NEW b \in Seq(Events), b # <<>>, NEW told, NEW now, NEW u, NEW online \in BOOLEAN,
           Learns(b, told, u, online),
           Concerns(Head(b), u) => (u \in now <=> SaysOnline(Head(b), u)),
           ~Concerns(Head(b), u) => (u \in now <=> u \in told)
    PROVE  Learns(Tail(b), now, u, online)
<1> DEFINE a == Tail(b)
<1>1. PICK n \in Nat : n + 1 = Len(b)
  <2>1. Len(b) \in Nat /\ Len(b) # 0
    OBVIOUS
  <2>2. Len(b) - 1 \in Nat /\ (Len(b) - 1) + 1 = Len(b)
    BY <2>1
  <2>3. QED
    BY <2>2
<1>2. /\ Len(a) = n /\ Head(b) = b[1]
      /\ \A i \in 1 .. n : a[i] = b[i + 1]
  BY <1>1
<1>3. /\ \A i \in 1 .. n : i + 1 \in 1 .. n + 1 /\ i + 1 > 1
      /\ 1 \in 1 .. n + 1
      /\ \A i \in 1 .. n + 1 : i = 1 \/ i - 1 \in 1 .. n
      /\ \A i \in 1 .. n : (i + 1) - 1 = i
      /\ \A i, j \in 1 .. n : j > i => j + 1 > i + 1
  BY <1>1
<1> HIDE DEF a
<1>4. CASE \E i \in 1 .. n + 1 :
              /\ Concerns(b[i], u) /\ (SaysOnline(b[i], u) <=> online)
              /\ \A j \in 1 .. n + 1 : j > i => ~Concerns(b[j], u)
  <2>1. PICK i \in 1 .. n + 1 :
              /\ Concerns(b[i], u) /\ (SaysOnline(b[i], u) <=> online)
              /\ \A j \in 1 .. n + 1 : j > i => ~Concerns(b[j], u)
    BY <1>4
  <2>2. CASE i = 1
    <3>1. \A j \in 1 .. n : ~Concerns(a[j], u)
      BY <1>2, <1>3, <2>1, <2>2
    <3>2. u \in now <=> online
      BY <1>2, <2>1, <2>2
    <3>3. QED
      BY <1>2, <3>1, <3>2 DEF Learns, a
  <2>3. CASE i # 1
    <3>1. PICK k \in 1 .. n : k + 1 = i
      <4>1. i - 1 \in 1 .. n /\ (i - 1) + 1 = i
        BY <1>3, <2>1, <2>3
      <4>2. QED
        BY <4>1
    <3>2. Concerns(a[k], u) /\ (SaysOnline(a[k], u) <=> online)
      BY <1>2, <2>1, <3>1
    <3>3. \A j \in 1 .. n : j > k => ~Concerns(a[j], u)
      BY <1>2, <1>3, <2>1, <3>1
    <3>4. QED
      BY <1>2, <3>2, <3>3 DEF Learns, a
  <2>4. QED
    BY <2>2, <2>3
<1>5. CASE /\ \A j \in 1 .. n + 1 : ~Concerns(b[j], u)
           /\ (u \in told) <=> online
  <2>1. \A j \in 1 .. n : ~Concerns(a[j], u)
    BY <1>2, <1>3, <1>5
  <2>2. u \in now <=> online
    BY <1>2, <1>3, <1>5
  <2>3. QED
    BY <1>2, <2>1, <2>2 DEF Learns, a
<1>6. QED
  BY <1>1, <1>4, <1>5 DEF Learns
-----------------------------------------------------------------------------
(* Who announces what                                                      *)

\* A step in which nobody begins to announce.
LEMMA AnnounceKept ==
    ASSUME HubInv, AnnounceInv, clients' \subseteq clients,
           \A d \in clients' : stream'[d].user = UserOf(d),
           \A d \in Streams :
               /\ stream'[d].pc \in {"added", "removed"} => stream'[d].announce
               /\ stream'[d].announce =>
                     /\ stream[d].announce /\ stream'[d].user = UserOf(d)
                     /\ \/ stream'[d].pc = stream[d].pc
                        \/ stream[d].pc = "close" /\ stream'[d].pc = "removed"
                     /\ UserOf(d) \notin astray' =>
                           /\ UserOf(d) \notin astray
                           /\ d \in clients => d \in clients'
    PROVE  AnnounceInv'
<1> SUFFICES ASSUME NEW d \in Streams
             PROVE  /\ Announces(d)' => stream'[d].pc \in {"added", "close", "removed"}
                    /\ stream'[d].pc \in {"added", "removed"} => Announces(d)'
                    /\ Announces(d)' /\ stream'[d].user \notin astray' =>
                        /\ \/ stream'[d].pc = "added" /\ d \in clients' /\ LastFor(d)'
                           \/ stream'[d].pc # "added" /\ ~IsOnline(UserOf(d))'
                        /\ \A e \in Streams :
                              Announces(e)' /\ stream'[e].user = stream'[d].user => e = d
  BY DEF AnnounceInv, UserOf
<1>1. Announces(d)' => stream'[d].pc \in {"added", "close", "removed"}
  BY DEF AnnounceInv, Announces
<1>2. stream'[d].pc \in {"added", "removed"} => Announces(d)'
  BY DEF Announces
<1>3. ASSUME Announces(d)', stream'[d].user \notin astray'
      PROVE  /\ \/ stream'[d].pc = "added" /\ d \in clients' /\ LastFor(d)'
                \/ stream'[d].pc # "added" /\ ~IsOnline(UserOf(d))'
             /\ \A e \in Streams : Announces(e)' /\ stream'[e].user = stream'[d].user => e = d
  <2>1. /\ Announces(d) /\ stream'[d].user = UserOf(d) /\ UserOf(d) \notin astray
        /\ d \in clients => d \in clients'
        /\ stream'[d].pc = "added" <=> stream[d].pc = "added"
    BY <1>3 DEF Announces
  <2>2. /\ \/ stream[d].pc = "added" /\ d \in clients /\ LastFor(d)
           \/ stream[d].pc # "added" /\ ~IsOnline(UserOf(d))
        /\ \A e \in Streams : Announces(e) /\ UserOf(e) = UserOf(d) => e = d
    BY <2>1 DEF AnnounceInv
  <2>3. LastFor(d) => LastFor(d)'
    BY <2>1 DEF LastFor, UserOf
  <2>4. ~IsOnline(UserOf(d)) => ~IsOnline(UserOf(d))'
    BY <2>1 DEF IsOnline, UserOf
  <2>5. \A e \in Streams : Announces(e)' /\ stream'[e].user = stream'[d].user => e = d
    BY <2>1, <2>2 DEF Announces
  <2>6. QED
    BY <2>1, <2>2, <2>3, <2>4, <2>5
<1>4. QED
  BY <1>1, <1>2, <1>3

\* The first stream of a user begins to announce it.
LEMMA AddAnnounces ==
    ASSUME HubInv, AnnounceInv, NEW c \in Streams, NEW u \in Users, Add(c, u)
    PROVE  AnnounceInv'
<1>1. PICK row \in Rows : /\ Moves(c, row) /\ row.user = u
                          /\ row.pc = IF IsOnline(u) THEN "ready" ELSE "added"
                          /\ row.announce = ~IsOnline(u)
  BY AddMoves
<1>2. /\ stream[c].pc = "closed" /\ clients' = clients \cup {c}
      /\ astray' = IF Announcing(u) = {} THEN astray ELSE astray \cup {u}
  BY DEF Add
<1>3. c \notin clients /\ ~Announces(c) /\ clients \subseteq Streams
  BY <1>2, Served DEF AnnounceInv, Active, HubInv, ClosingInv, TypeOK
<1>4. \A d \in Streams : d # c => /\ stream'[d] = stream[d]
                                  /\ stream'[d].user = UserOf(d)
                                  /\ (Announces(d)' <=> Announces(d))
  BY <1>1 DEF Moves, UserOf, Announces
<1>5. /\ stream'[c].user = u /\ (Announces(c)' <=> ~IsOnline(u))
      /\ stream'[c].pc = IF IsOnline(u) THEN "ready" ELSE "added"
  BY <1>1 DEF Moves, Announces
<1>6. ASSUME NEW d \in Streams, d # c, Announces(d), UserOf(d) \notin astray'
      PROVE  UserOf(d) # u /\ UserOf(d) \notin astray
  BY <1>2, <1>6 DEF Announcing, Announces
<1> SUFFICES ASSUME NEW d \in Streams
             PROVE  /\ Announces(d)' => stream'[d].pc \in {"added", "close", "removed"}
                    /\ stream'[d].pc \in {"added", "removed"} => Announces(d)'
                    /\ Announces(d)' /\ stream'[d].user \notin astray' =>
                        /\ \/ stream'[d].pc = "added" /\ d \in clients' /\ LastFor(d)'
                           \/ stream'[d].pc # "added" /\ ~IsOnline(UserOf(d))'
                        /\ \A e \in Streams :
                              Announces(e)' /\ stream'[e].user = stream'[d].user => e = d
  BY DEF AnnounceInv, UserOf
<1>7. CASE d = c
  <2>1. Announces(c)' => LastFor(c)'
    BY <1>2, <1>3, <1>4, <1>5 DEF LastFor, IsOnline, UserOf
  <2>2. u \notin astray' =>
           \A e \in Streams : Announces(e)' /\ stream'[e].user = u => e = c
    BY <1>4, <1>6
  <2>3. QED
    BY <1>2, <1>5, <1>7, <2>1, <2>2
<1>8. CASE d # c
  <2>1. /\ Announces(d)' => stream'[d].pc \in {"added", "close", "removed"}
        /\ stream'[d].pc \in {"added", "removed"} => Announces(d)'
    BY <1>4, <1>8 DEF AnnounceInv
  <2>2. ASSUME Announces(d)', stream'[d].user \notin astray'
        PROVE  /\ \/ stream'[d].pc = "added" /\ d \in clients' /\ LastFor(d)'
                  \/ stream'[d].pc # "added" /\ ~IsOnline(UserOf(d))'
               /\ \A e \in Streams :
                     Announces(e)' /\ stream'[e].user = stream'[d].user => e = d
    <3>1. Announces(d) /\ UserOf(d) \notin astray' /\ stream'[d].user = UserOf(d)
      BY <1>4, <1>8, <2>2
    <3>2. UserOf(d) # u /\ UserOf(d) \notin astray
      BY <1>6, <1>8, <3>1
    <3>3. /\ \/ stream[d].pc = "added" /\ d \in clients /\ LastFor(d)
             \/ stream[d].pc # "added" /\ ~IsOnline(UserOf(d))
          /\ \A e \in Streams : Announces(e) /\ UserOf(e) = UserOf(d) => e = d
      BY <3>1, <3>2 DEF AnnounceInv
    <3>4. LastFor(d) => LastFor(d)'
      BY <1>2, <1>3, <1>4, <1>5, <3>1, <3>2 DEF LastFor, UserOf
    <3>5. ~IsOnline(UserOf(d)) => ~IsOnline(UserOf(d))'
      BY <1>2, <1>3, <1>4, <1>5, <3>1, <3>2 DEF IsOnline, UserOf
    <3>6. QED
      BY <1>2, <1>4, <1>5, <1>8, <3>1, <3>2, <3>3, <3>4, <3>5
  <2>3. QED
    BY <2>1, <2>2
<1>9. QED
  BY <1>7, <1>8

\* The last stream of a user begins to announce that it is gone.
LEMMA RemoveAnnounces ==
    ASSUME HubInv, AnnounceInv, NEW c \in Streams, RemoveStream(c)
    PROVE  AnnounceInv'
<1>1. stream[c].pc = "live" /\ ~Announces(c) /\ clients' = clients \ {c} /\ astray' = astray
  BY DEF RemoveStream, AnnounceInv
<1>2. CASE c \notin clients
  <2>1. Moves(c, NoStream)
    BY <1>2, RemoveMoves
  <2>2. QED
    BY <1>1, <1>2, <2>1, NoStreamRow, AnnounceKept, Served DEF Moves, AnnounceInv, Announces, UserOf
<1>3. CASE c \in clients
  <2>1. PICK row \in Rows : /\ Moves(c, row) /\ row.pc = "close"
                            /\ row.user = UserOf(c) /\ row.announce = LastFor(c)
    BY <1>3, RemoveMoves
  <2>2. \A d \in Streams : d # c => /\ stream'[d] = stream[d]
                                    /\ stream'[d].user = UserOf(d)
                                    /\ (Announces(d)' <=> Announces(d))
    BY <2>1 DEF Moves, UserOf, Announces
  <2>3. /\ stream'[c].user = UserOf(c) /\ (Announces(c)' <=> LastFor(c))
        /\ stream'[c].pc = "close"
    BY <2>1 DEF Moves, Announces
  <2>4. clients \subseteq Streams
    BY Served
  <2>5. ASSUME NEW d \in Streams, Announces(d), UserOf(d) \notin astray
        PROVE  UserOf(d) # UserOf(c)
    <3>1. d # c
      BY <1>1, <2>5
    <3>2. \/ stream[d].pc = "added" /\ d \in clients /\ LastFor(d)
          \/ stream[d].pc # "added" /\ ~IsOnline(UserOf(d))
      BY <2>5 DEF AnnounceInv
    <3>3. QED
      BY <1>3, <3>1, <3>2 DEF LastFor, IsOnline
  <2> SUFFICES ASSUME NEW d \in Streams
               PROVE  /\ Announces(d)' => stream'[d].pc \in {"added", "close", "removed"}
                      /\ stream'[d].pc \in {"added", "removed"} => Announces(d)'
                      /\ Announces(d)' /\ stream'[d].user \notin astray' =>
                          /\ \/ stream'[d].pc = "added" /\ d \in clients' /\ LastFor(d)'
                             \/ stream'[d].pc # "added" /\ ~IsOnline(UserOf(d))'
                          /\ \A e \in Streams :
                                Announces(e)' /\ stream'[e].user = stream'[d].user => e = d
    BY DEF AnnounceInv, UserOf
  <2>6. CASE d = c
    <3>1. Announces(c)' => ~IsOnline(UserOf(c))'
      BY <1>1, <2>2, <2>3, <2>4 DEF LastFor, IsOnline, UserOf
    <3>2. UserOf(c) \notin astray =>
             \A e \in Streams : Announces(e)' /\ stream'[e].user = UserOf(c) => e = c
      BY <2>2, <2>5
    <3>3. QED
      BY <1>1, <2>3, <2>6, <3>1, <3>2
  <2>7. CASE d # c
    <3>1. /\ Announces(d)' => stream'[d].pc \in {"added", "close", "removed"}
          /\ stream'[d].pc \in {"added", "removed"} => Announces(d)'
      BY <2>2, <2>7 DEF AnnounceInv
    <3>2. ASSUME Announces(d)', stream'[d].user \notin astray'
          PROVE  /\ \/ stream'[d].pc = "added" /\ d \in clients' /\ LastFor(d)'
                    \/ stream'[d].pc # "added" /\ ~IsOnline(UserOf(d))'
                 /\ \A e \in Streams :
                       Announces(e)' /\ stream'[e].user = stream'[d].user => e = d
      <4>1. Announces(d) /\ UserOf(d) \notin astray /\ stream'[d].user = UserOf(d)
        BY <1>1, <2>2, <2>7, <3>2
      <4>2. UserOf(d) # UserOf(c)
        BY <2>5, <4>1
      <4>3. /\ \/ stream[d].pc = "added" /\ d \in clients /\ LastFor(d)
               \/ stream[d].pc # "added" /\ ~IsOnline(UserOf(d))
            /\ \A e \in Streams : Announces(e) /\ UserOf(e) = UserOf(d) => e = d
        BY <4>1 DEF AnnounceInv
      <4>4. LastFor(d) => LastFor(d)'
        BY <1>1, <2>2, <2>4, <4>1 DEF LastFor, UserOf
      <4>5. ~IsOnline(UserOf(d)) => ~IsOnline(UserOf(d))'
        BY <1>1, <2>2, <2>4, <4>1 DEF IsOnline, UserOf
      <4>6. QED
        BY <1>1, <2>2, <2>3, <2>7, <4>1, <4>2, <4>3, <4>4, <4>5
    <3>3. QED
      BY <3>1, <3>2
  <2>8. QED
    BY <2>6, <2>7
<1>4. QED
  BY <1>2, <1>3
\* A handler that has announced.
LEMMA AnnounceDone ==
    ASSUME HubInv, AnnounceInv, NEW c \in Streams, NEW type, NEW row \in Rows,
           Announce(c, type, UserOf(c)), Moves(c, row), row.announce = FALSE,
           row.pc \in {"ready", "closed"}, c \in clients => row.user = UserOf(c),
           clients' = clients
    PROVE  AnnounceInv'
<1>1. clients \subseteq Streams
  BY Served
<1>2. ASSUME NEW d \in Streams, d # c, stream[d].announce, UserOf(d) \notin astray'
      PROVE  UserOf(d) \notin astray
  BY <1>2 DEF Announce, Announcing
<1>3. \A d \in Streams : d # c => stream'[d] = stream[d]
  BY DEF Moves
<1>4. stream'[c] = row
  BY DEF Moves
<1>5. \A d \in clients' : stream'[d].user = UserOf(d)
  BY <1>1, <1>3, <1>4 DEF UserOf
<1>6. \A d \in Streams :
         /\ stream'[d].pc \in {"added", "removed"} => stream'[d].announce
         /\ stream'[d].announce => /\ stream[d].announce /\ stream'[d].user = UserOf(d)
                                   /\ stream'[d].pc = stream[d].pc
                                   /\ UserOf(d) \notin astray' => UserOf(d) \notin astray
  BY <1>2, <1>3, <1>4 DEF AnnounceInv, Announces, UserOf
<1>7. QED
  BY <1>5, <1>6, AnnounceKept

LEMMA HandlersAnnounce ==
    ASSUME HubInv, AnnounceInv, NEW c \in Streams,
           \/ AnnounceOnline(c) \/ TakeSnapshot(c) \/ SendSync(c) \/ SendSyncPanics(c)
           \/ Deliver(c) \/ CloseChannel(c) \/ AnnounceOffline(c)
    PROVE  AnnounceInv'
<1>1. clients \subseteq Streams /\ clients' = clients
  BY Served DEF AnnounceOnline, TakeSnapshot, SendSync, SendSyncPanics, Deliver, CloseChannel,
                AnnounceOffline
<1>2. c \in clients => stream[c].pc \in {"added", "ready", "sync", "live"} /\ ~ch[c].closed
  BY Served DEF Active, HubInv, ClosingInv
<1>3. CASE AnnounceOnline(c)
  <2>1. PICK row \in Rows : /\ Moves(c, row) /\ row.pc = "ready" /\ row.user = UserOf(c)
                            /\ row.announce = FALSE
    BY <1>3, AnnounceOnlineMoves
  <2>2. Announce(c, "online", UserOf(c))
    BY <1>3 DEF AnnounceOnline
  <2>3. QED
    BY <1>1, <2>1, <2>2, AnnounceDone
<1>4. CASE AnnounceOffline(c)
  <2>1. Moves(c, NoStream) /\ Announce(c, "offline", UserOf(c)) /\ c \notin clients
    BY <1>2, <1>4, GoneMoves DEF AnnounceOffline
  <2>2. QED
    BY <1>1, <2>1, NoStreamRow, AnnounceDone
<1>5. CASE TakeSnapshot(c) \/ SendSync(c)
  <2>1. PICK row \in Rows : /\ Moves(c, row) /\ row.pc \in {"sync", "live"}
                            /\ row.user = UserOf(c) /\ row.announce = stream[c].announce
    BY <1>5, TakeSnapshotMoves, SendSyncMoves
  <2>2. stream[c].pc \in {"ready", "sync"} /\ astray' = astray
    BY <1>5 DEF TakeSnapshot, SendSync
  <2>3. ~stream[c].announce
    BY <2>2 DEF AnnounceInv, Announces
  <2>4. QED
    BY <1>1, <2>1, <2>2, <2>3, AnnounceKept DEF Moves, AnnounceInv, Announces, UserOf
<1>6. CASE SendSyncPanics(c)
  <2>1. Moves(c, NoStream) /\ c \notin clients /\ astray' = astray
    BY <1>2, <1>6, GoneMoves DEF SendSyncPanics
  <2>2. QED
    BY <1>1, <2>1, NoStreamRow, AnnounceKept DEF Moves, AnnounceInv, Announces, UserOf
<1>7. CASE Deliver(c)
  <2>1. UNCHANGED <<stream, astray>>
    BY <1>7 DEF Deliver
  <2>2. QED
    BY <1>1, <2>1, AnnounceKept DEF AnnounceInv, Announces, UserOf
<1>8. CASE CloseChannel(c)
  <2>1. stream[c].pc = "close" /\ astray' = astray /\ c \notin clients
    BY <1>2, <1>8 DEF CloseChannel
  <2>2. CASE ~stream[c].announce
    <3>1. Moves(c, NoStream)
      BY <1>8, <2>2, CloseMoves
    <3>2. QED
      BY <1>1, <2>1, <3>1, NoStreamRow, AnnounceKept DEF Moves, AnnounceInv, Announces, UserOf
  <2>3. CASE stream[c].announce
    <3>1. PICK row \in Rows : /\ Moves(c, row) /\ row.pc = "removed"
                              /\ row.user = UserOf(c) /\ row.announce = stream[c].announce
      BY <1>8, <2>3, CloseMoves
    <3>2. QED
      BY <1>1, <2>1, <2>3, <3>1, AnnounceKept DEF Moves, AnnounceInv, Announces, UserOf
  <2>4. QED
    BY <2>2, <2>3
<1>9. QED
  BY <1>3, <1>4, <1>5, <1>6, <1>7, <1>8

\* A drop that takes the last stream of a user away says so in astray.
LEMMA DropAnnounces ==
    ASSUME HubInv, AnnounceInv, NEW r \in Logins, NEW c \in Streams, DropRemove(r, c)
    PROVE  AnnounceInv'
<1>1. /\ clients' = clients \ {c} /\ stream' = stream
      /\ astray' = IF c \in clients /\ LastFor(c) THEN astray \cup {UserOf(c)} ELSE astray
  BY DEF DropRemove
<1>2. clients \subseteq Streams /\ (c \in clients => Active(c))
  BY Served
<1>3. ASSUME NEW d \in Streams, stream[d].announce, UserOf(d) \notin astray'
      PROVE  UserOf(d) \notin astray /\ (d \in clients => d \in clients')
  <2>1. UserOf(d) \notin astray
    BY <1>1, <1>3
  <2>2. d = c /\ d \in clients => LastFor(c)
    BY <1>2, <1>3, <2>1 DEF AnnounceInv, Announces, IsOnline
  <2>3. QED
    BY <1>1, <1>3, <2>1, <2>2
<1>4. QED
  BY <1>1, <1>2, <1>3, AnnounceKept DEF AnnounceInv, Announces, UserOf

LEMMA AnnounceNext == HubInv /\ AnnounceInv /\ [Next]_vars => AnnounceInv'
<1> SUFFICES ASSUME HubInv, AnnounceInv, [Next]_vars PROVE AnnounceInv'
  OBVIOUS
<1>1. ASSUME UNCHANGED <<clients, stream, astray>> PROVE AnnounceInv'
  BY <1>1, AnnounceKept DEF AnnounceInv, Announces, UserOf
<1>2. ASSUME NEW r \in Logins,
             \/ \E u \in Users : BroadcastToUser(r, u) \/ DropUser(r, u)
             \/ DropUserExcept(r) \/ DropDone(r) \/ \E c \in Streams : DropClose(r, c)
      PROVE  AnnounceInv'
  BY <1>1, <1>2 DEF BroadcastToUser, DropUser, DropUserExcept, DropDone, DropClose
<1>3. CASE Emit \/ UNCHANGED vars
  BY <1>1, <1>3 DEF Emit, vars
<1>4. QED
  BY <1>2, <1>3, AddAnnounces, RemoveAnnounces, HandlersAnnounce, DropAnnounces DEF Next
-----------------------------------------------------------------------------
(* What the clients know about presence                                    *)

LEMMA KnowsKept ==
    ASSUME PresenceInv, NEW d \in clients, NEW u \in Users, Owed(d, u),
           IsOnline(u)' <=> IsOnline(u),
           stream'[d].pc = "live" =>
               /\ stream[d].pc = "live"
               /\ \A x \in BOOLEAN : Learns(ch[d].buffer, view[d].online, u, x)
                                     => Learns(ch'[d].buffer, view'[d].online, u, x),
           stream'[d].pc = "sync" =>
               stream[d].pc = "sync" /\ stream'[d].snapshot = stream[d].snapshot
    PROVE  Knows(d, u)'
<1>1. Knows(d, u)
  BY DEF PresenceInv
<1>2. PICK x \in BOOLEAN : x <=> IsOnline(u)
  BY DEF IsOnline
<1>3. stream[d].pc = "live" => Learns(ch[d].buffer, view[d].online, u, x)
  BY <1>1, <1>2 DEF Knows, Learns
<1>4. stream'[d].pc = "live" => Learns(ch'[d].buffer, view'[d].online, u, x)
  BY <1>3
<1>5. stream'[d].pc = "live" => Learns(ch[d].buffer, view[d].online, u, IsOnline(u))'
  BY <1>2, <1>4 DEF Learns
<1>6. stream'[d].pc = "sync" => (u \in stream'[d].snapshot <=> IsOnline(u)')
  BY <1>1 DEF Knows
<1>7. QED
  BY <1>5, <1>6 DEF Knows

\* Who is owed the truth after a step was owed it before.
LEMMA OwedKept ==
    ASSUME NEW d, NEW u, Owed(d, u)',
           u \in astray => u \in astray', u \in missed[d] => u \in missed'[d],
           \A e \in Streams : stream[e].announce /\ UserOf(e) = u
                              => stream'[e].announce /\ stream'[e].user = u
    PROVE  Owed(d, u)
BY DEF Owed, Announcing, UserOf

LEMMA OnlineKept ==
    ASSUME NEW u, clients' = clients, \A d \in clients : stream'[d].user = UserOf(d)
    PROVE  IsOnline(u)' <=> IsOnline(u)
BY DEF IsOnline, UserOf

\* Events that say nothing of u leave what is learnt of u.
LEMMA QuietSent ==
    ASSUME TypeOK, NEW to, NEW e \in Events, NEW u, ~Concerns(e, u), ch' = Sent(to, e),
           NEW d \in Streams, view'[d] = view[d], NEW x \in BOOLEAN,
           Learns(ch[d].buffer, view[d].online, u, x)
    PROVE  Learns(ch'[d].buffer, view'[d].online, u, x)
<1>1. ch[d].buffer \in Seq(Events)
  BY Shapes DEF Channels
<1>2. ch'[d].buffer = IF d \in to /\ Fits(d) THEN Append(ch[d].buffer, e) ELSE ch[d].buffer
  BY SentResult
<1>3. QED
  BY <1>1, <1>2, LearnsAppended

\* Steps that leave the map, the handlers and the announcements alone.
LEMMA StillKnows ==
    ASSUME HubInv, PresenceInv, UNCHANGED <<clients, stream, astray, missed>>,
           \A d \in clients, u \in Users, x \in BOOLEAN :
               stream[d].pc = "live" /\ Learns(ch[d].buffer, view[d].online, u, x)
               => Learns(ch'[d].buffer, view'[d].online, u, x)
    PROVE  PresenceInv'
<1> SUFFICES ASSUME NEW d \in clients', NEW u \in Users, Owed(d, u)' PROVE Knows(d, u)'
  BY DEF PresenceInv
<1>1. Owed(d, u) /\ (IsOnline(u)' <=> IsOnline(u))
  BY OwedKept, OnlineKept DEF UserOf
<1>2. QED
  BY <1>1, KnowsKept

\* Steps of one handler, or of a drop, after which the other clients know
\* what they knew, of all users but those whose announcement is due.
LEMMA OthersKnow ==
    ASSUME HubInv, PresenceInv, NEW c \in Streams,
           clients' \subseteq clients \cup {c},
           \A d \in Streams : d # c =>
               /\ stream'[d] = stream[d] /\ ch'[d].buffer = ch[d].buffer
               /\ view'[d] = view[d] /\ missed'[d] = missed[d],
           astray \subseteq astray',
           ~Announces(c) \/ (Announces(c)' /\ stream'[c].user = UserOf(c)),
           NEW d \in clients', d # c, NEW u \in Users, Owed(d, u)',
           IsOnline(u)' <=> IsOnline(u)
    PROVE  Knows(d, u)'
<1>1. d \in clients /\ d \in Streams
  BY Served
<1>2. Owed(d, u)
  BY <1>1, OwedKept DEF Announces, UserOf
<1>3. QED
  BY <1>1, <1>2, KnowsKept
LEMMA AddKnown ==
    ASSUME HubInv, AnnounceInv, PresenceInv, NEW c \in Streams, NEW u \in Users, Add(c, u)
    PROVE  PresenceInv'
<1>1. PICK row \in Rows : /\ Moves(c, row) /\ row.user = u
                          /\ row.pc = IF IsOnline(u) THEN "ready" ELSE "added"
                          /\ row.announce = ~IsOnline(u)
  BY AddMoves
<1>2. Rewires(c, NewChannel)
  BY AddRewires DEF Add
<1>3. /\ stream[c].pc = "closed" /\ clients' = clients \cup {c} /\ astray \subseteq astray'
      /\ \A d \in Streams : d # c => view'[d] = view[d] /\ missed'[d] = missed[d]
  BY TypeParts DEF Add, HubInv, Aside
<1>4. ~Announces(c) /\ c \notin clients /\ clients \subseteq Streams
  BY <1>3, Served DEF AnnounceInv, Active
<1> SUFFICES ASSUME NEW d \in clients', NEW v \in Users, Owed(d, v)' PROVE Knows(d, v)'
  BY DEF PresenceInv
<1>5. CASE d = c
  BY <1>1, <1>5 DEF Knows, Moves
<1>6. CASE d # c
  <2>1. v = u => IsOnline(u)
    BY <1>1 DEF Owed, Announcing, UserOf, Moves
  <2>2. IsOnline(v)' <=> IsOnline(v)
    BY <1>1, <1>3, <1>4, <2>1 DEF IsOnline, UserOf, Moves
  <2>3. \A e \in Streams : e # c => stream'[e] = stream[e] /\ ch'[e].buffer = ch[e].buffer
    BY <1>1, <1>2 DEF Moves, Rewires
  <2>4. QED
    BY <1>3, <1>4, <1>6, <2>2, <2>3, OthersKnow
<1>7. QED
  BY <1>5, <1>6

\* The announcement is the last word for everybody it reaches.
LEMMA AnnounceKnown ==
    ASSUME HubInv, AnnounceInv, PresenceInv, NEW c \in Streams, NEW row \in Rows,
           NEW type \in {"online", "offline"}, Announce(c, type, UserOf(c)), Moves(c, row),
           stream[c].pc = IF type = "online" THEN "added" ELSE "removed",
           row.announce = FALSE, row.pc \in {"ready", "closed"},
           c \in clients => row.user = UserOf(c), UNCHANGED <<clients, view>>
    PROVE  PresenceInv'
<1> DEFINE u == UserOf(c)
           e == Event(type, u)
<1>1. TypeOK /\ clients \subseteq Streams /\ u \in Users /\ e \in Events
  BY Served, EventShapes DEF HubInv
<1>2. /\ Concerns(e, u) /\ (SaysOnline(e, u) <=> type = "online")
      /\ \A v \in Users : v # u => ~Concerns(e, v)
  BY DEF Concerns, SaysOnline, Event
<1>3. /\ ch' = Sent(clients, e)
      /\ \A d \in clients : missed'[d] = IF Fits(d) /\ stream[d].pc # "sync" THEN missed[d] \ {u}
                                         ELSE missed[d] \cup {u}
      /\ astray' = IF IsOnline(u) = (type = "online") /\ Announcing(u) \subseteq {c}
                   THEN astray \ {u} ELSE astray
  BY <1>1 DEF Announce
<1>4. Announces(c)
  BY DEF AnnounceInv
<1>5. u \notin astray' => (IsOnline(u) <=> type = "online")
  <2>1. CASE u \in astray
    BY <1>3, <2>1
  <2>2. CASE u \notin astray
    <3>1. \/ stream[c].pc = "added" /\ c \in clients
          \/ stream[c].pc # "added" /\ ~IsOnline(u)
      BY <1>4, <2>2 DEF AnnounceInv
    <3>2. QED
      BY <3>1 DEF IsOnline
  <2>3. QED
    BY <2>1, <2>2
<1> SUFFICES ASSUME NEW d \in clients', NEW v \in Users, Owed(d, v)' PROVE Knows(d, v)'
  BY DEF PresenceInv
<1>6. d \in clients /\ d \in Streams /\ ch[d].buffer \in Seq(Events)
  BY <1>1, Shapes DEF Channels
<1>7. IsOnline(v)' <=> IsOnline(v)
  <2>1. \A g \in clients : stream'[g].user = UserOf(g)
    BY <1>1 DEF Moves, UserOf
  <2>2. QED
    BY <2>1, OnlineKept
<1>8. CASE d = c
  BY <1>8 DEF Knows, Moves
<1>9. CASE d # c /\ v = u
  <2>1. Fits(d) /\ stream[d].pc # "sync" /\ u \notin astray'
    BY <1>3, <1>6, <1>9 DEF Owed
  <2>2. ch'[d].buffer = Append(ch[d].buffer, e)
    BY <1>1, <1>3, <1>6, <2>1, SentResult
  <2>3. PICK x \in BOOLEAN : x <=> IsOnline(u)
    BY DEF IsOnline
  <2>4. SaysOnline(e, u) <=> x
    BY <1>2, <1>5, <2>1, <2>3
  <2> HIDE DEF e, u
  <2>5. Learns(Append(ch[d].buffer, e), view[d].online, u, x)
    BY <1>1, <1>2, <1>6, <2>4, LearnsAppended
  <2>6. Learns(ch'[d].buffer, view'[d].online, u, x)
    BY <2>2, <2>5
  <2>7. Learns(ch[d].buffer, view[d].online, v, IsOnline(v))'
    BY <1>7, <1>9, <2>3, <2>6 DEF Learns
  <2>8. stream'[d] = stream[d]
    BY <1>6, <1>9 DEF Moves
  <2>9. QED
    BY <2>1, <2>7, <2>8 DEF Knows
<1>10. CASE d # c /\ v # u
  <2>1. stream'[d] = stream[d] /\ view'[d] = view[d]
    BY <1>6, <1>10 DEF Moves
  <2>2. Owed(d, v)
    <3>1. v \in astray => v \in astray'
      BY <1>3, <1>10
    <3>2. v \in missed[d] => v \in missed'[d]
      BY <1>3, <1>6, <1>10
    <3>3. \A g \in Streams : stream[g].announce /\ UserOf(g) = v
                             => stream'[g].announce /\ stream'[g].user = v
      BY <1>10 DEF Moves, UserOf
    <3>4. QED
      BY <3>1, <3>2, <3>3, OwedKept
  <2> HIDE DEF e, u
  <2>3. \A x \in BOOLEAN : Learns(ch[d].buffer, view[d].online, v, x)
                           => Learns(ch'[d].buffer, view'[d].online, v, x)
    BY <1>1, <1>2, <1>3, <1>6, <1>10, <2>1, QuietSent
  <2>4. QED
    BY <1>6, <1>7, <2>1, <2>2, <2>3, KnowsKept
<1>11. QED
  BY <1>8, <1>9, <1>10

LEMMA TakeSnapshotKnown ==
    ASSUME HubInv, AnnounceInv, PresenceInv, NEW c \in Streams, TakeSnapshot(c)
    PROVE  PresenceInv'
<1>1. PICK row \in Rows : /\ Moves(c, row) /\ row.pc = "sync" /\ row.user = UserOf(c)
                          /\ row.announce = stream[c].announce /\ row.snapshot = Snapshot
  BY TakeSnapshotMoves
<1>2. /\ UNCHANGED <<clients, ch, view, astray>> /\ stream[c].pc = "ready"
      /\ \A d \in Streams : d # c => missed'[d] = missed[d]
  BY TypeParts DEF TakeSnapshot, HubInv, Aside
<1>3. ~Announces(c) /\ clients \subseteq Streams
  BY <1>2, Served DEF AnnounceInv
<1> SUFFICES ASSUME NEW d \in clients', NEW v \in Users, Owed(d, v)' PROVE Knows(d, v)'
  BY DEF PresenceInv
<1>4. IsOnline(v)' <=> IsOnline(v)
  BY <1>1, <1>2, <1>3, OnlineKept DEF Moves, UserOf
<1>5. CASE d = c
  BY <1>1, <1>4, <1>5, SnapshotUsers DEF Knows, Moves
<1>6. CASE d # c
  <2>1. \A g \in Streams : g # c => stream'[g] = stream[g] /\ ch'[g].buffer = ch[g].buffer
    BY <1>1, <1>2 DEF Moves
  <2>2. QED
    BY <1>2, <1>3, <1>4, <1>6, <2>1, OthersKnow
<1>7. QED
  BY <1>5, <1>6

LEMMA SendSyncKnown ==
    ASSUME HubInv, AnnounceInv, PresenceInv, NEW c \in Streams, SendSync(c)
    PROVE  PresenceInv'
<1> DEFINE e == Sync(stream[c].snapshot)
<1>1. PICK row \in Rows : /\ Moves(c, row) /\ row.pc = "live" /\ row.user = UserOf(c)
                          /\ row.announce = stream[c].announce
  BY SendSyncMoves
<1>2. /\ UNCHANGED <<clients, view, astray>> /\ stream[c].pc = "sync"
      /\ ch' = Sent({c}, e)
      /\ missed' = IF Fits(c) THEN missed ELSE [missed EXCEPT ![c] = Users]
  BY DEF SendSync
<1>3. TypeOK /\ ~Announces(c) /\ clients \subseteq Streams
  BY <1>2, Served DEF AnnounceInv, HubInv
<1>4. e \in Events /\ \A u : Concerns(e, u) /\ (SaysOnline(e, u) <=> u \in stream[c].snapshot)
  BY <1>3, Shapes DEF Rows, Sync, Events, Concerns, SaysOnline
<1>5. missed \in [Streams -> SUBSET Users]
  BY <1>3, TypeParts DEF Aside
<1> SUFFICES ASSUME NEW d \in clients', NEW v \in Users, Owed(d, v)' PROVE Knows(d, v)'
  BY DEF PresenceInv
<1>6. IsOnline(v)' <=> IsOnline(v)
  BY <1>1, <1>2, <1>3, OnlineKept DEF Moves, UserOf
<1>7. CASE d = c
  <2>1. Fits(c) /\ missed' = missed
    BY <1>2, <1>5, <1>7 DEF Owed
  <2>2. Owed(c, v)
    BY <1>1, <1>2, <1>3, <1>7, <2>1, OwedKept DEF Moves, Announces, UserOf
  <2>3. v \in stream[c].snapshot <=> IsOnline(v)
    BY <1>2, <1>7, <2>2 DEF PresenceInv, Knows
  <2>4. ch[c].buffer \in Seq(Events) /\ ch'[c].buffer = Append(ch[c].buffer, e)
    BY <1>2, <1>3, <1>4, <2>1, Shapes, SentResult DEF Channels
  <2>5. PICK x \in BOOLEAN : x <=> IsOnline(v)
    BY DEF IsOnline
  <2>6. SaysOnline(e, v) <=> x
    BY <1>4, <2>3, <2>5
  <2> HIDE DEF e
  <2>7. Learns(ch'[c].buffer, view'[c].online, v, x)
    BY <1>4, <2>4, <2>6, LearnsAppended
  <2>8. Learns(ch[c].buffer, view[c].online, v, IsOnline(v))'
    BY <1>6, <2>5, <2>7 DEF Learns
  <2>9. QED
    BY <1>1, <1>7, <2>8 DEF Knows, Moves
<1>8. CASE d # c
  <2>1. \A g \in Streams : g # c => stream'[g] = stream[g]
    BY <1>1 DEF Moves
  <2>2. \A g \in Streams : g # c => missed'[g] = missed[g] /\ view'[g] = view[g]
    BY <1>2, <1>5
  <2>3. \A g \in Streams : g # c => ch'[g].buffer = ch[g].buffer
    <3> HIDE DEF e
    <3>1. QED
      BY <1>2 DEF Sent
  <2>4. QED
    BY <1>2, <1>3, <1>6, <1>8, <2>1, <2>2, <2>3, OthersKnow
<1>9. QED
  BY <1>7, <1>8
\* Reading an event changes nothing in what the client comes to know.
LEMMA DeliverKnown ==
    ASSUME HubInv, PresenceInv, NEW c \in Streams, Deliver(c)
    PROVE  PresenceInv'
<1> DEFINE e == Head(ch[c].buffer)
<1>1. PICK x \in Channels : Rewires(c, x) /\ x.buffer = Tail(ch[c].buffer)
  BY DeliverRewires
<1>2. /\ e \in Events
      /\ \A d \in Streams : d # c => view'[d] = view[d]
      /\ view'[c].online = CASE e.type = "sync" -> e.users
                             [] e.type = "online" -> view[c].online \cup {e.user}
                             [] e.type = "offline" -> view[c].online \ {e.user}
                             [] OTHER -> view[c].online
  BY DeliverView
<1>3. ch[c].buffer \in Seq(Events) /\ ch[c].buffer # <<>> /\ clients \subseteq Streams
  BY Shapes, Served DEF HubInv, Channels, Deliver
<1>4. UNCHANGED <<clients, stream, astray, missed>>
  BY DEF Deliver
<1>5. ASSUME NEW u \in Users
      PROVE  /\ Concerns(e, u) => (u \in view'[c].online <=> SaysOnline(e, u))
             /\ ~Concerns(e, u) => (u \in view'[c].online <=> u \in view[c].online)
  <2> HIDE DEF e
  <2>1. QED
    BY <1>2 DEF Concerns, SaysOnline
<1>6. ASSUME NEW d \in clients, NEW u \in Users, NEW y \in BOOLEAN,
             Learns(ch[d].buffer, view[d].online, u, y)
      PROVE  Learns(ch'[d].buffer, view'[d].online, u, y)
  <2>1. CASE d = c
    <3>1. ch'[c].buffer = Tail(ch[c].buffer)
      BY <1>1 DEF Rewires
    <3>2. Learns(Tail(ch[c].buffer), view'[c].online, u, y)
      BY <1>3, <1>5, <1>6, <2>1, LearnsRead
    <3>3. QED
      BY <2>1, <3>1, <3>2
  <2>2. CASE d # c
    BY <1>1, <1>2, <1>3, <1>6, <2>2 DEF Rewires
  <2>3. QED
    BY <2>1, <2>2
<1>7. QED
  BY <1>4, <1>6, StillKnows

\* A handler leaves: the others know what they knew, or wait for the word.
LEMMA LeaveKnown ==
    ASSUME HubInv, AnnounceInv, PresenceInv, NEW c \in Streams,
           SendSyncPanics(c) \/ RemoveStream(c) \/ CloseChannel(c)
    PROVE  PresenceInv'
<1>1. /\ TypeOK /\ clients \subseteq Streams
      /\ c \in clients => stream[c].pc \in {"added", "ready", "sync", "live"} /\ ~ch[c].closed
  BY Served DEF HubInv, Active, ClosingInv
<1>2. /\ clients' = clients \ {c} /\ astray' = astray
  BY <1>1 DEF SendSyncPanics, RemoveStream, CloseChannel
<1>3. PICK row \in Rows : Moves(c, row)
  BY GoneMoves, RemoveMoves, CloseMoves, NoStreamRow
<1>4. \A g \in Streams : g # c => stream'[g] = stream[g]
  BY <1>3 DEF Moves
<1>5. \A g \in Streams : g # c => /\ ch'[g].buffer = ch[g].buffer
                                  /\ view'[g] = view[g] /\ missed'[g] = missed[g]
  <2>1. CASE SendSyncPanics(c) \/ RemoveStream(c)
    <3>1. StopReading(c)
      BY <2>1 DEF SendSyncPanics, RemoveStream
    <3>2. PICK x \in Channels : Rewires(c, x)
      BY <3>1, StopRewires DEF StopReading
    <3>3. QED
      BY <1>1, <3>1, <3>2, TypeParts DEF StopReading, Rewires, Aside
  <2>2. CASE CloseChannel(c)
    <3>1. PICK x \in Channels : Rewires(c, x)
      BY <2>2, CloseRewires DEF CloseChannel
    <3>2. QED
      BY <2>2, <3>1 DEF CloseChannel, Rewires
  <2>3. QED
    BY <2>1, <2>2
<1>6. ~Announces(c) \/ (Announces(c)' /\ stream'[c].user = UserOf(c))
  <2>1. CASE SendSyncPanics(c) \/ RemoveStream(c)
    BY <2>1 DEF SendSyncPanics, RemoveStream, AnnounceInv
  <2>2. CASE CloseChannel(c)
    BY <2>2, CloseMoves DEF Moves, Announces
  <2>3. QED
    BY <2>1, <2>2
<1> SUFFICES ASSUME NEW d \in clients', NEW v \in Users, Owed(d, v)' PROVE Knows(d, v)'
  BY DEF PresenceInv
<1>7. IsOnline(v)' <=> IsOnline(v)
  <2>1. CASE c \notin clients
    BY <1>1, <1>2, <1>4, <2>1, OnlineKept DEF UserOf
  <2>2. CASE c \in clients
    <3>1. RemoveStream(c)
      BY <1>1, <1>2, <2>2 DEF SendSyncPanics, CloseChannel
    <3>2. PICK r \in Rows : Moves(c, r) /\ r.user = UserOf(c) /\ r.announce = LastFor(c)
      BY <2>2, <3>1, RemoveMoves
    <3>3. UserOf(c) = v => ~LastFor(c)
      BY <3>2 DEF Owed, Announcing, Moves, UserOf
    <3>4. QED
      BY <1>1, <1>2, <1>4, <2>2, <3>3 DEF IsOnline, LastFor, UserOf
  <2>3. QED
    BY <2>1, <2>2
<1>8. QED
  BY <1>2, <1>4, <1>5, <1>6, <1>7, OthersKnow

LEMMA DropKnown ==
    ASSUME HubInv, PresenceInv, NEW r \in Logins, NEW c \in Streams, DropRemove(r, c)
    PROVE  PresenceInv'
<1>1. /\ clients' = clients \ {c} /\ UNCHANGED <<stream, ch, view, missed>>
      /\ astray' = IF c \in clients /\ LastFor(c) THEN astray \cup {UserOf(c)} ELSE astray
  BY DEF DropRemove
<1> SUFFICES ASSUME NEW d \in clients', NEW v \in Users, Owed(d, v)' PROVE Knows(d, v)'
  BY DEF PresenceInv
<1>2. c \in clients /\ UserOf(c) = v => ~LastFor(c)
  BY <1>1 DEF Owed
<1>3. IsOnline(v)' <=> IsOnline(v)
  BY <1>1, <1>2 DEF IsOnline, LastFor, UserOf
<1>4. Owed(d, v)
  BY <1>1, OwedKept DEF UserOf
<1>5. QED
  BY <1>1, <1>3, <1>4, KnowsKept

LEMMA PresenceNext == HubInv /\ AnnounceInv /\ PresenceInv /\ [Next]_vars => PresenceInv'
<1> SUFFICES ASSUME HubInv, AnnounceInv, PresenceInv, [Next]_vars PROVE PresenceInv'
  OBVIOUS
<1>1. TypeOK /\ clients \subseteq Streams
  BY Served DEF HubInv
<1>2. ASSUME NEW c \in Streams, AnnounceOnline(c) PROVE PresenceInv'
  <2>1. PICK row \in Rows : /\ Moves(c, row) /\ row.pc = "ready" /\ row.user = UserOf(c)
                            /\ row.announce = FALSE
    BY <1>2, AnnounceOnlineMoves
  <2>2. /\ Announce(c, "online", UserOf(c)) /\ stream[c].pc = "added"
        /\ UNCHANGED <<clients, view>>
    BY <1>2 DEF AnnounceOnline
  <2>3. QED
    BY <2>1, <2>2, AnnounceKnown
<1>3. ASSUME NEW c \in Streams, AnnounceOffline(c) PROVE PresenceInv'
  <2>1. Moves(c, NoStream) /\ Announce(c, "offline", UserOf(c)) /\ stream[c].pc = "removed"
        /\ UNCHANGED <<clients, view>>
    BY <1>3, GoneMoves DEF AnnounceOffline
  <2>2. c \notin clients
    BY <2>1, Served DEF Active
  <2>3. QED
    BY <2>1, <2>2, NoStreamRow, AnnounceKnown
<1>4. ASSUME NEW to, NEW e \in Events, ch' = Sent(to, e), e.type \in {"replaced", "changed"},
             UNCHANGED <<clients, stream, view, astray, missed>>
      PROVE  PresenceInv'
  <2>1. \A u : ~Concerns(e, u)
    BY <1>4 DEF Concerns
  <2>2. QED
    BY <1>1, <1>4, <2>1, QuietSent, StillKnows
<1>5. ASSUME NEW r \in Logins, NEW u \in Users, BroadcastToUser(r, u) PROVE PresenceInv'
  <2>1. Event("replaced", u) \in Events /\ Event("replaced", u).type = "replaced"
    BY EventShapes DEF Event
  <2>2. QED
    BY <1>4, <1>5, <2>1 DEF BroadcastToUser
<1>6. CASE Emit
  <2>1. Event("changed", Nobody) \in Events /\ Event("changed", Nobody).type = "changed"
    BY DEF Event, Events
  <2>2. QED
    BY <1>4, <1>6, <2>1 DEF Emit
<1>7. ASSUME NEW r \in Logins, NEW c \in Streams, DropClose(r, c) PROVE PresenceInv'
  <2>1. PICK x \in Channels : Rewires(c, x) /\ x.buffer = ch[c].buffer
    BY <1>7, CloseRewires DEF DropClose
  <2>2. \A d \in Streams : ch'[d].buffer = ch[d].buffer
    BY <2>1 DEF Rewires
  <2>3. UNCHANGED <<clients, stream, view, astray, missed>>
    BY <1>7 DEF DropClose
  <2>4. QED
    BY <1>1, <2>2, <2>3, StillKnows
<1>8. ASSUME NEW r \in Logins,
             (\E u \in Users : DropUser(r, u)) \/ DropUserExcept(r) \/ DropDone(r)
      PROVE  PresenceInv'
  BY <1>8, StillKnows DEF DropUser, DropUserExcept, DropDone
<1>9. CASE UNCHANGED vars
  BY <1>9, StillKnows DEF vars
<1>10. QED
  BY <1>2, <1>3, <1>5, <1>6, <1>7, <1>8, <1>9, AddKnown, TakeSnapshotKnown, SendSyncKnown,
     DeliverKnown, LeaveKnown, DropKnown DEF Next

\* A client that has read its events knows who is online, for any number of
\* users, streams and logins and any size of the buffer, although the hub
\* announces only after it has released its lock: what can mislead a client
\* is what astray and missed record, and nothing else (RealtimeHub.add,
\* remove, snapshot and sendTo, handleEvents).
THEOREM PresenceKnown == Spec => []PresenceIsKnown
<1>1. Init => AnnounceInv /\ PresenceInv
  BY NoStreamRow DEF Init, AnnounceInv, PresenceInv, Announces
<1>2. PresenceInv => PresenceIsKnown
  <2> SUFFICES ASSUME PresenceInv, NEW c \in clients, NEW u \in Users,
                      stream[c].pc = "live", ch[c].buffer = <<>>,
                      Announcing(u) = {}, u \notin astray \cup missed[c]
               PROVE  u \in view[c].online <=> IsOnline(u)
    BY DEF PresenceIsKnown
  <2>1. Learns(<<>>, view[c].online, u, IsOnline(u))
    BY DEF PresenceInv, Owed, Knows
  <2>2. QED
    BY <2>1 DEF Learns
<1>3. QED
  BY <1>1, <1>2, AnnounceNext, PresenceNext, HubInductive, PTL DEF Spec
-----------------------------------------------------------------------------
(* The map and the drops                                                   *)

\* A login that has not listed its streams has none to drop, and one that has
\* told its user acts for somebody.
DropsInv ==
    \A r \in Logins :
        /\ login[r].pc \in {"idle", "told", "logout"} => login[r].ids = {}
        /\ login[r].pc \in {"told", "logout"} => login[r].user \in Users

\* The map, the calls of the drops and their marks, as the abstract map
\* names them.
Entries == {Entry(c) : c \in clients}
Calls == [r \in Logins |-> Call(r)]
Marks == [r \in Logins |-> login[r].ids]

\* What the steps of logins do to that.
LEMMA DropsNext == HubInv /\ DropsInv /\ [Next]_vars => DropsInv'
<1> SUFFICES ASSUME HubInv, DropsInv, [Next]_vars PROVE DropsInv'
  OBVIOUS
<1>1. ASSUME UNCHANGED login PROVE DropsInv'
  BY <1>1 DEF DropsInv
<1>2. ASSUME NEW r \in Logins, NEW row \in LoginRows, Proceeds(r, row),
             row.pc \in {"idle", "told", "logout"} => row.ids = {},
             row.pc \in {"told", "logout"} => row.user \in Users
      PROVE  DropsInv'
  BY <1>2 DEF DropsInv, Proceeds
<1>3. CASE UNCHANGED vars
  BY <1>1, <1>3 DEF vars
<1>4. CASE Emit
  BY <1>1, <1>4 DEF Emit
<1>5. ASSUME NEW c \in Streams,
             \/ \E u \in Users : Add(c, u)
             \/ AnnounceOnline(c) \/ TakeSnapshot(c) \/ SendSync(c)
             \/ SendSyncPanics(c) \/ Deliver(c) \/ RemoveStream(c)
             \/ CloseChannel(c) \/ AnnounceOffline(c)
      PROVE  DropsInv'
  BY <1>1, <1>5 DEF Add, AnnounceOnline, TakeSnapshot, SendSync, SendSyncPanics, Deliver,
     RemoveStream, CloseChannel, AnnounceOffline
<1>6. ASSUME NEW r \in Logins, NEW u \in Users, BroadcastToUser(r, u) \/ DropUser(r, u)
      PROVE  DropsInv'
  BY <1>2, <1>6, ToldProceeds, LogoutProceeds
<1>7. ASSUME NEW r \in Logins, DropUserExcept(r) PROVE DropsInv'
  BY <1>2, <1>7, ListProceeds
<1>8. ASSUME NEW r \in Logins, DropDone(r) PROVE DropsInv'
  BY <1>2, <1>8, DoneProceeds, NoLoginRow
<1>9. ASSUME NEW r \in Logins, NEW c \in Streams, DropRemove(r, c) PROVE DropsInv'
  BY <1>2, <1>9, DropProceeds
<1>10. ASSUME NEW r \in Logins, NEW c \in Streams, DropClose(r, c) PROVE DropsInv'
  <2>1. PICK row \in LoginRows : /\ Proceeds(r, row) /\ row.pc = login[r].pc
                                 /\ row.user = login[r].user /\ row.ids = login[r].ids
    BY <1>10, ClosedProceeds
  <2>2. QED
    BY <1>2, <2>1 DEF DropsInv
<1>11. QED
  BY <1>3, <1>4, <1>5, <1>6, <1>7, <1>8, <1>9, <1>10 DEF Next

\* Entries tell of one stream each.
LEMMA EntryIds ==
    \A c : Entry(c).id = c /\ Entry(c).user = UserOf(c) /\ Entry(c).session = "earlier"
BY DEF Entry

\* The map is the same while the same users' streams are in it.
LEMMA SameEntries ==
    ASSUME UNCHANGED clients, \A c \in clients : stream'[c].user = stream[c].user
    PROVE  Entries' = Entries
<1>1. \A c \in clients : Entry(c)' = Entry(c)
  BY DEF Entry, UserOf
<1>2. QED
  BY <1>1 DEF Entries

\* Taking c out of the map takes out its entry.
LEMMA FewerEntries ==
    ASSUME NEW c, clients' = clients \ {c},
           \A d \in clients \ {c} : stream'[d].user = stream[d].user
    PROVE  Entries' = {e \in Entries : e.id # c}
<1>1. \A d \in clients \ {c} : Entry(d)' = Entry(d)
  BY DEF Entry, UserOf
<1>2. Entries' = {Entry(d) : d \in clients \ {c}}
  BY <1>1 DEF Entries
<1>3. QED
  BY <1>2, EntryIds DEF Entries

\* Calls and marks are the logins' own.
LEMMA SameCalls ==
    ASSUME UNCHANGED login
    PROVE  Calls' = Calls /\ Marks' = Marks
BY DEF Calls, Call, Marks

\* What a drop has been called with, from where its login is.
LEMMA CallsAre ==
    ASSUME NEW r \in Logins
    PROVE  /\ login[r].pc = "told" => Calls[r] = {[user |-> login[r].user, keep |-> "minted"]}
           /\ login[r].pc = "logout" => Calls[r] = {[user |-> login[r].user, keep |-> "none"]}
           /\ login[r].pc # "told" /\ login[r].pc # "logout" => Calls[r] = {}
           /\ Marks[r] = login[r].ids
BY DEF Calls, Call, Marks

\* A login that proceeds changes the call and the marks of its own drop.
LEMMA ProceedsCalls ==
    ASSUME NEW r \in Logins, NEW row \in LoginRows, Proceeds(r, row)
    PROVE  /\ row.pc = "told" =>
                  Calls' = [Calls EXCEPT ![r] = {[user |-> row.user, keep |-> "minted"]}]
           /\ row.pc = "logout" =>
                  Calls' = [Calls EXCEPT ![r] = {[user |-> row.user, keep |-> "none"]}]
           /\ row.pc # "told" /\ row.pc # "logout" => Calls' = [Calls EXCEPT ![r] = {}]
           /\ Marks' = [Marks EXCEPT ![r] = row.ids]
<1>1. login'[r] = row /\ \A q \in Logins : q # r => login'[q] = login[q]
  BY DEF Proceeds
<1>2. Marks' = [Marks EXCEPT ![r] = row.ids]
  BY <1>1 DEF Marks
<1>3. Calls' = [q \in Logins |-> IF q = r THEN Call(r)' ELSE Call(q)]
  BY <1>1 DEF Calls, Call
<1>4. Call(r)' = IF row.pc = "told" THEN {[user |-> row.user, keep |-> "minted"]}
                 ELSE IF row.pc = "logout" THEN {[user |-> row.user, keep |-> "none"]}
                 ELSE {}
  BY <1>1 DEF Call
<1>5. \A x : [q \in Logins |-> IF q = r THEN x ELSE Call(q)] = [Calls EXCEPT ![r] = x]
  BY DEF Calls
<1>6. QED
  BY <1>2, <1>3, <1>4, <1>5

\* Most steps of a handler leave map, calls and marks alone.
LEMMA HandlersKeepMap ==
    ASSUME HubInv, NEW c \in Streams,
           \/ AnnounceOnline(c) \/ TakeSnapshot(c) \/ SendSync(c) \/ SendSyncPanics(c)
           \/ Deliver(c) \/ CloseChannel(c) \/ AnnounceOffline(c)
    PROVE  Entries' = Entries /\ Calls' = Calls /\ Marks' = Marks
<1>1. UNCHANGED <<clients, login>>
  BY DEF AnnounceOnline, TakeSnapshot, SendSync, SendSyncPanics, Deliver, CloseChannel,
     AnnounceOffline
<1>2. \A d \in clients : d \in Streams /\ Active(d) /\ ~ch[d].closed
  BY Served DEF HubInv, ClosingInv
<1>3. ASSUME NEW row \in Rows, Moves(c, row), row.user = UserOf(c) \/ c \notin clients
      PROVE  Entries' = Entries
  BY <1>1, <1>2, <1>3, SameEntries DEF Moves, UserOf
<1>4. CASE AnnounceOnline(c)
  BY <1>1, <1>3, <1>4, AnnounceOnlineMoves, SameCalls
<1>5. CASE TakeSnapshot(c)
  BY <1>1, <1>3, <1>5, TakeSnapshotMoves, SameCalls
<1>6. CASE SendSync(c)
  BY <1>1, <1>3, <1>6, SendSyncMoves, SameCalls
<1>7. CASE SendSyncPanics(c)
  <2>1. c \notin clients
    BY <1>2, <1>7 DEF SendSyncPanics
  <2>2. QED
    BY <1>1, <1>3, <1>7, <2>1, GoneMoves, NoStreamRow, SameCalls
<1>8. CASE Deliver(c)
  BY <1>1, <1>8, SameEntries, SameCalls DEF Deliver
<1>9. CASE CloseChannel(c)
  <2>1. c \notin clients
    BY <1>2, <1>9 DEF CloseChannel, Active
  <2>2. \E row \in Rows : Moves(c, row)
    BY <1>9, CloseMoves, NoStreamRow
  <2>3. QED
    BY <1>1, <1>3, <2>1, <2>2, SameCalls
<1>10. CASE AnnounceOffline(c)
  <2>1. c \notin clients
    BY <1>2, <1>10 DEF AnnounceOffline, Active
  <2>2. QED
    BY <1>1, <1>3, <1>10, <2>1, GoneMoves, NoStreamRow, SameCalls
<1>11. QED
  BY <1>4, <1>5, <1>6, <1>7, <1>8, <1>9, <1>10

\* So does the end of a drop, and a close after a remove.
LEMMA LoginsKeepMap ==
    ASSUME HubInv, DropsInv, NEW r \in Logins,
           DropDone(r) \/ \E c \in Streams : DropClose(r, c)
    PROVE  Entries' = Entries /\ Calls' = Calls /\ Marks' = Marks
<1>1. Entries' = Entries
  BY SameEntries DEF DropDone, DropClose
<1>2. login[r] \in LoginRows
  BY Shapes DEF HubInv
<1>3. CASE DropDone(r)
  <2>1. Proceeds(r, NoLogin) /\ login[r].pc = "drop" /\ login[r].ids = {}
    BY <1>3, DoneProceeds DEF DropDone
  <2>2. Calls' = [Calls EXCEPT ![r] = {}] /\ Marks' = [Marks EXCEPT ![r] = {}]
    BY <2>1, NoLoginRow, ProceedsCalls
  <2>3. Calls[r] = {} /\ Marks[r] = {}
    BY <2>1, CallsAre
  <2>4. QED
    BY <1>1, <2>2, <2>3 DEF Calls, Marks
<1>4. ASSUME NEW c \in Streams, DropClose(r, c) PROVE Calls' = Calls /\ Marks' = Marks
  <2>1. PICK row \in LoginRows : /\ Proceeds(r, row) /\ row.pc = login[r].pc
                                 /\ row.user = login[r].user /\ row.ids = login[r].ids
    BY <1>4, ClosedProceeds
  <2>2. \A q \in Logins : /\ login'[q].pc = login[q].pc /\ login'[q].user = login[q].user
                          /\ login'[q].ids = login[q].ids
    BY <2>1 DEF Proceeds
  <2>3. \A q \in Logins : Call(q)' = Call(q)
    BY <2>2 DEF Call
  <2>4. QED
    BY <2>2, <2>3 DEF Calls, Marks
<1>5. QED
  BY <1>1, <1>3, <1>4

\* A sign-in calls for a drop of its account that spares the minted session,
\* which no stream carries; a sign-out for a drop of all of it.
LEMMA CallRefines ==
    ASSUME HubInv, DropsInv, NEW r \in Logins, NEW u \in Users,
           BroadcastToUser(r, u) \/ DropUser(r, u)
    PROVE  Registry!Next
<1>1. login[r].pc = "idle" /\ UNCHANGED <<clients, stream>>
  BY DEF BroadcastToUser, DropUser
<1>2. Calls[r] = {} /\ Marks[r] = {} /\ Entries' = Entries
  BY <1>1, CallsAre, SameEntries DEF DropsInv
<1>3. \A e \in Entries : e.session # "minted"
  BY EntryIds DEF Entries
<1>4. ASSUME NEW keep, Calls' = [Calls EXCEPT ![r] = {[user |-> u, keep |-> keep]}]
      PROVE  Calls'[r] # Calls[r]
  <2>1. [user |-> u, keep |-> keep] \in Calls'[r]
    BY <1>4 DEF Calls
  <2>2. QED
    BY <1>2, <2>1
<1>5. CASE BroadcastToUser(r, u)
  <2>1. PICK row \in LoginRows : /\ Proceeds(r, row) /\ row.pc = "told" /\ row.user = u
                                 /\ row.ids = {}
    BY <1>5, ToldProceeds
  <2>2. /\ Calls' = [Calls EXCEPT ![r] = {[user |-> u, keep |-> "minted"]}]
        /\ Marks' = [Marks EXCEPT ![r] = {}]
    BY <2>1, ProceedsCalls
  <2>3. Marks' = Marks
    BY <1>2, <2>2 DEF Marks
  <2>4. Registry!SignIn(r, u, "minted")
    BY <1>2, <1>3, <2>2, <2>3 DEF Registry!SignIn, Entries, Calls, Marks
  <2>5. Calls'[r] # Calls[r]
    BY <1>4, <2>2
  <2>6. QED
    BY <2>4, <2>5 DEF Registry!Next, Calls
<1>6. CASE DropUser(r, u)
  <2>1. PICK row \in LoginRows : /\ Proceeds(r, row) /\ row.pc = "logout" /\ row.user = u
                                 /\ row.ids = {}
    BY <1>6, LogoutProceeds
  <2>2. /\ Calls' = [Calls EXCEPT ![r] = {[user |-> u, keep |-> "none"]}]
        /\ Marks' = [Marks EXCEPT ![r] = {}]
    BY <2>1, ProceedsCalls
  <2>3. Marks' = Marks
    BY <1>2, <2>2 DEF Marks
  <2>4. Registry!SignOut(r, u)
    BY <1>2, <2>2, <2>3 DEF Registry!SignOut, Entries, Calls, Marks
  <2>5. Calls'[r] # Calls[r]
    BY <1>4, <2>2
  <2>6. QED
    BY <2>4, <2>5 DEF Registry!Next, Calls
<1>7. QED
  BY <1>5, <1>6

\* hub.add registers a stream nobody knows.
LEMMA AddRefines ==
    ASSUME HubInv, NEW c \in Streams, NEW u \in Users, Add(c, u)
    PROVE  Registry!Next
<1> DEFINE new == [id |-> c, user |-> u, session |-> "earlier"]
<1>1. PICK row \in Rows : Moves(c, row) /\ row.user = u
  BY AddMoves
<1>2. /\ clients' = clients \cup {c} /\ UNCHANGED login
      /\ \A r \in Logins : c \notin login[r].ids
      /\ c \notin clients
  BY Served DEF Add, Active
<1>3. /\ \A d \in clients : Entry(d)' = Entry(d)
      /\ Entry(c)' = new
  BY <1>1, <1>2, Served DEF Moves, Entry, UserOf
<1>4. Entries' = Entries \cup {new}
  BY <1>2, <1>3 DEF Entries
<1>5. (\A e \in Entries : e.id # c) /\ \A r \in Logins : c \notin Marks[r]
  BY <1>2, EntryIds DEF Entries, Marks
<1>6. Calls' = Calls /\ Marks' = Marks
  BY <1>2, SameCalls
<1>7. Registry!Register(c, u, "earlier")
  BY <1>4, <1>5, <1>6 DEF Registry!Register, Entries, Calls, Marks
<1>8. new \in Entries' /\ new \notin Entries
  BY <1>4, <1>5
<1>9. Entries' # Entries
  BY <1>8
<1>10. QED
  BY <1>7, <1>9 DEF Registry!Next, Entries

\* A handler's own remove is a Leave, unless a drop was faster.
LEMMA LeaveRefines ==
    ASSUME HubInv, NEW c \in Streams, RemoveStream(c)
    PROVE  Registry!Next \/ (Entries' = Entries /\ Calls' = Calls /\ Marks' = Marks)
<1>1. clients' = clients \ {c} /\ Calls' = Calls /\ Marks' = Marks
  BY SameCalls DEF RemoveStream
<1>2. \A d \in clients \ {c} : stream'[d].user = stream[d].user
  BY RemoveMoves, Served DEF Moves
<1>3. Entries' = {e \in Entries : e.id # c}
  BY <1>1, <1>2, FewerEntries
<1>4. CASE c \in clients
  <2>1. PICK e \in Entries : e = Entry(c)
    BY <1>4 DEF Entries
  <2>2. \A f \in Entries : f.id = c <=> f = e
    BY <2>1, EntryIds DEF Entries
  <2>3. Registry!Leave(e)
    BY <1>1, <1>3, <2>2 DEF Registry!Leave, Entries, Calls, Marks
  <2>4. Entries' # Entries
    BY <1>3, <2>2
  <2>5. QED
    BY <2>3, <2>4 DEF Registry!Next, Entries
<1>5. CASE c \notin clients
  <2>1. \A e \in Entries : e.id # c
    BY <1>5, EntryIds DEF Entries
  <2>2. QED
    BY <1>1, <1>3, <2>1
<1>6. QED
  BY <1>4, <1>5

\* DropUserExcept marks all streams of the account it was called for: those
\* of the session it spares are none.
LEMMA ListRefines ==
    ASSUME HubInv, DropsInv, NEW r \in Logins, DropUserExcept(r)
    PROVE  Registry!Next
<1>1. PICK row \in LoginRows : /\ Proceeds(r, row) /\ row.pc = "drop"
                               /\ row.ids = {c \in clients : UserOf(c) = login[r].user}
  BY ListProceeds
<1>2. UNCHANGED <<clients, stream>> /\ login[r].pc \in {"told", "logout"}
  BY DEF DropUserExcept
<1>3. Entries' = Entries
  BY <1>2, SameEntries
<1>4. PICK a \in Calls[r] : a.user = login[r].user /\ (a.keep = "minted" \/ a.keep = "none")
  <2> DEFINE w(keep) == [user |-> login[r].user, keep |-> keep]
  <2>1. \A keep : w(keep).user = login[r].user /\ w(keep).keep = keep
    OBVIOUS
  <2>2. w("minted") \in Calls[r] \/ w("none") \in Calls[r]
    BY <1>2, CallsAre
  <2> HIDE DEF w
  <2>3. QED
    BY <2>1, <2>2
<1>5. row.ids = {e.id : e \in {x \in Entries :
                    x.user = a.user /\ ~(a.keep # "none" /\ x.session = a.keep)}}
  <2>1. \A x \in Entries : ~(a.keep # "none" /\ x.session = a.keep)
    BY <1>4, EntryIds DEF Entries
  <2>2. row.ids = {e.id : e \in {x \in Entries : x.user = a.user}}
    BY <1>1, <1>4, EntryIds DEF Entries
  <2>3. {x \in Entries : x.user = a.user /\ ~(a.keep # "none" /\ x.session = a.keep)}
          = {x \in Entries : x.user = a.user}
    BY <2>1
  <2>4. QED
    BY <2>2, <2>3
<1>6. row.ids = Registry!Targets(a)
  BY <1>5 DEF Registry!Targets, Entries
<1>7. Calls' = [Calls EXCEPT ![r] = {}] /\ Marks' = [Marks EXCEPT ![r] = row.ids]
  BY <1>1, ProceedsCalls
<1>8. Registry!Mark(r, a)
  BY <1>3, <1>4, <1>6, <1>7 DEF Registry!Mark, Entries, Calls, Marks
<1>9. PICK b \in Call(r) : b = a
  BY <1>4 DEF Calls
<1>10. Registry!Mark(r, b)
  BY <1>8, <1>9
<1>11. QED
  BY <1>9, <1>10 DEF Registry!Next

\* remove, on behalf of a drop.
LEMMA DropRefines ==
    ASSUME HubInv, NEW r \in Logins, NEW c \in Streams, DropRemove(r, c)
    PROVE  Registry!Next
<1>1. PICK row \in LoginRows : /\ Proceeds(r, row) /\ row.pc = "drop"
                               /\ row.ids = login[r].ids \ {c}
  BY DropProceeds
<1>2. clients' = clients \ {c} /\ UNCHANGED stream /\ c \in login[r].ids
      /\ login[r].pc = "drop"
  BY DEF DropRemove
<1>3. Entries' = {e \in Entries : e.id # c}
  BY <1>2, FewerEntries
<1>4. /\ c \in Marks[r] /\ Marks' = [Marks EXCEPT ![r] = Marks[r] \ {c}]
      /\ Calls[r] = {} /\ Calls' = [Calls EXCEPT ![r] = {}]
  BY <1>1, <1>2, CallsAre, ProceedsCalls
<1>5. Calls' = Calls
  BY <1>4 DEF Calls
<1>6. Registry!TakeOut(r, c)
  BY <1>3, <1>4, <1>5 DEF Registry!TakeOut, Entries, Calls, Marks
<1>7. QED
  BY <1>4, <1>6 DEF Registry!Next, Marks

\* The hub's map, with removals in two steps, panics and announcements in
\* between, does what its abstract form allows and no more.  A drop acts on
\* the account it was called for and on no other, its one look finds all the
\* streams of that account, and it is over only when each of them is out of
\* the map, for any number of drops side by side; streams that came later it
\* leaves alone (issueLiveSession, handleLogout, RealtimeHub.DropUserExcept).
THEOREM MapIsRegistry == Spec => ImplementsRegistry
<1>1. Init => DropsInv /\ Registry!Init
  <2> SUFFICES ASSUME Init PROVE DropsInv /\ Registry!Init
    OBVIOUS
  <2>1. \A r \in Logins : login[r] = NoLogin
    BY DEF Init
  <2>2. /\ Entries = {} /\ Marks = [r \in Logins |-> {}]
        /\ Calls = [r \in Logins |-> {}]
    BY <2>1, NoLoginRow DEF Init, Entries, Marks, Calls, Call
  <2>3. DropsInv
    BY <2>1, NoLoginRow DEF DropsInv
  <2>4. QED
    BY <2>2, <2>3 DEF Registry!Init, Entries, Marks, Calls
<1>2. HubInv /\ DropsInv /\ [Next]_vars => [Registry!Next]_(Registry!vars)
  <2> SUFFICES ASSUME HubInv, DropsInv, [Next]_vars
               PROVE  Registry!Next \/ UNCHANGED Registry!vars
    OBVIOUS
  <2>1. CASE Entries' = Entries /\ Calls' = Calls /\ Marks' = Marks
    BY <2>1 DEF Registry!vars, Entries, Calls, Marks
  <2>2. CASE UNCHANGED vars \/ Emit
    <3>1. UNCHANGED <<clients, stream, login>>
      BY <2>2 DEF vars, Emit
    <3>2. QED
      BY <2>1, <3>1, SameEntries, SameCalls
  <2>3. QED
    BY <2>1, <2>2, AddRefines, HandlersKeepMap, LeaveRefines, LoginsKeepMap, CallRefines,
       ListRefines, DropRefines DEF Next
<1>3. QED
  BY <1>1, <1>2, HubInductive, DropsNext, PTL DEF Spec, ImplementsRegistry, Registry!Spec
-----------------------------------------------------------------------------
(* The notifications: what Picked, mergeRecipientIDs and NotifyStaff return *)

\* Everything in S, once, and nothing else.
Lists(s, S) == s \in Seq(S) /\ IsInjective(s) /\ ToSet(s) = S

\* A sequence is one of its own elements.
LEMMA OwnRange ==
    ASSUME NEW T, NEW s \in Seq(T) PROVE s \in Seq(ToSet(s))
<1>1. s \in [1 .. Len(s) -> ToSet(s)] /\ Len(s) \in Nat
  BY DEF ToSet
<1>2. QED
  BY <1>1

\* Ascending lists a finite set of numbers, the smaller ones first.
LEMMA AscendingLists ==
    ASSUME NEW S \in SUBSET Nat, IsFiniteSet(S)
    PROVE  /\ Lists(Ascending(S), S)
           /\ DOMAIN Ascending(S) = 1 .. Cardinality(S) /\ Cardinality(S) \in Nat
           /\ \A i, j \in DOMAIN Ascending(S) : i < j => Ascending(S)[i] < Ascending(S)[j]
<1> DEFINE N == Cardinality(S)
           UpTo(x) == {y \in S : y <= x}
           rank == [x \in S |-> Cardinality(UpTo(x))]
           A == Ascending(S)
<1>1. N \in Nat
  BY FS_CardinalityType
<1>2. \A x \in S : IsFiniteSet(UpTo(x)) /\ Cardinality(UpTo(x)) \in 1 .. N
  <2> TAKE x \in S
  <2>1. UpTo(x) \in SUBSET S /\ UpTo(x) # {}
    OBVIOUS
  <2> HIDE DEF UpTo
  <2>2. IsFiniteSet(UpTo(x)) /\ Cardinality(UpTo(x)) <= N
    BY <2>1, FS_Subset
  <2>3. Cardinality(UpTo(x)) \in Nat /\ Cardinality(UpTo(x)) # 0
    BY <2>1, <2>2, FS_CardinalityType, FS_EmptySet
  <2>4. QED
    BY <1>1, <2>2, <2>3
<1>3. ASSUME NEW x \in S, NEW z \in S, x < z
      PROVE  Cardinality(UpTo(x)) < Cardinality(UpTo(z))
  <2>1. UpTo(x) \in SUBSET UpTo(z) /\ z \in UpTo(z) /\ z \notin UpTo(x)
    <3>1. \A y \in S : y \in Nat
      OBVIOUS
    <3>2. \A y \in S : y <= x => y <= z
      BY <1>3, <3>1
    <3>3. z <= z /\ ~(z <= x)
      BY <1>3, <3>1
    <3>4. QED
      BY <3>2, <3>3
  <2> HIDE DEF UpTo
  <2>2. Cardinality(UpTo(x)) <= Cardinality(UpTo(z))
        /\ Cardinality(UpTo(x)) # Cardinality(UpTo(z))
    BY <1>2, <2>1, FS_Subset
  <2>3. Cardinality(UpTo(x)) \in Int /\ Cardinality(UpTo(z)) \in Int
    BY <1>1, <1>2
  <2>4. QED
    BY <2>2, <2>3
<1> HIDE DEF UpTo
<1>4. \A x, z \in S : Cardinality(UpTo(x)) = Cardinality(UpTo(z)) => x = z
  <2> SUFFICES ASSUME NEW x \in S, NEW z \in S, x # z
               PROVE  Cardinality(UpTo(x)) # Cardinality(UpTo(z))
    OBVIOUS
  <2>1. x < z \/ z < x
    OBVIOUS
  <2>2. Cardinality(UpTo(x)) \in Int /\ Cardinality(UpTo(z)) \in Int
    BY <1>1, <1>2
  <2>3. QED
    BY <1>3, <2>1, <2>2
<1>5. \A k \in 1 .. N : \E x \in S : Cardinality(UpTo(x)) = k
  <2>1. rank \in Injection(S, 1 .. N)
    BY <1>2, <1>4 DEF Injection, IsInjective
  <2>2. IsFiniteSet(1 .. N) /\ Cardinality(1 .. N) = N
    BY <1>1, FS_Interval
  <2>3. rank \in Surjection(S, 1 .. N)
    BY <2>1, <2>2, FS_Injection
  <2>4. \A k \in 1 .. N : \E x \in S : rank[x] = k
    BY <2>3 DEF Surjection
  <2>5. QED
    BY <2>4
<1>6. A = [k \in 1 .. N |-> CHOOSE x \in S : Cardinality(UpTo(x)) = k]
  BY DEF Ascending, UpTo
<1>7. \A k \in 1 .. N : A[k] \in S /\ Cardinality(UpTo(A[k])) = k
  BY <1>5, <1>6
<1> HIDE DEF A
<1>8. A \in [1 .. N -> S] /\ DOMAIN A = 1 .. N
  BY <1>6, <1>7
<1>9. A \in Seq(S)
  BY <1>1, <1>8
<1>10. \A i, j \in 1 .. N : A[i] = A[j] => i = j
  BY <1>7
<1>11. \A x \in S : \E k \in 1 .. N : A[k] = x
  BY <1>2, <1>4, <1>7
<1>12. \A i, j \in 1 .. N : i < j => A[i] < A[j]
  <2> SUFFICES ASSUME NEW i \in 1 .. N, NEW j \in 1 .. N, i < j, ~(A[i] < A[j])
               PROVE  FALSE
    OBVIOUS
  <2>1. A[i] \in S /\ A[j] \in S /\ A[i] # A[j] /\ A[i] \in Nat /\ A[j] \in Nat
    <3>1. A[i] \in S /\ A[j] \in S
      BY <1>7
    <3>2. A[i] # A[j]
      BY <1>1, <1>10
    <3>3. QED
      BY <3>1, <3>2
  <2>2. A[j] < A[i]
    BY <2>1
  <2>3. Cardinality(UpTo(A[j])) < Cardinality(UpTo(A[i]))
    BY <1>3, <2>1, <2>2
  <2>4. QED
    BY <1>1, <1>7, <2>3
<1>13. QED
  <2>1. ToSet(A) = S
    BY <1>7, <1>8, <1>11 DEF ToSet
  <2>2. IsInjective(A)
    BY <1>8, <1>10 DEF IsInjective
  <2>3. QED
    BY <1>1, <1>8, <1>9, <1>12, <2>1, <2>2 DEF Lists, A

\* What Picked takes from s.
LEMMA PickedLists ==
    ASSUME NEW T, NEW s \in Seq(T), NEW I \in SUBSET DOMAIN s
    PROVE  /\ Picked(s, I) \in Seq(T)
           /\ ToSet(Picked(s, I)) = {s[i] : i \in I}
           /\ (\A i, j \in I : s[i] = s[j] => i = j) => IsInjective(Picked(s, I))
<1> DEFINE A == Ascending(I)
           P == Picked(s, I)
           N == Cardinality(I)
<1>1. I \in SUBSET Nat /\ IsFiniteSet(I)
  <2>1. DOMAIN s = 1 .. Len(s) /\ Len(s) \in Nat
    OBVIOUS
  <2>2. IsFiniteSet(1 .. Len(s))
    BY <2>1, FS_Interval
  <2>3. QED
    BY <2>1, <2>2, FS_Subset
<1>2. Lists(A, I) /\ DOMAIN A = 1 .. N /\ N \in Nat
  BY <1>1, AscendingLists
<1> HIDE DEF A, N
<1>3. (\A k \in 1 .. N : A[k] \in I) /\ (\A i, j \in 1 .. N : A[i] = A[j] => i = j)
      /\ \A x \in I : \E k \in 1 .. N : A[k] = x
  BY <1>2 DEF Lists, IsInjective, ToSet
<1>4. P = [k \in 1 .. N |-> s[A[k]]]
  BY <1>2 DEF Picked, A
<1>5. P \in [1 .. N -> T]
  BY <1>3, <1>4
<1>6. P \in Seq(T)
  BY <1>2, <1>5
<1> HIDE DEF P
<1>7. ToSet(P) = {s[i] : i \in I}
  BY <1>3, <1>4 DEF ToSet
<1>8. (\A i, j \in I : s[i] = s[j] => i = j) => IsInjective(P)
  BY <1>3, <1>4 DEF IsInjective
<1>9. QED
  BY <1>6, <1>7, <1>8 DEF P

\* The first of the positions where a value stands in s.
LEMMA FirstPlace ==
    ASSUME NEW T, NEW s \in Seq(T), NEW i \in DOMAIN s
    PROVE  \E f \in DOMAIN s : s[f] = s[i] /\ \A j \in 1 .. f - 1 : s[j] # s[i]
<1> DEFINE J == {j \in DOMAIN s : s[j] = s[i]}
<1>1. DOMAIN s = 1 .. Len(s) /\ Len(s) \in Nat /\ J \in SUBSET (1 .. Len(s)) /\ i \in J
  OBVIOUS
<1>2. IsFiniteSet(J) /\ J \in SUBSET Nat
  <2>1. IsFiniteSet(1 .. Len(s)) /\ 1 .. Len(s) \subseteq Nat
    BY <1>1, FS_Interval
  <2>2. QED
    BY <1>1, <2>1, FS_Subset
<1>3. PICK a : a = Ascending(J)
  OBVIOUS
<1> HIDE DEF J
<1>4. Lists(a, J) /\ DOMAIN a = 1 .. Cardinality(J) /\ Cardinality(J) \in Nat
      /\ \A k, l \in DOMAIN a : k < l => a[k] < a[l]
  BY <1>2, <1>3, AscendingLists
<1>5. PICK k \in 1 .. Cardinality(J) : a[k] = i
  BY <1>1, <1>4 DEF Lists, ToSet
<1>6. 1 \in DOMAIN a /\ a[1] \in J
  BY <1>4, <1>5 DEF Lists, ToSet
<1>7. ASSUME NEW j \in J PROVE a[1] <= j
  <2>1. PICK l \in 1 .. Cardinality(J) : a[l] = j
    BY <1>4 DEF Lists, ToSet
  <2>2. l = 1 \/ a[1] < a[l]
    BY <1>4, <1>6
  <2>3. a[1] \in Nat /\ a[l] \in Nat
    BY <1>2, <1>6, <2>1
  <2>4. QED
    BY <2>1, <2>2, <2>3
<1>8. a[1] \in DOMAIN s /\ s[a[1]] = s[i]
  BY <1>6 DEF J
<1>9. ASSUME NEW j \in 1 .. a[1] - 1 PROVE s[j] # s[i]
  <2>1. j \in 1 .. Len(s) /\ ~(a[1] <= j)
    BY <1>1, <1>8
  <2>2. j \notin J
    BY <1>7, <2>1
  <2>3. QED
    BY <1>1, <2>1, <2>2 DEF J
<1>10. QED
  BY <1>8, <1>9

\* mergeRecipientIDs lists the recipients of both lists, each once.
LEMMA MergedOnce ==
    ASSUME NEW T, NEW base \in Seq(T), NEW extra \in Seq(T)
    PROVE  Lists(mergeRecipientIDs(base, extra), ToSet(base) \cup ToSet(extra))
<1> DEFINE all == base \o extra
           I == {i \in DOMAIN all : \A j \in 1 .. i - 1 : all[j] # all[i]}
           m == mergeRecipientIDs(base, extra)
<1>1. all \in Seq(T) /\ DOMAIN all = 1 .. Len(base) + Len(extra)
      /\ Len(base) \in Nat /\ Len(extra) \in Nat
      /\ DOMAIN base = 1 .. Len(base) /\ DOMAIN extra = 1 .. Len(extra)
  OBVIOUS
<1>2. (\A i \in DOMAIN base : all[i] = base[i] /\ i \in DOMAIN all)
      /\ (\A i \in DOMAIN extra : all[Len(base) + i] = extra[i]
                                  /\ Len(base) + i \in DOMAIN all)
      /\ \A i \in DOMAIN all : \/ i \in DOMAIN base
                               \/ i - Len(base) \in DOMAIN extra
                                  /\ all[i] = extra[i - Len(base)]
  BY <1>1
<1>3. ToSet(all) = ToSet(base) \cup ToSet(extra)
  <2> HIDE DEF all
  <2>1. ASSUME NEW i \in DOMAIN all PROVE all[i] \in ToSet(base) \cup ToSet(extra)
    BY <1>2 DEF ToSet
  <2>2. ASSUME NEW i \in DOMAIN base PROVE base[i] \in ToSet(all)
    BY <1>2 DEF ToSet
  <2>3. ASSUME NEW i \in DOMAIN extra PROVE extra[i] \in ToSet(all)
    BY <1>2 DEF ToSet
  <2>4. QED
    BY <2>1, <2>2, <2>3 DEF ToSet
<1>4. m = Picked(all, I) /\ I \in SUBSET DOMAIN all
  BY DEF mergeRecipientIDs
<1> HIDE DEF all, m
<1>5. \A i, j \in I : all[i] = all[j] => i = j
  <2> SUFFICES ASSUME NEW i \in I, NEW j \in I, all[i] = all[j], i # j PROVE FALSE
    OBVIOUS
  <2>1. i \in Nat \ {0} /\ j \in Nat \ {0}
    BY <1>1
  <2>2. i \in 1 .. j - 1 \/ j \in 1 .. i - 1
    BY <2>1
  <2>3. QED
    BY <2>2
<1>6. {all[i] : i \in I} = ToSet(all)
  <2>1. ASSUME NEW i \in DOMAIN all PROVE \E f \in I : all[f] = all[i]
    <3>1. PICK f \in DOMAIN all : all[f] = all[i] /\ \A j \in 1 .. f - 1 : all[j] # all[i]
      BY <1>1, FirstPlace
    <3>2. QED
      BY <3>1
  <2>2. QED
    BY <2>1 DEF ToSet
<1> HIDE DEF I
<1>7. m \in Seq(T) /\ ToSet(m) = ToSet(all) /\ IsInjective(m)
  BY <1>1, <1>4, <1>5, <1>6, PickedLists
<1>8. m \in Seq(ToSet(m))
  BY <1>7, OwnRange
<1>9. QED
  BY <1>3, <1>7, <1>8 DEF Lists, m

\* Whom NotifyStaff inserts rows for.
Recipients(staff, actor, extra) ==
    LET all == mergeRecipientIDs(staffRecipientIDs(staff, actor), extra) IN
    Picked(all, {i \in DOMAIN all : all[i] # actor})

\* Everybody it owes a row to is among them once, and nobody else.
LEMMA RecipientsOnce ==
    ASSUME NEW staff \in SUBSET People, NEW actor, NEW extra \in Seq(People)
    PROVE  Lists(Recipients(staff, actor, extra), (staff \cup ToSet(extra)) \ {actor})
<1> DEFINE base == staffRecipientIDs(staff, actor)
           all == mergeRecipientIDs(base, extra)
           S == (staff \cup ToSet(extra)) \ {actor}
           I == {i \in DOMAIN all : all[i] # actor}
           R == Recipients(staff, actor, extra)
<1>1. Lists(base, staff \ {actor})
  <2>1. staff \ {actor} \in SUBSET People /\ People \subseteq Nat /\ IsFiniteSet(People)
    BY NotificationAssumption
  <2>2. staff \ {actor} \in SUBSET Nat /\ IsFiniteSet(staff \ {actor})
    BY <2>1, FS_Subset
  <2>3. QED
    BY <2>2, AscendingLists DEF staffRecipientIDs
<1>2. base \in Seq(People) /\ ToSet(base) = staff \ {actor}
  <2>1. base \in [1 .. Len(base) -> staff \ {actor}] /\ Len(base) \in Nat
    BY <1>1 DEF Lists
  <2>2. QED
    BY <1>1, <2>1 DEF Lists
<1> HIDE DEF base
<1>3. Lists(all, (staff \ {actor}) \cup ToSet(extra))
  BY <1>2, MergedOnce
<1>4. R = Picked(all, I) /\ I \in SUBSET DOMAIN all
  BY DEF Recipients, base
<1> HIDE DEF all, R
<1>5. {all[i] : i \in I} = S
  BY <1>3 DEF Lists, ToSet
<1>6. \A i, j \in I : all[i] = all[j] => i = j
  BY <1>3 DEF Lists, IsInjective
<1> HIDE DEF I
<1>7. R \in Seq((staff \ {actor}) \cup ToSet(extra)) /\ ToSet(R) = S /\ IsInjective(R)
  BY <1>3, <1>4, <1>5, <1>6, PickedLists DEF Lists
<1>8. R \in Seq(S)
  BY <1>7, OwnRange
<1>9. QED
  BY <1>7, <1>8 DEF Lists, R

-----------------------------------------------------------------------------
(* The notifications: who hears of what                                    *)

NoticeRows == [of : Nat, read : BOOLEAN]
Jobs == [of : Nat, left : Seq(People)]
Busy(r) == notifying[r].left # <<>>

\* What each request has yet to insert: to everybody once, to nobody who got
\* his row or lost it, and for a mutation no other request works for.
JobsOK ==
    \A r \in Requests :
        /\ IsInjective(notifying[r].left)
        /\ Busy(r) => request[r].pc = "notifying" /\ notifying[r].of \in 1 .. notices
        /\ \A p \in ToSet(notifying[r].left) : <<notifying[r].of, p>> \in due \ lost
        /\ \A q \in Requests :
              Busy(r) /\ Busy(q) /\ notifying[q].of = notifying[r].of => q = r

\* The inductive invariant of the notifications.
NoticeInv ==
    /\ notices \in Nat
    /\ inbox \in [People -> Seq(NoticeRows)]
    /\ notifying \in [Requests -> Jobs]
    /\ JobsOK
    /\ due \subseteq (1 .. notices) \X People
    /\ \A p \in People : \A i \in DOMAIN inbox[p] : inbox[p][i].of <= notices
    /\ ToldExactlyOnce

Right(n, p) == Times(n, p) = IF <<n, p>> \in due \ lost /\ ~Pending(n, p) THEN 1 ELSE 0

\* The rows of p that tell of mutation n.
Places(n, p) == {i \in DOMAIN inbox[p] : inbox[p][i].of = n}

\* Who has no row of a mutation has no place of one.
LEMMA NoPlaces ==
    ASSUME NEW n, NEW p \in People, inbox[p] \in Seq(NoticeRows)
    PROVE  Times(n, p) = 0 <=> Places(n, p) = {}
<1>1. DOMAIN inbox[p] = 1 .. Len(inbox[p]) /\ Len(inbox[p]) \in Nat
  OBVIOUS
<1>2. Places(n, p) \in SUBSET (1 .. Len(inbox[p])) /\ IsFiniteSet(1 .. Len(inbox[p]))
  BY <1>1, FS_Interval DEF Places
<1>3. IsFiniteSet(Places(n, p)) /\ Times(n, p) = Cardinality(Places(n, p))
  BY <1>2, FS_Subset DEF Times, Places
<1>4. QED
  BY <1>3, FS_EmptySet

\* Rows tell of mutations that were notified.
LEMMA RowsBefore ==
    ASSUME NoticeInv, NEW p \in People, NEW i \in DOMAIN inbox[p]
    PROVE  inbox[p][i] \in NoticeRows /\ inbox[p][i].of \in Nat /\ inbox[p][i].of <= notices
<1>1. inbox[p] \in Seq(NoticeRows) /\ inbox[p][i].of <= notices
  BY DEF NoticeInv
<1>2. inbox[p][i] \in NoticeRows
  BY <1>1
<1>3. QED
  BY <1>1, <1>2 DEF NoticeRows

\* A batch and what is left after it, each recipient of the batch once.
LEMMA BatchAndRest ==
    ASSUME NEW r \in Requests, notifying[r].left \in Seq(People),
           IsInjective(notifying[r].left), Busy(r)
    PROVE  /\ Rest(r) \in Seq(People) /\ IsInjective(Rest(r))
           /\ ToSet(Batch(r)) \cup ToSet(Rest(r)) = ToSet(notifying[r].left)
           /\ ToSet(Batch(r)) \cap ToSet(Rest(r)) = {}
           /\ \A p \in People :
                 Cardinality({j \in DOMAIN Batch(r) : Batch(r)[j] = p})
                    = IF p \in ToSet(Batch(r)) THEN 1 ELSE 0
<1> DEFINE left == notifying[r].left
           len == Len(left)
           m == Min({BatchSize, len})
           B == Batch(r)
           R == Rest(r)
<1>1. len \in Nat /\ len # 0 /\ DOMAIN left = 1 .. len /\ BatchSize \in Nat /\ BatchSize # 0
  BY NotificationAssumption DEF Busy
<1>2. m \in {BatchSize, len} /\ m <= BatchSize /\ m <= len
  <2>1. \E x \in {BatchSize, len} : \A y \in {BatchSize, len} : x <= y
    BY <1>1
  <2>2. QED
    BY <2>1 DEF Min
<1> HIDE DEF m
<1>3. B = SubSeq(left, 1, m) /\ R = SubSeq(left, BatchSize + 1, len)
  BY DEF Batch, Rest, m
<1>4. DOMAIN B = 1 .. m /\ \A j \in 1 .. m : B[j] = left[j]
  BY <1>1, <1>2, <1>3
<1>5. R \in Seq(People) /\ DOMAIN R = 1 .. len - m
      /\ \A j \in 1 .. len - m : R[j] = left[m + j] /\ m + j \in 1 .. len
  <2>1. CASE m = BatchSize
    BY <1>1, <1>2, <1>3, <2>1
  <2>2. CASE m = len /\ len < BatchSize
    <3>1. R = <<>>
      BY <1>1, <1>3, <2>2
    <3>2. QED
      BY <1>1, <2>2, <3>1
  <2>3. QED
    BY <1>1, <1>2, <2>1, <2>2
<1>6. \A i, j \in 1 .. len : left[i] = left[j] => i = j
  BY <1>1 DEF IsInjective
<1> HIDE DEF B, R
<1>7. IsInjective(R)
  <2> SUFFICES ASSUME NEW i \in 1 .. len - m, NEW j \in 1 .. len - m, R[i] = R[j]
               PROVE  i = j
    BY <1>5 DEF IsInjective
  <2>1. m + i = m + j
    BY <1>5, <1>6
  <2>2. QED
    BY <1>1, <1>2, <2>1
<1>8. ToSet(B) = {left[j] : j \in 1 .. m}
  BY <1>4 DEF ToSet
<1>9. ToSet(R) = {left[j] : j \in m + 1 .. len}
  <2>1. \A j \in m + 1 .. len : j - m \in 1 .. len - m /\ R[j - m] = left[j]
    <3> TAKE j \in m + 1 .. len
    <3>1. m \in Nat /\ j \in Nat /\ j - m \in 1 .. len - m /\ m + (j - m) = j
      BY <1>1, <1>2
    <3>2. QED
      BY <1>5, <3>1
  <2>2. \A j \in 1 .. len - m : R[j] = left[m + j] /\ m + j \in m + 1 .. len
    BY <1>1, <1>2, <1>5
  <2>3. ToSet(R) = {R[j] : j \in 1 .. len - m}
    BY <1>5 DEF ToSet
  <2>4. {R[j] : j \in 1 .. len - m} \subseteq {left[j] : j \in m + 1 .. len}
    BY <2>2
  <2>5. {left[j] : j \in m + 1 .. len} \subseteq {R[j] : j \in 1 .. len - m}
    BY <2>1
  <2>6. QED
    BY <2>3, <2>4, <2>5
<1>10. ToSet(B) \cup ToSet(R) = ToSet(left)
  <2>1. 1 .. len = (1 .. m) \cup (m + 1 .. len)
    BY <1>1, <1>2
  <2>2. QED
    BY <1>1, <1>8, <1>9, <2>1 DEF ToSet
<1>11. ToSet(B) \cap ToSet(R) = {}
  <2> SUFFICES ASSUME NEW i \in 1 .. m, NEW j \in m + 1 .. len, left[i] = left[j]
               PROVE  FALSE
    BY <1>8, <1>9
  <2>1. i \in 1 .. len /\ j \in 1 .. len /\ i # j
    BY <1>1, <1>2
  <2>2. QED
    BY <1>6, <2>1
<1>12. ASSUME NEW p \in People
       PROVE  Cardinality({j \in DOMAIN B : B[j] = p}) = IF p \in ToSet(B) THEN 1 ELSE 0
  <2>1. CASE p \notin ToSet(B)
    <3>1. {j \in DOMAIN B : B[j] = p} = {}
      BY <2>1 DEF ToSet
    <3>2. QED
      BY <2>1, <3>1, FS_EmptySet
  <2>2. CASE p \in ToSet(B)
    <3>1. PICK i \in 1 .. m : B[i] = p
      BY <1>4, <2>2 DEF ToSet
    <3>2. \A j \in 1 .. m : B[j] = p => j = i
      <4>1. \A j \in 1 .. m : j \in 1 .. len
        BY <1>1, <1>2
      <4>2. QED
        BY <1>4, <1>6, <3>1, <4>1
    <3>3. {j \in DOMAIN B : B[j] = p} = {i}
      BY <1>4, <3>1, <3>2
    <3>4. QED
      BY <2>2, <3>3, FS_Singleton
  <2>3. QED
    BY <2>1, <2>2
<1>13. QED
  BY <1>5, <1>7, <1>10, <1>11, <1>12 DEF B, R

\* Requests that change nothing of the notifications, and leave whoever is
\* notifying at it.
LEMMA NoticesStay ==
    ASSUME NoticeInv, UNCHANGED nvars,
           \A r \in Requests : request[r].pc = "notifying" => request'[r].pc = "notifying"
    PROVE  NoticeInv'
<1>1. JobsOK'
  BY DEF NoticeInv, JobsOK, Busy, nvars
<1>2. ToldExactlyOnce'
  <2>1. \A n, p : Times(n, p)' = Times(n, p) /\ (Pending(n, p)' <=> Pending(n, p))
    BY DEF Times, Pending, nvars
  <2>2. QED
    BY <2>1 DEF NoticeInv, ToldExactlyOnce, nvars
<1>3. QED
  BY <1>1, <1>2 DEF NoticeInv, nvars

\* NotifyStaff: the recipients, and those the mutation is due to, are the same.
LEMMA NotifyTells ==
    ASSUME NoticeInv, NEW r \in Requests, Notify(r), request[r].extra \in Seq(People),
           request = [q \in Requests |-> request[q]]
    PROVE  NoticeInv'
<1> DEFINE n == notices + 1
           actor == request[r].actor
           extra == request[r].extra
           S == (Staff \cup ToSet(extra)) \ {actor}
           job == [of |-> n, left |-> Recipients(Staff, actor, extra)]
<1>1. Lists(job.left, S) /\ S \subseteq People
  <2>1. Staff \in SUBSET People /\ ToSet(extra) \subseteq People
    BY DEF Staff, ToSet
  <2>2. QED
    BY <2>1, RecipientsOnce
<1>2. /\ notices' = n /\ notifying' = [notifying EXCEPT ![r] = job]
      /\ due' = due \cup {<<n, p>> : p \in S} /\ UNCHANGED <<inbox, lost>>
  BY DEF Notify, NotifyStaff, Recipients
<1>3. notices \in Nat /\ n \in Nat /\ 1 .. n = (1 .. notices) \cup {n} /\ n \notin 1 .. notices
  BY DEF NoticeInv
<1>4. job \in Jobs
  <2>1. job.left \in Seq(People)
    <3>1. job.left \in [1 .. Len(job.left) -> S] /\ Len(job.left) \in Nat
      BY <1>1 DEF Lists
    <3>2. QED
      BY <1>1, <3>1
  <2>2. QED
    BY <1>3, <2>1 DEF Jobs
<1>5. job.of = n /\ IsInjective(job.left) /\ ToSet(job.left) = S
  BY <1>1 DEF Lists
<1> HIDE DEF job, S, n
<1>6. notifying \in [Requests -> Jobs] /\ notifying' \in [Requests -> Jobs]
      /\ notifying'[r] = job /\ \A q \in Requests : q # r => notifying'[q] = notifying[q]
  BY <1>2, <1>4 DEF NoticeInv
<1>7. request'[r].pc = "notifying" /\ \A q \in Requests : q # r => request'[q] = request[q]
  BY DEF Notify, NoRequest
<1>8. ~Busy(r)
  BY DEF NoticeInv, JobsOK, Notify
<1>9. \A q \in Requests : Busy(q) => notifying[q].of \in 1 .. notices /\ q # r
  BY <1>8 DEF NoticeInv, JobsOK
<1>10. due \subseteq (1 .. notices) \X People /\ lost \subseteq due
       /\ \A p : <<n, p>> \notin due
  BY <1>3 DEF NoticeInv, ToldExactlyOnce
<1>11. JobsOK'
  <2>1. ASSUME NEW q \in Requests
        PROVE  /\ IsInjective(notifying'[q].left)
               /\ Busy(q)' => request'[q].pc = "notifying" /\ notifying'[q].of \in 1 .. n
               /\ \A p \in ToSet(notifying'[q].left) : <<notifying'[q].of, p>> \in due' \ lost'
    <3>1. CASE q = r
      BY <1>2, <1>3, <1>5, <1>6, <1>7, <1>10, <3>1
    <3>2. CASE q # r
      BY <1>2, <1>3, <1>6, <1>7, <3>2 DEF NoticeInv, JobsOK, Busy
    <3>3. QED
      BY <3>1, <3>2
  <2>2. ASSUME NEW q \in Requests, NEW s \in Requests, Busy(q)', Busy(s)',
               notifying'[q].of = notifying'[s].of
        PROVE  q = s
    <3>1. \A t \in Requests \ {r} : Busy(t)' => Busy(t) /\ notifying'[t].of \in 1 .. notices
      BY <1>6, <1>9 DEF Busy
    <3>2. CASE q = r \/ s = r
      BY <1>3, <1>5, <1>6, <2>2, <3>1, <3>2
    <3>3. CASE q # r /\ s # r
      BY <1>6, <2>2, <3>1, <3>3 DEF NoticeInv, JobsOK
    <3>4. QED
      BY <3>2, <3>3
  <2>3. QED
    BY <1>2, <2>1, <2>2 DEF JobsOK
<1>12. ASSUME NEW k \in 1 .. n, NEW p \in People PROVE Right(k, p)'
  <2>1. Times(k, p)' = Times(k, p)
    BY <1>2 DEF Times
  <2>2. CASE k = n
    <3>1. Places(k, p) = {}
      <4>1. \A i \in DOMAIN inbox[p] : inbox[p][i].of \in Nat /\ inbox[p][i].of <= notices
        BY RowsBefore
      <4>2. \A i \in DOMAIN inbox[p] : inbox[p][i].of # n
        BY <1>3, <4>1 DEF n
      <4>3. QED
        BY <2>2, <4>2 DEF Places
    <3>2. Times(k, p) = 0
      BY <3>1, NoPlaces DEF NoticeInv
    <3>3. <<k, p>> \in due' => Pending(k, p)'
      <4>1. <<k, p>> \in due' => p \in S
        BY <1>2, <1>10, <2>2
      <4>2. QED
        BY <1>5, <1>6, <2>2, <4>1 DEF Pending
    <3>4. QED
      BY <2>1, <3>2, <3>3 DEF Right
  <2>3. CASE k # n
    <3>1. k \in 1 .. notices
      BY <1>3, <2>3
    <3>2. <<k, p>> \in due' \ lost' <=> <<k, p>> \in due \ lost
      BY <1>2, <2>3
    <3>3. Pending(k, p)' <=> Pending(k, p)
      <4>1. Pending(k, p) => Pending(k, p)'
        <5>1. ASSUME NEW q \in Requests, notifying[q].of = k, p \in ToSet(notifying[q].left)
              PROVE  Pending(k, p)'
          <6>1. Busy(q)
            BY <5>1 DEF Busy, ToSet
          <6>2. q # r
            BY <1>9, <6>1
          <6>3. QED
            BY <1>6, <5>1, <6>2 DEF Pending
        <5>2. QED
          BY <5>1 DEF Pending
      <4>2. Pending(k, p)' => Pending(k, p)
        BY <1>5, <1>6, <2>3 DEF Pending
      <4>3. QED
        BY <4>1, <4>2
    <3>4. Right(k, p)
      BY <3>1 DEF NoticeInv, ToldExactlyOnce, Right
    <3>5. QED
      BY <2>1, <3>2, <3>3, <3>4 DEF Right
  <2>4. QED
    BY <2>2, <2>3
<1>13. ToldExactlyOnce'
  BY <1>2, <1>10, <1>12 DEF ToldExactlyOnce, Right
<1>14. due' \subseteq (1 .. n) \X People
  BY <1>1, <1>2, <1>3, <1>10
<1>15. \A p \in People : \A i \in DOMAIN inbox'[p] : inbox'[p][i].of <= n
  <2>1. ASSUME NEW p \in People, NEW i \in DOMAIN inbox[p] PROVE inbox[p][i].of <= n
    <3>1. inbox[p][i].of \in Nat /\ inbox[p][i].of <= notices
      BY RowsBefore
    <3>2. QED
      BY <1>3, <3>1 DEF n
  <2>2. QED
    BY <1>2, <2>1
<1>16. QED
  BY <1>2, <1>3, <1>6, <1>11, <1>13, <1>14, <1>15 DEF NoticeInv

\* A batch is done with, inserted or lost: the other jobs are as they were,
\* and nobody of the batch is pending any more.
LEMMA BatchDone ==
    ASSUME NoticeInv, NEW r \in Requests, Busy(r), UNCHANGED <<notices, due, request>>,
           notifying' = [notifying EXCEPT ![r].left = Rest(r)],
           lost' \subseteq lost \cup {<<notifying[r].of, p>> : p \in ToSet(Batch(r))}
    PROVE  /\ notifying' \in [Requests -> Jobs] /\ JobsOK'
           /\ \A n, p : Pending(n, p)' <=>
                 Pending(n, p) /\ ~(n = notifying[r].of /\ p \in ToSet(Batch(r)))
           /\ \A p \in ToSet(Batch(r)) :
                 Pending(notifying[r].of, p) /\ <<notifying[r].of, p>> \in due \ lost
<1> DEFINE o == notifying[r].of
           left == notifying[r].left
           B == ToSet(Batch(r))
<1>1. notifying \in [Requests -> Jobs] /\ JobsOK
  BY DEF NoticeInv
<1>2. o \in Nat /\ left \in Seq(People) /\ IsInjective(left)
  BY <1>1 DEF Jobs, JobsOK
<1>3. /\ Rest(r) \in Seq(People) /\ IsInjective(Rest(r))
      /\ B \cup ToSet(Rest(r)) = ToSet(left) /\ B \cap ToSet(Rest(r)) = {}
  BY <1>2, BatchAndRest
<1>4. PICK job : job = [of |-> o, left |-> Rest(r)]
  OBVIOUS
<1>5. job \in Jobs /\ job.of = o /\ job.left = Rest(r)
  BY <1>2, <1>3, <1>4 DEF Jobs
<1>6. notifying'[r] = job /\ notifying' \in [Requests -> Jobs]
      /\ \A q \in Requests : q # r => notifying'[q] = notifying[q]
  <2>1. notifying' = [notifying EXCEPT ![r] = [@ EXCEPT !.left = Rest(r)]]
    OBVIOUS
  <2>2. [notifying[r] EXCEPT !.left = Rest(r)] = job
    BY <1>1, <1>4 DEF Jobs
  <2>3. QED
    BY <1>1, <1>5, <2>1, <2>2
<1> HIDE DEF B, o, left
<1>7. \A q \in Requests : /\ notifying'[q].of = notifying[q].of
                          /\ ToSet(notifying'[q].left) \subseteq ToSet(notifying[q].left)
                          /\ Busy(q)' => Busy(q)
  <2> TAKE q \in Requests
  <2>1. CASE q = r
    BY <1>3, <1>5, <1>6, <2>1 DEF o, left
  <2>2. CASE q # r
    BY <1>6, <2>2 DEF Busy
  <2>3. QED
    BY <2>1, <2>2
<1>8. \A q \in Requests \ {r} : Busy(q) => notifying[q].of # o
  BY <1>1 DEF JobsOK, o
<1>9. JobsOK'
  <2>1. ASSUME NEW q \in Requests, NEW p \in ToSet(notifying'[q].left)
        PROVE  <<notifying'[q].of, p>> \in due' \ lost'
    <3>1. <<notifying[q].of, p>> \in due \ lost
      BY <1>1, <1>7 DEF JobsOK
    <3>2. ~(notifying[q].of = o /\ p \in B)
      <4>1. CASE q = r
        BY <1>3, <1>5, <1>6, <2>1, <4>1
      <4>2. CASE q # r
        <5>1. Busy(q)
          BY <1>7, <2>1 DEF Busy, ToSet
        <5>2. QED
          BY <1>8, <4>2, <5>1
      <4>3. QED
        BY <4>1, <4>2
    <3>3. QED
      BY <1>7, <3>1, <3>2 DEF o, B
  <2>2. \A q \in Requests : IsInjective(notifying'[q].left)
    BY <1>1, <1>3, <1>5, <1>6 DEF JobsOK
  <2>3. \A q \in Requests : Busy(q)' => request'[q].pc = "notifying"
                                       /\ notifying'[q].of \in 1 .. notices'
    BY <1>1, <1>7 DEF JobsOK
  <2>4. \A q, t \in Requests :
           Busy(q)' /\ Busy(t)' /\ notifying'[t].of = notifying'[q].of => t = q
    BY <1>1, <1>7 DEF JobsOK
  <2>5. QED
    BY <2>1, <2>2, <2>3, <2>4 DEF JobsOK
<1>10. ASSUME NEW n, NEW p PROVE Pending(n, p)' <=> Pending(n, p) /\ ~(n = o /\ p \in B)
  <2>1. ASSUME NEW q \in Requests, notifying[q].of = n, p \in ToSet(notifying[q].left),
               ~(n = o /\ p \in B)
        PROVE  Pending(n, p)'
    <3>1. p \in ToSet(notifying'[q].left)
      BY <1>3, <1>5, <1>6, <2>1 DEF o, left
    <3>2. QED
      BY <1>7, <2>1, <3>1 DEF Pending
  <2>2. ASSUME NEW q \in Requests, notifying'[q].of = n, p \in ToSet(notifying'[q].left)
        PROVE  Pending(n, p) /\ ~(n = o /\ p \in B)
    <3>1. Pending(n, p)
      BY <1>7, <2>2 DEF Pending
    <3>2. CASE q = r
      BY <1>3, <1>5, <1>6, <2>2, <3>1, <3>2
    <3>3. CASE q # r
      <4>1. Busy(q)
        BY <1>7, <2>2 DEF Busy, ToSet
      <4>2. QED
        BY <1>7, <1>8, <2>2, <3>1, <3>3, <4>1
    <3>4. QED
      BY <3>2, <3>3
  <2>3. QED
    BY <2>1, <2>2 DEF Pending
<1>11. ASSUME NEW p \in B PROVE Pending(o, p) /\ <<o, p>> \in due \ lost
  <2>1. p \in ToSet(left)
    BY <1>3
  <2>2. QED
    BY <1>1, <2>1 DEF Pending, JobsOK, o, left
<1>12. QED
  BY <1>6, <1>9, <1>10, <1>11 DEF o, B

\* A row is added to an inbox.
LEMMA OneMore ==
    ASSUME NEW T, NEW s \in Seq(T), NEW x \in T
    PROVE  /\ s \o <<x>> \in Seq(T)
           /\ Len(s) + 1 \in DOMAIN (s \o <<x>>) /\ (s \o <<x>>)[Len(s) + 1] = x
           /\ \A i \in DOMAIN s : i \in DOMAIN (s \o <<x>>) /\ (s \o <<x>>)[i] = s[i]
           /\ \A i \in DOMAIN (s \o <<x>>) : i = Len(s) + 1 \/ i \in DOMAIN s
OBVIOUS

\* CreateMany: everybody of the batch gets one row, and it is his first of
\* this mutation.
LEMMA CreateManyTells ==
    ASSUME NoticeInv, NEW r \in Requests, CreateMany(r), UNCHANGED request
    PROVE  NoticeInv'
<1> DEFINE o == notifying[r].of
           B == ToSet(Batch(r))
<1>1. Busy(r) /\ UNCHANGED <<notices, due, request, lost>>
      /\ notifying' = [notifying EXCEPT ![r].left = Rest(r)]
      /\ inbox' = [p \in People |-> inbox[p] \o NewRows(r, p)]
  BY DEF CreateMany, Busy
<1>2. /\ notifying' \in [Requests -> Jobs] /\ JobsOK'
      /\ \A n, p : Pending(n, p)' <=> Pending(n, p) /\ ~(n = o /\ p \in B)
      /\ \A p \in B : Pending(o, p) /\ <<o, p>> \in due \ lost
  BY <1>1, BatchDone
<1>3. notices \in Nat /\ o \in 1 .. notices /\ o \in Nat
  <2>1. notices \in Nat /\ o \in 1 .. notices
    BY <1>1 DEF NoticeInv, JobsOK
  <2>2. QED
    BY <2>1
<1>4. PICK new : new = [of |-> o, read |-> FALSE]
  OBVIOUS
<1>5. new \in NoticeRows /\ new.of = o
  BY <1>3, <1>4 DEF NoticeRows
<1>6. ASSUME NEW p \in People
      PROVE  inbox[p] \in Seq(NoticeRows)
             /\ (p \in B => inbox'[p] = inbox[p] \o <<new>>)
             /\ (p \notin B => inbox'[p] = inbox[p])
  <2>1. inbox[p] \in Seq(NoticeRows)
    BY DEF NoticeInv
  <2>2. NewRows(r, p) = [i \in 1 .. IF p \in B THEN 1 ELSE 0 |-> new]
    <3>1. notifying[r].left \in Seq(People) /\ IsInjective(notifying[r].left)
      BY DEF NoticeInv, Jobs, JobsOK
    <3>2. Cardinality({j \in DOMAIN Batch(r) : Batch(r)[j] = p}) = IF p \in B THEN 1 ELSE 0
      BY <1>1, <3>1, BatchAndRest
    <3>3. QED
      BY <1>4, <3>2 DEF NewRows
  <2>3. CASE p \in B
    <3>1. NewRows(r, p) = <<new>>
      BY <2>2, <2>3
    <3>2. inbox'[p] = inbox[p] \o NewRows(r, p)
      BY <1>1
    <3>3. inbox'[p] = inbox[p] \o <<new>>
      BY <3>1, <3>2, Zenon
    <3>4. QED
      BY <2>1, <2>3, <3>3
  <2>4. CASE p \notin B
    <3>1. NewRows(r, p) = <<>>
      BY <2>2, <2>4
    <3>2. inbox'[p] = inbox[p] \o <<>>
      BY <1>1, <3>1
    <3>3. QED
      BY <2>1, <2>4, <3>2
  <2>5. QED
    BY <2>1, <2>3, <2>4
<1> HIDE DEF o, B
<1>7. inbox' \in [People -> Seq(NoticeRows)]
  <2>1. ASSUME NEW p \in People PROVE inbox'[p] \in Seq(NoticeRows)
    <3>1. inbox[p] \o <<new>> \in Seq(NoticeRows)
      BY <1>5, <1>6, OneMore
    <3>2. QED
      BY <1>6, <3>1
  <2>2. inbox' = [p \in People |-> inbox'[p]]
    BY <1>1
  <2>3. QED
    BY <2>1, <2>2
<1>8. ASSUME NEW p \in People, NEW i \in DOMAIN inbox'[p]
      PROVE  \/ p \in B /\ i = Len(inbox[p]) + 1 /\ inbox'[p][i] = new
             \/ i \in DOMAIN inbox[p] /\ inbox'[p][i] = inbox[p][i]
  <2>1. CASE p \in B
    BY <1>5, <1>6, <2>1, OneMore
  <2>2. CASE p \notin B
    BY <1>6, <2>2
  <2>3. QED
    BY <2>1, <2>2
<1>9. ASSUME NEW p \in B, p \in People
      PROVE  Len(inbox[p]) + 1 \in DOMAIN inbox'[p] /\ inbox'[p][Len(inbox[p]) + 1] = new
  BY <1>5, <1>6, <1>9, OneMore
<1>10. ASSUME NEW p \in People, NEW i \in DOMAIN inbox[p]
      PROVE  i \in DOMAIN inbox'[p] /\ inbox'[p][i] = inbox[p][i]
  <2>1. CASE p \in B
    BY <1>5, <1>6, <2>1, OneMore
  <2>2. CASE p \notin B
    BY <1>6, <2>2
  <2>3. QED
    BY <2>1, <2>2
<1>11. \A p \in People : \A i \in DOMAIN inbox'[p] : inbox'[p][i].of <= notices
  <2> TAKE p \in People
  <2> TAKE i \in DOMAIN inbox'[p]
  <2>1. CASE inbox'[p][i] = new
    BY <1>3, <1>5, <2>1
  <2>2. CASE i \in DOMAIN inbox[p] /\ inbox'[p][i] = inbox[p][i]
    BY <2>2, RowsBefore
  <2>3. QED
    BY <1>8, <2>1, <2>2
<1>12. ASSUME NEW n \in 1 .. notices, NEW p \in People PROVE Right(n, p)'
  <2>1. Right(n, p)
    BY DEF NoticeInv, ToldExactlyOnce, Right
  <2>2. CASE n = o /\ p \in B
    <3>1. Places(n, p) = {}
      <4>1. Times(n, p) = 0
        BY <1>2, <2>1, <2>2 DEF Right
      <4>2. QED
        BY <1>6, <4>1, NoPlaces
    <3>2. Places(n, p)' = {Len(inbox[p]) + 1}
      <4>1. \A i \in DOMAIN inbox[p] : inbox[p][i].of # n
        BY <3>1 DEF Places
      <4>2. \A i \in DOMAIN inbox'[p] : inbox'[p][i].of = n <=> i = Len(inbox[p]) + 1
        BY <1>3, <1>5, <1>8, <1>9, <2>2, <4>1
      <4>3. QED
        BY <1>9, <2>2, <4>2 DEF Places
    <3>3. Times(n, p)' = 1
      <4>1. Times(n, p)' = Cardinality(Places(n, p)')
        BY DEF Times, Places
      <4>2. QED
        BY <3>2, <4>1, FS_Singleton
    <3>4. <<n, p>> \in due' \ lost' /\ ~Pending(n, p)'
      BY <1>1, <1>2, <2>2
    <3>5. QED
      BY <3>3, <3>4 DEF Right
  <2>3. CASE ~(n = o /\ p \in B)
    <3>1. Places(n, p)' = Places(n, p)
      <4>1. \A i \in DOMAIN inbox'[p] :
               inbox'[p][i].of = n => i \in DOMAIN inbox[p] /\ inbox'[p][i] = inbox[p][i]
        BY <1>3, <1>5, <1>8, <2>3
      <4>2. QED
        BY <1>10, <4>1 DEF Places
    <3>2. Times(n, p)' = Times(n, p)
      BY <3>1 DEF Times, Places
    <3>3. Pending(n, p)' <=> Pending(n, p)
      BY <1>2, <2>3
    <3>4. QED
      BY <1>1, <2>1, <3>2, <3>3 DEF Right
  <2>4. QED
    BY <2>2, <2>3
<1>13. ToldExactlyOnce'
  BY <1>1, <1>12 DEF ToldExactlyOnce, Right, NoticeInv
<1>14. QED
  BY <1>1, <1>2, <1>7, <1>11, <1>13 DEF NoticeInv

\* The INSERT fails: the batch is lost, and only it.
LEMMA CreateManyFailsTells ==
    ASSUME NoticeInv, NEW r \in Requests, CreateManyFails(r), UNCHANGED request
    PROVE  NoticeInv'
<1> DEFINE o == notifying[r].of
           B == ToSet(Batch(r))
<1>1. Busy(r) /\ UNCHANGED <<notices, due, request, inbox>>
      /\ notifying' = [notifying EXCEPT ![r].left = Rest(r)]
      /\ lost' = lost \cup {<<o, p>> : p \in B}
  BY DEF CreateManyFails, Busy
<1>2. /\ notifying' \in [Requests -> Jobs] /\ JobsOK'
      /\ \A n, p : Pending(n, p)' <=> Pending(n, p) /\ ~(n = o /\ p \in B)
      /\ \A p \in B : Pending(o, p) /\ <<o, p>> \in due \ lost
  BY <1>1, BatchDone
<1> HIDE DEF o, B
<1>3. ASSUME NEW n \in 1 .. notices, NEW p \in People PROVE Right(n, p)'
  <2>1. Right(n, p) /\ Times(n, p)' = Times(n, p)
    BY <1>1 DEF NoticeInv, ToldExactlyOnce, Right, Times
  <2>2. CASE n = o /\ p \in B
    BY <1>1, <1>2, <2>1, <2>2 DEF Right
  <2>3. CASE ~(n = o /\ p \in B)
    <3>1. <<n, p>> \in lost' <=> <<n, p>> \in lost
      BY <1>1, <2>3
    <3>2. QED
      BY <1>1, <1>2, <2>1, <2>3, <3>1 DEF Right
  <2>4. QED
    BY <2>2, <2>3
<1>4. ToldExactlyOnce'
  BY <1>1, <1>2, <1>3 DEF ToldExactlyOnce, Right, NoticeInv
<1>5. QED
  BY <1>1, <1>2, <1>4 DEF NoticeInv

\* A request that is done with its list ends.
LEMMA AnswerTells ==
    ASSUME NoticeInv, NEW r \in Requests, Answer(r)
    PROVE  NoticeInv'
<1>1. ~Busy(r) /\ notifying' = [notifying EXCEPT ![r] = NotNotifying]
      /\ UNCHANGED <<inbox, notices, due, lost>>
      /\ \A q \in Requests : q # r /\ request[q].pc = "notifying" => request'[q].pc = "notifying"
  BY DEF Answer, Busy
<1>2. NotNotifying \in Jobs /\ NotNotifying.left = <<>>
  BY DEF NotNotifying, Jobs
<1>3. notifying \in [Requests -> Jobs] /\ notifying' \in [Requests -> Jobs]
      /\ notifying'[r] = NotNotifying
      /\ \A q \in Requests : q # r => notifying'[q] = notifying[q]
  BY <1>1, <1>2 DEF NoticeInv
<1>4. ToSet(<<>>) = {} /\ IsInjective(<<>>)
  BY DEF ToSet, IsInjective
<1>5. \A q \in Requests : Busy(q)' => q # r /\ Busy(q)
  BY <1>2, <1>3 DEF Busy
<1>6. JobsOK'
  <2>1. ASSUME NEW q \in Requests
        PROVE  /\ IsInjective(notifying'[q].left)
               /\ Busy(q)' => request'[q].pc = "notifying" /\ notifying'[q].of \in 1 .. notices'
               /\ \A p \in ToSet(notifying'[q].left) : <<notifying'[q].of, p>> \in due' \ lost'
    <3>1. CASE q = r
      BY <1>2, <1>3, <1>4, <1>5, <3>1
    <3>2. CASE q # r
      BY <1>1, <1>3, <3>2 DEF NoticeInv, JobsOK, Busy
    <3>3. QED
      BY <3>1, <3>2
  <2>2. \A q, s \in Requests :
           Busy(q)' /\ Busy(s)' /\ notifying'[s].of = notifying'[q].of => s = q
    BY <1>3, <1>5 DEF NoticeInv, JobsOK
  <2>3. QED
    BY <2>1, <2>2 DEF JobsOK
<1>7. \A n, p : Pending(n, p)' <=> Pending(n, p)
  <2>1. notifying[r].left = <<>>
    BY <1>1 DEF Busy
  <2>2. QED
    BY <1>2, <1>3, <1>4, <2>1 DEF Pending
<1>8. ToldExactlyOnce'
  BY <1>1, <1>7 DEF NoticeInv, ToldExactlyOnce, Times
<1>9. QED
  BY <1>1, <1>3, <1>6, <1>8 DEF NoticeInv

\* Reading a row leaves it what it is about.
LEMMA MarkReadTells ==
    ASSUME NoticeInv, NEW reader \in People, NEW ids, MarkRead(reader, ids), UNCHANGED request
    PROVE  NoticeInv'
<1>1. UNCHANGED <<notifying, notices, due, lost, request>>
      /\ inbox' = [inbox EXCEPT ![reader] = [i \in DOMAIN inbox[reader] |->
                     [inbox[reader][i] EXCEPT !.read = @ \/ i \in ids]]]
  BY DEF MarkRead
<1>2. inbox \in [People -> Seq(NoticeRows)]
  BY DEF NoticeInv
<1>3. ASSUME NEW p \in People
      PROVE  inbox'[p] \in Seq(NoticeRows) /\ DOMAIN inbox'[p] = DOMAIN inbox[p]
             /\ \A i \in DOMAIN inbox[p] : inbox'[p][i].of = inbox[p][i].of
  <2>1. CASE p # reader
    BY <1>1, <1>2, <2>1
  <2>2. CASE p = reader
    <3>1. ASSUME NEW i \in DOMAIN inbox[reader]
          PROVE  /\ [inbox[reader][i] EXCEPT !.read = @ \/ i \in ids] \in NoticeRows
                 /\ [inbox[reader][i] EXCEPT !.read = @ \/ i \in ids].of = inbox[reader][i].of
      <4>1. inbox[reader][i] \in NoticeRows
        BY RowsBefore
      <4>2. PICK b \in BOOLEAN : b = (inbox[reader][i].read \/ i \in ids)
        OBVIOUS
      <4>3. [inbox[reader][i] EXCEPT !.read = b] \in NoticeRows
            /\ [inbox[reader][i] EXCEPT !.read = b].of = inbox[reader][i].of
        BY <4>1 DEF NoticeRows
      <4>4. [inbox[reader][i] EXCEPT !.read = @ \/ i \in ids] = [inbox[reader][i] EXCEPT !.read = b]
        BY <4>2, Zenon
      <4>5. QED
        BY <4>3, <4>4
    <3>2. PICK row : row = [i \in DOMAIN inbox[reader] |->
                              [inbox[reader][i] EXCEPT !.read = @ \/ i \in ids]]
      OBVIOUS
    <3>3. inbox'[p] = row
      <4>1. inbox' = [inbox EXCEPT ![reader] = row]
        BY <1>1, <3>2, Zenon
      <4>2. QED
        BY <1>2, <2>2, <4>1
    <3>4. DOMAIN row = DOMAIN inbox[reader] /\ row = [i \in DOMAIN inbox[reader] |-> row[i]]
          /\ \A i \in DOMAIN inbox[reader] : row[i] \in NoticeRows /\ row[i].of = inbox[reader][i].of
      BY <3>1, <3>2
    <3>5. DOMAIN inbox[reader] = 1 .. Len(inbox[reader]) /\ Len(inbox[reader]) \in Nat
      BY <1>2
    <3>6. row \in Seq(NoticeRows)
      BY <3>4, <3>5
    <3>7. QED
      BY <2>2, <3>3, <3>4, <3>6
  <2>3. QED
    BY <2>1, <2>2
<1>4. inbox' \in [People -> Seq(NoticeRows)]
  <2>1. inbox' = [p \in People |-> inbox'[p]]
    BY <1>1, <1>2
  <2>2. QED
    BY <1>3, <2>1
<1>5. \A n : \A p \in People :
          Times(n, p)' = Times(n, p) /\ (Pending(n, p)' <=> Pending(n, p))
  <2> SUFFICES ASSUME NEW n, NEW p \in People PROVE Times(n, p)' = Times(n, p)
    BY <1>1 DEF Pending
  <2>1. {i \in DOMAIN inbox'[p] : inbox'[p][i].of = n} = {i \in DOMAIN inbox[p] : inbox[p][i].of = n}
    BY <1>3
  <2>2. QED
    BY <2>1 DEF Times
<1>6. ToldExactlyOnce'
  BY <1>1, <1>5 DEF NoticeInv, ToldExactlyOnce
<1>7. JobsOK'
  BY <1>1 DEF NoticeInv, JobsOK, Busy
<1>8. QED
  BY <1>1, <1>3, <1>4, <1>6, <1>7 DEF NoticeInv

-----------------------------------------------------------------------------
(* LeadRequests: who may change a lead                                     *)

USE NotificationAssumption, CastAssumption

UserRows == Accounts(Roles \cup {"gone"})
RequestRows ==
    [pc : {"idle", "authed", "cleared", "written", "notifying", "ended"},
     kind : Patches \cup Bulk, actor : People \cup {None}, as : UserRows,
     extra : Seq(People), stale : BOOLEAN]

\* The actor's row as the middleware loaded it is the stored one, as far as
\* a check reads it.
UpToDate(row) ==
    /\ row.as.role = user[row.actor].role
    /\ row.as.team = user[row.actor].team
    /\ row.as.unit = user[row.actor].unit

\* A request that was not overtaken acts for a row that is up to date and
\* may do what it is about to do; a checked PATCH would still pass its check.
RequestOK(row) ==
    /\ row \in RequestRows
    /\ row.pc \in {"authed", "cleared"} => row.actor \in People
    /\ row.pc \in {"authed", "cleared"} /\ ~row.stale =>
          UpToDate(row) /\ row.as.role \in allowed(row.kind)
    /\ row.pc = "cleared" /\ ~row.stale => inScope(row.actor, row.as)

PeopleOK ==
    /\ user \in [People -> UserRows]
    /\ lead \in [exists : BOOLEAN, creator : People \cup {None},
                 team : Teams \cup {None}, exec : People \cup {None}]

\* The inductive invariant of the requests.
AccessInv ==
    /\ PeopleOK
    /\ request = [r \in Requests |-> request[r]]
    /\ \A r \in Requests : RequestOK(request[r])
    /\ NobodyTrespasses

\* The roles that may do anything are roles.
LEMMA AllowedRoles ==
    ASSUME NEW kind \in Patches \cup Bulk PROVE allowed(kind) \subseteq Roles
BY DEF allowed, Patches, Bulk, Roles

\* Who is in the scope of requireLeadAccess, and of the WHERE of the bulk
\* statements, by rows that are up to date is entitled to the lead.
LEMMA ScopeEntitles ==
    ASSUME PeopleOK, NEW row \in RequestRows, row.actor \in People, UpToDate(row),
           row.as.role \in allowed(row.kind), inScope(row.actor, row.as)
    PROVE  Entitled(row.actor)
<1> DEFINE p == row.actor
           u == user[p]
           c == lead.creator
<1>1. u \in UserRows /\ c \in People \cup {None} /\ lead.team \in Teams \cup {None}
  BY DEF PeopleOK
<1>2. u.role \in Roles
  BY AllowedRoles DEF UpToDate, RequestRows
<1>3. u.team \in Teams \cup {None} /\ u.unit \in Units \cup {None}
      /\ None \notin Teams /\ None \notin Units /\ None \notin People
  BY <1>1 DEF UserRows, Accounts, None, CastAssumption, NotificationAssumption
<1>4. CASE u.role = "superadmin"
  BY <1>4 DEF Entitled
<1>5. CASE u.role = "analyst"
  BY <1>5 DEF Entitled, inScope, UpToDate
<1>6. CASE u.role = "exec"
  BY <1>6 DEF Entitled, inScope, UpToDate
<1>7. CASE u.role = "mtl"
  BY <1>3, <1>7 DEF Entitled, inScope, UpToDate
<1>8. CASE u.role = "atl"
  <2>1. createdByAnalystTeam(p, u.unit)
    BY <1>8 DEF inScope, UpToDate
  <2>2. c \in People
    BY <1>1, <2>1 DEF createdByAnalystTeam
  <2>3. u.unit # None => u.unit \in Units
    BY <1>3
  <2>4. QED
    BY <1>8, <2>1, <2>2, <2>3 DEF Entitled, createdByAnalystTeam
<1>9. QED
  BY <1>2, <1>4, <1>5, <1>6, <1>7, <1>8 DEF Roles

\* An ended request, and one that has nothing left to write, may do no harm.
LEMMA HarmlessRequest ==
    ASSUME NEW row \in RequestRows, row.pc \notin {"authed", "cleared"}
    PROVE  RequestOK(row)
BY DEF RequestOK

LEMMA GoneRow == Gone \in UserRows
BY DEF Gone, Row, UserRows, Accounts

LEMMA NoRequestRow ==
    /\ NoRequest \in RequestRows /\ NoRequest.pc = "idle"
    /\ Ended \in RequestRows /\ Ended.pc = "ended"
<1>1. <<>> \in Seq(People)
  OBVIOUS
<1>2. NoRequest \in RequestRows
  BY <1>1, GoneRow DEF NoRequest, RequestRows, Patches, Bulk
<1>3. NoRequest.pc = "idle" /\ Ended.pc = "ended"
  BY DEF NoRequest, Ended
<1>4. Ended \in RequestRows
  BY <1>1, GoneRow DEF NoRequest, Ended, RequestRows, Patches, Bulk
<1>5. QED
  BY <1>2, <1>3, <1>4

\* What is left of a request after its write.
LEMMA DoneRow ==
    ASSUME NEW r \in Requests, request[r] \in RequestRows, NEW extra \in Seq(People)
    PROVE  Done(r, extra) \in RequestRows /\ Done(r, extra).pc = "written"
<1>1. request[r].actor \in People \cup {None}
  BY DEF RequestRows
<1>2. QED
  BY <1>1, GoneRow DEF Done, NoRequest, RequestRows, Patches, Bulk

\* The rows at the start, and nobody at work.
LEMMA AccessStarts == QInit => AccessInv
<1> SUFFICES ASSUME QInit PROVE AccessInv
  OBVIOUS
<1>1. PeopleOK
  <2>1. user \in [People -> UserRows]
    BY DEF QInit, UserRows, Accounts, CastAssumption
  <2>2. lead \in [exists : BOOLEAN, creator : People \cup {None},
                  team : Teams \cup {None}, exec : People \cup {None}]
    BY DEF QInit, Leads
  <2>3. QED
    BY <2>1, <2>2 DEF PeopleOK
<1>2. request = [r \in Requests |-> NoRequest]
  BY DEF QInit
<1>3. \A r \in Requests : RequestOK(request[r])
  BY <1>2, NoRequestRow, HarmlessRequest
<1>4. QED
  BY <1>1, <1>2, <1>3 DEF AccessInv, NobodyTrespasses, QInit

\* A step that changes no user and no lead keeps what requests rest on.
LEMMA AccessFrame ==
    ASSUME UNCHANGED <<user, lead>>
    PROVE  (PeopleOK' <=> PeopleOK) /\ \A row : RequestOK(row)' <=> RequestOK(row)
<1>1. \A p, as : inScope(p, as)' <=> inScope(p, as)
  BY DEF inScope, createdByAnalystTeam
<1>2. \A row : UpToDate(row)' <=> UpToDate(row)
  BY DEF UpToDate
<1>3. QED
  BY <1>1, <1>2 DEF PeopleOK, RequestOK

\* A request moves on, and changes no user and no lead.
LEMMA RequestMoves ==
    ASSUME AccessInv, UNCHANGED <<user, lead>>, NobodyTrespasses',
           NEW r \in Requests, NEW row, RequestOK(row),
           request' = [request EXCEPT ![r] = row]
    PROVE  AccessInv'
<1>1. \A q \in Requests : RequestOK(request'[q])
  BY DEF AccessInv
<1>2. request' = [q \in Requests |-> request'[q]]
  BY DEF AccessInv
<1>3. QED
  BY <1>1, <1>2, AccessFrame DEF AccessInv

\* A write of a request that is in its scope is no trespass.
LEMMA AccountOK ==
    ASSUME AccessInv, NEW r \in Requests, Account(r),
           request[r].pc \in {"authed", "cleared"}, inScope(request[r].actor, request[r].as)
               \/ request[r].pc = "cleared"
    PROVE  NobodyTrespasses'
<1>1. RequestOK(request[r]) /\ PeopleOK
  BY DEF AccessInv
<1>2. request[r].stale \/ Entitled(request[r].actor)
  BY <1>1, ScopeEntitles DEF RequestOK
<1>3. QED
  BY <1>2 DEF Account, AccessInv, NobodyTrespasses

\* The steps of a request before its write, and after it.
LEMMA QuietSteps ==
    ASSUME AccessInv, NEW r \in Requests,
           \/ \E p \in People, kind \in Patches \cup Bulk : Authenticate(r, p, kind)
           \/ requireLeadAccess(r) \/ Refuse(r) \/ Notify(r) \/ NotifyFails(r) \/ Answer(r)
    PROVE  AccessInv'
<1>1. RequestOK(request[r]) /\ PeopleOK
  BY DEF AccessInv
<1>2. UNCHANGED <<user, lead, trespass>>
  BY DEF Authenticate, requireLeadAccess, Refuse, Notify, NotifyFails, Answer
<1>3. NobodyTrespasses'
  BY <1>2 DEF AccessInv, NobodyTrespasses
<1>4. RequestOK(Ended)
  BY NoRequestRow, HarmlessRequest
<1>5. SUFFICES \E row : RequestOK(row) /\ request' = [request EXCEPT ![r] = row]
  BY <1>2, <1>3, RequestMoves
<1>6. ASSUME NEW p \in People, NEW kind \in Patches \cup Bulk, Authenticate(r, p, kind)
      PROVE  \E row : RequestOK(row) /\ request' = [request EXCEPT ![r] = row]
  <2> DEFINE row == [NoRequest EXCEPT !.pc = "authed", !.kind = kind, !.actor = p,
                                      !.as = user[p]]
  <2>1. request' = [request EXCEPT ![r] = row] /\ user[p].role \in allowed(kind)
    BY <1>6 DEF Authenticate
  <2>2. user[p] \in UserRows
    BY <1>1 DEF PeopleOK
  <2>3. row \in RequestRows /\ row.pc = "authed" /\ row.kind = kind /\ row.actor = p
        /\ row.as = user[p]
    BY <2>2, NoRequestRow DEF RequestRows
  <2> HIDE DEF row
  <2>4. RequestOK(row)
    BY <2>1, <2>3 DEF RequestOK, UpToDate
  <2>5. QED
    BY <2>1, <2>4
<1>7. ASSUME requireLeadAccess(r)
      PROVE  \E row : RequestOK(row) /\ request' = [request EXCEPT ![r] = row]
  <2> DEFINE old == request[r]
             row == [old EXCEPT !.pc = "cleared"]
  <2>1. \/ request' = [request EXCEPT ![r] = row] /\ inScope(old.actor, old.as)
        \/ request' = [request EXCEPT ![r] = Ended]
    BY <1>7 DEF requireLeadAccess
  <2>2. old \in RequestRows /\ old.pc = "authed"
    BY <1>1, <1>7 DEF requireLeadAccess, RequestOK
  <2>3. row \in RequestRows /\ row.pc = "cleared" /\ row.kind = old.kind
        /\ row.actor = old.actor /\ row.as = old.as /\ row.stale = old.stale
    BY <2>2 DEF RequestRows
  <2> HIDE DEF row
  <2>4. inScope(old.actor, old.as) => RequestOK(row)
    BY <1>1, <2>2, <2>3 DEF RequestOK, UpToDate
  <2>5. QED
    BY <1>4, <2>1, <2>4
<1>8. ASSUME Notify(r)
      PROVE  \E row : RequestOK(row) /\ request' = [request EXCEPT ![r] = row]
  <2> DEFINE row == [NoRequest EXCEPT !.pc = "notifying"]
  <2>1. request' = [request EXCEPT ![r] = row]
    BY <1>8 DEF Notify
  <2>2. row \in RequestRows /\ row.pc = "notifying"
    BY NoRequestRow DEF RequestRows
  <2>3. RequestOK(row)
    BY <2>2, HarmlessRequest
  <2>4. QED
    BY <2>1, <2>3
<1>9. CASE Refuse(r) \/ NotifyFails(r) \/ Answer(r)
  BY <1>4, <1>9 DEF Refuse, NotifyFails, Answer
<1>10. QED
  BY <1>6, <1>7, <1>8, <1>9

\* The UPDATE of a PATCH: its check still holds, or it is stale.
LEMMA PatchStep ==
    ASSUME AccessInv, NEW r \in Requests, Patch(r)
    PROVE  AccessInv'
<1>1. request[r] \in RequestRows
  BY DEF AccessInv, RequestOK
<1>2. NobodyTrespasses'
  BY AccountOK DEF Patch
<1>3. RequestOK(Done(r, <<>>))
  <2>1. <<>> \in Seq(People)
    OBVIOUS
  <2>2. QED
    BY <1>1, <2>1, DoneRow, HarmlessRequest
<1>4. QED
  BY <1>2, <1>3, RequestMoves DEF Patch

\* A checked PATCH becomes stale when another request writes the lead, so
\* no request that is not stale loses its ground.
LEMMA BulkWrites ==
    ASSUME AccessInv, NEW r \in Requests, NEW extra \in Seq(People), Written(r, extra),
           request[r].pc = "authed", inScope(request[r].actor, request[r].as), PeopleOK'
    PROVE  AccessInv'
<1>1. \A q \in Requests : RequestOK(request[q]) /\ request[q] \in RequestRows
  BY DEF AccessInv, RequestOK
<1>2. NobodyTrespasses'
  BY AccountOK DEF Written
<1>3. request' = [q \in Requests |-> request'[q]] /\ UNCHANGED user
  BY DEF Written, Overtaken
<1>4. \A row : UpToDate(row)' <=> UpToDate(row)
  BY <1>3 DEF UpToDate
<1>5. RequestOK(request[r])'
  <2>1. request'[r] = Done(r, extra)
    BY DEF Written, Overtaken
  <2>2. request'[r] \in RequestRows /\ request'[r].pc = "written"
    BY <1>1, <2>1, DoneRow
  <2>3. QED
    BY <2>2 DEF RequestOK
<1>6. ASSUME NEW q \in Requests \ {r} PROVE RequestOK(request[q])'
  <2> DEFINE old == request[q]
  <2>1. request'[q] = IF old.pc = "cleared" THEN [old EXCEPT !.stale = TRUE] ELSE old
    BY DEF Written, Overtaken
  <2>2. PICK row : row = request'[q]
    OBVIOUS
  <2>3. RequestOK(old) /\ old \in RequestRows
    BY <1>1
  <2>4. CASE old.pc = "cleared"
    <3>1. row \in RequestRows /\ row.pc = "cleared" /\ row.actor = old.actor /\ row.stale
      BY <2>1, <2>2, <2>3, <2>4 DEF RequestRows
    <3>2. RequestOK(row)'
      BY <2>3, <2>4, <3>1 DEF RequestOK
    <3>3. QED
      BY <2>2, <3>2
  <2>5. CASE old.pc # "cleared"
    <3>1. row = old
      BY <2>1, <2>2, <2>5
    <3>2. RequestOK(row)'
      BY <1>4, <2>3, <2>5, <3>1 DEF RequestOK
    <3>3. QED
      BY <2>2, <3>2
  <2>6. QED
    BY <2>4, <2>5
<1>7. QED
  BY <1>2, <1>3, <1>5, <1>6 DEF AccessInv

\* AssignLeads and DeleteLeads write with their scope in the WHERE.
LEMMA BulkSteps ==
    ASSUME AccessInv, NEW r \in Requests,
           DeleteLeads(r) \/ \E to \in People : AssignLeads(r, to)
    PROVE  AccessInv'
<1>1. PeopleOK
  BY DEF AccessInv
<1>2. CASE DeleteLeads(r)
  <2>1. PeopleOK'
    BY <1>1, <1>2 DEF DeleteLeads, Written, PeopleOK
  <2>2. <<>> \in Seq(People)
    OBVIOUS
  <2>3. QED
    BY <1>2, <2>1, <2>2, BulkWrites DEF DeleteLeads
<1>3. ASSUME NEW to \in People, AssignLeads(r, to) PROVE AccessInv'
  <2>1. user[to].team \in Teams \cup {None}
    BY <1>1 DEF PeopleOK, UserRows, Accounts
  <2>2. \E e \in People \cup {None} :
           lead' = [lead EXCEPT !.exec = e, !.team = user[to].team]
    BY <1>3 DEF AssignLeads
  <2>3. PeopleOK'
    BY <1>1, <1>3, <2>1, <2>2 DEF AssignLeads, Written, PeopleOK
  <2>4. <<to>> \in Seq(People)
    OBVIOUS
  <2>5. QED
    BY <1>3, <2>3, <2>4, BulkWrites DEF AssignLeads
<1>4. QED
  BY <1>2, <1>3

\* Administrators make every checked PATCH stale, and every request of the
\* people they change; the other rows keep what checks read of them.
LEMMA ChangeKeeps ==
    ASSUME AccessInv, NEW ps \in SUBSET People, Change(ps), PeopleOK',
           \A q \in People \ ps : /\ user'[q].role = user[q].role
                                  /\ user'[q].team = user[q].team
                                  /\ user'[q].unit = user[q].unit
    PROVE  AccessInv'
<1>1. NobodyTrespasses' /\ request' = [q \in Requests |-> request'[q]]
  BY DEF Change, AccessInv, NobodyTrespasses
<1>2. ASSUME NEW q \in Requests PROVE RequestOK(request[q])'
  <2> DEFINE old == request[q]
             hit == old.pc = "cleared" \/ (old.pc = "authed" /\ old.actor \in ps)
  <2>1. request'[q] = IF hit THEN [old EXCEPT !.stale = TRUE] ELSE old
    BY DEF Change
  <2>2. PICK row : row = request'[q]
    OBVIOUS
  <2>3. RequestOK(old) /\ old \in RequestRows
    BY DEF AccessInv, RequestOK
  <2>4. CASE hit
    <3>1. row \in RequestRows /\ row.pc = old.pc /\ row.actor = old.actor /\ row.stale
      BY <2>1, <2>2, <2>3, <2>4 DEF RequestRows
    <3>2. RequestOK(row)'
      BY <2>3, <3>1 DEF RequestOK
    <3>3. QED
      BY <2>2, <3>2
  <2>5. CASE ~hit
    <3>1. row = old
      BY <2>1, <2>2, <2>5
    <3>2. old.pc = "authed" => old.actor \in People \ ps
      BY <2>3, <2>5 DEF RequestOK
    <3>3. old.pc = "authed" /\ ~old.stale => UpToDate(row)'
      BY <2>3, <3>1, <3>2 DEF RequestOK, UpToDate
    <3>4. RequestOK(row)'
      BY <2>3, <2>5, <3>1, <3>3 DEF RequestOK
    <3>5. QED
      BY <2>2, <3>4
  <2>6. QED
    BY <2>4, <2>5
<1>3. QED
  BY <1>1, <1>2 DEF AccessInv

\* The administrators' steps: an edit, the transfers and a deletion.
LEMMA AdminSteps ==
    ASSUME AccessInv,
           \/ \E p \in People, role \in Roles, team \in Teams \cup {None},
                 unit \in Units \cup {None} : UpdateUser(p, role, team, unit)
           \/ \E p, q \in People : TransferLeadAnalyst(p, q) \/ DeleteUser(p, q)
           \/ \E p \in People, t \in Teams : TransferSalesExec(p, t)
    PROVE  AccessInv'
<1>1. PeopleOK /\ user \in [People -> UserRows]
  BY DEF AccessInv, PeopleOK
<1>2. ASSUME NEW p \in People, NEW role \in Roles, NEW team \in Teams \cup {None},
             NEW unit \in Units \cup {None}, UpdateUser(p, role, team, unit)
      PROVE  AccessInv'
  <2>1. user' = [user EXCEPT ![p] = [@ EXCEPT !.role = role, !.team = team, !.unit = unit]]
        /\ UNCHANGED lead /\ Change({p})
    BY <1>2 DEF UpdateUser
  <2>2. [user[p] EXCEPT !.role = role, !.team = team, !.unit = unit] \in UserRows
    <3>1. user[p] \in [role : Roles \cup {"gone"}, team : Teams \cup {None},
                       unit : Units \cup {None}, manager : People \cup {None}]
      BY <1>1 DEF UserRows, Accounts
    <3>2. role \in Roles \cup {"gone"}
      OBVIOUS
    <3>3. [user[p] EXCEPT !.role = role] \in UserRows
      BY <3>1, <3>2 DEF UserRows, Accounts
    <3>4. [[user[p] EXCEPT !.role = role] EXCEPT !.team = team] \in UserRows
      BY <3>3 DEF UserRows, Accounts
    <3>5. [[[user[p] EXCEPT !.role = role] EXCEPT !.team = team] EXCEPT !.unit = unit]
             \in UserRows
      BY <3>4 DEF UserRows, Accounts
    <3>6. QED
      BY <3>5
  <2>3. user' \in [People -> UserRows] /\ \A q \in People \ {p} : user'[q] = user[q]
    BY <1>1, <2>1, <2>2
  <2>4. PeopleOK'
    BY <1>1, <2>1, <2>3 DEF PeopleOK
  <2>5. QED
    BY <2>1, <2>3, <2>4, ChangeKeeps
<1>3. ASSUME NEW p \in People, NEW to \in People, TransferLeadAnalyst(p, to)
      PROVE  AccessInv'
  <2>1. user' = [user EXCEPT ![p] = [@ EXCEPT !.unit = user[to].unit, !.manager = to]]
        /\ UNCHANGED lead /\ Change({p})
    BY <1>3 DEF TransferLeadAnalyst
  <2>2. [user[p] EXCEPT !.unit = user[to].unit, !.manager = to] \in UserRows
    BY <1>1 DEF UserRows, Accounts
  <2>3. user' \in [People -> UserRows] /\ \A q \in People \ {p} : user'[q] = user[q]
    BY <1>1, <2>1, <2>2
  <2>4. PeopleOK'
    BY <1>1, <2>1, <2>3 DEF PeopleOK
  <2>5. QED
    BY <2>1, <2>3, <2>4, ChangeKeeps
<1>4. ASSUME NEW p \in People, NEW t \in Teams, TransferSalesExec(p, t)
      PROVE  AccessInv'
  <2>1. user' = [user EXCEPT ![p] = [@ EXCEPT !.team = t]] /\ Change({p})
        /\ lead' \in {lead, [lead EXCEPT !.team = t]}
    BY <1>4 DEF TransferSalesExec
  <2>2. [user[p] EXCEPT !.team = t] \in UserRows
    BY <1>1 DEF UserRows, Accounts
  <2>3. user' \in [People -> UserRows] /\ \A q \in People \ {p} : user'[q] = user[q]
    BY <1>1, <2>1, <2>2
  <2>4. PeopleOK'
    BY <1>1, <2>1, <2>3 DEF PeopleOK
  <2>5. QED
    BY <2>1, <2>3, <2>4, ChangeKeeps
<1>5. ASSUME NEW p \in People, NEW by \in People, DeleteUser(p, by)
      PROVE  AccessInv'
  <2>1. user' = [q \in People |->
           IF q = p THEN Gone
           ELSE IF user[q].manager = p THEN [user[q] EXCEPT !.manager = None] ELSE user[q]]
        /\ Change({p})
    BY <1>5 DEF DeleteUser
  <2>2. \A row \in UserRows : LET new == [row EXCEPT !.manager = None] IN
           new \in UserRows /\ new.role = row.role /\ new.team = row.team
           /\ new.unit = row.unit
    BY DEF UserRows, Accounts
  <2>3. user' \in [People -> UserRows]
        /\ \A q \in People \ {p} : /\ user'[q].role = user[q].role
                                   /\ user'[q].team = user[q].team
                                   /\ user'[q].unit = user[q].unit
    BY <1>1, <2>1, <2>2, GoneRow
  <2>4. lead' = [lead EXCEPT !.creator = lead'.creator, !.team = lead'.team,
                             !.exec = lead'.exec]
        /\ lead'.creator \in People \cup {None} /\ lead'.team \in Teams \cup {None}
        /\ lead'.exec \in People \cup {None}
    BY <1>1, <1>5 DEF DeleteUser, PeopleOK
  <2>5. lead' \in [exists : BOOLEAN, creator : People \cup {None},
                   team : Teams \cup {None}, exec : People \cup {None}]
    BY <1>1, <2>4 DEF PeopleOK
  <2>6. PeopleOK'
    BY <2>3, <2>5 DEF PeopleOK
  <2>7. QED
    BY <2>1, <2>3, <2>6, ChangeKeeps
<1>6. QED
  BY <1>2, <1>3, <1>4, <1>5

\* Every step of the requests and the administrators.
LEMMA AccessNext == ASSUME AccessInv, [QNext]_qvars PROVE AccessInv'
<1>1. CASE UNCHANGED <<user, lead, request, trespass>>
  BY <1>1, AccessFrame DEF AccessInv, NobodyTrespasses
<1>2. ASSUME NEW r \in Requests, Insert(r) PROVE AccessInv'
  BY <1>1, <1>2 DEF Insert
<1>3. ASSUME NEW p \in Readers, NEW ids, MarkRead(p, ids),
             UNCHANGED <<user, lead, request, changes, trespass>>
      PROVE  AccessInv'
  BY <1>1, <1>3
<1>4. QED
  BY <1>1, <1>2, <1>3, QuietSteps, PatchStep, BulkSteps, AdminSteps DEF QNext, qvars

\* A lead is changed only by somebody entitled to it at that moment, unless
\* the request was overtaken after its check (requireLeadAccess), or its own
\* actor's row changed after it was loaded (AssignLeads, DeleteLeads).
THEOREM NoTrespass == QSpec => []NobodyTrespasses
<1>1. AccessInv => NobodyTrespasses
  BY DEF AccessInv
<1>2. QED
  BY <1>1, AccessStarts, AccessNext, PTL DEF QSpec

-----------------------------------------------------------------------------
(* LeadRequests: who is told                                               *)

\* Nothing to tell, and nobody at it.
LEMMA NoticesStart == QInit => NoticeInv
<1> SUFFICES ASSUME QInit PROVE NoticeInv
  OBVIOUS
<1>1. /\ inbox = [p \in People |-> <<>>] /\ notices = 0 /\ due = {} /\ lost = {}
      /\ notifying = [r \in Requests |-> NotNotifying]
  BY DEF QInit, NInit
<1>2. NotNotifying \in Jobs /\ NotNotifying.left = <<>> /\ ToSet(<<>>) = {} /\ IsInjective(<<>>)
  BY DEF NotNotifying, Jobs, ToSet, IsInjective
<1>3. JobsOK
  BY <1>1, <1>2 DEF JobsOK, Busy
<1>4. <<>> \in Seq(NoticeRows)
  OBVIOUS
<1>5. QED
  BY <1>1, <1>2, <1>3, <1>4 DEF NoticeInv, ToldExactlyOnce

\* Every step of the requests and the administrators.
LEMMA NoticesNext == ASSUME AccessInv, NoticeInv, [QNext]_qvars PROVE NoticeInv'
<1>1. request = [q \in Requests |-> request[q]]
      /\ \A q \in Requests : request[q].extra \in Seq(People)
  BY DEF AccessInv, RequestOK, RequestRows
<1>2. ASSUME NEW r \in Requests, UNCHANGED nvars, request[r].pc # "notifying",
             \A q \in Requests : q # r => request'[q].pc = request[q].pc
      PROVE  NoticeInv'
  BY <1>2, NoticesStay
<1>3. ASSUME NEW r \in Requests,
             \/ \E p \in People, kind \in Patches \cup Bulk : Authenticate(r, p, kind)
             \/ requireLeadAccess(r) \/ Patch(r) \/ Refuse(r) \/ NotifyFails(r)
      PROVE  NoticeInv'
  <2>1. UNCHANGED nvars /\ request[r].pc # "notifying"
    BY <1>3 DEF Authenticate, requireLeadAccess, Patch, Refuse, NotifyFails
  <2>2. \E row : request' = [request EXCEPT ![r] = row]
    BY <1>3 DEF Authenticate, requireLeadAccess, Patch, Refuse, NotifyFails
  <2>3. \A q \in Requests : q # r => request'[q] = request[q]
    BY <1>1, <2>2
  <2>4. QED
    BY <1>2, <2>1, <2>3
<1>4. ASSUME NEW r \in Requests, NEW extra, Written(r, extra), request[r].pc # "notifying"
      PROVE  NoticeInv'
  <2>1. \A q \in Requests : q # r => request'[q].pc = request[q].pc
    <3>1. \A q \in Requests : [request[q] EXCEPT !.stale = TRUE].pc = request[q].pc
      BY <1>1 DEF AccessInv, RequestOK, RequestRows
    <3>2. QED
      BY <1>4, <3>1 DEF Written, Overtaken
  <2>2. QED
    BY <1>2, <1>4, <2>1 DEF Written
<1>5. ASSUME NEW ps, Change(ps) PROVE NoticeInv'
  <2>1. \A q \in Requests : [request[q] EXCEPT !.stale = TRUE].pc = request[q].pc
    BY <1>1 DEF AccessInv, RequestOK, RequestRows
  <2>2. \A q \in Requests : request'[q].pc = request[q].pc
    BY <1>5, <2>1 DEF Change
  <2>3. QED
    BY <1>5, <2>2, NoticesStay DEF Change
<1>6. ASSUME NEW r \in Requests, Notify(r) \/ Insert(r) \/ Answer(r) PROVE NoticeInv'
  BY <1>1, <1>6, NotifyTells, CreateManyTells, CreateManyFailsTells, AnswerTells DEF Insert
<1>7. ASSUME NEW r \in Requests, DeleteLeads(r) \/ \E to \in People : AssignLeads(r, to)
      PROVE  NoticeInv'
  BY <1>4, <1>7 DEF DeleteLeads, AssignLeads
<1>8. ASSUME NEW p \in Readers, NEW ids, MarkRead(p, ids), UNCHANGED request PROVE NoticeInv'
  BY <1>8, MarkReadTells, CastAssumption
<1>9. CASE UNCHANGED qvars
  BY <1>9, NoticesStay DEF qvars
<1>10. CASE \/ \E p \in People, role \in Roles, team \in Teams \cup {None},
                  unit \in Units \cup {None} : UpdateUser(p, role, team, unit)
            \/ \E p, q \in People : TransferLeadAnalyst(p, q) \/ DeleteUser(p, q)
            \/ \E p \in People, t \in Teams : TransferSalesExec(p, t)
  BY <1>5, <1>10 DEF UpdateUser, TransferLeadAnalyst, DeleteUser, TransferSalesExec
<1>11. QED
  BY <1>3, <1>6, <1>7, <1>8, <1>9, <1>10 DEF QNext

\* Every member of the staff and the assignee, but never the actor, gets one
\* row for a mutation, for any number of people and any size of a batch, and
\* whichever batches fail (NotifyStaff, mergeRecipientIDs, CreateMany).
THEOREM ToldOnce == QSpec => []ToldExactlyOnce
<1>1. NoticeInv => ToldExactlyOnce
  BY DEF NoticeInv
<1>2. QED
  BY <1>1, AccessStarts, AccessNext, NoticesStart, NoticesNext, PTL DEF QSpec

=============================================================================
