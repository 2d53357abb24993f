---------------------------- MODULE RealtimeHub -----------------------------
(***************************************************************************)
(* The hub of event streams: who is registered, the buffered channel of    *)
(* each stream, and what the clients come to believe about who is online.  *)
(* The hub's mutex covers its map only.  A handler changes the map, lets   *)
(* go of the lock and then announces the change, so announcements can      *)
(* cross; DropUserExcept changes the map and announces nothing.  A login   *)
(* tells the streams it is to drop why they end; a logout does not.        *)
(***************************************************************************)
EXTENDS Integers, Sequences

CONSTANTS
    Users,
    Streams,    \* connections that can be open together
    Logins,     \* requests that start or end a session and drop its streams
    Buffer,     \* capacity of a stream's channel
    MaxEmits    \* bound: lead and user events broadcast

ASSUME HubAssumption == Buffer \in Nat \ {0} /\ MaxEmits \in Nat

VARIABLES
    clients,    \* RealtimeHub.clients: the registered streams
    stream,     \* the handler of each stream
    ch,         \* its channel: what is buffered, and whether it is closed
    view,       \* what its client was told: users online, session replaced
    login,      \* the requests that drop a user's streams
    emits,
    astray,     \* history: users dropped unannounced, or whose announcements cross
    missed,     \* history: users whose last announcement a stream did not get
    unwarned    \* history: streams the session-replaced event could not reach,
                \* and those a logout drops

vars == <<clients, stream, ch, view, login, emits, astray, missed, unwarned>>

Nobody == "nobody"

NoStream == [pc |-> "closed", user |-> Nobody, announce |-> FALSE, snapshot |-> {}]
NewChannel == [buffer |-> <<>>, closed |-> FALSE]
NoView == [online |-> {}, replaced |-> FALSE]
NoLogin == [pc |-> "idle", user |-> Nobody, ids |-> {}, closing |-> {}]

Event(type, u) == [type |-> type, user |-> u, users |-> {}]
Sync(us) == [type |-> "sync", user |-> Nobody, users |-> us]

UserOf(c) == stream[c].user

Init ==
    /\ clients = {}
    /\ stream = [c \in Streams |-> NoStream]
    /\ ch = [c \in Streams |-> NewChannel]
    /\ view = [c \in Streams |-> NoView]
    /\ login = [r \in Logins |-> NoLogin]
    /\ emits = 0
    /\ astray = {} /\ unwarned = {}
    /\ missed = [c \in Streams |-> {}]

-----------------------------------------------------------------------------
(* The hub's methods                                                       *)

IsOnline(u) == \E c \in clients : UserOf(c) = u
Snapshot == {UserOf(c) : c \in clients}
\* Mutant of LastFor: other streams of the user are not looked for.
AlwaysLast(c) == TRUE

LastFor(c) == \A d \in clients \ {c} : UserOf(d) # UserOf(c)

\* A non-blocking send: a full buffer drops the event.
Offer(channel, e) ==
    IF Len(channel.buffer) < Buffer
    THEN [channel EXCEPT !.buffer = Append(@, e)]
    ELSE channel
Fits(c) == Len(ch[c].buffer) < Buffer

Sent(to, e) == [c \in Streams |-> IF c \in to THEN Offer(ch[c], e) ELSE ch[c]]

\* Streams whose handler has yet to announce u.
Announcing(u) == {c \in Streams : UserOf(c) = u /\ stream[c].announce}

\* Broadcast of a presence event about u by c's handler: it reaches the registered streams
\* whose buffer has room, and a stream that is about to send its snapshot
\* will overwrite it.
Announce(c, type, u) ==
    /\ ch' = Sent(clients, Event(type, u))
    /\ missed' = [d \in Streams |->
          IF d \notin clients THEN missed[d]
          ELSE IF Fits(d) /\ stream[d].pc # "sync" THEN missed[d] \ {u}
          ELSE missed[d] \cup {u}]
    /\ astray' = IF IsOnline(u) = (type = "online") /\ Announcing(u) \subseteq {c}
                 THEN astray \ {u} ELSE astray

-----------------------------------------------------------------------------
(* handleEvents                                                            *)

\* hub.add, after the stream's request was admitted.  Its id is fresh: no
\* drop still holds it.
Add(c, u) ==
    /\ stream[c].pc = "closed"
    /\ \A r \in Logins : c \notin login[r].ids \cup login[r].closing
    /\ stream' = [stream EXCEPT ![c] =
          [NoStream EXCEPT !.pc = IF IsOnline(u) THEN "ready" ELSE "added",
                           !.user = u, !.announce = ~IsOnline(u)]]
    /\ clients' = clients \cup {c}
    /\ ch' = [ch EXCEPT ![c] = NewChannel]
    /\ view' = [view EXCEPT ![c] = NoView]
    /\ missed' = [missed EXCEPT ![c] = {}]
    /\ unwarned' = IF \E r \in Logins : login[r].pc = "told" /\ login[r].user = u
                   THEN unwarned \cup {c} ELSE unwarned
    /\ astray' = IF Announcing(u) = {} THEN astray ELSE astray \cup {u}
    /\ UNCHANGED <<login, emits>>

\* The first stream of its user announces it, to itself as well.
AnnounceOnline(c) ==
    /\ stream[c].pc = "added"
    /\ stream' = [stream EXCEPT ![c].pc = "ready", ![c].announce = FALSE]
    /\ Announce(c, "online", UserOf(c))
    /\ UNCHANGED <<clients, view, login, emits, unwarned>>

\* The argument of sendTo: the users now online, read under the lock.
TakeSnapshot(c) ==
    /\ stream[c].pc = "ready"
    /\ stream' = [stream EXCEPT ![c].pc = "sync", ![c].snapshot = Snapshot]
    /\ missed' = [missed EXCEPT ![c] = {}]
    /\ UNCHANGED <<clients, ch, view, login, emits, astray, unwarned>>

\* The handler stops reading: what is buffered and believed is of no use.
StopReading(c) ==
    /\ ch' = [ch EXCEPT ![c].buffer = <<>>]
    /\ view' = [view EXCEPT ![c] = NoView]
    /\ missed' = [missed EXCEPT ![c] = {}]
    /\ unwarned' = unwarned \ {c}

\* sendTo sends without the lock: into the buffer, nowhere when it is full.
SendSync(c) ==
    /\ stream[c].pc = "sync" /\ ~ch[c].closed
    /\ ch' = Sent({c}, Sync(stream[c].snapshot))
    /\ missed' = IF Fits(c) THEN missed ELSE [missed EXCEPT ![c] = Users]
    /\ stream' = [stream EXCEPT ![c].pc = "live", ![c].snapshot = {}]
    /\ UNCHANGED <<clients, view, login, emits, astray, unwarned>>

\* A drop has closed the channel: the send panics.  The middleware recovers,
\* and the deferred remove finds the stream gone.
SendSyncPanics(c) ==
    /\ stream[c].pc = "sync" /\ ch[c].closed
    /\ stream' = [stream EXCEPT ![c] = NoStream]
    /\ StopReading(c)
    /\ UNCHANGED <<clients, login, emits, astray>>

\* One event is taken from the channel and written to the client.
Deliver(c) ==
    /\ stream[c].pc = "live" /\ ch[c].buffer # <<>>
    /\ ch' = [ch EXCEPT ![c].buffer = Tail(@)]
    /\ LET e == Head(ch[c].buffer) IN
       view' = [view EXCEPT
          ![c].replaced = @ \/ e.type = "replaced",
          ![c].online = CASE e.type = "sync" -> e.users
                          [] e.type = "online" -> @ \cup {e.user}
                          [] e.type = "offline" -> @ \ {e.user}
                          [] OTHER -> @]
    /\ UNCHANGED <<clients, stream, login, emits, astray, missed, unwarned>>

\* Mutant of RemoveStream: the channel is closed while the stream is registered.
RemoveAfterClose(c) ==
    /\ stream[c].pc = "live"
    /\ stream' = [stream EXCEPT ![c].pc = "close"]
    /\ ch' = [ch EXCEPT ![c].closed = TRUE]
    /\ UNCHANGED <<clients, view, login, emits, astray, missed, unwarned>>

\* The client went away, a write failed, or the channel is closed and empty:
\* the deferred remove takes the stream out of the map, unless a drop has.
RemoveStream(c) ==
    /\ stream[c].pc = "live"
    /\ stream' = [stream EXCEPT ![c] =
          IF c \in clients THEN [@ EXCEPT !.pc = "close", !.announce = LastFor(c)]
          ELSE NoStream]
    /\ clients' = clients \ {c}
    /\ StopReading(c)
    /\ UNCHANGED <<login, emits, astray>>

\* close(c.ch), after the lock was released.
CloseChannel(c) ==
    /\ stream[c].pc = "close"
    /\ ch' = [ch EXCEPT ![c].closed = TRUE]
    /\ stream' = [stream EXCEPT ![c] =
          IF stream[c].announce THEN [@ EXCEPT !.pc = "removed"] ELSE NoStream]
    /\ UNCHANGED <<clients, view, login, emits, astray, missed, unwarned>>

\* The last stream of its user announces that it is gone.
AnnounceOffline(c) ==
    /\ stream[c].pc = "removed"
    /\ Announce(c, "offline", UserOf(c))
    /\ stream' = [stream EXCEPT ![c] = NoStream]
    /\ UNCHANGED <<clients, view, login, emits, unwarned>>

-----------------------------------------------------------------------------
(* issueLiveSession, handleLogout, and the events of other mutations       *)

\* Mutant of BroadcastToUser: the streams are dropped before they are told.
CollectUntold(r, u) ==
    /\ login[r].pc = "idle"
    /\ login' = [login EXCEPT ![r] = [NoLogin EXCEPT !.pc = "drop", !.user = u,
                                        !.ids = {c \in clients : UserOf(c) = u}]]
    /\ UNCHANGED <<clients, stream, ch, view, emits, astray, missed, unwarned>>

\* BroadcastToUser of auth.session_replaced.
BroadcastToUser(r, u) ==
    LET own == {c \in clients : UserOf(c) = u} IN
    /\ login[r].pc = "idle"
    /\ ch' = Sent(own, Event("replaced", u))
    /\ unwarned' = unwarned \cup {c \in own : ~Fits(c)}
    /\ login' = [login EXCEPT ![r] = [NoLogin EXCEPT !.pc = "told", !.user = u]]
    /\ UNCHANGED <<clients, stream, view, emits, astray, missed>>

\* handleLogout, of the session it read as live, whatever has replaced it
\* since: DropUser, with nothing told.
DropUser(r, u) ==
    /\ login[r].pc = "idle"
    /\ login' = [login EXCEPT ![r] = [NoLogin EXCEPT !.pc = "logout", !.user = u]]
    /\ UNCHANGED <<clients, stream, ch, view, emits, astray, missed, unwarned>>

\* DropUserExcept lists the user's streams under the read lock.  The session
\* a login spares has no stream yet: its browser still waits for the answer.
DropUserExcept(r) ==
    LET own == {c \in clients : UserOf(c) = login[r].user} IN
    /\ login[r].pc \in {"told", "logout"}
    /\ login' = [login EXCEPT ![r].pc = "drop", ![r].ids = own]
    /\ unwarned' = IF login[r].pc = "logout" THEN unwarned \cup own ELSE unwarned
    /\ UNCHANGED <<clients, stream, ch, view, emits, astray, missed>>

\* remove takes one of them out of the map; nothing is announced.
DropRemove(r, c) ==
    /\ login[r].pc = "drop" /\ login[r].closing = {} /\ c \in login[r].ids
    /\ clients' = clients \ {c}
    /\ login' = [login EXCEPT ![r].ids = @ \ {c},
                              ![r].closing = {c} \cap clients]
    /\ astray' = IF c \in clients /\ LastFor(c) THEN astray \cup {UserOf(c)} ELSE astray
    /\ UNCHANGED <<stream, ch, view, emits, missed, unwarned>>

DropClose(r, c) ==
    /\ c \in login[r].closing
    /\ ch' = [ch EXCEPT ![c].closed = TRUE]
    /\ login' = [login EXCEPT ![r].closing = {}]
    /\ UNCHANGED <<clients, stream, view, emits, astray, missed, unwarned>>

DropDone(r) ==
    /\ login[r].pc = "drop" /\ login[r].ids = {} /\ login[r].closing = {}
    /\ login' = [login EXCEPT ![r] = NoLogin]
    /\ UNCHANGED <<clients, stream, ch, view, emits, astray, missed, unwarned>>

\* emitLead and emitUser: an event that says nothing about presence.
Emit ==
    /\ emits < MaxEmits
    /\ emits' = emits + 1
    /\ ch' = Sent(clients, Event("changed", Nobody))
    /\ UNCHANGED <<clients, stream, view, login, astray, missed, unwarned>>

Next ==
    \/ \E c \in Streams : \/ \E u \in Users : Add(c, u)
                          \/ AnnounceOnline(c) \/ TakeSnapshot(c) \/ SendSync(c)
                          \/ SendSyncPanics(c) \/ Deliver(c) \/ RemoveStream(c)
                          \/ CloseChannel(c) \/ AnnounceOffline(c)
    \/ \E r \in Logins : \/ \E u \in Users : BroadcastToUser(r, u) \/ DropUser(r, u)
                         \/ DropUserExcept(r) \/ DropDone(r)
                         \/ \E c \in Streams : DropRemove(r, c) \/ DropClose(r, c)
    \/ Emit

Spec == Init /\ [][Next]_vars

-----------------------------------------------------------------------------
(* Properties                                                              *)

Events ==
    [type : {"online", "offline", "replaced"}, user : Users, users : {{}}]
        \cup [type : {"changed"}, user : {Nobody}, users : {{}}]
        \cup [type : {"sync"}, user : {Nobody}, users : SUBSET Users]

\* The hub, its handlers and their channels hold what the code can put there.
TypeOK ==
    /\ clients \subseteq Streams
    /\ stream \in [Streams ->
          [pc : {"closed", "added", "ready", "sync", "live", "close", "removed"},
           user : Users \cup {Nobody}, announce : BOOLEAN, snapshot : SUBSET Users]]
    /\ ch \in [Streams -> [buffer : Seq(Events), closed : BOOLEAN]]
    /\ \A c \in Streams : Len(ch[c].buffer) <= Buffer
    /\ view \in [Streams -> [online : SUBSET Users, replaced : BOOLEAN]]
    /\ login \in [Logins -> [pc : {"idle", "told", "logout", "drop"}, user : Users \cup {Nobody},
                             ids : SUBSET Streams, closing : SUBSET Streams]]
    /\ emits \in 0 .. MaxEmits
    /\ astray \subseteq Users /\ unwarned \subseteq Streams
    /\ missed \in [Streams -> SUBSET Users]

\* Broadcast sends under the read lock and does not release it on a panic:
\* it must never meet a closed channel, whichever of the two removals comes
\* first, and no channel may be closed a second time.
BroadcastNeverPanics ==
    /\ \A c \in clients : ~ch[c].closed
    /\ \A c \in Streams :
          stream[c].pc = "close" \/ (\E r \in Logins : c \in login[r].closing)
             => ~ch[c].closed

\* A client that has read all its events knows who is online.  Exempt are
\* users whose announcements crossed or whose last stream was dropped
\* (astray), and users whose announcement this stream lost to a full buffer
\* or to its own later snapshot (missed); nothing else goes wrong.
PresenceIsKnown ==
    \A c \in clients, u \in Users :
        stream[c].pc = "live" /\ ch[c].buffer = <<>>
          /\ Announcing(u) = {} /\ u \notin astray \cup missed[c]
        => (u \in view[c].online <=> IsOnline(u))

\* A stream that the server ends has told its client that its session was
\* replaced, the buffered event being read before the closed channel ends
\* it; unless the buffer was full, the stream joined after the event was
\* sent, or a logout's drop listed it, which tells nobody.
KickedClientsWereTold ==
    \A c \in Streams :
        stream[c].pc = "live" /\ ch[c].closed /\ ch[c].buffer = <<>>
        => view[c].replaced \/ c \in unwarned

\* The streams are of earlier sessions: the one a login has minted has none
\* before its browser is answered.
Entry(c) == [id |-> c, user |-> UserOf(c), session |-> "earlier"]

\* The arguments of the DropUserExcept a request is about to make.
Call(r) ==
    IF login[r].pc = "told" THEN {[user |-> login[r].user, keep |-> "minted"]}
    ELSE IF login[r].pc = "logout" THEN {[user |-> login[r].user, keep |-> "none"]}
    ELSE {}

Registry == INSTANCE StreamRegistry WITH
                Drops <- Logins,
                Sessions <- {"earlier", "minted"},
                NoSession <- "none",
                registry <- {Entry(c) : c \in clients},
                call <- [r \in Logins |-> Call(r)],
                marked <- [r \in Logins |-> login[r].ids]

\* The map, with the two steps of a removal, the handlers' own removals and
\* their panics, is used as its abstract form allows: a drop that was called
\* for an account looks, closes all the streams of that account it finds,
\* and none of another ("Other accounts are never touched") or of one that
\* came later.
ImplementsRegistry == Registry!Spec

=============================================================================
