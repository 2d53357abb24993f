--------------------------- MODULE StreamRegistry ---------------------------
(***************************************************************************)
(* What the hub promises about its map of streams, with no locks, channels *)
(* or handlers: who is in it, and how a drop empties it.  A drop is called *)
(* for one account, with the session it is to spare, if any; its one look  *)
(* at the map marks every stream of that account but those of that session *)
(* and it then takes the marked streams out one by one.  It touches no     *)
(* other account, spares no other stream, never skips its look, is over    *)
(* only when no marked stream is left, and never meets a later stream.     *)
(***************************************************************************)
CONSTANTS
    Users,
    Streams,
    Drops,       \* calls of DropUserExcept that can run together
    Sessions,    \* session ids a stream or a call can carry
    NoSession    \* the empty keepSID

VARIABLES
    registry,    \* the entries of the map: stream id, account, session
    call,        \* call[d]: the arguments of drop d until it looks, as a set
    marked       \* marked[d]: the stream ids drop d has yet to take out

vars == <<registry, call, marked>>

Init ==
    /\ registry = {}
    /\ call = [d \in Drops |-> {}]
    /\ marked = [d \in Drops |-> {}]

\* A stream enters under a fresh id: neither the map nor a drop knows it.
Register(c, u, s) ==
    /\ \A e \in registry : e.id # c
    /\ \A d \in Drops : c \notin marked[d]
    /\ registry' = registry \cup {[id |-> c, user |-> u, session |-> s]}
    /\ UNCHANGED <<call, marked>>

\* Its own handler takes it out.
Leave(e) ==
    /\ registry' = registry \ {e}
    /\ UNCHANGED <<call, marked>>

\* A sign-in drops its account's streams but those of the session it has
\* just minted, which no stream carries yet ...
SignIn(d, u, s) ==
    /\ call[d] = {} /\ marked[d] = {}
    /\ \A e \in registry : e.session # s
    /\ call' = [call EXCEPT ![d] = {[user |-> u, keep |-> s]}]
    /\ UNCHANGED <<registry, marked>>

\* ... a sign-out drops all of them.
SignOut(d, u) ==
    /\ call[d] = {} /\ marked[d] = {}
    /\ call' = [call EXCEPT ![d] = {[user |-> u, keep |-> NoSession]}]
    /\ UNCHANGED <<registry, marked>>

\* The streams a call is to close, by their ids.
Targets(a) ==
    {e.id : e \in {x \in registry :
        x.user = a.user /\ ~(a.keep # NoSession /\ x.session = a.keep)}}

\* The one look at the map.
Mark(d, a) ==
    /\ a \in call[d]
    /\ marked' = [marked EXCEPT ![d] = Targets(a)]
    /\ call' = [call EXCEPT ![d] = {}]
    /\ UNCHANGED registry

\* One marked stream is taken out, or found gone.
TakeOut(d, c) ==
    /\ c \in marked[d]
    /\ registry' = {e \in registry : e.id # c}
    /\ marked' = [marked EXCEPT ![d] = @ \ {c}]
    /\ UNCHANGED call

\* A stream's handler changes the map, a caller a call; the drops do the rest.
Next ==
    \/ /\ registry' # registry
       /\ \/ \E c \in Streams, u \in Users, s \in Sessions : Register(c, u, s)
          \/ \E e \in registry : Leave(e)
    \/ \E d \in Drops :
          \/ /\ call'[d] # call[d]
             /\ \E u \in Users : SignOut(d, u) \/ \E s \in Sessions : SignIn(d, u, s)
          \/ \E a \in call[d] : Mark(d, a)
          \/ \E c \in marked[d] : TakeOut(d, c)

Spec == Init /\ [][Next]_vars

=============================================================================
