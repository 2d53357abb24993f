---------------------------- MODULE LoginLimiter ----------------------------
(***************************************************************************)
(* The limiter of failed logins: one bucket per address and e-mail, which  *)
(* counts the failures of a window that begins with the first of them.     *)
(* handleLogin tries the password first and asks the limiter only when it  *)
(* failed: a guess past the limit is still tried, and a right one signs in.*)
(***************************************************************************)
EXTENDS Integers, Sequences, FiniteSets

CONSTANTS
    LoginKeys,  \* address|e-mail
    Limit,      \* failures answered in one window
    Window,     \* its length
    PruneAt,    \* buckets from which on the expired ones are removed
    MaxTime     \* bound: the last instant of the clock

ASSUME LimiterAssumption ==
    /\ Limit \in Nat \ {0} /\ Window \in Nat \ {0}
    /\ PruneAt \in Nat /\ MaxTime \in Nat

VARIABLES
    now,
    buckets,    \* the limiter's map: count and resetAt, or NoBucket
    answered,   \* history: when the failures of each key were answered and not
                \* refused, oldest first
    refused     \* history: keys refused at this instant and not signed in since

lvars == <<now, buckets, answered, refused>>

NoBucket == [count |-> 0, resetAt |-> -1]

LInit ==
    /\ now = 0
    /\ buckets = [k \in LoginKeys |-> NoBucket]
    /\ answered = [k \in LoginKeys |-> <<>>]
    /\ refused = {}

-----------------------------------------------------------------------------

Held == {k \in LoginKeys : buckets[k] # NoBucket}
Expired(k) == now > buckets[k].resetAt

pruneLocked ==
    [k \in LoginKeys |->
        IF Cardinality(Held) >= PruneAt /\ Expired(k) THEN NoBucket ELSE buckets[k]]

\* Mutant of allow: a refused attempt is counted too.
AllowCountingRefusals(k) ==
    LET kept == pruneLocked IN
    \/ /\ kept[k] = NoBucket \/ Expired(k)
       /\ buckets' = [kept EXCEPT ![k] = [count |-> 1, resetAt |-> now + Window]]
       /\ answered' = [answered EXCEPT ![k] = Append(@, now)]
       /\ UNCHANGED <<now, refused>>
    \/ /\ kept[k] # NoBucket /\ ~Expired(k)
       /\ buckets' = [kept EXCEPT ![k].count = @ + 1, ![k].resetAt = now + Window]
       /\ IF kept[k].count >= Limit
          THEN refused' = refused \cup {k} /\ UNCHANGED answered
          ELSE answered' = [answered EXCEPT ![k] = Append(@, now)] /\ UNCHANGED refused
       /\ UNCHANGED now

\* allow(k), called when a login failed.
allow(k) ==
    LET kept == pruneLocked IN
    \/ /\ kept[k] = NoBucket \/ Expired(k)
       /\ buckets' = [kept EXCEPT ![k] = [count |-> 1, resetAt |-> now + Window]]
       /\ answered' = [answered EXCEPT ![k] = Append(@, now)]
       /\ UNCHANGED <<now, refused>>
    \/ /\ kept[k] # NoBucket /\ ~Expired(k) /\ kept[k].count < Limit
       /\ buckets' = [kept EXCEPT ![k].count = @ + 1]
       /\ answered' = [answered EXCEPT ![k] = Append(@, now)]
       /\ UNCHANGED <<now, refused>>
    \/ /\ kept[k] # NoBucket /\ ~Expired(k) /\ kept[k].count >= Limit
       /\ buckets' = kept
       /\ refused' = refused \cup {k}
       /\ UNCHANGED <<now, answered>>

\* Mutant of NotAsked: signing in clears the failures of the key.
ClearedBySuccess(k) ==
    /\ buckets' = [buckets EXCEPT ![k] = NoBucket]
    /\ refused' = refused \ {k}
    /\ UNCHANGED <<now, answered>>

\* A login whose password is right is answered without asking the limiter,
\* whatever the bucket holds, and leaves the bucket as it is.
NotAsked(k) ==
    /\ refused' = refused \ {k}
    /\ UNCHANGED <<now, buckets, answered>>

Tick ==
    /\ now < MaxTime
    /\ now' = now + 1
    /\ refused' = {}
    /\ UNCHANGED <<buckets, answered>>

\* A new process starts with an empty map.
newLoginLimiter ==
    /\ buckets' = [k \in LoginKeys |-> NoBucket]
    /\ answered' = [k \in LoginKeys |-> <<>>]
    /\ refused' = {}
    /\ UNCHANGED now

LNext == \/ \E k \in LoginKeys : allow(k) \/ NotAsked(k)
         \/ Tick \/ newLoginLimiter

LSpec == LInit /\ [][LNext]_lvars

-----------------------------------------------------------------------------
(* Properties                                                              *)

\* However the attempts fall on the edge of two windows, whatever is pruned
\* and whoever signs in between, no stretch of time as long as the window
\* sees two windows' worth of failures that were told apart from a refusal:
\* twice the limit, less one, is the most it sees.  That bounds what a client
\* is told of its failures, not its guesses: past the limit each guess is
\* still tried, and the one that is right signs in.
FailuresAnsweredAreBounded ==
    \A k \in LoginKeys : \A i, j \in DOMAIN answered[k] :
        j - i >= 2 * Limit - 1 => answered[k][j] > answered[k][i] + Window

\* Nobody is refused who has not failed, within the window that ends now, as
\* often as the limit says.
RefusedForARecentReason ==
    \A k \in refused :
        /\ Len(answered[k]) >= Limit
        /\ \A i \in Len(answered[k]) - Limit + 1 .. Len(answered[k]) :
              answered[k][i] >= now - Window

=============================================================================
