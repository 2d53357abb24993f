-------------------------- MODULE SessionLifecycle --------------------------
(***************************************************************************)
(* What the session store promises, with no handlers, cookies or streams:  *)
(* an account has one slot for a live session.  A session id is minted     *)
(* once; it may enter its owner's slot at that moment and at no other, and *)
(* once out of the slot it never comes back.                               *)
(***************************************************************************)
EXTENDS Naturals, Sequences

CONSTANT Users

VARIABLES
    owner,   \* owner[j]: the account session id j was minted for
    live     \* live[u]: the session id in u's slot, 0 when it is empty

vars == <<owner, live>>

Init ==
    /\ owner = <<>>
    /\ live = [u \in Users |-> 0]

\* A fresh session takes its owner's slot, whatever was in it.
Start(u) ==
    /\ owner' = Append(owner, u)
    /\ live' = [live EXCEPT ![u] = Len(owner) + 1]

\* A fresh session is minted for an account that has no row any more.
StartNowhere(u) ==
    /\ owner' = Append(owner, u)
    /\ live' = live

\* The slot is emptied: a logout, a deactivation, a password change.
End(u) ==
    /\ live' = [live EXCEPT ![u] = 0]
    /\ owner' = owner

Next == \E u \in Users : Start(u) \/ StartNowhere(u) \/ End(u)

Spec == Init /\ [][Next]_vars

=============================================================================
