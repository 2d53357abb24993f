--------------------------- MODULE Notifications ----------------------------
(***************************************************************************)
(* The notification store.  After a mutation its handler reads who is      *)
(* staff and inserts one row for each, in batches; a batch that fails is   *)
(* logged and forgotten.  The table is older than the migrations.          *)
(***************************************************************************)
EXTENDS Integers, Sequences, FiniteSets, SequencesExt

CONSTANTS
    People,     \* user ids, in the order of their creation
    Requests,
    BatchSize   \* rows of one INSERT

ASSUME NotificationAssumption ==
    /\ People \subseteq Nat \ {0} /\ IsFiniteSet(People)
    /\ BatchSize \in Nat \ {0}

VARIABLES
    inbox,      \* the rows of each recipient, the oldest first
    notifying,  \* what each request has yet to insert
    notices,    \* mutations notified so far
    due,        \* history: who should hear of which mutation
    lost        \* history: who is in a batch that failed

nvars == <<inbox, notifying, notices, due, lost>>

NotNotifying == [of |-> 0, left |-> <<>>]

NInit ==
    /\ inbox = [p \in People |-> <<>>]
    /\ notifying = [r \in Requests |-> NotNotifying]
    /\ notices = 0
    /\ due = {} /\ lost = {}

-----------------------------------------------------------------------------

\* A finite set of numbers in ascending order.
Ascending(S) ==
    [k \in 1 .. Cardinality(S) |-> CHOOSE x \in S : Cardinality({y \in S : y <= x}) = k]

\* What stands in s at the positions I, in their order.
Picked(s, I) == [k \in DOMAIN Ascending(I) |-> s[Ascending(I)[k]]]

\* The staff without the actor, in the order of ORDER BY "createdAt".
staffRecipientIDs(staff, actor) == Ascending(staff \ {actor})

\* Mutant of mergeRecipientIDs: an assignee who is staff is not noticed.
JoinRecipientIDs(base, extra) == base \o extra

\* Of each id the first occurrence is kept.
mergeRecipientIDs(base, extra) ==
    LET all == base \o extra IN
    Picked(all, {i \in DOMAIN all : \A j \in 1 .. i - 1 : all[j] # all[i]})

\* NotifyStaff: the recipients are fixed before the first row is inserted.
NotifyStaff(r, staff, actor, extra) ==
    LET all == mergeRecipientIDs(staffRecipientIDs(staff, actor), extra) IN
    /\ notices' = notices + 1
    /\ notifying' = [notifying EXCEPT ![r] =
          [of |-> notices + 1, left |-> Picked(all, {i \in DOMAIN all : all[i] # actor})]]
    /\ due' = due \cup {<<notices + 1, p>> : p \in (staff \cup ToSet(extra)) \ {actor}}
    /\ UNCHANGED <<inbox, lost>>

Batch(r) == SubSeq(notifying[r].left, 1, Min({BatchSize, Len(notifying[r].left)}))
Rest(r) == SubSeq(notifying[r].left, BatchSize + 1, Len(notifying[r].left))

\* Rows for p in the batch.
NewRows(r, p) ==
    [i \in 1 .. Cardinality({j \in DOMAIN Batch(r) : Batch(r)[j] = p}) |->
        [of |-> notifying[r].of, read |-> FALSE]]

\* CreateMany, one INSERT.
CreateMany(r) ==
    /\ notifying[r].left # <<>>
    /\ inbox' = [p \in People |-> inbox[p] \o NewRows(r, p)]
    /\ notifying' = [notifying EXCEPT ![r].left = Rest(r)]
    /\ UNCHANGED <<notices, due, lost>>

\* The INSERT fails: nobody of this batch is told, the next batch is tried.
CreateManyFails(r) ==
    /\ notifying[r].left # <<>>
    /\ lost' = lost \cup {<<notifying[r].of, p>> : p \in ToSet(Batch(r))}
    /\ notifying' = [notifying EXCEPT ![r].left = Rest(r)]
    /\ UNCHANGED <<inbox, notices, due>>

\* MarkRead: rows p named, or all of p's; of the ids only p's own count.
MarkRead(p, ids) ==
    /\ inbox' = [inbox EXCEPT ![p] = [i \in DOMAIN inbox[p] |->
          [inbox[p][i] EXCEPT !.read = @ \/ i \in ids]]]
    /\ UNCHANGED <<notifying, notices, due, lost>>

-----------------------------------------------------------------------------
(* Properties                                                              *)

Times(n, p) == Cardinality({i \in DOMAIN inbox[p] : inbox[p][i].of = n})
Pending(n, p) ==
    \E r \in Requests : notifying[r].of = n /\ p \in ToSet(notifying[r].left)

\* Every member of the staff and the assignee, but never the actor, hears of
\* a mutation exactly once, however the recipients fall into batches; unless
\* the very batch the recipient was in failed.
ToldExactlyOnce ==
    /\ \A n \in 1 .. notices, p \in People :
          Times(n, p) = IF <<n, p>> \in due \ lost /\ ~Pending(n, p) THEN 1 ELSE 0
    /\ lost \subseteq due

=============================================================================
