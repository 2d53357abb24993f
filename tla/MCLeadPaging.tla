---------------------------- MODULE MCLeadPaging ----------------------------
(***************************************************************************)
(* The paged lists and the lock of the exports for TLC.  They share        *)
(* no state, so a behaviour exercises one of them.                         *)
(***************************************************************************)
EXTENDS LeadPaging, BucketPaging, ExportFlights, TLC

CONSTANTS
    MaxMoved,   \* bound: leads that change under what is shown or kept
    MaxKept     \* bound: payloads kept

\* Go lower-cases a name of the second key otherwise than the database.
MCToLower == [k \in Keys |-> IF k = 2 THEN 3 ELSE k]

\* The dashboard's leads are told apart by nothing but their bucket.
GroupedSymmetry == Permutations(Grouped)

\* Bound: a sort of two columns has two leads, the others three.
TwoColumns == {"status", "stage", "value", "analyst"}
RowsInUse ==
    walk.sort \in TwoColumns =>
        lead[3] = [listed |-> FALSE, key |-> CHOOSE k \in Keys : TRUE, at |-> CHOOSE t \in Times : TRUE]

\* Bound: of the users the dashboard groups by, two may have the same name.
NamesInUse == \A b \in Buckets : label[b] \in {b} \cup (IF b = 2 THEN {1} ELSE {})

\* Bounds on changes: none under neither a walk nor a payload, since Init
\* allows what it leads to, and one of each row while a walk or a payload
\* remembers it; no lead changes its bucket where nothing is left to go stale.
Changed == moved \cup UNION {p.answer.since : p \in kept}
ListBounds ==
    /\ RowsInUse'
    /\ Cardinality(kept') <= MaxKept /\ Cardinality(Changed') <= MaxMoved
    /\ lead' # lead => walk.pc \in {"asked", "query", "paged"} \/ kept # {}
    /\ \A l \in Changed : lead'[l] = lead[l]
BucketBounds ==
    /\ Cardinality(bkept') <= MaxKept
    /\ group' # group =>
          \/ bwalk.pc \in {"asked", "query", "paged"} /\ ~stirred
          \/ \E p \in bkept : ~p.answer.stirred

VARIABLE side   \* what this behaviour exercises

\* The sides that are not exercised stay in one state.
ListsRest ==
    /\ lead = [l \in Leads |-> [listed |-> FALSE, key |-> Null, at |-> 1]]
    /\ walk = Idle("newest")
    /\ fetch = NoAnswer /\ kept = {}
    /\ seen = {} /\ twice = {} /\ moved = {} /\ astray = FALSE
BucketsRest ==
    /\ group = [l \in Grouped |-> None]
    /\ label = [b \in Buckets |-> b]
    /\ bwalk = BIdle("reasons")
    /\ bfetch = NoPage /\ bkept = {}
    /\ shown = {} /\ again = {} /\ stirred = FALSE /\ clamped = FALSE

PagingInit ==
    /\ FInit
    /\ \/ side = "lists" /\ Init /\ RowsInUse /\ BucketsRest
       \/ side = "buckets" /\ ListsRest /\ BInit /\ NamesInUse
       \/ side = "exports" /\ ListsRest /\ BucketsRest
PagingNext ==
    \/ side = "lists" /\ Next /\ ListBounds /\ UNCHANGED <<bvars, fvars, side>>
    \/ side = "buckets" /\ BNext /\ BucketBounds /\ UNCHANGED <<vars, fvars, side>>
    \/ side = "exports" /\ FNext /\ UNCHANGED <<vars, bvars, side>>
PagingSpec == PagingInit /\ [][PagingNext]_<<vars, bvars, fvars, side>>

=============================================================================
