----------------------------- MODULE LeadPaging -----------------------------
(***************************************************************************)
(* Walking a list of leads page by page with an opaque cursor while the    *)
(* leads change.  GET /api/leads, the two transfer listings and the PDF    *)
(* export all read one page and one count in statements of their own.      *)
(* Two things last from one page to the next: the cursor, which the client *)
(* hands back, and the payloads of GET /api/leads that the response cache  *)
(* keeps under the query and the user, so that the pages of one walk may   *)
(* be of different ages.  A row is reduced to what the chosen sort reads:  *)
(* its key column and its time column.                                     *)
(***************************************************************************)
EXTENDS Integers, FiniteSets

CONSTANTS
    Leads,      \* row ids, in their order in the database
    Keys,       \* values of the sort's key column, in collation order
    Times,      \* values of createdAt or updatedAt
    Sorts,      \* the orders a walk may ask for
    Dash,       \* where the placeholder for "no name" collates among the keys
    ToLower,    \* where a name's key collates once Go has lower-cased it
    Limit       \* rows of a page

LeadSorts == {"name", "oldest", "recent", "status", "stage", "value", "analyst", "newest"}
TransferLists == {"salesExecTransfers", "leadTransfers"}

ASSUME PagingAssumption ==
    /\ Leads \subseteq Nat \ {0} /\ IsFiniteSet(Leads)
    /\ Keys \subseteq Nat \ {0} /\ Times \subseteq Nat
    /\ Sorts \subseteq LeadSorts \cup TransferLists \cup {"export"}
    /\ Dash \in Nat \ {0}
    /\ ToLower \in [Keys -> Nat \ {0}]
    /\ Limit \in Nat \ {0}

VARIABLES
    lead,       \* the rows: inside or outside the request's WHERE, and its columns
    walk,       \* the client's walk, and the cursor of the page it asks for
    fetch,      \* the answer under way, then the last one the client got
    kept,       \* payloads in the response cache, each under its cursor
    seen,       \* ids the client has been shown in this walk
    twice,      \* ids it has been shown more than once
    moved,      \* history: ids whose row changed since the walk began, or since
                \* the oldest payload it was served was read
    astray      \* history: a cursor does not name the key of the row it was cut at

vars == <<lead, walk, fetch, kept, seen, twice, moved, astray>>

Null == 0       \* no deal value, no creator; '' for a name, below every name
Unknown == -1

\* Columns that may hold NULL: estimatedDealValue, and the creator's name.
KeysOf(s) ==
    CASE s \in {"value", "analyst"} -> Keys \cup {Null}
      [] s \in {"name", "status", "stage"} -> Keys
      [] OTHER -> {Null}

\* By name, the time is not read.
TimesOf(s) == IF s = "name" THEN {0} ELSE Times

Rows(s) == [listed : BOOLEAN, key : KeysOf(s), at : TimesOf(s)]

Entry(l) == [id |-> l, key |-> lead[l].key, at |-> lead[l].at]
Listed == {l \in Leads : lead[l].listed}

NoCursor == [sort |-> "", id |-> 0, k |-> Null, t |-> 0]

\* A cursor kept from another sort mode: its position means nothing here.
StaleCursor == [sort |-> "other", id |-> 1, k |-> 1, t |-> 1]

Idle(s) == [pc |-> "idle", sort |-> s, cursor |-> NoCursor]

\* An answer: the count, the rows of the page, and the cursor if more follow.
\* History: the rows that changed since its first statement.
NoAnswer ==
    [total |-> Unknown, read |-> FALSE, page |-> {}, more |-> FALSE,
     next |-> NoCursor, astray |-> FALSE, since |-> {}]

Computed(a) == a.read /\ a.total # Unknown

Init ==
    /\ \E s \in Sorts : /\ lead \in [Leads -> Rows(s)]
                        /\ walk = Idle(s)
    /\ fetch = NoAnswer /\ kept = {}
    /\ seen = {} /\ twice = {} /\ moved = {} /\ astray = FALSE

-----------------------------------------------------------------------------
(* The order of a list, the cursor, and the rows behind a cursor           *)

\* (at, id) of e is below (at, id) of f, both descending.
Newer(e, f) == e.at > f.at \/ (e.at = f.at /\ e.id > f.id)

\* orderSQL of List, exportOrderSQL, and the ORDER BY of the transfer lists.
Before(s, e, f) ==
    CASE s = "name" -> e.key < f.key \/ (e.key = f.key /\ e.id < f.id)
      [] s = "oldest" -> e.at < f.at \/ (e.at = f.at /\ e.id < f.id)
      [] s \in {"status", "stage", "analyst"} ->
            e.key < f.key \/ (e.key = f.key /\ Newer(e, f))
      [] s = "value" -> \/ e.key # Null /\ (f.key = Null \/ e.key > f.key)
                        \/ e.key = f.key /\ Newer(e, f)
      [] OTHER -> Newer(e, f)

\* The cursor of the last row of a page.  The analyst's name is taken from
\* the row as displayed, where a lead without creator shows a dash; the name
\* of a lead is lower-cased by Go, the rows it is compared with by the
\* database.
CursorOf(s, e) ==
    [sort |-> s, id |-> e.id, t |-> e.at,
     k |-> CASE s = "analyst" /\ e.key = Null -> Dash
             [] s = "name" -> ToLower[e.key]
             [] OTHER -> e.key]

\* Mutant of AfterCursor: the row of the cursor itself is not left out.
FromCursor(s, c, e) ==
    CASE s = "name" -> e.key > c.k \/ (e.key = c.k /\ e.id >= c.id)
      [] s = "oldest" -> e.at > c.t \/ (e.at = c.t /\ e.id >= c.id)
      [] OTHER -> e.at < c.t \/ (e.at = c.t /\ e.id <= c.id)

\* cursorSQL of List, with the cursor in place of its parameters.
AfterCursor(s, c, e) ==
    CASE s = "name" -> e.key > c.k \/ (e.key = c.k /\ e.id > c.id)
      [] s = "oldest" -> e.at > c.t \/ (e.at = c.t /\ e.id > c.id)
      [] s \in {"status", "stage", "analyst"} ->
            e.key > c.k \/ (e.key = c.k /\ (e.at < c.t \/ (e.at = c.t /\ e.id < c.id)))
      [] s = "value" ->
            \/ /\ c.k # Null
               /\ \/ e.key = Null
                  \/ e.key < c.k
                  \/ e.key = c.k /\ (e.at < c.t \/ (e.at = c.t /\ e.id < c.id))
            \/ c.k = Null /\ e.key = Null /\ (e.at < c.t \/ (e.at = c.t /\ e.id < c.id))
      [] OTHER -> e.at < c.t \/ (e.at = c.t /\ e.id < c.id)

\* Mutant of UsedCursor: a cursor of another sort mode is used all the same.
AnyCursor(s, c) == c

\* decodeLeadCursor, and the cursor of a previous sort mode that is ignored.
UsedCursor(s, c) == IF c.sort = s THEN c ELSE NoCursor

Candidates(s, c) == {l \in Listed : c.id = 0 \/ AfterCursor(s, c, Entry(l))}

\* LIMIT limit + 1 in the list's order, of which the last row is cut off.
FirstPage(s, cand, page) ==
    /\ page \subseteq cand
    /\ \A l \in page, m \in cand \ page : Before(s, Entry(l), Entry(m))
    /\ \/ page = cand /\ Cardinality(page) <= Limit
       \/ page # cand /\ Cardinality(page) = Limit

LastOf(s, page, l) ==
    l \in page /\ \A m \in page \ {l} : Before(s, Entry(m), Entry(l))

-----------------------------------------------------------------------------
(* The client                                                              *)

\* A new walk, also while another is unfinished (a reload), sends no cursor,
\* or one that another sort mode left behind.
StartWalk(c) ==
    /\ walk.pc \in {"idle", "paged", "ended"}
    /\ walk' = [Idle(walk.sort) EXCEPT !.pc = "asked", !.cursor = c]
    /\ fetch' = NoAnswer
    /\ seen' = {} /\ twice' = {} /\ moved' = {} /\ astray' = FALSE
    /\ UNCHANGED <<lead, kept>>

NextPage ==
    /\ walk.pc = "paged"
    /\ walk' = [walk EXCEPT !.pc = "asked"]
    /\ fetch' = NoAnswer
    /\ UNCHANGED <<lead, kept, seen, twice, moved, astray>>

\* The rows reach the client, with the cursor if more follow.
Show(a) ==
    /\ seen' = seen \cup a.page
    /\ twice' = twice \cup (seen \cap a.page)
    /\ moved' = moved \cup a.since
    /\ astray' = (astray \/ a.astray)
    /\ walk' = IF a.more THEN [walk EXCEPT !.pc = "paged", !.cursor = a.next]
                         ELSE [walk EXCEPT !.pc = "ended"]
    /\ fetch' = [NoAnswer EXCEPT !.total = a.total]

\* The client gives up or is gone; what it was shown is forgotten.
WalkEnds ==
    /\ walk' = Idle(walk.sort)
    /\ fetch' = NoAnswer
    /\ seen' = {} /\ twice' = {} /\ moved' = {} /\ astray' = FALSE

-----------------------------------------------------------------------------
(* The response cache around GET /api/leads                                *)

Cached == walk.sort \in LeadSorts   \* the other lists are answered afresh

\* serveFromCache finds the payload of the same query: the sort is the same
\* in a behaviour, so the cursor tells the queries apart.
Hit(p) ==
    /\ walk.pc = "asked" /\ Cached
    /\ p.cursor = walk.cursor
    /\ Show(p.answer)
    /\ UNCHANGED <<lead, kept>>

Miss ==
    /\ walk.pc = "asked"
    /\ Cached => \A p \in kept : p.cursor # walk.cursor
    /\ walk' = [walk EXCEPT !.pc = "query"]
    /\ UNCHANGED <<lead, fetch, kept, seen, twice, moved, astray>>

\* writeCachedJSON stores p over what the query had; or nobody asks for p
\* within its 15 seconds, which is as if it had not been stored.
Store(p) ==
    LET others == {q \in kept : q.cursor # p.cursor} IN
    kept' \in {others, others \cup {p}}

Payload == [cursor |-> walk.cursor, answer |-> fetch]

\* An entry expires.
Expire(p) ==
    /\ kept' = kept \ {p}
    /\ UNCHANGED <<lead, walk, fetch, seen, twice, moved, astray>>

\* A handler clears the cache (emitLead, emitUser).  Which of them do so for
\* which change, and when, is the matter of ResponseCache: a transfer never
\* does, a handler whose change is outside this list does so too, and a row
\* may be read between a commit and its Clear.  So it may come at any time.
Clear ==
    /\ kept # {}
    /\ kept' = {}
    /\ UNCHANGED <<lead, walk, fetch, seen, twice, moved, astray>>

\* The client leaves when its answer is computed, and the handler goes on.
\* It may also store its payload later than here; but what then is kept could
\* have been kept all the time, since nothing forces a Clear in between.
Leave ==
    /\ walk.pc = "query" /\ Cached /\ Computed(fetch)
    /\ Store(Payload)
    /\ WalkEnds
    /\ UNCHANGED lead

-----------------------------------------------------------------------------
(* One fetch: the count and the page are statements of their own           *)

\* Mutant of Count: the total counts the rows behind the cursor only.
CountBehindCursor ==
    /\ walk.pc = "query" /\ fetch.total = Unknown
    /\ fetch' = [fetch EXCEPT !.total =
          Cardinality(Candidates(walk.sort, UsedCursor(walk.sort, walk.cursor)))]
    /\ UNCHANGED <<lead, walk, kept, seen, twice, moved, astray>>

\* The COUNT without the cursor's condition.  List runs it beside the page;
\* the transfer lists and the export finish it first.
Count ==
    /\ walk.pc = "query" /\ fetch.total = Unknown
    /\ fetch' = [fetch EXCEPT !.total = Cardinality(Listed)]
    /\ UNCHANGED <<lead, walk, kept, seen, twice, moved, astray>>

\* A page was read: its last row, if more follow, makes the next cursor.
Read(s, cand) ==
    /\ \E page \in SUBSET cand :
          /\ FirstPage(s, cand, page)
          /\ \/ /\ page = cand
                /\ fetch' = [fetch EXCEPT !.read = TRUE, !.page = page]
             \/ /\ page # cand
                /\ \E l \in page :
                      /\ LastOf(s, page, l)
                      /\ fetch' = [fetch EXCEPT !.read = TRUE, !.page = page, !.more = TRUE,
                                      !.next = CursorOf(s, Entry(l)),
                                      !.astray = (CursorOf(s, Entry(l)).k # lead[l].key)]
    /\ UNCHANGED <<lead, walk, kept, seen, twice, moved, astray>>

List ==
    /\ walk.pc = "query" /\ ~fetch.read
    /\ walk.sort \in LeadSorts
    /\ Read(walk.sort, Candidates(walk.sort, UsedCursor(walk.sort, walk.cursor)))

ListSalesExecTeamTransfers ==
    /\ walk.pc = "query" /\ ~fetch.read /\ fetch.total # Unknown
    /\ walk.sort = "salesExecTransfers"
    /\ Read(walk.sort, Candidates(walk.sort, walk.cursor))

ListLeadTransfers ==
    /\ walk.pc = "query" /\ ~fetch.read /\ fetch.total # Unknown
    /\ walk.sort = "leadTransfers"
    /\ Read(walk.sort, Candidates(walk.sort, walk.cursor))

\* The export reads every row at once; its transaction is READ COMMITTED, so
\* the rows are those of a later moment than the count.
ExportLeadsPDF ==
    /\ walk.pc = "query" /\ ~fetch.read /\ fetch.total # Unknown
    /\ walk.sort = "export"
    /\ fetch' = [fetch EXCEPT !.read = TRUE, !.page = Listed]
    /\ UNCHANGED <<lead, walk, kept, seen, twice, moved, astray>>

\* The response; that of GET /api/leads is stored first.
Answer ==
    /\ walk.pc = "query" /\ Computed(fetch)
    /\ Show(fetch)
    /\ IF Cached THEN Store(Payload) ELSE UNCHANGED kept
    /\ UNCHANGED lead

\* A statement fails or the request's 12 seconds pass: the client gives up.
Fail ==
    /\ walk.pc = "query"
    /\ WalkEnds
    /\ UNCHANGED <<lead, kept>>

-----------------------------------------------------------------------------
(* What changes the rows in the meantime                                   *)

\* The answer a, if its statements have begun, is older than the change.
Aged(a, ls) == IF a.read \/ a.total # Unknown THEN [a EXCEPT !.since = @ \cup ls] ELSE a
AgedPayloads(ps, ls) == {[p EXCEPT !.answer = Aged(@, ls)] : p \in ps}

\* The rows in ls change.
Move(ls) ==
    /\ moved' = moved \cup ls
    /\ fetch' = IF walk.pc = "query" THEN Aged(fetch, ls) ELSE fetch
    /\ kept' = AgedPayloads(kept, ls)
    /\ UNCHANGED <<walk, seen, twice, astray>>

\* A lead is added, or an edit brings it into the request's WHERE.
Create(l, k, t) ==
    /\ ~lead[l].listed
    /\ lead' = [lead EXCEPT ![l] = [listed |-> TRUE, key |-> k, at |-> t]]
    /\ Move({l})

\* An edit, a qualification, an outcome or a transfer changes the columns the
\* sort reads: an edit may set createdAt to anything, updatedAt only moves
\* forward, and none of them changes the creator.
Update(l, k, t) ==
    /\ lead[l].listed
    /\ walk.sort \in LeadSorts
    /\ walk.sort = "recent" => t > lead[l].at
    /\ walk.sort = "analyst" => k = lead[l].key
    /\ lead' = [lead EXCEPT ![l].key = k, ![l].at = t]
    /\ Move({l})

\* A lead is deleted, or an edit takes it out of the WHERE.
Delete(l) ==
    /\ lead[l].listed
    /\ lead' = [lead EXCEPT ![l].listed = FALSE]
    /\ Move({l})

CreatedBy(k) == {l \in Leads : lead[l].key = k}

\* A user gets another name, and with it every lead it created.
RenameUser(k, to) ==
    /\ walk.sort = "analyst" /\ k # to /\ CreatedBy(k) # {}
    /\ lead' = [l \in Leads |-> IF l \in CreatedBy(k) THEN [lead[l] EXCEPT !.key = to] ELSE lead[l]]
    /\ Move(CreatedBy(k))

\* A user is deleted: its leads pass to whoever deleted it, except those it
\* added meanwhile, which the foreign key leaves without a creator.
DeleteUser(k, by, late) ==
    /\ walk.sort = "analyst" /\ k # by /\ CreatedBy(k) # {}
    /\ lead' = [l \in Leads |->
          IF l \notin CreatedBy(k) THEN lead[l]
          ELSE [lead[l] EXCEPT !.key = IF l \in late THEN Null ELSE by]]
    /\ Move(CreatedBy(k))

Stores ==
    \/ \E l \in Leads, k \in KeysOf(walk.sort), t \in TimesOf(walk.sort) : Create(l, k, t) \/ Update(l, k, t)
    \/ \E l \in Leads : Delete(l)
    \/ \E k, to \in Keys : RenameUser(k, to)
    \/ \E k, by \in Keys : \E late \in SUBSET CreatedBy(k) : DeleteUser(k, by, late)

Next ==
    \/ \E c \in {NoCursor} \cup (IF walk.sort \in LeadSorts THEN {StaleCursor} ELSE {}) : StartWalk(c)
    \/ NextPage
    \/ \E p \in kept : Hit(p) \/ Expire(p)
    \/ Miss \/ Clear \/ Leave
    \/ Count
    \/ List \/ ListSalesExecTeamTransfers \/ ListLeadTransfers \/ ExportLeadsPDF
    \/ Answer \/ Fail
    \/ Stores

Spec == Init /\ [][Next]_vars

-----------------------------------------------------------------------------
(* Properties                                                              *)

\* No list shows a lead on two pages of one walk, whatever is added, edited
\* or deleted between the pages and whichever pages the cache had, unless that
\* very lead changed during the walk or since the oldest page it was served
\* was read.  Exempt: a list by name cut at a lead whose name Go lower-cases
\* otherwise than the database, whose cursor may be ahead of its own row.
NoLeadTwice ==
    ~(walk.sort = "name" /\ astray) => twice \subseteq moved

\* A walk that ran to its end has shown every lead that was in the list,
\* unchanged, since the oldest of its pages was read.  Exempt: a list by name
\* as above, and one by analyst cut at a lead without creator, whose cursor
\* names a dash where the ORDER BY has ''.
NoLeadMissed ==
    walk.pc = "ended" /\ ~astray => Listed \ moved \subseteq seen

\* When nothing changed during the walk, nor since the oldest of its pages
\* was read, the total the client was told with the last page is the number
\* of rows it was shown.
TotalIsTheWalk ==
    walk.pc = "ended" /\ ~astray /\ moved = {} => fetch.total = Cardinality(seen)

=============================================================================
