---------------------------- MODULE BucketPaging ----------------------------
(***************************************************************************)
(* The dashboard's summary buckets (GET /api/leads/summary/buckets), paged *)
(* by OFFSET: leads grouped by reason, portal, source, analyst or sales    *)
(* executive, the largest group first.  Two things are kept between pages: *)
(* the offset the client sends, and the pages in the response cache, each  *)
(* under the offset it was asked for; groups grow, shrink and disappear    *)
(* while the client pages through them.                                    *)
(***************************************************************************)
EXTENDS Integers, FiniteSets

CONSTANTS
    Grouped,      \* the leads the dashboard groups
    Buckets,      \* reasons, portals, analysts or executives, in name order
    Dimensions,   \* the groupings a client may ask for
    BucketLimit,  \* buckets of a page
    MaxOffset,    \* the largest offset the server uses
    MaxPages      \* bound: pages a client fetches in one walk

ByName == {"reasons", "attributionMix"}             \* the group is its name
ByUser == {"analystLeadStats", "salesExecOutcomes"}   \* names may coincide

ASSUME BucketAssumption ==
    /\ Buckets \subseteq Nat \ {0} /\ IsFiniteSet(Buckets) /\ IsFiniteSet(Grouped)
    /\ Dimensions \subseteq ByName \cup ByUser
    /\ BucketLimit \in Nat \ {0} /\ MaxOffset \in Nat /\ MaxPages \in Nat

VARIABLES
    group,      \* the bucket of each lead, or None when out of scope
    label,      \* the name each bucket is ordered by
    bwalk,      \* the client's walk, and the offset of the page it asks for
    bfetch,     \* the answer under way, then the last one the client got
    bkept,      \* pages in the response cache, each under its offset
    shown,      \* buckets the client has been shown
    again,      \* buckets it has been shown more than once
    stirred,    \* history: a lead changed its bucket since the walk began, or
                \* since the oldest page it was served was read
    clamped     \* history: the server used a smaller offset than it was sent

bvars == <<group, label, bwalk, bfetch, bkept, shown, again, stirred, clamped>>

None == 0
NotCounted == -1

Labels(d) ==
    {f \in [Buckets -> Buckets] : d \in ByName => \A b \in Buckets : f[b] = b}

Size(b) == Cardinality({l \in Grouped : group[l] = b})
Present == {b \in Buckets : Size(b) > 0}

BIdle(d) == [pc |-> "idle", dimension |-> d, offset |-> 0, pages |-> 0]

\* An answer: the offset used, the number of buckets, and the page.  History:
\* a lead changed its bucket since its first statement.
NoPage ==
    [offset |-> 0, bucketCount |-> NotCounted, read |-> FALSE, page |-> {},
     more |-> FALSE, stirred |-> FALSE]

BInit ==
    /\ group \in [Grouped -> Buckets \cup {None}]
    /\ \E d \in Dimensions : label \in Labels(d) /\ bwalk = BIdle(d)
    /\ bfetch = NoPage /\ bkept = {}
    /\ shown = {} /\ again = {} /\ stirred = FALSE /\ clamped = FALSE

-----------------------------------------------------------------------------

clampSummaryBucketOffset(o) == IF o > MaxOffset THEN MaxOffset ELSE o

\* ORDER BY size DESC, name ASC.  The name decides only where names differ.
Larger(b, c) == Size(b) > Size(c) \/ (Size(b) = Size(c) /\ label[b] < label[c])

Tied == \E b, c \in Present : b # c /\ ~Larger(b, c) /\ ~Larger(c, b)

\* OFFSET o: the buckets ahead of the page in some order the ORDER BY allows.
Skipped(o, before) ==
    /\ before \subseteq Present
    /\ \A b \in before, c \in Present \ before : ~Larger(c, b)
    /\ \/ Cardinality(before) = o
       \/ before = Present /\ Cardinality(before) < o

\* LIMIT limit + 1, of which the last row is cut off.
BucketPage(rest, page) ==
    /\ page \subseteq rest
    /\ \A b \in page, c \in rest \ page : ~Larger(c, b)
    /\ \/ page = rest /\ Cardinality(page) <= BucketLimit
       \/ page # rest /\ Cardinality(page) = BucketLimit

-----------------------------------------------------------------------------
(* The client                                                              *)

\* A new walk, also while another is unfinished (a reload).
StartBuckets ==
    /\ bwalk.pc \in {"idle", "paged", "ended"}
    /\ bwalk' = [BIdle(bwalk.dimension) EXCEPT !.pc = "asked", !.pages = 1]
    /\ bfetch' = NoPage
    /\ shown' = {} /\ again' = {} /\ stirred' = FALSE /\ clamped' = FALSE
    /\ UNCHANGED <<group, label, bkept>>

MoreBuckets ==
    /\ bwalk.pc = "paged" /\ bwalk.pages < MaxPages
    /\ bwalk' = [bwalk EXCEPT !.pc = "asked", !.pages = @ + 1]
    /\ bfetch' = NoPage
    /\ UNCHANGED <<group, label, bkept, shown, again, stirred, clamped>>

\* The next offset is the one of the response plus the rows it brought.
ShowBuckets(a) ==
    /\ bwalk' = [bwalk EXCEPT !.pc = IF a.more THEN "paged" ELSE "ended",
                              !.offset = a.offset + Cardinality(a.page)]
    /\ bfetch' = [NoPage EXCEPT !.bucketCount = a.bucketCount]
    /\ shown' = shown \cup a.page
    /\ again' = again \cup (shown \cap a.page)
    /\ stirred' = (stirred \/ a.stirred)
    /\ clamped' = (clamped \/ bwalk.offset > MaxOffset)

BWalkEnds ==
    /\ bwalk' = BIdle(bwalk.dimension)
    /\ bfetch' = NoPage
    /\ shown' = {} /\ again' = {} /\ stirred' = FALSE /\ clamped' = FALSE

-----------------------------------------------------------------------------
(* The response cache around GET /api/leads/summary/buckets                *)

\* Mutant of HitPage: the key leaves out the query.
HitAnyPage(p) ==
    /\ bwalk.pc = "asked"
    /\ ShowBuckets(p.answer)
    /\ UNCHANGED <<group, label, bkept>>

\* serveFromCache finds the page of the same query.
HitPage(p) ==
    /\ bwalk.pc = "asked" /\ p.offset = bwalk.offset
    /\ ShowBuckets(p.answer)
    /\ UNCHANGED <<group, label, bkept>>

MissPage ==
    /\ bwalk.pc = "asked"
    /\ \A p \in bkept : p.offset # bwalk.offset
    /\ bwalk' = [bwalk EXCEPT !.pc = "query"]
    /\ UNCHANGED <<group, label, bfetch, bkept, shown, again, stirred, clamped>>

\* writeCachedJSON stores p over what the query had; or nobody asks for p
\* within its 15 seconds, which is as if it had not been stored.
StorePage(p) ==
    LET others == {q \in bkept : q.offset # p.offset} IN
    bkept' \in {others, others \cup {p}}

PagePayload == [offset |-> bwalk.offset, answer |-> bfetch]

ExpirePage(p) ==
    /\ bkept' = bkept \ {p}
    /\ UNCHANGED <<group, label, bwalk, bfetch, shown, again, stirred, clamped>>

\* A handler clears the cache: at any time, for a change of any row or none
\* of these, before or after a page is read (see ResponseCache).
ClearPages ==
    /\ bkept # {}
    /\ bkept' = {}
    /\ UNCHANGED <<group, label, bwalk, bfetch, shown, again, stirred, clamped>>

\* The client leaves when its page is computed, and the handler stores it.
LeaveBuckets ==
    /\ bwalk.pc = "query" /\ bfetch.read
    /\ StorePage(PagePayload)
    /\ BWalkEnds
    /\ UNCHANGED <<group, label>>

-----------------------------------------------------------------------------
(* One fetch: the count and the page are statements of their own           *)

\* Mutant of SummaryBuckets: metaQuery counts the leads, not their groups.
CountLeadsNotBuckets ==
    /\ bwalk.pc = "query" /\ bfetch.bucketCount = NotCounted
    /\ bfetch' = [bfetch EXCEPT !.bucketCount = Cardinality({l \in Grouped : group[l] # None}),
                                !.offset = clampSummaryBucketOffset(bwalk.offset)]
    /\ UNCHANGED <<group, label, bwalk, bkept, shown, again, stirred, clamped>>

\* SummaryBuckets clamps the offset and counts the buckets (metaQuery).
SummaryBuckets ==
    /\ bwalk.pc = "query" /\ bfetch.bucketCount = NotCounted
    /\ bfetch' = [bfetch EXCEPT !.bucketCount = Cardinality(Present),
                                !.offset = clampSummaryBucketOffset(bwalk.offset)]
    /\ UNCHANGED <<group, label, bwalk, bkept, shown, again, stirred, clamped>>

ReadBuckets ==
    /\ bwalk.pc = "query" /\ bfetch.bucketCount # NotCounted /\ ~bfetch.read
    /\ \E before \in SUBSET Present : \E page \in SUBSET (Present \ before) :
          /\ Skipped(bfetch.offset, before)
          /\ BucketPage(Present \ before, page)
          /\ bfetch' = [bfetch EXCEPT !.read = TRUE, !.page = page,
                                      !.more = (page # Present \ before)]
    /\ UNCHANGED <<group, label, bwalk, bkept, shown, again, stirred, clamped>>

paginatedQualificationReasons == bwalk.dimension = "reasons" /\ ReadBuckets
paginatedAttributionMix == bwalk.dimension = "attributionMix" /\ ReadBuckets
paginatedAnalystLeadStats == bwalk.dimension = "analystLeadStats" /\ ReadBuckets
paginatedSalesExecOutcomes == bwalk.dimension = "salesExecOutcomes" /\ ReadBuckets

\* The response is stored, and reaches the client.
AnswerBuckets ==
    /\ bwalk.pc = "query" /\ bfetch.read
    /\ ShowBuckets(bfetch)
    /\ StorePage(PagePayload)
    /\ UNCHANGED <<group, label>>

\* A statement fails or the request's 12 seconds pass: the client gives up.
BFail ==
    /\ bwalk.pc = "query"
    /\ BWalkEnds
    /\ UNCHANGED <<group, label, bkept>>

\* The page a, if its statements have begun, is older than the change.
AgedPage(a) == IF a.bucketCount # NotCounted THEN [a EXCEPT !.stirred = TRUE] ELSE a
AgedPages(ps) == {[p EXCEPT !.answer = AgedPage(@)] : p \in ps}

\* A lead is added, deleted, or moves to another bucket.
Regroup(l, b) ==
    /\ group[l] # b
    /\ group' = [group EXCEPT ![l] = b]
    /\ stirred' = TRUE
    /\ bfetch' = IF bwalk.pc = "query" THEN AgedPage(bfetch) ELSE bfetch
    /\ bkept' = AgedPages(bkept)
    /\ UNCHANGED <<label, bwalk, shown, again, clamped>>

BNext ==
    \/ StartBuckets \/ MoreBuckets
    \/ \E p \in bkept : HitPage(p) \/ ExpirePage(p)
    \/ MissPage \/ ClearPages \/ LeaveBuckets
    \/ SummaryBuckets
    \/ paginatedQualificationReasons \/ paginatedAttributionMix
    \/ paginatedAnalystLeadStats \/ paginatedSalesExecOutcomes
    \/ AnswerBuckets \/ BFail
    \/ \E l \in Grouped, b \in Buckets \cup {None} : Regroup(l, b)

BSpec == BInit /\ [][BNext]_bvars

-----------------------------------------------------------------------------
(* Properties                                                              *)

\* While no lead changes its bucket, during the walk or since the oldest page
\* it was served was read, no page repeats a bucket of an earlier page, kept
\* pages included.  Exempt: two analysts or executives with the same name and
\* as many leads, whose order each query may choose anew, and a walk past the
\* largest offset, which is answered with the page at that offset again.
NoBucketTwice == ~stirred /\ ~Tied /\ ~clamped => again = {}

\* Likewise, a walk that was told no more buckets follow has been shown all of
\* them, as many as the page's bucketCount says; past the largest offset too,
\* as far as such a walk ever ends.
NoBucketMissed ==
    bwalk.pc = "ended" /\ ~stirred /\ ~Tied =>
        shown = Present /\ bfetch.bucketCount = Cardinality(shown)

=============================================================================
