------------------------------ MODULE Listings ------------------------------
(***************************************************************************)
(* The paginated lists (core/pagination.py): places, reservations, plan    *)
(* requests, users, organisations and notifications.  A client walks       *)
(* through a list page by page; every page is a request of its own, with a *)
(* snapshot of its own, found by its offset, while rows are inserted and   *)
(* change.  Nothing ties the pages of a walk to one another.               *)
(*                                                                         *)
(* A row stands for a row of the table that the walker may see; ids are    *)
(* given by the insert, and a row is visible from its commit on.           *)
(***************************************************************************)
EXTENDS Integers, SequencesExt

CONSTANTS
    Column,    \* columns the lists are sorted by: "id", "created_at", "status"
    PageSize,  \* values of page_size
    MaxRows,   \* bound on the rows ever inserted
    MaxTime,   \* bound on the clock, in units of created_at
    MaxPages,  \* bound on the pages read in one walk
    MaxLeft    \* bound on the rows that leave a list during one walk

ASSUME BoundAssumption ==
    /\ Column \subseteq {"id", "created_at", "status"}
    /\ PageSize \subseteq 1 .. 100
    /\ MaxRows \in Nat /\ MaxTime \in Nat /\ MaxPages \in Nat /\ MaxLeft \in Nat

VARIABLES
    rows,   \* the table, by id
    now,    \* the clock
    walk    \* the walk of one client

vars == <<rows, now, walk>>

\* A row is FLUSHED until its transaction commits, or GONE.  The others have the
\* column that lists filter by: status PENDING or is_active is OPEN here.
Status == {"FLUSHED", "GONE", "OPEN", "CLOSED"}
Visible == {i \in DOMAIN rows : rows[i].status \in {"OPEN", "CLOSED"}}

Query == [column : Column, asc : BOOLEAN, openOnly : BOOLEAN, size : PageSize]

\* A walk has read the pages up to page; pages is total_pages of the last
\* response, and shown are the rows shown so far.  History: the rows listed when
\* it began, how many times a row has left the list since, and whether the list
\* is as it was.
NoWalk == [page |-> 0]

Init ==
    /\ rows = <<>>
    /\ now = 0
    /\ walk = NoWalk

-----------------------------------------------------------------------------
(* What a query returns.                                                   *)

\* _RESERVATION_SORT_COLUMNS, _USER_SORT_COLUMNS, _ORG_SORT_COLUMNS
SortKey(q, i) ==
    CASE q.column = "id" -> i
      [] q.column = "created_at" -> rows[i].created
      [] q.column = "status" -> IF rows[i].status = "OPEN" THEN 0 ELSE 1

\* base.where(...)
Matching(q) == IF q.openOnly THEN {i \in Visible : rows[i].status = "OPEN"} ELSE Visible

\* ORDER BY one column: rows with equal keys come in any order, which need not
\* be the same in the next statement.
Orders(q) ==
    {s \in SetToSeqs(Matching(q)) :
        \A m, n \in DOMAIN s : m < n =>
            IF q.asc THEN SortKey(q, s[m]) <= SortKey(q, s[n])
                     ELSE SortKey(q, s[m]) >= SortKey(q, s[n])}

\* Mutated form of Offset: pages are counted from 0.
OffsetFromZero(page, size) == page * size

Offset(page, size) == (page - 1) * size

\* Mutated form of TotalPages: the last page is forgotten when it is not full.
TotalPagesDown(total, size) == total \div size

\* math.ceil(total / page_size)
TotalPages(total, size) == (total + size - 1) \div size

\* OFFSET and LIMIT
Page(s, page, size) ==
    LET first == Offset(page, size) + 1
        last == IF first + size - 1 < Len(s) THEN first + size - 1 ELSE Len(s)
    IN  SubSeq(s, first, last)

-----------------------------------------------------------------------------
(* The walk.                                                               *)

FirstPage(q) ==
    /\ walk.page = 0
    /\ \E s \in Orders(q) :
          walk' = [page |-> 1, pages |-> TotalPages(Len(s), q.size), query |-> q,
                   shown |-> Page(s, 1, q.size), from |-> Matching(q), left |-> 0,
                   quiet |-> TRUE]
    /\ UNCHANGED <<rows, now>>

\* The client asks for the next page while there is one.
NextPage ==
    /\ walk.page > 0 /\ walk.page < walk.pages /\ walk.page < MaxPages
    /\ LET q == walk.query
       IN  \E s \in Orders(q) :
              walk' = [walk EXCEPT !.page = @ + 1, !.pages = TotalPages(Len(s), q.size),
                                   !.shown = @ \o Page(s, walk.page + 1, q.size)]
    /\ UNCHANGED <<rows, now>>

Leave ==
    /\ walk.page > 0
    /\ walk' = NoWalk
    /\ UNCHANGED <<rows, now>>

-----------------------------------------------------------------------------
(* What happens to the table.                                              *)

Noticed(gone) ==
    walk' = IF walk.page = 0 THEN walk
            ELSE [walk EXCEPT !.quiet = FALSE,
                              !.left = IF gone /\ walk.query.openOnly THEN @ + 1 ELSE @]

\* The flush of a new row gives it its id and its created_at.
Insert ==
    /\ Len(rows) < MaxRows
    /\ rows' = Append(rows, [created |-> now, status |-> "FLUSHED"])
    /\ UNCHANGED <<now, walk>>

Settle(i) ==
    /\ rows[i].status = "FLUSHED"
    /\ \/ rows' = [rows EXCEPT ![i].status = "OPEN"] /\ Noticed(FALSE)
       \/ rows' = [rows EXCEPT ![i].status = "GONE"] /\ UNCHANGED walk
    /\ UNCHANGED now

\* Mutated form of Outcome: the action of the reviewer is stored as the status.
OutcomeAsGiven == "APPROVE"

\* The status after a review, a cancellation or the job, which leaves the list
\* of the pending ones; is_active is FALSE.
Outcome == "CLOSED"

Close(i) ==
    /\ rows[i].status = "OPEN"
    /\ walk.page > 0 => walk.left < MaxLeft
    /\ rows' = [rows EXCEPT ![i].status = Outcome]
    /\ Noticed(TRUE)
    /\ UNCHANGED now

\* update_place, update_org: is_active is TRUE again.
Reopen(i) ==
    /\ rows[i].status = "CLOSED"
    /\ rows' = [rows EXCEPT ![i].status = "OPEN"]
    /\ Noticed(FALSE)
    /\ UNCHANGED now

Tick ==
    /\ now < MaxTime
    /\ now' = now + 1
    /\ UNCHANGED <<rows, walk>>

Next ==
    \/ \E q \in Query : FirstPage(q)
    \/ NextPage \/ Leave
    \/ Insert \/ Tick
    \/ \E i \in DOMAIN rows : Settle(i) \/ Close(i) \/ Reopen(i)

Spec == Init /\ [][Next]_vars

-----------------------------------------------------------------------------
(* Properties.                                                             *)

Walk == [page : Nat \ {0}, pages : Nat, query : Query, shown : Seq(DOMAIN rows),
         from : SUBSET Visible, left : Nat, quiet : BOOLEAN]

TypeOK ==
    /\ rows \in Seq([created : 0 .. MaxTime, status : Status])
    /\ now \in 0 .. MaxTime
    /\ walk \in Walk \cup {NoWalk}

Finished == walk.page > 0 /\ walk.page >= walk.pages

\* The order of a query is the same in every statement: the column tells the
\* rows apart and does not change.
StrictOrder(q) == /\ q.column # "status"
                  /\ \A i, j \in Visible : SortKey(q, i) = SortKey(q, j) => i = j

Strict == StrictOrder(walk.query)

ShownRows == {walk.shown[n] : n \in DOMAIN walk.shown}

\* A walk through a list in a strict order misses as many rows at most as rows
\* left the list meanwhile: inserts, in whatever order they commit, and rows that
\* come back only repeat others.  So a walk through a list without a filter
\* misses nothing, and an administrator who reviews the pending reservations
\* while walking through them misses no more than were reviewed.
MissedAreShifted ==
    Finished /\ Strict => Cardinality((walk.from \cap Matching(walk.query)) \ ShownRows) <= walk.left

\* A walk during which nothing changed shows the list: every row once, in order,
\* whatever the size of the pages and the last page.
QuietWalkIsExact ==
    Finished /\ Strict /\ walk.quiet => walk.shown \in Orders(walk.query)

-----------------------------------------------------------------------------
(* The inductive invariant of ListingsProofs.                              *)

\* The rows of the list that come before row i.
Ahead(q, i) ==
    {j \in Matching(q) : IF q.asc THEN SortKey(q, j) < SortKey(q, i)
                                  ELSE SortKey(q, j) > SortKey(q, i)}

Unshown == walk.from \ ShownRows

\* The rows that were not shown although the walk is past them, and those that
\* are not in the list now.
Passed ==
    {i \in Unshown : i \in Matching(walk.query) =>
                         Cardinality(Ahead(walk.query, i)) < walk.page * walk.query.size}

\* Each of them is made up for by a row that left: whatever leaves moves one row
\* at most over the border of the page.  At the end nothing else is unshown.
PassedAreShifted ==
    walk.page > 0 /\ Strict =>
        /\ Cardinality(Passed) <= walk.left
        /\ Finished => Cardinality(Unshown) <= walk.left

Lesser(m, n) == IF m < n THEN m ELSE n

\* While nothing happens the walk shows the list from its first row on.
QuietShowsAll ==
    walk.page > 0 /\ walk.quiet /\ Strict =>
        /\ walk.from = Matching(walk.query)
        /\ \E s \in Orders(walk.query) :
              /\ walk.pages = TotalPages(Len(s), walk.query.size)
              /\ walk.shown = SubSeq(s, 1, Lesser(walk.page * walk.query.size, Len(s)))

IInv == TypeOK /\ PassedAreShifted /\ QuietShowsAll

=============================================================================
