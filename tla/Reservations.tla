---------------------------- MODULE Reservations ----------------------------
(***************************************************************************)
(* The life of a reservation: created by an employee, by an administrator  *)
(* or for an approved plan request, reviewed, cancelled by its owner, or   *)
(* resolved by the hourly expiry job once its deadline has passed,         *)
(* together with the rows these handlers share: the usage counters, the    *)
(* special-plan eligibilities, the notifications and the rooms there are.  *)
(*                                                                         *)
(* Every request, and every run of the job, is one database transaction    *)
(* of one session.  All its reads come from the snapshot its first SELECT  *)
(* opened, so a handler is one action that evaluates the guards on the     *)
(* snapshot and leaves its pending writes in txn; autoflush is off, so     *)
(* nothing is written before db.commit(), which is the action Commit.      *)
(* Rollback stands for every way a transaction ends without one: an error  *)
(* of the database, a crash of the worker, a lost connection.              *)
(***************************************************************************)
EXTENDS Discounts, FiniteSets

CONSTANTS
    User,            \* employees
    Stay,            \* stays that compete: (place, room type, check-in, check-out)
    Vip,             \* is_vip of the rooms there are
    Elig,            \* special-plan eligibilities that were granted
    EligOwner,       \* the employee each of them belongs to
    NoElig,          \* NULL in reservations.user_plan_eligibility_id
    Worker,          \* request threads of the API
    Job,             \* the cron process that runs expire_pending_reservations
    MaxReservations, \* bound on the reservations ever made
    LastYear,        \* bound on the years that pass
    MaxRooms,        \* the most rooms of one kind that a stay ever has
    RoomCounts,      \* the numbers of rooms it may have, blocked ones taken off
    AdminStatus,     \* statuses an administrator creates a reservation with
    FirstUpdaterWins \* TRUE: innodb_snapshot_isolation (MariaDB 11.6 and later)
                     \* FALSE: plain REPEATABLE READ (MySQL 8, older MariaDB)

Res == 1 .. MaxReservations
Year == 1 .. LastYear
NoYear == 0

\* What has a capacity of its own: the ordinary or the VIP rooms for a stay.
Slot == Stay \X Vip

Proc == Worker \cup {Job}

Live == {"PENDING", "APPROVED"}
Final == {"APPROVED", "REJECTED", "CANCELLED", "EXPIRED"}
Status == Final \cup {"PENDING"}

ASSUME ConstantsAssumption ==
    /\ MaxReservations \in Nat /\ LastYear \in Nat \ {0}
    /\ Vip \subseteq BOOLEAN
    /\ MaxRooms \in Nat /\ RoomCounts \subseteq 0 .. MaxRooms
    /\ EligOwner \in [Elig -> User]
    /\ NoElig \notin Elig
    /\ IsFiniteSet(Worker) /\ Worker # {}
    /\ Job \notin Worker
    /\ AdminStatus \subseteq Status
    /\ FirstUpdaterWins \in BOOLEAN

VARIABLES
    res,    \* reservations: a row per id, NoRow for an id not issued
    usage,  \* discount_usage: a counter per user and year, 0 when there is no row
    used,   \* is_used of every eligibility
    notes,  \* notifications, as pairs <<reservation, kind>>
    rooms,  \* total_rooms of every slot less what is blocked, never below 0
    year,   \* the current year
    txn,    \* the open transaction of every process, with its pending writes
    stale   \* TRUE when another commit changed, since its snapshot, a row it is
            \* about to update

db == <<res, usage, used, notes>>
vars == <<res, usage, used, notes, rooms, year, txn, stale>>

-----------------------------------------------------------------------------
(* The tables and the pending writes of a transaction.                     *)

\* A row of the table reservations.  year is the year of reviewed_at, overdue
\* says that admin_deadline_at is past.  The last two are history: direct, that
\* the row was inserted as already approved, and request, that it was inserted
\* for a plan request.
Row == [status : Status, user : User, slot : Slot, elig : Elig \cup {NoElig},
        discount : Discount, year : Year \cup {NoYear},
        overdue : BOOLEAN, direct : BOOLEAN, request : BOOLEAN]
NoRow == [status |-> "NONE"]

NoteKind == {"NEW_RESERVATION", "APPROVE", "REJECT", "RESERVATION_CANCELLED"}

Keep == "KEEP"  \* a status column that is not written
Same == -1      \* a discount column that is not written

\* Pending writes: a row to insert, the columns to update, the eligibilities to
\* mark used or free again, and for each user how often the usage counter is
\* incremented (wins) and the value that was read first (seen).
Txn == [open : {TRUE}, new : Row \cup {NoRow},
        decide : [Res -> Final \cup {Keep}], discount : [Res -> Discount \cup {Same}],
        dropElig : SUBSET Res, use : SUBSET Elig, free : SUBSET Elig,
        wins : [User -> Nat], seen : [User -> Nat], year : Year,
        reviewed : BOOLEAN, note : NoteKind \cup {"NONE"}]
NoTxn == [open |-> FALSE]

NoWrites ==
    [open |-> TRUE, new |-> NoRow,
     decide |-> [r \in Res |-> Keep], discount |-> [r \in Res |-> Same],
     dropElig |-> {}, use |-> {}, free |-> {},
     wins |-> [u \in User |-> 0], seen |-> [u \in User |-> 0], year |-> year,
     reviewed |-> FALSE, note |-> "NONE"]

TypeOK ==
    /\ res \in [Res -> Row \cup {NoRow}]
    /\ usage \in [User -> [Year -> Nat]]
    /\ used \in [Elig -> BOOLEAN]
    /\ notes \subseteq Res \X NoteKind
    /\ rooms \in [Slot -> RoomCounts]
    /\ year \in Year
    /\ txn \in [Proc -> Txn \cup {NoTxn}]
    /\ stale \in [Proc -> BOOLEAN]

Init ==
    /\ res = [r \in Res |-> NoRow]
    /\ usage = [u \in User |-> [y \in Year |-> 0]]
    /\ used = [e \in Elig |-> FALSE]
    /\ notes = {}
    /\ rooms \in [Slot -> RoomCounts]
    /\ year = 1
    /\ txn = [p \in Proc |-> NoTxn]
    /\ stale = [p \in Proc |-> FALSE]

-----------------------------------------------------------------------------
(* Queries the handlers share.                                             *)

\* _get_usage_count for the current year.
UsageCount(u) == usage[u][year]

Pending(r) == res[r].status = "PENDING"

\* The stay of reservation r, by which the job groups: is_vip is no part of it.
StayOf(r) == res[r].slot[1]

\* Reservations that hold a room of slot s: the COUNT of the availability check.
Reserved(s) ==
    Cardinality({r \in Res : res[r].status \in Live /\ res[r].slot = s})

\* Mutated form of HasRoom: available < 0 is refused, and 0 is not.
HasRoomAtZero(s) == Reserved(s) <= rooms[s]

\* total_rooms - blocked - reserved > 0
HasRoom(s) == Reserved(s) < rooms[s]

UnusedElig(u) == {e \in Elig : EligOwner[e] = u /\ ~used[e]}

\* Opens the transaction of an idle process with the writes w.
Begin(p, w) ==
    /\ ~txn[p].open
    /\ txn' = [txn EXCEPT ![p] = w]
    /\ stale' = [stale EXCEPT ![p] = FALSE]
    /\ UNCHANGED <<db, rooms, year>>

-----------------------------------------------------------------------------
(* The handlers.                                                           *)

\* create_reservation: a room must be free in the snapshot (VIP rooms are for
\* the super admin, an employee like any other here).  With a special plan an
\* unused eligibility of the employee is attached and used up, and the stay is
\* not discounted; when there is none the stay is an ordinary one, with a
\* preview of the discount.
CreateReservation(p, u, s, useSpecialPlan) ==
    /\ HasRoom(s)
    /\ \E e \in IF useSpecialPlan /\ UnusedElig(u) # {} THEN UnusedElig(u) ELSE {NoElig} :
        Begin(p, [NoWrites EXCEPT
            !.new = [status |-> "PENDING", user |-> u, slot |-> s, elig |-> e,
                     discount |-> IF e # NoElig THEN 0
                                  ELSE CalcDiscountPercent(UsageCount(u)),
                     year |-> NoYear, overdue |-> FALSE, direct |-> FALSE,
                     request |-> FALSE],
            !.use = {e} \ {NoElig},
            !.note = "NEW_RESERVATION"])

\* admin_create_reservation: the same availability check, no discount, the
\* status the administrator gave (APPROVED unless said otherwise), a deadline
\* that is already past, and no use counted.
AdminCreateReservation(p, u, s, status) ==
    /\ HasRoom(s)
    /\ Begin(p, [NoWrites EXCEPT
            !.new = [status |-> status, user |-> u, slot |-> s, elig |-> NoElig,
                     discount |-> 0, year |-> year, overdue |-> TRUE,
                     direct |-> status = "APPROVED", request |-> FALSE]])

\* review_plan_request, when it approves the request of employee u: an approved
\* stay in ordinary rooms is inserted, free of charge and uncounted, with no
\* look at how many are reserved.  Its eligibility e is the one the request
\* found when it was made, if any, and may have been used since; is_used is
\* only written when the snapshot has it FALSE.  (A rejection changes nothing
\* here; the request itself, and that it is approved once, is in SpecialPlans.)
ReviewPlanRequest(p, u, s, e) ==
    /\ s[2] = FALSE
    /\ e # NoElig => EligOwner[e] = u
    /\ Begin(p, [NoWrites EXCEPT
            !.new = [status |-> "APPROVED", user |-> u, slot |-> s, elig |-> e,
                     discount |-> 0, year |-> year, overdue |-> TRUE,
                     direct |-> TRUE, request |-> TRUE],
            !.use = {x \in Elig : x = e /\ ~used[x]}])

\* Mutated form of Recalculates: the discount previewed at creation is kept.
RecalculatesOnlyRemoved(row, action, removed) == removed

\* The discount follows the current usage again when a plan is removed and when
\* a stay without a plan is approved.
Recalculates(row, action, removed) ==
    removed \/ (action = "APPROVE" /\ row.elig = NoElig)

\* Mutated form of Detached: the eligibility is freed but still referenced.
DetachedNever(r, removed) == {}

\* The reservation loses its eligibility when the plan is removed.
Detached(r, removed) == IF removed THEN {r} ELSE {}

\* review_reservation of a pending reservation.  remove_plan detaches the
\* special plan and frees its eligibility; an approval without a plan
\* recalculates the discount from the current usage; every approval counts as
\* a use; the owner is notified.
ReviewReservation(p, r, action, removePlan) ==
    LET row     == res[r]
        removed == removePlan /\ row.elig # NoElig
        percent == CalcDiscountPercent(UsageCount(row.user))
    IN  /\ Pending(r)
        /\ Begin(p, [NoWrites EXCEPT
              !.decide[r] = IF action = "APPROVE" THEN "APPROVED" ELSE "REJECTED",
              !.discount[r] = IF Recalculates(row, action, removed)
                                  /\ percent # row.discount THEN percent ELSE Same,
              !.dropElig = Detached(r, removed),
              !.free = IF removed THEN {row.elig} ELSE {},
              !.wins[row.user] = IF action = "APPROVE" THEN 1 ELSE 0,
              !.seen[row.user] = IF action = "APPROVE" THEN UsageCount(row.user) ELSE 0,
              !.reviewed = TRUE,
              !.note = action])

\* Mutated form of Cancellable: an approved stay can be cancelled too.
CancellableLive(r) == res[r].status \in Live

\* if res.status != "PENDING": raise
Cancellable(r) == Pending(r)

\* cancel_reservation: the owner withdraws a pending reservation; an
\* eligibility it used up stays used.
CancelReservation(p, r) ==
    /\ Cancellable(r)
    /\ Begin(p, [NoWrites EXCEPT !.decide[r] = "CANCELLED",
                                 !.note = "RESERVATION_CANCELLED"])

-----------------------------------------------------------------------------
(* The expiry job.                                                         *)

\* Mutated form of Overdue: the deadline is compared the wrong way round.
NotYetDue == {r \in Res : Pending(r) /\ ~res[r].overdue}

\* status == "PENDING" and admin_deadline_at < now
Overdue == {r \in Res : Pending(r) /\ res[r].overdue}

\* groups: one for every stay some overdue reservation is for.
Groups == {StayOf(r) : r \in Overdue}

\* The count the job reads for user u when it reaches group g, with the groups
\* before it decided as in winner.  The increments of this run show through
\* the session only when the counter has a row: a counter added in this run is
\* not flushed, and the next SELECT finds none.
CountInRun(u, g, order, winner) ==
    UsageCount(u) +
    IF UsageCount(u) = 0 THEN 0
    ELSE Cardinality({h \in Groups : order[h] < order[g] /\ res[winner[h]].user = u})

\* Mutated form of Beats: the oldest reservation wins whoever made it.
BeatsByAge(w, r, g, order, winner) == w <= r

\* Mutated form of Beats: the most frequent guest wins.
BeatsByMostUse(w, r, g, order, winner) ==
    LET cw == CountInRun(res[w].user, g, order, winner)
        cr == CountInRun(res[r].user, g, order, winner)
    IN  cw > cr \/ (cw = cr /\ w <= r)

\* scored.sort by (usage count, created_at); ids are issued in the order of
\* created_at.
Beats(w, r, g, order, winner) ==
    LET cw == CountInRun(res[w].user, g, order, winner)
        cr == CountInRun(res[r].user, g, order, winner)
    IN  cw < cr \/ (cw = cr /\ w <= r)

\* winner names the reservation approved in every group, when the groups are
\* processed in the given order.
IsOutcome(order, winner) ==
    \A g \in Groups :
        /\ StayOf(winner[g]) = g
        /\ \A r \in Overdue : StayOf(r) = g => Beats(winner[g], r, g, order, winner)

\* The orders in which a run may meet the groups: the SELECT has no ORDER BY.
Orders ==
    {order \in [Groups -> 1 .. Cardinality(Groups)] :
        \A g, h \in Groups : order[g] = order[h] => g = h}

\* expire_pending_reservations: in every group of overdue reservations the one
\* whose owner has the fewest uses is approved, with its discount recalculated
\* and the use counted, and the others expire.  One commit ends the run.
ExpirePending ==
    /\ Overdue # {}
    /\ \E order \in Orders, winner \in [Groups -> Overdue] :
        LET winners == {winner[g] : g \in Groups}
            wins(u) == Cardinality({r \in winners : res[r].user = u})
            percent(r) == CalcDiscountPercent(
                              CountInRun(res[r].user, StayOf(r), order, winner))
        IN  /\ IsOutcome(order, winner)
            /\ Begin(Job, [NoWrites EXCEPT
                  !.decide = [r \in Res |-> IF r \in winners THEN "APPROVED"
                                            ELSE IF r \in Overdue THEN "EXPIRED"
                                            ELSE Keep],
                  !.discount = [r \in Res |->
                        IF r \in winners /\ res[r].elig = NoElig
                                         /\ percent(r) # res[r].discount
                        THEN percent(r) ELSE Same],
                  !.wins = [u \in User |-> wins(u)],
                  !.seen = [u \in User |-> IF wins(u) = 0 THEN 0 ELSE UsageCount(u)],
                  !.reviewed = TRUE])

-----------------------------------------------------------------------------
(* The end of a transaction.                                               *)

Updates(t) == {r \in Res : t.decide[r] # Keep}
Counted(t) == {u \in User : t.wins[u] > 0}

\* The id a row inserted now would get: ids are issued in order (auto-increment).
NextIds == {n \in Res : res[n] = NoRow /\ \A r \in 1 .. n - 1 : res[r] # NoRow}

\* The id of the row the transaction inserts, 0 when it inserts none.
NewIds(t) == IF t.new = NoRow THEN {0} ELSE NextIds

\* The commit of t changes a row that transaction o is about to update.  A
\* usage counter that o is about to insert is not such a row.
Overlap(t, o) ==
    \/ Updates(t) \cap Updates(o) # {}
    \/ (t.use \cup t.free) \cap (o.use \cup o.free) # {}
    \/ t.year = o.year /\ Counted(t) \cap {u \in Counted(o) : o.seen[u] > 0} # {}

\* Error 1020 of innodb_snapshot_isolation: the transaction updates a row that
\* another one changed since the snapshot.
Conflict(p) == FirstUpdaterWins /\ stale[p]

\* Mutated form of UsageClash: no unique key on (user_id, year).
NoUsageClash(t) == FALSE

\* uq_discount_user_year: _increment_usage found no row and inserts one, but
\* the transaction inserts it twice or another one has inserted it since.
UsageClash(t) ==
    \E u \in Counted(t) : t.seen[u] = 0 /\ (t.wins[u] > 1 \/ usage[u][t.year] > 0)

\* The columns that the transaction updates in row r.
Updated(r, t) ==
    IF t.decide[r] = Keep THEN res[r]
    ELSE [res[r] EXCEPT !.status = t.decide[r],
                        !.discount = IF t.discount[r] = Same THEN @ ELSE t.discount[r],
                        !.elig = IF r \in t.dropElig THEN NoElig ELSE @,
                        !.year = IF t.reviewed THEN t.year ELSE @]

\* Mutated form of NewUsage: the counter is not incremented.
UncountedUsage(u, t) == usage[u]

\* The counter is written as a literal computed from the value that was read.
NewUsage(u, t) ==
    IF t.wins[u] = 0 THEN usage[u]
    ELSE [usage[u] EXCEPT ![t.year] = t.seen[u] + t.wins[u]]

\* db.commit(): the unit of work is flushed, one INSERT or UPDATE per row, and
\* committed.
Commit(p) ==
    LET t == txn[p]
    IN  /\ t.open
        /\ ~Conflict(p)
        /\ ~UsageClash(t)
        /\ \E n \in NewIds(t) :
            /\ res' = [r \in Res |-> IF r = n THEN t.new ELSE Updated(r, t)]
            /\ notes' = notes \cup {<<r, t.note>> : r \in {x \in Res :
                                    t.note # "NONE" /\ (x = n \/ x \in Updates(t))}}
        /\ usage' = [u \in User |-> NewUsage(u, t)]
        /\ used' = [e \in Elig |-> e \in t.use \/ (used[e] /\ e \notin t.free)]
        /\ txn' = [txn EXCEPT ![p] = NoTxn]
        /\ stale' = [q \in Proc |-> q # p /\ txn[q].open
                                   /\ (stale[q] \/ Overlap(t, txn[q]))]
        /\ UNCHANGED <<rooms, year>>

\* The session is closed without a commit.
Rollback(p) ==
    /\ txn[p].open
    /\ txn' = [txn EXCEPT ![p] = NoTxn]
    /\ stale' = [stale EXCEPT ![p] = FALSE]
    /\ UNCHANGED <<db, rooms, year>>

-----------------------------------------------------------------------------
(* The rooms, and time.                                                    *)

\* set_rooms and set_availability: the total or the blocked rooms become what
\* the administrator gave, however many are reserved.  What they write depends on
\* nothing they read and no handler above writes it, so one step is enough.
RoomsChange(s) ==
    /\ \E n \in RoomCounts \ {rooms[s]} : rooms' = [rooms EXCEPT ![s] = n]
    /\ UNCHANGED <<db, year, txn, stale>>

\* 72 hours pass without a decision.
DeadlinePasses(r) ==
    /\ Pending(r) /\ ~res[r].overdue
    /\ res' = [res EXCEPT ![r].overdue = TRUE]
    /\ UNCHANGED <<usage, used, notes, rooms, year, txn, stale>>

\* _get_shamsi_year: the usage counters of a new year start without a row.
NewYear ==
    /\ year < LastYear
    /\ year' = year + 1
    /\ UNCHANGED <<db, rooms, txn, stale>>

-----------------------------------------------------------------------------

Request(p) ==
    \/ \E u \in User, s \in Slot, plan \in BOOLEAN : CreateReservation(p, u, s, plan)
    \/ \E u \in User, s \in Slot, st \in AdminStatus : AdminCreateReservation(p, u, s, st)
    \/ \E u \in User, s \in Slot, e \in Elig \cup {NoElig} : ReviewPlanRequest(p, u, s, e)
    \/ \E r \in Res, a \in {"APPROVE", "REJECT"}, plan \in BOOLEAN :
            ReviewReservation(p, r, a, plan)
    \/ \E r \in Res : CancelReservation(p, r)

Next ==
    \/ \E p \in Worker : Request(p)
    \/ ExpirePending
    \/ \E p \in Proc : Commit(p) \/ Rollback(p)
    \/ \E s \in Slot : RoomsChange(s)
    \/ \E r \in Res : DeadlinePasses(r)
    \/ NewYear

Spec == Init /\ [][Next]_vars

\* The cron loop runs the job again and again, and neither its container nor
\* its database connection fails on every run.  Nothing is assumed of the API:
\* an administrator need never act.
JobSpec == Spec /\ WF_vars(ExpirePending) /\ SF_vars(Commit(Job)) /\ WF_vars(Rollback(Job))
           /\ \A r \in Res : WF_vars(DeadlinePasses(r))

-----------------------------------------------------------------------------
(* Properties.                                                             *)

\* Approvals of user u in year y that came out of a review or of the job.
Approvals(u, y) ==
    {r \in Res : /\ res[r].status = "APPROVED" /\ ~res[r].direct
                 /\ res[r].user = u /\ res[r].year = y}

\* The counter of a user and a year is the number of their reservations that
\* were approved in that year by review_reservation or by the expiry job: no
\* approval is lost or counted twice, and no reservation that ended otherwise
\* is counted (_increment_usage against the status written with it).
UsageCountsApprovals ==
    \A u \in User, y \in Year : usage[u][y] = Cardinality(Approvals(u, y))

\* The approvals of employee u in year y with discount d.
OfTier(u, y, d) == {r \in Approvals(u, y) : res[r].discount = d}

\* No two approved stays of an employee in one year have the 50% discount, and
\* no two have the 30% one, however many of them were pending together (the
\* recalculation at approval in review_reservation and in the job).
TiersGrantedOnce ==
    \A u \in User, y \in Year, d \in {30, 50} :
        Cardinality(OfTier(u, y, d)) <= 1

\* The reservations that were booked with eligibility e: the others that refer to
\* it were inserted as approved, for plan requests.
BookedWith(e) == {r \in Res : res[r] # NoRow /\ ~res[r].direct /\ res[r].elig = e}

\* However often remove_plan frees an eligibility and plan requests mark it, it
\* is booked once at a time: no two reservations that create_reservation made
\* refer to it, it is marked used while one does, and it is not marked for nothing.
EligibilityBookedOnce ==
    \A e \in Elig :
        /\ Cardinality(BookedWith(e)) <= 1
        /\ BookedWith(e) # {} => used[e]
        /\ used[e] => \E r \in Res : res[r] # NoRow /\ res[r].elig = e

\* What a notification said of a reservation stays true of it: the employee who
\* read that it was approved or rejected, or the administrators who read that
\* it was cancelled, will find it so.
NotesAreTrue ==
    \A r \in Res :
        /\ <<r, "APPROVE">> \in notes => res[r].status = "APPROVED"
        /\ <<r, "REJECT">> \in notes => res[r].status = "REJECTED"
        /\ <<r, "RESERVATION_CANCELLED">> \in notes => res[r].status = "CANCELLED"

\* The reservations that hold a room of s and passed the availability check; an
\* approved plan request is not checked.
Checked(s) ==
    {r \in Res : res[r].status \in Live /\ res[r].slot = s /\ ~res[r].request}

\* The availability check of create_reservation and admin_create_reservation never
\* lets in more reservations than a slot has had rooms.
NeverOverbooked == \A s \in Slot : Cardinality(Checked(s)) <= MaxRooms

\* How far NeverOverbooked can be missed by the check alone: by the requests that
\* were open at once, without the one that had its room, since each of them saw a
\* room free and nothing that is decided later brings a reservation back.  (The
\* stays of plan requests come on top, unchecked, and rooms may be taken away.)
CheckedBounded == \A s \in Slot : Cardinality(Checked(s)) < MaxRooms + Cardinality(Worker)

\* A reservation that was decided keeps its status: the PENDING tests of
\* review_reservation, cancel_reservation and the job hold at the commit too.
FinalStatusesAreFinal ==
    [][\A r \in Res : res[r].status \in Final => res'[r].status = res[r].status]_vars

\* Step that turns pending reservation r into status s.
Becomes(r, s) == Pending(r) /\ res'[r].status = s

\* A reservation only expires together with the approval of another one of the
\* same stay, whose owner had no more uses than the owner of the expired one
\* has now, and which was made earlier when the two are even.
ExpiryIsFair ==
    [][\A l \in Res : Becomes(l, "EXPIRED") =>
         \E w \in Res :
            /\ Becomes(w, "APPROVED") /\ StayOf(w) = StayOf(l)
            /\ LET y == res'[w].year
                   before == usage[res[w].user][y]
                   after == usage'[res[l].user][y]
               IN  before < after \/ (before = after /\ w < l)]_vars

-----------------------------------------------------------------------------
(* Why the properties hold: what every open transaction knows.             *)

\* The open transactions that will insert a reservation of slot s they checked.
Booking(s) == {p \in Proc : /\ txn[p].open /\ txn[p].new # NoRow /\ ~txn[p].new.request
                            /\ txn[p].new.slot = s /\ txn[p].new.status \in Live}

\* The bound counts the reservations that are about to be inserted as well, and
\* the job inserts none.
BookingInv ==
    /\ \A s \in Slot :
        Cardinality(Checked(s)) + Cardinality(Booking(s)) < MaxRooms + Cardinality(Worker)
    /\ txn[Job].open => txn[Job].new = NoRow

\* The reservations of user u that transaction t approves.
ApprovedBy(t, u) == {r \in Res : t.decide[r] = "APPROVED" /\ res[r].user = u}

\* t updates rows that exist; it counts the approvals it decides, under the year
\* it writes in reviewed_at; a row it inserts as approved is marked direct.
WellFormed(t) ==
    /\ \A r \in Updates(t) : res[r] # NoRow
    /\ \A u \in User : t.wins[u] = Cardinality(ApprovedBy(t, u))
    /\ \A r \in Res : t.decide[r] = "APPROVED" => t.reviewed
    /\ t.new # NoRow => /\ t.new.status = "APPROVED" => t.new.direct
                        /\ t.new.status = "PENDING" => ~t.new.direct

\* The snapshot of t still tells the truth about the rows t updates.
UpToDate(t) ==
    /\ \A r \in Updates(t) : Pending(r)
    /\ \A u \in Counted(t) : t.seen[u] > 0 => usage[u][t.year] = t.seen[u]

\* Every open transaction is well formed, and it is up to date unless another
\* commit has made it stale.
SnapshotsHold ==
    \A p \in Proc : txn[p].open =>
        WellFormed(txn[p]) /\ (~stale[p] => UpToDate(txn[p]))

\* A reservation that was inserted as approved is never pending.
PendingNotDirect == \A r \in Res : Pending(r) => ~res[r].direct

\* Inductive in every configuration of the database.
SnapshotInv == TypeOK /\ SnapshotsHold /\ PendingNotDirect

\* Inductive under first-updater-wins.
UsageInv == SnapshotInv /\ UsageCountsApprovals

\* The discount of reservation r after transaction t.
Granted(r, t) == IF t.discount[r] = Same THEN res[r].discount ELSE t.discount[r]

\* What the writes of t say agrees: t inserts a row or decides rows, never both;
\* it uses up the eligibility of the row it inserts and no other, and does so
\* unless the row is for a plan request; it takes a plan from rows it decides only,
\* and tells their owners what it decides.
Consistent(t) ==
    /\ t.new # NoRow => /\ Updates(t) = {}
                        /\ t.note \in {"NEW_RESERVATION", "NONE"}
                        /\ t.new.elig # NoElig => t.new.discount = 0
    /\ t.use \subseteq IF t.new = NoRow THEN {} ELSE {t.new.elig} \ {NoElig}
    /\ t.new # NoRow /\ ~t.new.direct => {t.new.elig} \ {NoElig} \subseteq t.use
    /\ t.dropElig \subseteq Updates(t)
    /\ \A r \in Updates(t) :
        /\ t.note = "APPROVE" => t.decide[r] = "APPROVED"
        /\ t.note = "REJECT" => t.decide[r] = "REJECTED"
        /\ t.note = "RESERVATION_CANCELLED" => t.decide[r] = "CANCELLED"

\* Reservation w wins against l in t: it is approved for the same stay, and its
\* owner had no more uses than the owner of l will have, nor as many when l is
\* older.
WinsAgainst(w, l, t) ==
    /\ t.decide[w] = "APPROVED" /\ StayOf(w) = StayOf(l)
    /\ LET before == t.seen[res[w].user]
           after  == usage[res[l].user][t.year] + t.wins[res[l].user]
       IN  before < after \/ (before = after /\ w < l)

\* What t read to decide is still true: the eligibilities it uses up are unused
\* and those it frees are held by the rows it takes them from; every discount it
\* grants is the one of the usage it read, to one reservation of an employee when
\* that usage is not 0; and every reservation it expires has lost to another.
Fresh(t) ==
    /\ \A e \in t.use : ~used[e]
    /\ \A r \in t.dropElig : res[r].elig # NoElig
    /\ t.free = {res[r].elig : r \in t.dropElig}
    /\ \A u \in User : \A r \in ApprovedBy(t, u) :
        /\ Granted(r, t) \in {0, CalcDiscountPercent(t.seen[u])}
        /\ \A x \in ApprovedBy(t, u) :
             t.seen[u] > 0 /\ Granted(r, t) # 0 /\ Granted(x, t) # 0 => r = x
    /\ \A l \in Res : t.decide[l] = "EXPIRED" => \E w \in Res : WinsAgainst(w, l, t)

\* Every open transaction is consistent, and fresh unless it is stale.
WritesHold ==
    \A p \in Proc : txn[p].open =>
        Consistent(txn[p]) /\ (~stale[p] => Fresh(txn[p]))

\* A pending reservation with a special plan has no discount.
PlanNotDiscounted ==
    \A r \in Res : Pending(r) /\ res[r].elig # NoElig => res[r].discount = 0

\* The 30% discount is not the one of the first approval.
ThirtyIsNotFirst ==
    \A u \in User, y \in Year : \A r \in Approvals(u, y) :
        res[r].discount = 30 => usage[u][y] >= 2

\* The whole of it, inductive under first-updater-wins.
IInv == /\ UsageInv /\ WritesHold /\ PlanNotDiscounted
        /\ EligibilityBookedOnce /\ NotesAreTrue
        /\ TiersGrantedOnce /\ ThirtyIsNotFirst

-----------------------------------------------------------------------------

\* The service implements the lifecycle it promises.
Lifecycle == INSTANCE ReservationLifecycle WITH
    NoUser    <- NoElig,
    status    <- [r \in Res |-> res[r].status],
    owner     <- [r \in Res |-> IF res[r] = NoRow THEN NoElig ELSE res[r].user],
    approvals <- usage

\* Reservations refine ReservationLifecycle: snapshots, retries and batches
\* never show in the statuses and the counters.
ImplementsLifecycle == Lifecycle!Spec

\* A pending reservation is decided sooner or later, whether or not anyone
\* reviews it: its deadline passes and expire_pending_reservations resolves it
\* in one of the runs of the cron loop.
PendingIsResolved == \A r \in Res : Pending(r) ~> ~Pending(r)

=============================================================================
