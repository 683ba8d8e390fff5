---------------------------- MODULE RoomCapacity ----------------------------
(***************************************************************************)
(* The rooms of one place: how many there are of every group, which are    *)
(* blocked on which dates, and the stays that hold them.  Requests run one *)
(* after the other here (Reservations has their transactions); the         *)
(* question is whether a check made night by night is right for stays that *)
(* overlap in part.                                                        *)
(***************************************************************************)
EXTENDS Integers, FiniteSets

CONSTANTS
    Group,      \* pairs <<room type, is_vip>>
    AnyType,    \* NULL in place_availability.room_type_id
    Res,        \* stays that hold a room at the same time
    LastNight,  \* nights inside the booking window
    MaxNights,  \* MAX_STAY_NIGHTS
    Totals,     \* numbers of rooms an administrator sets
    Counts,     \* numbers of rooms an administrator blocks
    BlockNight  \* nights an administrator blocks

Night == 1 .. LastNight
RoomType == {g[1] : g \in Group}

ASSUME ConstantsAssumption ==
    /\ \A g \in Group : g = <<g[1], g[2]>> /\ g[2] \in BOOLEAN
    /\ AnyType \notin RoomType
    /\ IsFiniteSet(Res)
    /\ LastNight \in Nat /\ MaxNights \in Nat
    /\ Totals \subseteq Nat /\ Counts \subseteq Nat
    /\ BlockNight \subseteq Night

VARIABLES
    total,   \* place_rooms: total_rooms of every group, NoRooms without a row
    blocks,  \* place_availability: the rows of every type and night
    stays    \* the reservations that hold a room, NoStay for an id that holds none

vars == <<total, blocks, stays>>

NoRooms == -1
NoStay == [status |-> "NONE"]

\* from is check_in_date; to is check_out_date, the day after the last night.
Stay == [status : {"PENDING", "APPROVED"}, group : Group, from : Night,
         to : Night \cup {LastNight + 1}]

\* The rows of place_availability of one type and night: how many there are, and
\* their blocked_count (several rows are inserted by one request only, so they have
\* the same).  uq_place_avail_date keeps one row per room type; NULL is no value, so
\* there may be two without a type.
Rows == [rows : 0 .. 2, count : Counts \cup {0}]
NoRows == [rows |-> 0, count |-> 0]

TypeOK ==
    /\ total \in [Group -> Totals \cup {NoRooms}]
    /\ blocks \in [RoomType \cup {AnyType} -> [Night -> Rows]]
    /\ \A t \in RoomType, n \in Night : blocks[t][n].rows <= 1
    /\ stays \in [Res -> Stay \cup {NoStay}]
    /\ \A r \in Res : stays[r] # NoStay => stays[r].from < stays[r].to

Init ==
    /\ total = [g \in Group |-> NoRooms]
    /\ blocks = [t \in RoomType \cup {AnyType} |-> [n \in Night |-> NoRows]]
    /\ stays = [r \in Res |-> NoStay]

-----------------------------------------------------------------------------
(* The capacity check.                                                     *)

SumOf(b) == b.rows * b.count

\* sum(blocked_count) of the rows of the type and of those without a type
Blocked(t, n) == SumOf(blocks[t][n]) + SumOf(blocks[AnyType][n])

\* Mutated form of Covers: the night of arrival is not counted.
CoversNotFirst(s, n) == s.from < n /\ s.to > n

\* check_in_date <= night and check_out_date > night
Covers(s, n) == s.from <= n /\ s.to > n

Held(g) == {r \in Res : stays[r] # NoStay /\ stays[r].group = g}

Reserved(g, n) == Cardinality({r \in Held(g) : Covers(stays[r], n)})

Available(g, n) == total[g] - Blocked(g[1], n) - Reserved(g, n)

\* Whether a stay passes the check: the group has rooms, and one is available on
\* every night.
CanBook(g, from, to) ==
    total[g] > 0 /\ \A n \in from .. to - 1 : Available(g, n) > 0

-----------------------------------------------------------------------------
(* The handlers.                                                           *)

Insert(r, g, from, to, status) ==
    /\ stays[r] = NoStay
    /\ stays' = [stays EXCEPT ![r] = [status |-> status, group |-> g,
                                      from |-> from, to |-> to]]
    /\ UNCHANGED <<total, blocks>>

\* create_reservation
CreateReservation(r, g, from, to) ==
    /\ from < to /\ to - from <= MaxNights
    /\ CanBook(g, from, to)
    /\ Insert(r, g, from, to, "PENDING")

\* admin_create_reservation: no limit on the nights.  (A status that holds no
\* room leaves this model as it is.)
AdminCreateReservation(r, g, from, to, status) ==
    /\ from < to
    /\ CanBook(g, from, to)
    /\ Insert(r, g, from, to, status)

\* review_plan_request approves: the group must have a row, nothing is counted.
ApprovePlanRequest(r, g, from, to) ==
    /\ g[2] = FALSE /\ total[g] # NoRooms
    /\ from < to
    /\ Insert(r, g, from, to, "APPROVED")

\* A review, a cancellation or the expiry job decides a pending reservation: it
\* is approved and keeps its room, or it holds none any more.
Decide(r) ==
    /\ stays[r].status = "PENDING"
    /\ \E s \in {[stays[r] EXCEPT !.status = "APPROVED"], NoStay} :
            stays' = [stays EXCEPT ![r] = s]
    /\ UNCHANGED <<total, blocks>>

\* set_rooms: the rows of some groups are inserted or updated, whatever is
\* reserved in them.
SetRooms(groups, rooms) ==
    /\ total' = [g \in Group |-> IF g \in groups THEN rooms[g] ELSE total[g]]
    /\ UNCHANGED <<blocks, stays>>

\* Mutated form of KeyClash: the table has no unique key.
NoKeyClash(t, n, twice) == FALSE

\* A request that names a night twice inserts two rows for it (the session does
\* not flush between its lookups), which uq_place_avail_date refuses.
KeyClash(t, n, twice) == t # AnyType /\ n \in twice /\ blocks[t][n].rows = 0

\* The rows of a night after set_availability.
Upserted(b, count, again) ==
    [rows |-> IF b.rows = 0 /\ again THEN 2 ELSE 1, count |-> count]

\* set_availability: for every night its row is updated, or inserted when there
\* is none; scalar_one_or_none fails when there are several.
SetAvailability(t, nights, twice, count) ==
    /\ \A n \in nights : blocks[t][n].rows <= 1 /\ ~KeyClash(t, n, twice)
    /\ blocks' = [blocks EXCEPT ![t] = [n \in Night |->
            IF n \in nights THEN Upserted(blocks[t][n], count, n \in twice)
            ELSE blocks[t][n]]]
    /\ UNCHANGED <<total, stays>>

-----------------------------------------------------------------------------

Next ==
    \/ \E r \in Res, g \in Group, from \in Night, to \in 2 .. LastNight + 1 :
            \/ CreateReservation(r, g, from, to)
            \/ \E s \in {"PENDING", "APPROVED"} :
                    AdminCreateReservation(r, g, from, to, s)
            \/ ApprovePlanRequest(r, g, from, to)
    \/ \E r \in Res : Decide(r)
    \/ \E groups \in SUBSET Group \ {{}}, rooms \in [Group -> Totals] :
            SetRooms(groups, rooms)
    \/ \E t \in RoomType \cup {AnyType}, nights \in SUBSET BlockNight \ {{}},
          count \in Counts :
            \E twice \in SUBSET nights : SetAvailability(t, nights, twice, count)

Spec == Init /\ [][Next]_vars

-----------------------------------------------------------------------------
(* What the application shows.                                             *)

\* Mutated form of UnavailableDates: a night without a room left is offered.
UnavailableTooLate(types, vip) ==
    {n \in Night : \A g \in Group :
        g[1] \in types /\ g[2] = vip /\ total[g] # NoRooms => Available(g, n) < 0}

\* get_unavailable_dates: the nights on which no group of the place has a room,
\* of one type or of all of them.
UnavailableDates(types, vip) ==
    {n \in Night : \A g \in Group :
        g[1] \in types /\ g[2] = vip /\ total[g] # NoRooms => Available(g, n) <= 0}

\* available_count of a row of get_reservations_calendar.
CalendarCount(g, n) == IF Available(g, n) > 0 THEN Available(g, n) ELSE 0

-----------------------------------------------------------------------------
(* Properties.                                                             *)

\* This step books a stay through the check, for an employee or an administrator.
Books(r) ==
    /\ stays[r] = NoStay /\ stays'[r] # NoStay
    /\ LET s == stays'[r]
       IN  \/ CreateReservation(r, s.group, s.from, s.to)
           \/ AdminCreateReservation(r, s.group, s.from, s.to, s.status)

\* The stays of group g can be given single rooms so that nobody changes room,
\* nobody shares one, and on every night the blocked rooms are free of guests.
Housed(g) ==
    \E room \in [Held(g) -> 1 .. total[g]] :
        \A n \in Night :
            LET here == {r \in Held(g) : n \in stays[r].from .. stays[r].to - 1}
            IN  here # {} =>
                    /\ \A r, s \in here : r # s => room[r] # room[s]
                    /\ Cardinality(here) + Blocked(g[1], n) <= total[g]

\* A stay that passes the check (create_reservation, admin_create_reservation)
\* never takes from the others the rooms they could be given: counting night by
\* night is enough, however the stays overlap and whatever was blocked before.
BookingKeepsHousing ==
    [][\A r \in Res, g \in Group : Books(r) /\ Housed(g) => Housed(g)']_stays

\* The three copies of the capacity query agree: a stay passes the check exactly
\* when none of its nights is listed as unavailable for its group, and when the
\* calendar shows a room on each; and a night listed as unavailable for the
\* place as a whole is refused to every group.
ListsAgree ==
    \A g \in Group, from \in Night, to \in 2 .. LastNight + 1 : from < to =>
        LET nights == from .. to - 1
        IN  /\ CanBook(g, from, to) <=>
                    nights \cap UnavailableDates({g[1]}, g[2]) = {}
            /\ CanBook(g, from, to) <=> \A n \in nights : CalendarCount(g, n) > 0
            /\ nights \cap UnavailableDates(RoomType, g[2]) # {}
                    => ~CanBook(g, from, to)

=============================================================================
