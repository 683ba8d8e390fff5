# StaffHub in TLA+

StaffHub is the welfare portal of a group of organisations: employees book
stays in the group's guest houses, administrators review the bookings, and a
cron job decides what nobody reviewed. It is a FastAPI application over
SQLAlchemy and MySQL/MariaDB. This directory holds TLA+ models of its core
logic, TLC configurations that check them on small instances, and theorems
checked by TLAPS.

Paths below are relative to the repository (`src/modules/...` is the
application, `db/models/...` the tables).

## 1. Inventory

### How the program runs

* `docker-entrypoint.sh` starts gunicorn with four worker processes; the
  handlers are synchronous functions that run in thread pools, so requests run
  concurrently, in threads and in processes. A `cron` container runs
  `scripts/expire_reservations.py` every hour, forever, ignoring failures.
* Every request and every run of the job has one session
  (`src/core/database.py`): one transaction, `autoflush=False`, closed without
  a commit when anything fails. There are no row locks, no version columns and no
  retries. What two requests may do to each other is decided by the database's
  isolation: all reads come from the snapshot opened by the first SELECT
  (`get_current_user`), all writes are flushed at `db.commit()` as UPDATEs by
  primary key of the columns that changed.
* The database is MySQL 8 in the documents and `mariadb:11` in
  `docker-compose.yml`. From MariaDB 11.6.2 on, `innodb_snapshot_isolation` is on by
  default and an UPDATE of a row that changed since the snapshot fails (the
  first updater wins); before it, and on MySQL, the later UPDATE overwrites.
  The models have this as a constant and the results differ.

### Components

| Component | State | Operations | Hard behaviour | What makes it correct |
|---|---|---|---|---|
| Reservations (`accommodation/service.py` 484-1016, 1103-1146) | `reservations` | create, admin create, review, cancel, expiry job | handlers decide on snapshots; job against late reviews; batches | a decision is taken once; expiry is fair; every pending reservation is decided |
| Discounts (76-107) | `discount_usage` | count, increment at approval | read-modify-write of a counter; insert or update; New Year | every approval counted once; each tier given once a year |
| Eligibilities and special plans (387-479, 1151-1353) | `org_special_plans`, `user_plan_eligibility`, `special_plan_requests` | grant, use, free, request, review | an eligibility has a flag and several referrers | booked once at a time; one pending request per plan |
| Rooms and availability (166-349, 547-585, 680-755) | `place_rooms`, `place_availability` | set rooms, block dates, capacity check, calendar | check then insert; overlapping stays; NULL room type | no night oversold; listed dates agree with the check |
| Pricing (354-381, 614-628) | `pricing_rules` | create rule, price of a stay | overlapping rules | the newest applicable rule |
| Users and families (`users/service.py`) | `users`, `user_profiles`, `user_children`, `user_roles` | create, update, deactivate, add child, assign roles | increments from stale reads; grants on a change of status; two creates of one name; two assignments of roles; updates of an account deactivated meanwhile | the number of children is the children; one grant per event; one account per name, two roles per account; a deactivation holds |
| Authentication (`auth/service.py`) | tokens; one-time passwords in the memory of a worker | login, refresh, send, verify | store per process; two verifications of one code; restarts of workers | a used code or an inactive account gets no tokens; a good code does |
| Notifications (`notifications/service.py`) | `notifications` | create, notify admins, mark read | written with the change they report | what they say is true |
| Banners (1358-1415) | `banners` | create, update, delete | two activations at once, or one and an edit | at most one active; the portal does not lose its banner by accident |
| Lists (`core/pagination.py` and nine endpoints) | pages of a query | list | pages are offsets into a list that changes | nothing is missed but what moved |
| Ratings, analytics, exports | `place_ratings` | upsert, queries | unique key | - |

`PROJECT.json` lists the components with what is modelled of each, and under
`hazards` every place where this code is hard to test.

## 2. Modules

| Module | Models | Extends |
|---|---|---|
| `Discounts` | tiers and the discounted price, as pure operators | |
| `Reservations` | reservations, usage counters, eligibilities and their notifications, at the level of transactions | `Discounts` |
| `ReservationLifecycle` | what the service promises, with no transactions: the abstract specification | |
| `RoomCapacity` | rooms, blocked dates and overlapping stays of one place | |
| `SpecialPlans` | the eligibilities and plan requests of one employee, with the life events that grant them | |
| `Banners` | the banner of the portal, with bulk UPDATEs and their locks | |
| `Accounts` | one username: its account, its roles, and its logins by one-time password in several workers | |
| `Listings` | a client that walks through a paginated list | |
| `MCReservations`, `MCRoomCapacity`, `MCSpecialPlans`, `MCBanners`, `MCAccounts` | the instances TLC checks | |
| `ReservationsProofs` | types, snapshots, decisions and counters of `Reservations` | `Reservations` |
| `EntitlementsProofs` | the whole inductive invariant of `Reservations`: eligibilities, tiers, notifications, expiry | `ReservationsProofs` |
| `LifecycleProofs` | `Reservations` implements `ReservationLifecycle` | `EntitlementsProofs` |
| `SpecialPlansProofs`, `RoomCapacityProofs`, `BannersProofs`, `AccountsProofs`, `ListingsProofs` | theorems about the other modules | the module |

`Reservations` composes reservations, discounts and eligibilities, since one commit changes all three;
the other modules share no state that one of their properties is about. Three writes occur in two
modules, since they bear on the properties of both: the stays of plan requests, the eligibilities and
the number of rooms.

Definitions called "mutated form of X" are what a plausible bug would make of X;
no specification uses them. They are there to show that each property notices a
bug of its kind (`PROJECT.json`, `mutants`).

### Reservations

A row of the table is `res[r]`, an id that was never issued is `NoRow`.
A *stay* (place, room type and dates) is one value: here two stays are the same or do
not compete. A *slot* is a stay in ordinary or in VIP rooms, `<<stay, is_vip>>`: each has rooms of
its own (`rooms[s]`, the total less what is blocked), which the availability check
counts, while the job groups by the stay alone, VIP or not (`StayOf`). `usage[u][y]` is `usage_count`, 0 when there is no
row; `used[e]` is `is_used`; `notes` are the notifications as pairs of
a reservation and what they say; `year` is what `_get_shamsi_year` returns.
`direct` and `request` are history bits, no columns: the row was inserted as approved, and it was
inserted for a plan request.

A handler is one action: it evaluates the guards of the code on the state it
runs in, which is its snapshot, and leaves its pending writes in `txn[p]`.
`Commit(p)` flushes and commits them; `Rollback(p)` is every other end of a
transaction. Between the two any other process may commit: `stale[p]` then says
that a row `p` is about to update has changed, and under first-updater-wins
`p` cannot commit any more. Without it `p` overwrites exactly the columns it
set. `UsageClash` is the unique key of `discount_usage`.

| Action | Code |
|---|---|
| `CreateReservation` | `create_reservation` |
| `AdminCreateReservation` | `admin_create_reservation` |
| `ReviewReservation` | `review_reservation`, with `remove_plan` |
| `CancelReservation` | `cancel_reservation` |
| `ReviewPlanRequest` | `review_plan_request`, when it approves: the stay it inserts without a look at the rooms, the eligibility it refers to |
| `ExpirePending` | `expire_pending_reservations` |
| `Commit`, `Rollback` | `db.commit()`, the end of `get_db` |
| `RoomsChange` | `set_rooms`, `set_availability` |
| `DeadlinePasses`, `NewYear` | the clock |

The job is worth a remark. `_increment_usage` changes the counter in the
session; the next `_get_usage_count` of the same run sees the change when the
counter has a row, and does not when the row was only added (it is not
flushed). `CountInRun` models both, and `winner` is therefore defined by a
condition on all groups, in any order in which the SELECT may return them.

Left out: prices (they follow from the discount), names and guests, the plan requests
themselves (that one is approved once, and which eligibility it found, is `SpecialPlans`; here
any eligibility of the employee may be the one), the checks on organisation, persons and dates that read nothing another handler of
this model changes (a request that fails them changes nothing), the
`created_at` of a reservation (ids are issued in that order).

### RoomCapacity

One place, with a row of `place_rooms` per group (room type, VIP or not), the rows of
`place_availability` per date, and the stays that hold rooms. Here every
request runs alone: what open transactions do to each other is the subject of
`Reservations`, and the question here is whether the check itself is right when stays
overlap in part. `Housed` says it without counting: the stays and the blocked rooms
of every group can be given to single rooms so that nobody moves and no room is
taken twice. `Decide` stands for review, cancellation and expiry.

### SpecialPlans

One employee. Every table is a sequence of rows in the order of their ids
(`db["elig"]`, `db["stays"]`, ...). As in `Reservations` a handler is an action that
reads its snapshot and leaves pending writes, here in a generic form: the rows
that differ from the database at the flush (`upd`, by table and id) and the
rows it inserts (`ins`). A commit that changes a row makes every transaction that is about to
update the same row stale, and a stale one cannot commit: this module assumes
first-updater-wins throughout. A stay has one history column, the plan request it was
inserted for (in the code the request refers to the stay).

| Action | Code |
|---|---|
| `UpdateUser` | `update_user`, with the grant for a marriage |
| `AddChild` | `add_child`, with the grant for a birth |
| `CreateReservation` | `create_reservation` with `use_special_plan`; `types` are the plans that include the place |
| `ReviewReservation`, `CancelReservation`, `ExpirePending` | what they do to the stay and its eligibility |
| `CreatePlanRequest`, `ReviewPlanRequest` | the same |
| `PlanChanges` | `create_org_special_plan`, `update_org_special_plan`, and the days of the window |
| `Commit`, `Rollback` | the end of a transaction |

A plan is `UPCOMING` before `eligible_from`: `grant_user_plan_eligibility` only
looks at `eligible_until`, so an upcoming plan grants, and cannot be used yet (section 3, "Also seen").

### Banners

Creating or activating a banner first executes `UPDATE banners SET is_active = 0
WHERE ...`. Such a statement is not a write of the unit of work: it is executed
at once (`Sweep`), on the rows as they are committed and not on the snapshot, and it
locks the rows it scans until the transaction ends. No index covers `is_active`. The statement
of `create_banner` scans the table; that of `update_banner` also says
`id <> banner_id`, and may scan the two ranges of the primary key around the banner
instead, which leaves the banner itself unlocked. `Sweep` allows both. What follows
is the flush: `FlagWritten` says that SQLAlchemy writes `is_active` only when it
differs from the loaded value, so that an activation may sweep the others and
then write nothing. `fuw`, chosen in `Init`, is the mode of the database; `changed[p]`
are the rows that changed since the snapshot of `p`.

| Action | Code |
|---|---|
| `CreateBanner`, `UpdateBanner`, `DeleteBanner` | the reads at the start of the handlers |
| `Sweep` | the bulk UPDATE |
| `CommitCreate`, `CommitUpdate`, `CommitDelete` | flush and commit |
| `Rollback` | a conflict, a deadlock, a failure |

### Accounts

One username. `users` and `roles` are the rows of `users` with that name and their
`user_roles`; `store[w]` is `_otp_store[username]` in the worker `w`. Codes are numbered
as they are sent: a guess of another code is a wrong code. Changes of the account
are transactions that read a snapshot and write at the commit the columns that
changed (`Merged`); only the DELETE of `assign_roles` is executed at once
(`DeleteRoles`) and holds the roles of the user until the end. The
module has no first-updater-wins: a database that refuses a commit is covered by
`Rollback`, so what holds here holds in both modes. A verification is a
sequence of steps in a thread (`VerifyOtp` reads the store, `Refuse` or `Check`
compares, `Drop` removes whatever the store has by then, `Finish` reads the account in a fresh
snapshot), as the GIL may switch threads between any two of them. `Expire` makes a
code too old, `Restart` empties the store of a worker. `spent`, and `late` and `good` of a
request, are history.

| Action | Code |
|---|---|
| `CreateUser`, `UpdateUser`, `DeactivateUser`, `AssignRoles` | the reads and guards of the handlers |
| `DeleteRoles`, `Commit`, `Rollback` | the DELETE, the commit, every other end |
| `SendOtp`, `StoreCode` | `send_otp` |
| `VerifyOtp`, `Refuse`, `Check`, `Drop`, `Finish` | `verify_otp` |

Left out: logins by password and token refresh, which only read the account, and
the permissions of the administrators.

### Listings

One walk through one list. A page is a request with a snapshot of its own: it counts the
matching rows and reads those at its offset (`Page`, `TotalPages`). Ids are given by the
insert and rows become visible by their commit, in whatever order (`Insert`,
`Settle`); `Close` is whatever takes a row out of a filtered list (a review of a
pending reservation, a deactivation), `Reopen` what brings one back. All the lists
sort by a single column, so that rows with equal keys may come in a different order in
every statement (`Orders`). Nine list functions have this shape; the map of `PROJECT.json` names for each definition one of
them in which its lines are. The properties speak of columns that tell the rows
apart (`Strict`): for the others the database promises nothing, and a walk
sorted by status, or by a `created_at` that two rows share, may miss rows although nothing changed.

## 3. Runs

All runs but the violations finish with no error. `CHECK_DEADLOCK FALSE` is set
throughout: requests may stop coming and reservation ids are bounded.

| Run | Instance | Shows |
|---|---|---|
| `Races` | 2 threads and the job, 1 employee, 1 stay with 2 rooms, 1 eligibility, 2 reservations, 2 years | `FinalStatusesAreFinal`, `NotesAreTrue`, `EligibilityBookedOnce`, `UsageCountsApprovals`, `ImplementsLifecycle`, the invariants `IInv` and `BookingInv` of the proofs |
| `Expiry` | 1 thread and the job, 2 employees, 2 stays, 3 reservations | `ExpiryIsFair`, `TiersGrantedOnce`, `TypeOK`, the invariant `IInv` of the proofs |
| `PendingResolved` | the job's fairness, 1 thread, 2 employees, 1 stay, ordinary and VIP, with 0 or 1 room each | `PendingIsResolved`, `CheckedBounded` |
| `Housing` | 2 groups (ordinary and VIP), 3 nights, 1 or 2 rooms, 3 stays | `BookingKeepsHousing`, `ListsAgree`, `TypeOK` |
| `Plans` | 2 processes, transactions opened at up to 3 rows | `ChildrenCounted`, `GrantsFollowEvents`, `UsedIsReferred`, `BookedOnce`, `RequestsAreServed`, `PendingRequestsBounded`, `TypeOK`, what the proofs add to them (`Strengthening`) |
| `Banners` | 2 threads, 3 banners, both modes | `AtMostOneActive`, `NeverGoesDark`, the inductive invariant `IInv` |
| `Logins` | 2 threads, 2 workers, 3 roles, 2 codes | `OneUserPerName`, `AtMostTwoRoles`, `DeactivationHolds`, `LateVerificationFails`, the inductive invariant `IInv` |
| `Pages` | 4 rows, pages of 2, walks of up to 3 pages, 2 rows that leave | `MissedAreShifted`, `QuietWalkIsExact`, `TypeOK`, the inductive invariant `IInv` |
| `Overbooking` | 2 threads, 1 room | violation of `NeverOverbooked` |
| `PoisonedRun` | 1 employee, 2 stays | violation of `PendingIsResolved` |
| `HeldTwice` | 1 process, 4 rows | violation of `OneStayPerEligibility` |
| `GoodCodeRefused` | 1 thread, 2 workers | violation of `GoodCodeAccepted` |

Why the bounds are enough. Two open transactions and a third commit between
them (the job) already give every order of read and commit that a conflict
needs; three approvals of one employee pass through all three tiers; two years let
a transaction be open over New Year; three nights give stays that
overlap in part, contain one another and only touch. `MaxRows` bounds the
rows there are when a transaction of `SpecialPlans` opens, not when it commits: two transactions that
are open together may both insert, which is what the races need (two
marriages recorded at once, two approvals of one request, two requests for one plan). The bounds of
`CheckedBounded` and `PendingRequestsBounded` are attained: `PendingResolved` has one thread, which fills
the room there is and must not book it again, while the room is closed and opened, plan requests take it
unchecked and the job approves; in `Races` two threads book at once
(`BookingInv` counts the bookings that are open too), and the `Overbooking` run goes one beyond the room there
is, which is all that two threads can do past the check; in `Plans` two processes ask for one plan, and
the plan of one type is also `UPCOMING` at times (an upcoming plan grants whatever its type is). `Races`,
`Expiry` and `PendingResolved` share out what one instance cannot have all at once: the number of rooms and VIP rooms
vary in the last, eligibilities and years in the first, stays and employees in the second. `MaxReservations` bounds the
rows ever inserted, `LastYear` the years; nothing else is bounded in
`Reservations`. In `RoomCapacity`, `Res` bounds the stays that hold rooms at one time.
Three banners are one that is created, one that is activated and one that was active;
two threads, since what a third one could lock it would have to lock against one
of them (and the theorems are for any number). Two codes are an old one and one sent
over it, two workers one that has a code and one that has not; three roles are more than one
user may have. Four rows in pages of two are full pages, and three rows one that is not;
`MaxLeft` bounds the rows that leave during a walk, `MaxPages` the pages a walk
reads, so that a walk may be cut short, as clients do.

Fairness (`JobSpec`). The cron loop runs the job again and again (weak fairness of
`ExpirePending`), a deadline passes (weak fairness of `DeadlinePasses`), a run
ends (weak fairness of `Rollback(Job)`) and does not fail every time for reasons
outside the model (strong fairness of `Commit(Job)`: when a commit is possible
again and again, some run commits). Nothing is assumed of requests: the
document promises a decision when administrators do nothing.

### What the violations show

* `Overbooking`: the capacity check is a count on a snapshot and the insert conflicts
  with nothing, so two requests that overlap take the last room twice, in
  every configuration of the database
  (`docs/business-logic-en.md:188`, `:334`). Of the reservations that passed the check, which are
  those that `NeverOverbooked` counts, `n` threads make at most `n - 1` more than there ever were
  rooms (`CheckedBounded`, section 4). It is no bound on how far a stay is overbooked: approvals of plan requests
  insert reservations that nothing checks, one after the other, and `set_rooms` and
  `set_availability` take rooms away that are reserved. No document promises otherwise of either, so that no run
  states it.
* `PoisonedRun`: one employee with no counter for the year wins two stays in the
  same run. Two rows for one (user, year) are inserted, the unique key refuses
  them, and the run is rolled back as a whole. The next run meets the same
  reservations. As long as nobody reviews or cancels one of them, and no approval
  gives the employee a counter, no reservation of anybody is
  resolved any more (`docs/business-logic-en.md:434`).
* `HeldTwice`: a plan request names an eligibility and leaves it unused; a reservation
  made while the request is pending uses it up; the approval of the request uses it
  again (`docs/business-logic-en.md:265`). No concurrency is needed. A `remove_plan` of the
  reservation would then free the eligibility for a third stay. Plan requests are the only
  way to this: of the stays under one eligibility the employee booked one at most (`BookedOnce`).
* `GoodCodeRefused`: `docker-entrypoint.sh:8` starts four workers, each with an
  `_otp_store` of its own (`src/modules/auth/service.py:20`). The verification of
  the last code sent, valid and unused, is refused by every worker but the one that sent it
  (`docs/business-logic-en.md:59`), and by all of them after a restart.

Also seen while modelling, in steps that `RoomCapacity` and `Reservations` have but
that no run states a property about: `place_availability.room_type_id` NULL "means
entire place is blocked on this date" (`db/models/accommodation.py:126`), but the check only
subtracts `blocked_count` from every group; the unique key of that table
(`db/DATABASE_DESIGN.md:401`) does not cover NULL, so that a request that names a date twice
inserts two rows and the lookup of `set_availability` fails for that date from then on;
with `FirstUpdaterWins = FALSE` two concurrent approvals read the same usage
count and give the same tier twice; and there is no bound on checked reservations either then, since a late approval that
overwrites a rejection or a cancellation brings a reservation back whose room was given away. Two
plan requests of one type that are created at once are both pending afterwards, and from then on
`scalar_one_or_none` raises instead of refusing the next one politely (`accommodation/service.py:1187`); there
are never more of them than threads (`PendingRequestsBounded`).

One more disagreement that no run states as a violation: for the automatic grant of an eligibility "today's date must be within
the plan's validity window" (`docs/business-logic-en.md:259`), but `grant_user_plan_eligibility`
(`accommodation/service.py:471`) only compares today with `eligible_until`: a marriage or a birth before
`eligible_from` grants too. `GrantsFollowEvents` has the window of the code, in which a plan is `UPCOMING` or
`OPEN`; with the document's, `OPEN` alone, it would not hold.

## 4. Proofs

Every safety property of a passing run is also a theorem, for any sets of users, stays,
eligibilities, threads, workers, roles, room groups and rows, and any bounds. In all modules but the first three
nothing is assumed but the named assumption of the module on its constants (of threads and
processes: that they are finitely many); `FUW` below
is the assumption `FirstUpdaterWins = TRUE`. `SpecialPlans` has first-updater-wins built in, so that all its theorems are
about that configuration of the database alone.

| Module | Theorem | States |
|---|---|---|
| `ReservationsProofs` | `TypeCorrect` | `Spec => []TypeOK` |
| | `SnapshotsCorrect` | `Spec => []SnapshotInv` |
| | `DecisionsAreFinal` (FUW) | `Spec => FinalStatusesAreFinal` |
| | `UsageCorrect` (FUW) | `Spec => []UsageCountsApprovals` |
| | `BookingCorrect`, `CheckedCorrect` (FUW) | `Spec => []` of `BookingInv`, `CheckedBounded` |
| `EntitlementsProofs` | `InvariantCorrect` (FUW) | `Spec => []IInv` |
| | `EligibilityCorrect`, `TiersCorrect`, `NotesCorrect` (FUW) | the same of `EligibilityBookedOnce`, `TiersGrantedOnce`, `NotesAreTrue` |
| | `ExpiryFair` (FUW) | `Spec => ExpiryIsFair` |
| `LifecycleProofs` | `Implementation` (FUW) | `Spec => ImplementsLifecycle` |
| `SpecialPlansProofs` | `Invariance`, `TypeCorrect`, `ChildrenCorrect`, `EligibilitiesKept`, `RequestsCorrect`, `HoldsCorrect` | `Spec => []` of `IInv`, `TypeOK`, `ChildrenCounted`, `UsedIsReferred`, `RequestsAreServed`, `Strengthening` |
| | `BookedCorrect`, `RequestsBounded` | `Spec => []` of `BookedOnce`, `PendingRequestsBounded` |
| | `OneThreadAsksOnce` (one process) | at most one pending plan request of each type |
| | `GrantsCorrect` | `Spec => GrantsFollowEvents` |
| `RoomCapacityProofs` | `TypeCorrect`, `ListsCorrect` | `Spec => []` of `TypeOK`, `ListsAgree` |
| | `CheckSuffices` | `Spec => BookingKeepsHousing` |
| `BannersProofs` | `Invariance`, `OneBannerOnly` | `Spec => []` of `IInv`, `AtMostOneActive`, in both modes |
| | `PortalKeepsBanner` | `Spec => NeverGoesDark` |
| `AccountsProofs` | `Invariance`, `UniqueNames`, `TwoRoles`, `NoLateLogins` | `Spec => []` of `IInv`, `OneUserPerName`, `AtMostTwoRoles`, `LateVerificationFails` |
| | `StaysDeactivated` | `Spec => DeactivationHolds` |
| `ListingsProofs` | `Invariance`, `TypeCorrect`, `MissedCorrect`, `QuietCorrect` | `Spec => []` of `IInv`, `TypeOK`, `MissedAreShifted`, `QuietWalkIsExact` |

Every inductive invariant is also an invariant of a run of the module (of `SpecialPlans`, by its parts).

### Reservations

Without `FUW` the transactions overwrite each other and the properties marked with it are
false (section 3). None of them is inductive: whether a commit keeps it depends
on what the transaction read long ago. `SnapshotInv` records what an open
transaction knows. It is well formed (it updates rows that exist, counts exactly the
approvals it decides), and unless `stale` says otherwise it is up to date (the rows it updates
are still pending, a counter it read is still what it read). A commit of
another process either leaves these rows alone or makes the transaction stale;
`Overlap` is exactly wide enough, which the lemma `CommitSnapshotsHold` shows.
A transaction that commits under first-updater-wins is not stale
(`CommitUpToDate`), so it decides pending reservations only, which is
`DecisionsAreFinal`; and it writes `seen + wins` over a counter that still is
`seen`, while the approvals grow by a set of `wins` reservations disjoint from the
earlier ones (`CommitUsage`, `CommitApprovals`), which is `UsageCorrect`. That a
reservation inserted as approved is never pending (`PendingNotDirect`) keeps the approvals of
a review apart from those of an administrator.

How far the availability check can be missed. `CheckedBounded` is not inductive either, since the reservations
that open transactions are going to insert are not rows yet: `BookingInv` counts them with the rows
(`Checked(s)`, `Booking(s)`). Together they stay below `MaxRooms` plus threads. A request that opens a booking has just counted
fewer rows than rooms, and the checked ones are some of those (`CheckedFits`); of the threads it is one itself, so the sum is below
the bound whatever the other threads are about to do (`RequestBounded`). A commit turns a booking into a row and changes no
sum; and every other step only takes away, or concerns neither: the approval of a plan request is in neither of the two
sets, and the rooms may change as they like below `MaxRooms`. FUW is needed for the commits: they decide reservations that are
pending, which only frees rooms, and never bring back one that was decided
(`CommitChecked`). The job is no thread of the bound, because it inserts nothing (`JobInserts`).

The other properties relate tables to each other, and a transaction writes several
of them. `Consistent(t)` says of one open transaction that its writes fit together: it
inserts or it decides, it marks the eligibility of the reservation it inserts and no other (and does so, unless the
reservation is for a plan request), it takes
plans only from reservations it decides, and its notification goes with its decision. `Fresh(t)` says,
of a transaction that is not stale, that what it decided on still holds: the eligibilities it marks
are unused, those it frees are held by its rows, the discounts it grants are those of the usage it saw,
and every reservation it expires has another that `WinsAgainst` it. `IInv` is their conjunction with
the properties. Some of it is there for the induction only. `WinsAgainst` compares the usage the
winner's owner had with the one the loser's owner will have: the job read both in its own snapshot, and they are
those of the commit, or the commit conflicts. `PlanNotDiscounted` keeps discounts and eligibilities
apart, so that an approval that takes a plan away may grant a discount. And `ThirtyIsNotFirst`: an
approval with 30% means a usage of 2 at least, so that nobody who had the 30% is at a usage of 1,
where it is granted; without it `TiersGrantedOnce` is not kept by the next approval.

Eligibilities. An eligibility has one flag and may have many referrers, since the approval of a plan request inserts
a stay with it whether it is used or not; what stays true is said of the reservations that are booked with it
(`BookedWith`). A commit that books one found it unused, so no other is booked with it; a commit that frees one takes it
from a reservation that is pending, which no stay of a plan request ever is (`PendingNotDirect`), hence from the only one
that is booked with it (`CommitEligibilities`).

The refinement. A step of `Reservations` that inserts rows is `Open` of the lifecycle, a commit that
updates some is `Decide`, all others stutter. Of `Decide` the abstract
guard is the hard part, that all the rows it decides are pending, which
`SnapshotInv` gives.

### Special plans

`Consistent(t)` is again what a transaction may write as long as no commit overtook it: the number
of children there will be, a grant with the event it records, a stay with the eligibility it marks or the
request it approves. It mentions only rows that the transaction itself is going to update, and a commit
either changes none of them or makes the transaction stale, so a commit keeps
the `Consistent` of all the others (`WritesHold`); this is the whole concurrency argument, and it is why the properties hold with two administrators
at the same request or profile. It would fail for a property that relates a written row to one that is only read, which is how
`HeldTwice` comes about: the plan request reads an eligibility and does not write it.

`UsedIsReferred` alone says too little: `remove_plan` frees an eligibility and
takes it from the stay it reviews, and nothing says that no other stay the employee booked has it. `BookedHolds`
says what is needed: of the stays that the employee booked (those without a plan request) each holds its eligibility
alone, and the eligibility is marked. A stay that is booked takes an eligibility that is not
marked, hence one that no booked stay has; a commit frees only the eligibility of a stay it reviews,
which is pending, hence booked (`PendingIsBooked`: the stay of a plan request is approved from the start), hence
the only booked one there, and which loses it in the same commit (`EligAfter`). `BookedOnce` follows.
It is the strongest such statement: plan requests do share eligibilities, as `HeldTwice` shows.

`PendingRequestsBounded` is proved on top of the invariant, and again counts rows and open transactions (`Asking`)
together: a request that opens has found none pending, so that the sum is at most the number of processes;
the commit of a process that asks adds one row and takes that process away (`CommitAsked`); a review decides a
pending request and reopens none.

### Room capacity

`BookingKeepsHousing` is a statement about assignments of single rooms; the code only counts,
night by night. `RoomsForAll` is the bridge: stays of which no night has more than `k`
can be given `k` rooms. Of a smallest set for which this fails (finite sets are well founded under
inclusion) take the stay that leaves first. Everything that overlaps it is there on its last night, so
it meets fewer than `k` others, and a room is free (`FreeRoom`, by the pigeonhole principle) that extends the
assignment of the rest. So `Housed(g)` is equivalent to the count of every night (`HousedByCount`), and
a booking that found a room free on each of its nights leaves the count right
(`BookingFits`). This needs that a stay has a night (`from < to`, part of `TypeOK`) and
that finitely many stays hold rooms.

### Banners

`AtMostOneActive` is not inductive: a transaction that has executed its bulk UPDATE
activates its banner at the commit, and one that loaded an active banner may
commit without having written the flag. `SweepHolds` says what the first relies on: it
holds locks on every other row and deactivates every other active one, and nobody may change
or add a row meanwhile. `SnapshotHolds` is for the second, an update that loaded its banner as
active: any other banner active now has changed since its snapshot. Under
first-updater-wins it then deactivates nothing in its bulk UPDATE, because
that would have been refused, which is `PortalKeepsBanner`. `NeverGoesDark` is only
claimed there: without it the bulk UPDATE takes down a banner activated
meanwhile, the flag of its own is not written, and no banner is left.

### Accounts

`RolesHeld`: after its DELETE a transaction is the only one that has deleted the roles
of this user, and those it deleted are all there are, so the commit leaves exactly what its
request names, which the validator bounded. `UpdatesHold`: an update is active only if the row it
loaded was, and then it does not write the column, so it cannot activate anything. For the
logins, `StoresHold` says that one worker at most has a code, and none once it was
used; `LoginsHold` that a verification that passed the comparison and was late is
one of an inactive account, which `Finish` refuses. That an inactive account stays
inactive needs `OneUserPerName` and `UpdatesHold` (lemma `ActiveStays`), so the
parts are proved together. A step that changes one request keeps all of them if the
request it leaves `Fits`, the lemma `RequestInv`, which most actions come down to.

### Listings

`MissedAreShifted` speaks of finished walks. `PassedAreShifted` says the same of a walk on its way:
`Passed` are the rows that were there when it began, were not shown, and are now behind the
border `page * size` or not in the list, and there are no more of them than rows left the list. A page
moves the border over rows it shows (`PageCovers`). Rows that come into the list only push
others over the border to the far side (`MoreRows`). A row that leaves moves one row over it at most, or becomes
passed itself, never both (`OneRowLess`): of two rows with as many
rows ahead of them one would be ahead of the other (`RankMono`). It is counted for
the rows out of the list too, since one of them may come back behind the border. In a quiet walk the rows shown
are the first ones of the one order there is (`OneOrder`: the rank of a row is its place).

### Model-checked only

Liveness: `PendingIsResolved`, whose fairness the prover cannot handle, and the counterexamples
of the four violations. The pure operators of `Discounts` are used by the proofs by
their definitions. `ImplementsLifecycle` has no liveness part, and is proved as a whole.

## 5. Not modelled, and the plan

In this order:

1. `Pricing`: `_get_price` and totals as operators against a reference definition.
2. Notifications beyond those of reservations: recipients and read flags. A read flag only goes
   from false to true, and nothing reads it but its owner's counter.

Out of scope: ratings (an upsert behind a unique key: of two first ratings at once one fails);
organisations (a unique code); logins by password and token refresh (they
read the account and write nothing); analytics and exports (one read-only query each);
permissions (written by migrations only); migrations and seeds (run by an operator
on an idle system).
