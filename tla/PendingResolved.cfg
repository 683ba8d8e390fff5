\* The job in its cron loop when every overdue reservation is for the same stay, in
\* ordinary or VIP rooms, while the rooms are closed and opened.
CONSTANTS
    u1 = u1  u2 = u2  e1 = e1
    User = {u1, u2}
    Stay = {s1}
    Vip = {FALSE, TRUE}
    Elig = {}
    EligOwner <- MCEligOwner
    NoElig = NoElig
    Worker = {w1}
    Job = Job
    MaxReservations = 2
    LastYear = 1
    MaxRooms = 1
    RoomCounts = {0, 1}
    AdminStatus = {"APPROVED"}
    FirstUpdaterWins = TRUE
SPECIFICATION JobSpec
INVARIANTS
    CheckedBounded
PROPERTIES
    PendingIsResolved
CHECK_DEADLOCK FALSE
