\* One employee with overdue reservations of two stays and no use this year.
CONSTANTS
    u1 = u1  u2 = u2  e1 = e1
    User = {u1}
    Stay = {s1, s2}
    Vip = {FALSE}
    Elig = {}
    EligOwner <- MCEligOwner
    NoElig = NoElig
    Worker = {w1}
    Job = Job
    MaxReservations = 2
    LastYear = 1
    MaxRooms = 2
    RoomCounts = {2}
    AdminStatus = {}
    FirstUpdaterWins = TRUE
SPECIFICATION JobSpec
PROPERTIES
    PendingIsResolved
CHECK_DEADLOCK FALSE
