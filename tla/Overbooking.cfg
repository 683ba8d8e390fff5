\* Two request threads book the last room.
CONSTANTS
    u1 = u1  u2 = u2  e1 = e1
    User = {u1}
    Stay = {s1}
    Vip = {FALSE}
    Elig = {}
    EligOwner <- MCEligOwner
    NoElig = NoElig
    Worker = {w1, w2}
    Job = Job
    MaxReservations = 2
    LastYear = 1
    MaxRooms = 1
    RoomCounts = {1}
    AdminStatus = {}
    FirstUpdaterWins = TRUE
SPECIFICATION Spec
SYMMETRY Symmetry
INVARIANTS
    NeverOverbooked
CHECK_DEADLOCK FALSE
