\* Runs of the job over groups of two stays and two employees, while an
\* administrator reviews reservations or plan requests, and the owners cancel; three
\* reservations of one employee pass through all the discount tiers.
CONSTANTS
    u1 = u1  u2 = u2  e1 = e1
    User = {u1, u2}
    Stay = {s1, s2}
    Vip = {FALSE}
    Elig = {}
    EligOwner <- MCEligOwner
    NoElig = NoElig
    Worker = {w1}
    Job = Job
    MaxReservations = 3
    LastYear = 1
    MaxRooms = 2
    RoomCounts = {2}
    AdminStatus = {}
    FirstUpdaterWins = TRUE
SPECIFICATION Spec
SYMMETRY Symmetry
INVARIANTS
    TypeOK
    IInv
    TiersGrantedOnce
PROPERTIES
    ExpiryIsFair
CHECK_DEADLOCK FALSE
