\* Two request threads and the job race over two reservations of one stay, with or
\* without the special-plan eligibility of u1, booked or given to a plan request,
\* while the year changes.
CONSTANTS
    u1 = u1  u2 = u2  e1 = e1
    User = {u1}
    Stay = {s1}
    Vip = {FALSE}
    Elig = {e1}
    EligOwner <- MCEligOwner
    NoElig = NoElig
    Worker = {w1, w2}
    Job = Job
    MaxReservations = 2
    LastYear = 2
    MaxRooms = 2
    RoomCounts = {2}
    AdminStatus = {"PENDING"}
    FirstUpdaterWins = TRUE
SPECIFICATION Spec
SYMMETRY Symmetry
INVARIANTS
    IInv
    BookingInv
    UsageCountsApprovals
    EligibilityBookedOnce
    NotesAreTrue
PROPERTIES
    FinalStatusesAreFinal
    ImplementsLifecycle
CHECK_DEADLOCK FALSE
