\* Three stays over three nights, in ordinary and VIP rooms of one type, with rooms
\* blocked in the middle.
CONSTANTS
    t1 = t1  t2 = t2
    Group <- TwoGroups
    AnyType = AnyType
    Res = {r1, r2, r3}
    LastNight = 3
    MaxNights = 2
    Totals = {1, 2}
    Counts = {1}
    BlockNight = {2}
SPECIFICATION Spec
SYMMETRY Symmetry
INVARIANTS
    TypeOK
    ListsAgree
PROPERTIES
    BookingKeepsHousing
CHECK_DEADLOCK FALSE
