\* Walks through up to four rows, in pages of two.
SPECIFICATION Spec
CONSTANTS
    Column = {"id", "created_at", "status"}
    PageSize = {2}
    MaxRows = 4
    MaxTime = 2
    MaxPages = 3
    MaxLeft = 2
INVARIANTS TypeOK MissedAreShifted QuietWalkIsExact IInv
CHECK_DEADLOCK FALSE
