SPECIFICATION Spec
CONSTANTS
    p1 = p1
    p2 = p2
    Proc = {p1, p2}
    MaxRows = 3
    PlanState <- MCPlanState
SYMMETRY Symmetry
INVARIANTS
    TypeOK ChildrenCounted UsedIsReferred RequestsAreServed Strengthening
    BookedOnce PendingRequestsBounded
PROPERTIES GrantsFollowEvents
CHECK_DEADLOCK FALSE
