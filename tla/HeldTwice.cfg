SPECIFICATION Spec
CONSTANTS
    p1 = p1
    Proc = {p1}
    MaxRows = 4
    PlanState <- MCPlanState
INVARIANTS OneStayPerEligibility
CHECK_DEADLOCK FALSE
