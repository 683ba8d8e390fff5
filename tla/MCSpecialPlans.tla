--------------------------- MODULE MCSpecialPlans ---------------------------
(* The processes are alike for the model checking of SpecialPlans.         *)
EXTENDS SpecialPlans, TLC

\* A plan for newly married employees is announced; one for parents opens at once.
MCPlanState == [NEW_MARRIAGE |-> {"CLOSED", "UPCOMING", "OPEN"}, NEW_CHILD |-> {"CLOSED", "OPEN"}]

Symmetry == Permutations(Proc)
=============================================================================
