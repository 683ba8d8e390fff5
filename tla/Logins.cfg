\* Two requests at once, in two workers, two codes and three roles.
SPECIFICATION Spec
CONSTANTS
    t1 = t1  t2 = t2  w1 = w1  w2 = w2  r1 = r1  r2 = r2  Employee = Employee
    Thread = {t1, t2}
    Worker = {w1, w2}
    Role = {Employee, r1, r2}
    MaxCodes = 2
SYMMETRY Symmetry
INVARIANTS IInv OneUserPerName AtMostTwoRoles LateVerificationFails
PROPERTIES DeactivationHolds
CHECK_DEADLOCK FALSE
