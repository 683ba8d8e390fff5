\* One request at a time, in either of two workers.
SPECIFICATION Spec
CONSTANTS
    t1 = t1  w1 = w1  w2 = w2  Employee = Employee
    Thread = {t1}
    Worker = {w1, w2}
    Role = {Employee}
    MaxCodes = 2
INVARIANTS GoodCodeAccepted
CHECK_DEADLOCK FALSE
