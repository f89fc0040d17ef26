SPECIFICATION Spec
CONSTANTS
    Orders = {o1, o2}
    Tokens = {t1, t2}
    Codes = {c1, c2}
    Threads = {th1, th2}
    None = None
    Retention = 1
    MaxClock = 2
CHECK_DEADLOCK FALSE
SYMMETRY Symmetry
INVARIANTS
    TypeOK
    PaidOnce
    CodeFitsRequest
    FirstOnce
    AcceptedWasPaid
PROPERTIES
    ForgottenLate
    WindowKept
