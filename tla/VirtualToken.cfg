SPECIFICATION Spec
CONSTANTS
    Orders = {o1}
    Tokens = {t1, t2}
    Codes = {c1}
    Threads = {th1}
    None = None
    Retention = 1
    MaxClock = 0
CHECK_DEADLOCK FALSE
INVARIANTS
    AcceptedFitsToken
