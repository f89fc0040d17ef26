SPECIFICATION Spec
CONSTANTS
    Orders = {o1, o2}
    Sessions = {s1, s2}
    None = None
    Callers = {c1, c2}
    Backends = {"memory", "matched", "changed"}
    Retoken = {"matched", "changed"}
    Status = {"pending", "processing"}
    Addresses = {a1, a2, a3, a4}
    MaxRecords = 2
CHECK_DEADLOCK FALSE
SYMMETRY Symmetry
INVARIANTS
    TypeOK
    HeldPayment
PROPERTIES
    ContractKept
