SPECIFICATION Spec
CONSTANTS
    Orders = {o1, o2}
    Sessions = {s1, s2}
    Handlers = {h1}
    None = None
    o1 = o1
    Gateways = {"saman"}
    Price <- OnePrice
    Stray <- MixedPaid
    Faults = {}
CHECK_DEADLOCK FALSE
SYMMETRY Symmetry
INVARIANTS
    AcceptedBelongs
