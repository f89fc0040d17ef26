SPECIFICATION Spec
CONSTANTS
    Orders = {o1}
    Sessions = {s1}
    Handlers = {h1}
    None = None
    o1 = o1
    Gateways = {"zarinpal"}
    Price <- OnePrice
    Stray <- NoStray
    Faults = {"disconnect", "transport"}
CHECK_DEADLOCK FALSE
SYMMETRY Symmetry
PROPERTIES
    FailedVerifyReleases
