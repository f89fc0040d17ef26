SPECIFICATION RefundSpec
CONSTANTS
    Orders = {o1, o2}
    Sessions = {s1, s2}
    Handlers = {h1, h2}
    None = None
    Clerks = {k1}
    Gateways = {"zarinpal", "idpay", "parsian", "mellat", "virtual"}
    Price <- OnePrice
    Stray <- MixedPaid
    Faults = {"transport"}
CHECK_DEADLOCK FALSE
SYMMETRY Symmetry
INVARIANTS
    SucceededIsPaid
    TransactionBacked
PROPERTIES
    PromiseKept
