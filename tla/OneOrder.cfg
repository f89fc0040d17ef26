SPECIFICATION RefundSpec
CONSTANTS
    Orders = {o1}
    Sessions = {s1}
    Handlers = {h1, h2}
    None = None
    Clerks = {k1, k2}
    Gateways = {"zarinpal", "idpay", "saman", "parsian", "mellat", "pasargad", "virtual"}
    Price <- OnePrice
    Stray <- Mixed
    Faults = {"transport", "refusal", "db", "disconnect", "crash"}
CHECK_DEADLOCK FALSE
SYMMETRY Symmetry
INVARIANTS
    RefundTypeOK
    ClaimExclusive
    FulfilledOnce
    FailedNeverPaid
PROPERTIES
    FinalRow
    PromiseKept
