SPECIFICATION RefundRetrySpec
CONSTANTS
    Orders = {o1}
    Sessions = {s1}
    Handlers = {h1, h2}
    None = None
    Clerks = {k1}
    Gateways = {"zarinpal", "idpay", "saman", "parsian", "mellat", "pasargad", "virtual"}
    Price <- OnePrice
    Stray <- FewStray
    Faults = {"transport", "refusal"}
CHECK_DEADLOCK FALSE
INVARIANTS
    NoOrphan
    SucceededRecorded
PROPERTIES
    FailedVerifyReleases
    PaidSucceeds
    ClaimReleased
    RefundRecorded
