SPECIFICATION Spec
CONSTANTS
    Orders = {o1, o2}
    Sessions = {s1, s2}
    Handlers = {h1,h2}
    None = None
    o1 = o1
    Gateways = {"saman","pasargad","mellat","zarinpal","idpay","parsian","virtual"}
    Price <- TwoPrices
    Stray <- CrossPaid
    Faults = {"disconnect","crash"}
CHECK_DEADLOCK FALSE
SYMMETRY SymmetryOfSlots
INVARIANTS
    TypeOK
    SucceededIsPaid
    TransactionBacked
    AcceptedBelongs
PROPERTIES
    Fulfilled
    FinalStatus
    OnlyHolderReleases
