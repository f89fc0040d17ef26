SPECIFICATION Spec
CONSTANTS
    Gateways = {"zarinpal", "idpay", "saman", "parsian", "mellat", "pasargad"}
    Foreign = {"zarinpal", "parsian", "mellat"}
    Empty = {}
    None = None
CHECK_DEADLOCK FALSE
INVARIANTS
    TypeOK
    SuccessIsReal
    VerdictIsTheBanks
    VerdictIsOnThePayment
    
