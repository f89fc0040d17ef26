SPECIFICATION Spec
CONSTANTS
    Gateways = {"idpay"}
    Foreign = {"idpay"}
    Empty = {}
    None = None
CHECK_DEADLOCK FALSE
INVARIANTS
    VerdictIsTheBanks
