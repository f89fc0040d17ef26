SPECIFICATION Spec
CONSTANTS
    Gateways = {"pasargad"}
    Foreign = {"pasargad"}
    Empty = {}
    None = None
CHECK_DEADLOCK FALSE
INVARIANTS
    SuccessIsReal
