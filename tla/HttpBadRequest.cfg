\* A listing without its date.
SPECIFICATION Spec
CONSTANTS
    Calls = {c1}
    Requests <- EveryRequest
    PoolSize = 1
    MaxUses = 2
INVARIANTS
    MissingDateIsBadRequest
CHECK_DEADLOCK FALSE
