\* Two requests of any kind share one connection of the pool while the server starts, stops and exits.
SPECIFICATION Spec
CONSTANTS
    Calls = {c1, c2}
    Requests <- EveryRequest
    PoolSize = 1
    MaxUses = 2
INVARIANTS
    ExitTellsTruth
    NothingWithoutToken
    AnswersAreDocumented
PROPERTIES
    SignalStopsServer
CHECK_DEADLOCK FALSE
