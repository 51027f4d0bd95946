SPECIFICATION FairSpec
CONSTANTS
    Request = {r1, r2, r3}
    NoRequest = NoRequest
    Device = {d1, d2}
    Cell = {c1, c2}
    MinHost = 2
    MaxHost = 3
    AmbiguousWrites = TRUE
    MaxRestarts = 1
INVARIANTS
    OneActivePerDevice
    LeakNeedsFailure
PROPERTIES
    EveryRequestAnswered
    ImplementsConnectivity
CHECK_DEADLOCK FALSE
