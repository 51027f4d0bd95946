SPECIFICATION Spec
CONSTANTS
    Request = {r1, r2}
    NoRequest = NoRequest
    Device = {d1, d2}
    Cell = {c1}
    MinHost = 2
    MaxHost = 3
    AmbiguousWrites = TRUE
    MaxRestarts = 0
SYMMETRY Symmetry
INVARIANTS
    ConnectedIsAllocated
CHECK_DEADLOCK FALSE
