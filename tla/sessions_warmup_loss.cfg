SPECIFICATION Spec
CONSTANTS
    Request = {r1, r2, r3}
    NoRequest = NoRequest
    Device = {d1, d2}
    Cell = {c1}
    MinHost = 2
    MaxHost = 3
    AmbiguousWrites = FALSE
    MaxRestarts = 1
SYMMETRY Symmetry
INVARIANTS
    ExhaustedOnlyWhenFull
CHECK_DEADLOCK FALSE
