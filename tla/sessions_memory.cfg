SPECIFICATION MemorySpec
CONSTANTS
    Request = {r1, r2, r3, r4}
    NoRequest = NoRequest
    Device = {d1, d2}
    Cell = {c1, c2}
    MinHost = 2
    MaxHost = 4
    AmbiguousWrites = FALSE
    MaxRestarts = 0
SYMMETRY Symmetry
INVARIANTS
    IndexIsExact
    NoAddressLost
PROPERTIES
    ImplementsTable
CHECK_DEADLOCK FALSE
