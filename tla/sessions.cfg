SPECIFICATION Spec
CONSTANTS
    Request = {r1, r2, r3, r4}
    NoRequest = NoRequest
    Device = {d1, d2}
    Cell = {c1, c2}
    MinHost = 2
    MaxHost = 4
    AmbiguousWrites = FALSE
    MaxRestarts = 1
SYMMETRY Symmetry
INVARIANTS
    TypeOK
    DeviceExclusive
    OneActivePerDevice
    AddressesExclusive
    AllocatedIsOwned
    EventsReplayToTable
PROPERTIES
    DisconnectIsFinal
    ImplementsConnectivity
CHECK_DEADLOCK FALSE
