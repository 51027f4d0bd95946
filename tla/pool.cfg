SPECIFICATION PoolSpec
CONSTANTS
    MinHost = 254
    MaxHost = 258
INVARIANTS
    PoolTypeOK
    NoDoubleBooking
PROPERTIES
    ImplementsAddressPool
