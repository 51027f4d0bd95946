SPECIFICATION RegistrySpec
CONSTANTS
    Request = {r1, r2, r3}
    IMSI = {i1}
    MSISDN = {m1}
INVARIANTS
    DeactivatedIsFinal
CHECK_DEADLOCK FALSE
