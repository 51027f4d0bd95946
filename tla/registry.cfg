SPECIFICATION Spec
CONSTANTS
    Request = {r1, r2, r3, r4}
    IMSI = {i1}
    MSISDN = {m1, m2}
    Registration = {q1, q2}
    IMEI = {e1}
SYMMETRY Symmetry
INVARIANTS
    RegistryTypeOK
    UniqueIdentities
    DeviceTypeOK
    UniqueIMEI
    OwnerWasActive
PROPERTIES
    LegalTransitions
CHECK_DEADLOCK FALSE
