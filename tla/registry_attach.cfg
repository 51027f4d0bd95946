SPECIFICATION Spec
CONSTANTS
    Request = {r1, r2, r3}
    IMSI = {i1}
    MSISDN = {m1}
    Registration = {q1}
    IMEI = {e1}
SYMMETRY Symmetry
INVARIANTS
    AttachNeedsActive
CHECK_DEADLOCK FALSE
