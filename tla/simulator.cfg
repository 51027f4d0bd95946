SPECIFICATION FairSpec
CONSTANTS
    Client = {c1, c2}
    Calls = 4
    Notifying = {3, 4}
INVARIANTS
    TypeOK
    ReportAgreesWithApi
    QuietStopLosesNothing
PROPERTIES
    StopAndRunEnd
CHECK_DEADLOCK FALSE
