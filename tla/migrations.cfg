SPECIFICATION Spec
CONSTANTS
    Tool = {t1, t2, t3}
    Latest = 3
SYMMETRY Symmetry
INVARIANTS
    TypeOK
    RecordedAreBuilt
    DriftNeedsStaleDown
    UpMeansApplied
PROPERTIES
    BootsOnCompleteSchema
CHECK_DEADLOCK FALSE
