SPECIFICATION FairSpec
CONSTANTS
    Emitter = {e1, e2, e3, e4}
    Stopper = {s1, s2}
    NoStopper = NoStopper
    BufferSize = 2
INVARIANTS
    TypeOK
    NoPanic
    SentOnce
    DrainedWhenDone
PROPERTIES
    EmitSettles
    ShutdownReturns
    ImplementsEventSink
CHECK_DEADLOCK FALSE
