SPECIFICATION Spec
CONSTANTS
    Half = 16
    Mss = 2
    WindowUnit = 2
    Cwnd = 100
    MAX_OUT_OF_ORDER = 3
    UNSENT_QUEUE_CUTOFF = 2
    DebugAsserts = {"fin_before_close", "fin_is_not_next"}
    IsnA = 29
    IsnB = 29
    StreamA = 2
    StreamB = 0
    PushSizes = {1}
    BufferSize = 4
    Closers = {"a", "b"}
    Faults = 2
    Evictions = 0
    QueryFailures = 0
    MaxTravelling = 1
CHECK_DEADLOCK FALSE
INVARIANTS TypeOK StreamIntegrity CloseAgreement
PROPERTY IsByteStream
