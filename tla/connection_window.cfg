SPECIFICATION Spec
CONSTANTS
    Half = 16
    Mss = 2
    WindowUnit = 1
    Cwnd = 100
    MAX_OUT_OF_ORDER = 3
    UNSENT_QUEUE_CUTOFF = 2
    DebugAsserts = {"fin_before_close", "fin_is_not_next"}
    IsnA = 29
    IsnB = 29
    StreamA = 4
    StreamB = 0
    PushSizes = {1, 3}
    BufferSize = 3
    Closers = {"a"}
    Faults = 1
    Evictions = 1
    QueryFailures = 1
    MaxTravelling = 1
CHECK_DEADLOCK FALSE
INVARIANTS SendQueuesHoldStream SendsWithinWindow
PROPERTY IsByteStream
