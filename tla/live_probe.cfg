SPECIFICATION FairSpec
CONSTANTS
    Half = 16
    Mss = 2
    WindowUnit = 1
    Cwnd = 100
    MAX_OUT_OF_ORDER = 3
    UNSENT_QUEUE_CUTOFF = 2
    DebugAsserts = {"fin_before_close", "fin_is_not_next"}
    IsnA = 29
    IsnB = 29
    StreamA = 5
    StreamB = 0
    PushSizes = {1, 2}
    BufferSize = 2
    Closers = {}
    Faults = 2
    Evictions = 0
    QueryFailures = 0
    MaxTravelling = 2
CHECK_DEADLOCK FALSE
PROPERTY ProbingEnds
