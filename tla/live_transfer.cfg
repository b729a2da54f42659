SPECIFICATION FairSpec
CONSTANTS
    Half = 16
    Mss = 2
    WindowUnit = 1
    Cwnd = 100
    MAX_OUT_OF_ORDER = 3
    UNSENT_QUEUE_CUTOFF = 2
    DebugAsserts = {"fin_before_close", "fin_is_not_next"}
    IsnA = 29
    IsnB = 29
    StreamA = 1
    StreamB = 1
    PushSizes = {1}
    BufferSize = 5
    Closers = {"a", "b"}
    Faults = 0
    Evictions = 1
    QueryFailures = 0
    MaxTravelling = 1
CHECK_DEADLOCK FALSE
PROPERTIES PushedIsPopped CloseCompletes
