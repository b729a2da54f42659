SPECIFICATION Spec
CONSTANTS
    Half = 16
    Mss = 4
    WindowUnit = 1
    Cwnd = 100
    MAX_OUT_OF_ORDER = 3
    UNSENT_QUEUE_CUTOFF = 2
    DebugAsserts = {}
    StreamLen = 4
    MaxSegment = 2
    BufferSize = 5
    Isn = 29
    RemoteIsn = 28
    CanReset = FALSE
    CanClose = FALSE
CHECK_DEADLOCK FALSE
INVARIANT OutOfOrderFinIsNext
