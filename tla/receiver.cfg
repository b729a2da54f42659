SPECIFICATION FairSpec
CONSTANTS
    Half = 16
    Mss = 4
    WindowUnit = 1
    Cwnd = 100
    MAX_OUT_OF_ORDER = 2
    UNSENT_QUEUE_CUTOFF = 2
    DebugAsserts = {}
    StreamLen = 5
    MaxSegment = 3
    BufferSize = 4
    Isn = 29
    RemoteIsn = 28
    CanReset = TRUE
    CanClose = TRUE
CHECK_DEADLOCK FALSE
INVARIANTS
    StreamIntegrity
    WindowNeverWraps
    StoreHoldsStream
    AckedIsQueued
PROPERTIES
    FailsOnlyAsKnown
    StreamDelivered
