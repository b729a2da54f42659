SPECIFICATION FairSpec
CONSTANTS
    QDs = {d1}
    Remotes = {r1, r2}
    Queues = {q1}
    Pops = {}
    None = None
    FIRST_PRIVATE_PORT = 2
    LAST_PRIVATE_PORT = 3
    Capacity = 4
    MaxMessages = 6
CHECK_DEADLOCK FALSE
INVARIANT QueuesHoldLatest
PROPERTY QueuedLeaves
