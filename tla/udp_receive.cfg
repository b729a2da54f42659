SPECIFICATION Spec
CONSTANTS
    QDs = {d1, d2}
    Remotes = {}
    Queues = {q1, q2}
    Pops = {o1, o2}
    None = None
    FIRST_PRIVATE_PORT = 2
    LAST_PRIVATE_PORT = 3
    Capacity = 2
    MaxMessages = 3
CHECK_DEADLOCK FALSE
INVARIANTS TablesConsistent PopGetsOwnPort
