SPECIFICATION MCSpec
CONSTANTS
    QDs = {q1, q2, q3}
    Remotes = {r1, r2}
    None = None
    FIRST_PRIVATE_PORT = 2
    LAST_PRIVATE_PORT = 3
    Backlogs = {1}
    MaxAccepts = 1
    SpareQD = q3
    SpareRemote = r2
CHECK_DEADLOCK FALSE
INVARIANTS OneDescriptorPerConnection TablesConsistent AddressesExclusive DescriptorsHeld PendingWithinBacklog
PROPERTIES ConnectCompletes AcceptServed
