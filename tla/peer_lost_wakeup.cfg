SPECIFICATION FairSpec
CONSTANTS
    QDs = {q1, q2, q3}
    Remotes = {r1, r2}
    None = None
    FIRST_PRIVATE_PORT = 2
    LAST_PRIVATE_PORT = 2
    Backlogs = {2}
    MaxAccepts = 2
CHECK_DEADLOCK FALSE
PROPERTY AcceptServed
