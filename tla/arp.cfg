SPECIFICATION FairSpec
CONSTANTS
    h1 = h1  h2 = h2  h3 = h3
    Hosts = {h1, h2, h3}
    Queries = {qa, qb}
    None = None
    Closed = Closed
    Dummy = Dummy
    Disabled = {h3}
    Lookups <- RingLookups
    InitialValues = {}
    CacheTtl = 1
    RetryCount = 1
INVARIANTS WaiterMatches WaitersAreMisses AnswersAreTrue
PROPERTY QueryCompletes
