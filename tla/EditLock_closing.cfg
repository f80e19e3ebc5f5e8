\* What the documentation says and the code does not keep.
SPECIFICATION FairSpec
CONSTANTS
    Clients = {a}
    Nobody = Nobody
    MaxSessions = 1
    MaxRequests = 2
    MaxRevision = 2
PROPERTY ClosingReleases
CHECK_DEADLOCK FALSE
