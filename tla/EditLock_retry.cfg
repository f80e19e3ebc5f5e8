\* What the documentation says and the code does not keep.
SPECIFICATION Spec
CONSTANTS
    Clients = {a}
    Nobody = Nobody
    MaxSessions = 1
    MaxRequests = 2
    MaxRevision = 2
INVARIANT RetryPossible
CHECK_DEADLOCK FALSE
