\* Two clients, a reconnection, two requests each.
SPECIFICATION Spec
CONSTANTS
    Clients = {a, b}
    Nobody = Nobody
    MaxSessions = 2
    MaxRequests = 2
    MaxRevision = 2
SYMMETRY ClientSymmetry
INVARIANTS
    TypeOK
    HeldIsOwned
    LockIsKnown
    SavingIsPending
CHECK_DEADLOCK FALSE
