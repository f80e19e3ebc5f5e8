\* All origins, two orders, one event waiting.
SPECIFICATION Spec
CONSTANTS
    Origins = {"manual", "plain", "script", "timer"}
    MaxCommands = 2
    MaxEvents = 1
INVARIANTS
    TypeOK
    RefreshNotLost
    ReadyInSession
    ConnectedIsCurrent
    ManualPrevails
    EveryOrderInOnePlace
PROPERTIES
    StatusBetweenAttempts
    LedgerKept
