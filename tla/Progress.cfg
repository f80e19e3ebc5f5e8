\* What goes on by itself, part by part.  A pipe that overflows, read in blocks; two
\* servers, two commands, one message on its way in each direction; a server given by
\* its address, two by name, none that could be started.
SPECIFICATION ProgressSpec
CONSTANTS
    Capacity = 3
    Block = 2
    MaxPosts = 6
    Nobody = Nobody
    Servers = {h1, h2}
    NoServer = NoServer
    MaxOrders = 2
    MaxInFlight = 1
    Invalid = invalid
    Numeric = {ip}
    Names = {n1, n2}
    NoHost = NoHost
    Executable = FALSE
    MaxAddresses = 2
    MaxCalls = 4
INVARIANTS
    WakeUpNotLost
PROPERTIES
    InOrder
    Delivers
    RefreshServed
    OrdersAnswered
    ShutdownCompletes
    DisconnectReleases
    CancelReleases
    PanelFreed
    FollowsServer
CHECK_DEADLOCK FALSE
