\* The parts of the desklet, one after the other.  The alarms: of a filter, the
\* reception, the script and a failed command.  The commands: two servers, two
\* commands, two messages on their way in each direction.  The connection: a server
\* given by its address, two by name; a test server may be started.  The mouse: a
\* menu, a dialog chosen from it, and one from the tray over them.
SPECIFICATION ClientSpec
CONSTANTS
    Missing = Missing
    NoStatus = NoStatus
    MaxFailures = 1
    MaxSettings = 2
    Statuses <- FilterStatuses
    Servers = {h1, h2}
    NoServer = NoServer
    MaxOrders = 2
    MaxInFlight = 2
    Invalid = invalid
    Numeric = {ip}
    Names = {n1, n2}
    NoHost = NoHost
    Executable = TRUE
    MaxAddresses = 2
    MaxCalls = 6
    MaxDepth = 3
INVARIANTS
    QuittedInThisIncident
    CommandsEnd
    ShownIsTrue
    AlwaysUnderWay
    ConnectsToItsHost
    OnePressOneThing
PROPERTY
    AnnouncedAsItHappens
