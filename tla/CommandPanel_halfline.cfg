\* What the documentation says and the code does not keep.
SPECIFICATION PanelSpec
CONSTANTS
    Servers = {h1, h2}
    NoServer = NoServer
    MaxOrders = 2
    MaxInFlight = 2
PROPERTY NothingIsRefused
