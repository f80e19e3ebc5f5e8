\* What the documentation says and the code does not keep.
SPECIFICATION Spec
CONSTANTS
    Origins = {"plain", "script"}
    MaxCommands = 2
    MaxEvents = 1
PROPERTY NoConfirmationAcrossSessions
